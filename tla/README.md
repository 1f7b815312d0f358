# omnidevx-core in TLA+

A verification project for `plexusone/omnidevx-core`, the Go library that turns
developer activity (Claude Code transcripts, OTLP metrics, git history) into
canonical events, keeps them in a file store, and reduces them to period
reports. The modules are translated from the Go source; `PROJECT.json` names the
lines each definition stands for. TLC checks small instances, TLAPS proves the
theorems of the seven `...Proofs` modules and the lemmas of `OrderFacts` for every value of the constants.

    tlc -config EventStoreTurns.cfg MCEventStore.tla
    tlapm EventStoreProofs.tla

## 1. The system

| Component | State it keeps | Operations | What makes it correct |
|---|---|---|---|
| Events, collection contract (`event.go`, `collector.go`) | none | `Period.Contains` | periods are half-open |
| Event store (`store/store.go`) | JSONL day files `events/YYYY/MM/DD/<product>.jsonl` | `Open`, `Write`, `Read` | writes are idempotent; nothing a caller was told is stored disappears silently; reading a period returns all of it |
| OTLP receiver (`providers/genericotel`) | none of its own; a goroutine per request writes to the store | `handleMetrics`, `convert` | one datapoint is one event however often it is sent; 200 means stored |
| Claude Code history (`providers/claudecode/collector.go`, `history.go`) | none; reads transcripts another program is writing | `Collect` | a period yields what there is in it; re-importing is safe; damaged lines cost nothing else |
| Session reader (`providers/claudecode/sessions.go`) | none; reads live-session records, the process table and windows of transcripts | `List` | a session shows as running just if its process runs; bounded reads tell what the whole transcript tells |
| git collector (`providers/git`) | none; runs git in every clone | `Collect` | a commit is one event however many clones hold it; what was not read has a diagnostic |
| Reports (`report/`) | none; `DailySummary` values may be kept by the caller | `BuildDaily`, `Rollup`, `Build` | every event and every session counts once; summaries replay to the same report |
| Identity (`identity/`) | three maps | `NewMap`, `Resolve*` | an account belongs to one person, whatever the order of the configuration |
| Repository index (`sessions/repoindex.go`) | maps of roots and misses, behind an RWMutex | `NewRepoIndex`, `Lookup`, `Repos` | nested checkouts stay hidden; a path keeps its root; answers match the disk |
| Session catalog (`sessions/sessions.go`) | none | `List`, `Resolve` | a failing reader hides no other; a short id never names the wrong session |
| Work references (`sessions/workref.go`) | a set with the sources of each id | `Add`, `Refs`, `ResolveTitles` | each id has one kind and all its sources |
| Configuration, evidence types, JSON schema | none | load, validate | data only |

How they interact: a collector returns a batch of events; the caller hands it to
`store.Write`. The OTLP receiver calls `Write` itself, from concurrent requests.
The store's files are the only state shared between processes, and nothing locks
them. `store.Read` feeds `report.Build`. The repository index is shared by
goroutines. The catalog calls one reader per harness in turn. Transcripts, the
records of live sessions, processes and clones belong to other programs that
change them at any time.

What is hard here: `Write` reads a file and appends to it later without a lock;
an append may be cut off; calls are cancelled or fail halfway and are repeated;
an exporter retries requests that still run; transcripts grow while they are
read; `Lookup` gives its lock up between looking, walking the disk and
recording; `List` reads a record, asks for its process and reads a transcript at
three different moments, and may fail at each; `Collect` runs several commands in a clone that may be
switched between them; day and period boundaries. `PROJECT.json` lists these hazards at
their lines.

## 2. Modules

| Module | Models | Composes |
|---|---|---|
| `EventFiles` | times, periods, sanitizing, day files, `Valid`, `skipDay` | |
| `EventStore` | `Store.Write` by any number of writers, with its interruptions | `EventFiles` |
| `EventLogContract` | the abstract store: per file a set of ids that only grows, except with damage `Read` reports; success means stored | `EventFiles` |
| `EventStoreRefinement` | the mapping from files to ids; `ImplementsContract` | `EventStore`, instance of `EventLogContract` |
| `StoreRead` | `Store.Read` over the same files | `EventStore` |
| `OtelReceiver` | handlers, exporter, clock | `EventStore`: a handler is a writer |
| `DayFile` | a day file as its one writer meets it: what can be read back, and whether its last line is open; appends, whole and torn | |
| `ClaudeHistory` | agent, transcripts, `Collect` line by line followed by `Write` | `EventFiles`, `DayFile` |
| `Report` | `BuildDaily`, `Rollup`, `Build`, a caller that keeps summaries | `EventFiles` |
| `RepoIndex` | `NewRepoIndex`, `Lookup`, a changing disk | |
| `Transcript` | `readSession`: the windows at both ends of a transcript | |
| `SessionReader` | `SessionReader.List` and `liveSessions`, agents, processes, growing transcripts | `Transcript` |
| `SessionCatalog` | `Catalog.List` over this reader and another, `Resolve` | `SessionReader` |
| `GitHistory` | `Collect` command by command, clones that change, storing the result | `EventFiles`, `DayFile` |
| `Identity` | `NewMap` identity by identity, the `Resolve` methods | |
| `WorkRefs` | rules, the set of references, titles | |
| `EventStoreProofs` | theorems about the store: types, loss, turns; lines, damage, the contract, reading | `EventStoreRefinement`, `StoreRead` |
| `OtelProofs` | theorems about the receiver | `OtelReceiver`, `EventStoreProofs` |
| `HistoryProofs` | theorems about importing history | `ClaudeHistory` |
| `RepoIndexProofs` | theorems about the index | `RepoIndex` |
| `SessionProofs` | theorems about the session reader and the catalog | `SessionCatalog` |
| `AttributionProofs` | theorems about the git import, the identity map and work references | `GitHistory`, `Identity`, `WorkRefs` |
| `ReportProofs` | theorems about reports, and about sums over finite sets | `Report` |
| `OrderFacts` | lemmas about least and greatest numbers, about sorting and about day files, shared by the others | `DayFile` |
| `MC...` | small instances | |

### EventStore

`file[f]` holds the lines of a day file (an event, or `Damaged` for one that does
not decode) and whether the last line lacks its newline. A call of `Write` is
`Reject` (one invalid event refuses the batch) or `Begin`; then for each file in
path order `Scan` (`existingIDs`) and, as a separate step, `AppendEvents`; then
`Return`. `Stop` is a cancelled context or a failing scan, `FailAppend` a failing
open, write or close, `Crash` the death of the process; the last two leave any
prefix of the buffer (`Cuts`: whole lines, a torn line, or a whole line without
newline). Appending to an open line glues the first new line to it. `counted`
remembers what results have counted as written or duplicate.

### OtelReceiver

`Post` is the request and its conversion up to the call of `Write`, `HandlerStep`
a step of `Write`, `Respond` the answer. `Convert` gives the events of the datapoints
that are recognized, in the order of the payload (`InOrder` of `EventStore`). The exporter (external) resends a payload
it has no good answer for, up to `MaxAttempts` times; `Lose` is a timeout or a
lost answer, after which the first handler runs on. A datapoint's timestamp may
be missing, in which case the clock (`now`, `Tick`) takes its place.

### DayFile

What `EventStore` says of the lines of a file, reduced to what an importer that writes
alone can tell: `events` are those that can be read back, `open` is whether the last
line lacks its newline, and `last` holds that line's event, if it is whole but for
the newline. `Put` is a complete append: if the file is open it continues that line,
and neither the line nor the first new event can be read from then on (the run
`store_torn_tail`). `Interrupted` is what a death or a disk failure in the middle of an append
may leave: nothing, a part of the new lines, or a part whose last line is torn or lacks
its newline. Both importers store through these operators.

### ClaudeHistory

The agent (external) writes the records of `Scripts` to its transcripts: `WriteHalf` twice
and `EndLine` for the newline. It may die before (`Die`), in which case the next agent continues
the line with its own record, and prunes files. A line on disk is the sequence of the halves it holds.

An import is `Collect`, then for each transcript `OpenFile`, one `ReadLine` per call
of `readLine`, and `CloseFile`; then `Write`, one `WriteDay` per day file, and `Done`.
`at` is the reader's offset: the lines behind it, and the halves of the next one. A tail
without its newline is taken for a line, as the code does, and the loop reads on,
so a record that is finished meanwhile comes as two lines that do not parse, and
later records are still read; `split` remembers that this has happened. `FailFile` is a transcript that
cannot be opened or read to its end, which has a diagnostic (what was read of it is in the result all the same);
a directory that cannot be listed looks empty, without one.
`Abort` ends an import anywhere, in the middle of an append too. `FileEvents` is what `parseSessionFile` makes of
the lines it has got: the tools, prompts and messages of every line, the start and the
end of every session. Workspace, branch, version and model are not distinguished; they
are copied to events and change nothing else.

`had`, `owed` and `promised` follow what an import has to give: the events of
the records whose lines had ended when the transcript was opened (`had`), of those
transcripts that were read to their end (`owed`), less what meets a torn line when it is written,
and, when the import is done, for good (`promised`). An open line may take a new event with
it, so `ImportsAreComplete` does not promise the days that meet one; their line
is ended then, and the next import stores what this one lost.

### Report

`Build` and `Rollup` are functions, the order of a map is an argument. The state
is what a caller has: a log that grows, summaries kept from earlier
(`Summarize`), the latest report, made by `BuildReport` or, from kept summaries,
by `RollUp`. Values are integers, so float rounding is out of scope. Prices are a
constant table, in which `LookupPricing` looks a model's name up by its parts. What the code adds up in
a loop over events or days is a sum over their set (`Totals`), which no order can change; what does depend
on the order, a source's version, takes the order as an argument.

### RepoIndex

A path is given with its ancestors. `LookupKnown` is the part of `Lookup` under
the read lock, `Walk` one `hasGit`, `ReadOrigin` and `Add` the two halves of
`add`, `Miss` the recording of a miss. `Change` is the rest of the world.
`overlapped` remembers whether two lookups have ever run at once.

### Transcript, SessionReader, SessionCatalog

A transcript is a sequence of lines with their sizes; how much of it is on disk
is `size[f]`, in bytes, so its last line may be cut. `ReadHead` and `ReadTail` are
the two loops of `readSession`: `ScanRecords` gives the lines a window holds,
`LineRecords` what a line, whole or cut, decodes to, and `Stops` when the tail window
has grown enough. Of a text the model keeps the
prefix the code looks at.

`Begin` lists the record files, `ReadRecord` and `Probe` are the two halves of the
loop of `liveSessions`, with the agents in between: `Start` and `End` of
processes, `Register` of records, seen half-written or left behind by a crash.
The projects directory is one, listed once the records have been seen
(`ListFiles`); `ReadFile` takes one transcript. Reading a record, asking for a process, and opening and
reading a transcript may each fail, without an error of `List`: a record or process that cannot be
read counts as no agent, a transcript is passed over with a diagnostic (`diags`), and a
directory that `Glob` cannot read looks empty, with no diagnostic at all. `alive`, `steady` and `there`
remember what was true during the call: agents that lived at some moment of it, agents
that lived and were on record all through it and could be read and probed, transcripts that could be listed all
through it in a directory that could be read. A transcript says nothing that is later than its writing (`WrittenBy`).

The catalog sorts by activity, newest first and stably (`SortByActivity`). Its `Call`, `CallClaude`, `ReadClaude`, `Gather`, `CallOther`, `Return`
follow its loop; `Leave` is a context that ends between readers, `Cancelled` one
that ends inside the reader; `unread` gathers the diagnostics. Another harness's reader (external) returns any
list, with an error or without. `Resolve` is an operator on the result; ids are
sequences of characters.

### GitHistory

A clone is a state of its HEAD: whether it can be opened, what it reaches, its
branch. `Discover`, then for each clone `Open`, `ReadLog`, `ReadBranch`, `ReadOrigin`,
each of which may fail; `GiveUp` is the context seen before a clone. `Move` is the
owner, who commits, fetches, rewrites, switches and deletes. `Deliver`, `StoreDay`
and `Stored` hand the result to the store, a day file at a time.
`Die` ends an import anywhere, in the middle of an append too (`DayFile`). `met` and `found` remember what was there
to be read, `due` and `owed` what has to be stored of it: what meets a torn line is no longer due. Emails of co-authors
are parsed into number, slug and host.

### Identity, WorkRefs

`NewMap`, `BeginPerson`, `Add`, `Refuse`, `EndPerson`, `MapDone` are the loop of the
constructor with its position (`at`, `entry`); the three maps are one, keyed by
type and key. A name is split at its slashes, for `localKey` joins with one.
In `WorkRefs` a text is what each pattern finds in it; `AddText` is `Add`,
`ResolveTitles` succeeds or fails.

`MCAttribution` holds the last three: they share no state, and `scene` says which
of them a behaviour is about.

## 3. Runs

Passing runs:

| Run | Instance | Shows |
|---|---|---|
| `store_turns` | 1 writer, 3 files, 5 batches, 3 interruptions; all periods over all ticks, all file names | `TypeOK`; `NoDuplicateIds`; `DamagePerFault` (damage is bounded by the interruptions); `LinesStay` (files only grow); `PruningKeepsPeriod` (`Read` returns what it is asked for) |
| `store_overlap` | 2 writers, 2 batches, 2 interruptions, fairness | `NoSilentLoss`; `ImplementsContract` (refinement); `Reimported`: in the end every event is in its file |
| `otel` | 2 handlers, 2 payloads (two days, two products, a datapoint without a time, one that is no event, one that does not parse), 2 attempts, 2 faults | `OTypeOK`; `AnsweredIsStored`; `RetriesInTurnCountOnce` |
| `history_periods` | a session and one resumed from it, in 2 transcripts of 1 and 3 records, read line by line while they grow, 3 periods, no faults | `TypeOK`; `PeriodsCutCleanly`; `StartsOnce` |
| `history_imports` | 1 transcript of 3 records over two days, 2 periods, 1 agent that dies in a line, 1 import cut short (also within an append) or transcript not read, fairness | `ImportsAreComplete`; `RecordsAreImported` |
| `reports` | up to 3 of 6 events around a midnight, models by name, with a suffix and too long a name, 4 whole-day periods | `TypeOK`; `ReportsAreExact`; `ReplaysMatch` |
| `repoindex` | 4 paths, 2 goroutines, at most 1 change | `TypeOK`; `NestedStayHidden`; `AnswersMatchDisk` (until the change); `AnswersStay` (until two lookups overlap) |
| `sessions` | every transcript of up to 3 lines of 8 kinds, its last line whole, without its newline, or cut; 2 pids that may run one session, 3 moments; 2 transcripts that grow and go beside another harness; any record, process, transcript or directory may fail to be read | `TypeOK`; `RunningWasAlive`; `SteadyIsRunning`; `TimesAreExact`; `ContentIsLatest`; `ResultIsWhole`; `ResolveNeverGuesses` |
| `attribution` | 2 clones with 4 and 2 states over 4 commits, two ways to begin with, 2 periods, 2 changes, 2 faults, a torn append among them; configurations of 2 people with up to 3 of 8 identities; 5 rule lists, up to 3 of 4 texts | `GitTypeOK`; `GitResultIsExact`; `OneEventPerCommit`; `CommitsAreKept`; `MapIsExact`; `ResolveIsExact`; `RefsAreSightings` |

Runs that refute what a document, comment or test says (each is a finding in
`PROJECT.json`, with the quotation):

| Run | The code |
|---|---|
| `store_torn_tail` | the write after a torn tail loses its first event, and counts it as written |
| `otel_retry_race` | a retry that overlaps its request stores the datapoints twice |
| `report_midday` | a period that starts after midnight loses its first day |

Why the bounds are enough. The store's hazards need at most two writers, a
repeated id, a second file and an interruption followed by another write; three
interruptions and batches that share ids, files and invalid events allow all
their combinations on one file. A torn line costs an importer an event when
one fault is followed by two imports, and no more than that happens to a day file
of one writer; a death and a fault beside it, or two faults, give that. Two attempts are a retry, two clock ticks a
retry at another time. A transcript needs a tool used before and answered after a
midnight, a copied record and one without timestamp; periods are open, and half-open
on either side of that midnight. Two halves let an import see a line before it is
whole, whole without its newline, and, read in two, lose it and go on to the next. A report needs two days, an event on the midnight between them, two
sources that share a session, and a third that only takes snapshots. Three
levels of nesting and two goroutines give the index a scanned root, a nested
checkout, and a lookup between the halves of another. `DayTicks` (2 or 4) leaves
time before and after each midnight. Windows of 1, 4 and 6 bytes over lines of 2
and 3 let a prompt lie in each of them, before all of them, across their start and
exactly at it; two processes and three moments with a tolerance of one let a pid be
reused, a record be left behind, and two records name one session. Two clones
share commits and differ in others; one commit lies on a midnight, one is a
merge, one replaces another; two faults are a failing command and a death, or an
ended context and the next import's trouble. Symmetry is used over goroutines only,
in the run `repoindex`, whose action property is about single steps, symmetric in
the goroutines, and needs no liveness check.

Fairness. `store_overlap` and `history_imports` assume it, for their liveness
properties only. `ReimportSpec` (store) assumes that a call that has begun runs on,
as the Go scheduler sees to, and that the owner imports again, which the
documents recommend ("Re-running is safe"); interruptions are bounded by
`MaxFaults`. `ImportSpec` (history) assumes the same of an import and that
everything is imported again and again, however many imports of other periods
come in between (strong fairness of `Collect(Always)`: this is the owner's
schedule, not the program's); nothing is assumed of the agent, which may stop
anywhere, and imports cut short and files or directories not read are bounded by `MaxFaults`. Deadlock is checked everywhere but in the
receiver's runs, where the exporter stops when its attempts are used up.

Each property of a passing run has a mutant (an operator with a plausible bug
placed before the one it replaces, such as `FreshIgnoringBatch`) under which
it fails.

### Divergences no run shows

Met while translating; the modules do what the code does.

- `store.go:127`: two overlapping calls of `Write` with the same events both
  append them, though "Writes are idempotent" (`store.go:7`). `NoDuplicateIds` is
  therefore checked, and proved, for writers that take turns; `otel_retry_race` shows
  the race where it matters.
- `store.go:236`: products that sanitize alike share a file, and reading one returns
  the other's events, though a product "reads only that source product's files"
  (`store.go:202`).
- `receiver.go:165`: a datapoint without `timeUnixNano` gets its id from the clock, so
  a retry at another time is a new event; `receiver.go:243`: the id leaves the model
  out, so datapoints that differ only in it collide. Both against "one datapoint =
  one event; retried exports dedup" (`receiver.go:242`).
- `history.go:267`: the end of a session has one id, `claude-code:<id>:end`, but is an
  event of the time it was last seen, so a session imported on two days has its end in
  two day files, though ids are made "so re-importing the same history deduplicates
  naturally" (`event.go:127`).
- `history.go:159`: a tail without its newline is taken for a line, and the loop reads
  on; if the record is finished meanwhile its rest is another line, and later records
  are read without it. When it was the session's first, and the next is of another day, the
  session gets one start from this import and another from the next, though ids are made "so
  re-importing the same history deduplicates naturally" (`event.go:127`). `StartsOnce` leaves
  such imports out (`split`); the record itself is stored by the next one.
- `store.go:154`, met by an importer: the import that follows a torn append may lose the first event it
  has for that day, and counts it; the one after that stores it. `ImportsAreComplete` and `CommitsAreKept` leave
  out what meets a torn line. The store's own run is `store_torn_tail`.
- `providers/claudecode/sessions.go:115`: a transcript that cannot be read gives a diagnostic and no error, as a test asks
  (`TestSessionReaderUnreadableFileBecomesDiagnostic`), so `Resolve`, which sees the sessions
  only, may take a short id for the other session that begins so. `:107`, `:150`: `Glob` ignores
  directories it cannot read, so all sessions, or all live records, of one are missing
  without a diagnostic. `collector.go:75` (Claude Code): so are the transcripts of a history import, though
  "unparseable lines and files are reported as diagnostics, never silently dropped"
  (`collector.go:53-54`).
- `sessions.go:225`: a transcript whose first 256 KiB hold no timestamp is left
  out, though `readSession` "returns nil for a file with no timestamped records"
  (`sessions.go:184`). `sessions.go:220`: reading the head stops at the first prompt, so a
  branch named later is not seen.
- `sessions.go:237`: a title the harness gave earlier than the last 8 MiB, or than the
  window that holds a prompt, is not found, and the first prompt takes its place.
- `sessions/sessions.go:180`: when the context ends between readers, the errors of
  earlier readers are dropped and the list is not sorted, against "the result is
  returned together with a joined error" and "newest activity first"
  (`sessions/sessions.go:169-171`). `ResultIsWhole` is about the other calls.
- `sessions/sessions.go:218`: of two sessions with the same full id (of two harnesses)
  `Resolve` returns the first.
- `git/collector.go:77`: a context that ends while the last clone is read gives a
  result with a diagnostic, not an error; `:107`: the branch is asked for after the log,
  so a commit may be given the branch of a later HEAD.
- `identity.go:105`: `localKey` joins device and account with a slash, so device `d/a` with
  account `b` and device `d` with account `a/b` are one key, against "without conflating
  people" (`docs/guides/concepts/identity.md`). `ResolveIsExact` leaves names with
  slashes out.
- `workref.go:86`: an identifier keeps the kind the first text gave it, though an earlier
  rule finds it in a later text, against "the first rule that matches an identifier
  names its kind" (`workref.go:80-81`).
- `repoindex.go:129`: a path looked up before its repository was created stays
  among the "directories known to be outside any repository" (`repoindex.go:42`).
- `rollup.go:27`: the version a report gives a source is that of the day a map
  yields first, though "the same stored events always produce the same report"
  (`README.md:100`). `ReplaysMatch` leaves the version out for this reason.
- `rollup.go:134`: a combined metric gets the least confidence of all sources, not of
  "the least-confident event that contributed to it" (`docs/guides/concepts/reports.md:48`).
- `daily.go:240`: an invalid token count is taken for zero in an estimate, though such
  values "cause the backfill to be skipped for that event" (`reports.md:59`).
- `pricing.go:102`: any suffix that starts with a dash and a digit is taken, so a later
  version (`claude-sonnet-5-1`) is given the price of `claude-sonnet-5`, though valid
  suffixes are "[1m], -YYYYMMDD, or end of string" (`pricing.go:77`).
- `rollup.go:50`: summaries of days without events count as active days
  (`reports.md:86`). `ReplaysMatch` is about summaries of days with events.

## 4. Theorems

Every safety property of the passing runs is proved. The arguments, by module; an inductive invariant is named where the property is not one.

`EventStoreProofs`, for any writers, events, batches, files and interruptions:

- `TypeCorrect`: `Spec => []TypeOK`. Inductive as `TypeInv`, which adds that only
  a file with a last line has an open one (`OpenHasLine`). Its lemmas say what an append
  puts into a file: every interrupted or complete append is one `IsPut`.
- `LossIsNeverSilent`: `Spec => []NoSilentLoss`, overlapping writers included. `NoSilentLoss`
  is not inductive: a duplicate is counted on the word of an earlier scan. `SafeInv`
  adds `KnownIsSafe`, that ids a writer has scanned stay readable or their file
  reports damage, whatever others append meanwhile.
- `TurnsAreIdempotent`: with at most one writer, `Spec => []NoDuplicateIds`. `ExactInv` adds
  `KnownIsAll`: between scan and append the file holds no id the writer does not know. This is
  what a second writer breaks.

Also there, about what the files promise to readers and to later writes:

- `LinesAreKept`: `Spec => LinesStay`, from `TypeInv` alone.
- `DamageIsPaidFor`: `Spec => []DamagePerFault`. A step puts at most one more line at
  stake, and only an interruption does (`DamageInv`, which needs the lines at
  stake to be finitely many to count them).
- `StoreImplementsContract`: `Spec => ImplementsContract`, the refinement: initial
  states map to initial states, each step to a step of `EventLogContract` or to none.
  `CallInv` carries what the contract asks of a returning call: each event of the batch is in
  a file still to do, or can be read back, or its file reports damage.
- `PruningIsExact`: `Spec => []PruningKeepsPeriod`. `PlaceInv` says that an event is in
  the file of its day and product; the rest is arithmetic of `skipDay` and midnights.

`OtelProofs`, for any payloads, handlers and bounds. `OInv` holds the invariants of the
store below and what ties a handler to its writer: a handler without a request has
a writer at rest, an answered payload is safe, what is stored was made of a payload,
and, until handlers overlap, one request is at work and no id is stored twice.

- `ReceiverTypeCorrect`: `OSpec => []OTypeOK`.
- `AnswersAreStored`: `OSpec => []AnsweredIsStored`, from `LossIsNeverSilent`'s invariant.
- `RetriesInTurnAreCountedOnce`: `OSpec => []RetriesInTurnCountOnce`. It is about
  datapoints with a time of their own; the id of another is made of the clock, and a
  retry stores it again (section 3).

`HistoryProofs`, for any transcripts, periods and bounds. `HInv` follows an event on its way: what a transcript had to give
when it was opened is in a record that has been read, or in a line that is still ahead (`HadIsComing`); what is owed has
been collected (`OwedIsGot`); while the import writes, it is stored or its day is still to come (`WrittenOrToDo`); and
what was promised is stored where no append can take it away (`PromisesKept`). That last part is what makes it inductive
over torn appends: an event is safe (`IsSafe`) if it is not that of an open last line, and no append, torn or
not, touches what is safe (`PutFacts`, `InterruptedFacts` in `OrderFacts`).

- `TypeCorrect`: `Spec => []TypeOK`; `PeriodsAreCutCleanly`: `Spec => []PeriodsCutCleanly`;
  `CompleteImportsStoreAll`: `Spec => []ImportsAreComplete`.
- `SessionsStartOnce`: `Spec => []StartsOnce`, provided a session is written to one file in the order
  of time (`Chronological`); the property itself leaves out what follows an agent's death in a line and a line read in two.
  `StartInv` adds, until either happens, that the lines on disk are the beginning of what the agent
  writes, the last perhaps half (`LinesAreScript`), and that what was read is the same, with a half line at its
  end only (`ReadIsScript`), so that the earliest record is the same in every import that sees the
  session. Without any of the three conditions the property is false, by the code: a lost first
  line, one missed, or an earlier one that comes later, gives another start. `history_periods` checks it within them.

`RepoIndexProofs`, for any tree of paths and any goroutines:

- `TypeCorrect`: `Spec => []TypeOK`; a walk never leaves its path.
- `NestedNeverAppear`: `Spec => []NestedStayHidden`. `HiddenInv` adds that scanned
  roots stay known and that every lookup under way is on a path outside them.
- `TurnsAnswerAlike`: `Spec => AnswersStay`: until two lookups have overlapped, answers
  stay. `TurnInv` adds that no known root is above the path of a lookup that runs alone.
- `AnswersAreTrue`: `Spec => []AnswersMatchDisk`, overlapping lookups included. `DiskInv`
  adds that, as long as the disk has not changed, the index and what each lookup
  has seen are true of it.

`SessionProofs`, for any processes, records, transcripts, windows and other harnesses:

- `TypeCorrect`: `CSpec => []TypeOK`. `TypeInv` adds that the reader only works in its turn.
- `RunningIsGenuine`: `CSpec => []RunningWasAlive`. A record's moment lies between two
  starts of its pid; the invariant says that whoever runs under a pid within the
  tolerance of what its record claims is the agent that wrote it, which is where
  `ReuseGap > StartTolerance` is needed: with a system that gives pids away sooner
  the theorem is false, and nothing in the code prevents that.
- `SteadyIsShown`: `CSpec => []SteadyIsRunning`. An agent on record all the time is still
  to be read, or being probed, or in `live`; `live` loses nobody.
- `TimesAreThoseOfTheFile`: `CSpec => []TimesAreExact`, and `ContentIsThatOfTheFile`:
  `CSpec => []ContentIsLatest`. `SaidInv` says that each session listed was made by
  `readSession` of its file as it was at some size; the two properties are then
  theorems about `ReadHead` and `ReadTail`. A window that ends in the middle of a line loses
  nothing, for the next one starts there or the line is not whole; the tail window that
  stops holds the last of everything it stopped for.
- `ResultsAreWhole`: `CSpec => []ResultIsWhole`, and `ResolvesAreCertain`:
  `CSpec => []ResolveNeverGuesses`. `ReadInv` follows the reader (a transcript that has stayed is to
  be read, in `out` or in `diags`, and may still be listed), `GatherInv` the catalog (what was told is among
  what is gathered), `StampInv` says that no transcript is younger than its
  modification time, on which `Since` filters. That sorting keeps the list is `SortIs`.

`AttributionProofs`, for any commits, clones, periods, configurations, rules and texts:

- `GitTypeCorrect`: `GSpec => []GitTypeOK`.
- `ResultsAreExact`: `GSpec => []GitResultIsExact`. `ResultInv` follows the import: what has
  been collected is of the clones read so far, the log at hand is what was found.
- `CommitsCountOnce`: `GSpec => []OneEventPerCommit`, and
- `ReadCommitsStay`: `GSpec => []CommitsAreKept`. `StoreInv` adds that what is due has been collected
  (`DueIsCollected`) and is still to be written or safe (`Covered`), in the sense of `HistoryProofs`: no append that is
  torn later takes it away (`OwedIsSafe`); and that ids are as good as hashes.
- `MapsAreExact`: `ISpec => []MapIsExact`. `MapInv` is the same of the part of the
  configuration before the loop's position.
- `ResolvesAreExact`: `ISpec => []ResolveIsExact`: an exact map answers for each key with who
  claims it; names without slashes make the keys of different accounts different.
- `ReferencesAreSightings`: `WSpec => []RefsAreSightings`. `WorkInv` says that each entry has the
  sources of the texts so far and the kind of the rule that found it first.

`ReportProofs`, for any events, prices, periods and lengths of the log. `Inv`, inductive, says that each
summary kept is that of its day for the log as it was at some time (`Remembered`), and that the latest report
is what `Build` makes of the log, or `Rollup` of the summaries kept, in some order (`Reporting`). The rest is about
the operators:

- sums over finite sets: that a sum exists and is one (`SumsAre`), splits (`SumSplit`), may be taken by groups
  (`SumOfSums`) and renamed (`SumRenamed`). There is no induction over sets here; each is proved of a smallest
  counterexample (`Fewest`).
- `TypesCorrect`: `Spec => []TypeOK`.
- `ReportsExact`: `Spec => []ReportsAreExact`. A period from midnight to midnight is the disjoint union of its days
  (`WholeDays`, `DaysTogether`), so the sums of its days' sums are the sums over its events, and its sessions the
  union of theirs. `PeriodsAssumption` does not ask for whole days: the property is about the periods that are
  (`report_midday` shows the others).
- `ReplaysAreFaithful`: `Spec => []ReplaysMatch`. Summaries of a day with the same events are the same
  (`SameDaySameSummary`), and the order they are rolled up in shows in versions only (`RollupRelisted`).

`OrderFacts`: that numbers have a least and, if finitely many, a greatest, that a finite
set can be sorted, that the end of a sorted set is the sorted end, and what appends to a day file
keep and add. A
recursive function (`EndOf` of `Transcript`) is reasoned about by its least counterexample.

What they rest on, besides the definitions: the named assumptions of the modules,
which TLC evaluates in the runs. Most only type the constants. Those that say more:

- `TimesAssumption` (`StoreRead`): times are numbers. `RankAssumption`: no two files have one place.
- `PayloadsAssumption`: a datapoint that is recognized makes an event of the store's.
- `ContentAssumption`: a record's blocks are a sequence. `ScriptsAssumption`: the agent writes records.
- `BadAssumption`: what is read of a line that does not parse is no record.
- `SetupsAssumption`: no line of a transcript is later than its modification time, nor that than
  the clock. Programs that stamp their lines with the time of writing see to it; a clock that is
  set back breaks it, and `Since` then leaves out a session it should not.
- `TimesAssumption` (`SessionReader`): a pid is not given away again within the tolerance.
- `OthersAssumption`: another harness's reader returns its own sessions.
- `NamesAssumption`: the names `ResolveIsExact` is about have parts; `ConfigsAssumption`: a
  configuration has sequences of people and identities.
- `OccurrencesAssumption` (`Report`): what events carry are integers. `PricesAssumption`: the price table has finitely
  many entries, with integer prices.
- `RulesAssumption`, `TextsAssumption`, `IdsAssumption`: every text knows what each pattern finds in it,
  and identifiers can be ordered.

Only model-checked: the liveness properties `Reimported` and `RecordsAreImported` (TLAPS has no
proof rules for fairness here).

## 5. Not modelled

- Loading the configuration and expanding its roots (one file read at startup, the
  spelling of paths), evidence types, the JSON schema: no behaviour.
- In the imports, two importers that write to one day file at once: `EventStore` has overlapping
  writers, the imports' day files have one.
- In modelled parts: lines beyond the scanner's 8 MiB, fsync and power loss,
  OTLP posts of logs and traces (answered, and ignored), the spelling of git
  remotes, the order `Read` sorts events in, messages and diagnostics' wording,
  rounding of floats, truncation and quoting for
  display, insertions and deletions of commits, regular expressions (a pattern is
  what it finds), SHA-256 (taken to be injective).

## 6. Plan

Done, in this order: store and contract, reading, receiver, repository index,
history, reports; session reader and catalog; git collector, identity and work
references; proofs about all of them.

Next:

1. Token and cost totals of a report when history and OTLP both report a session.

The runs stay few, one per question; the small modules share one (`attribution`).
