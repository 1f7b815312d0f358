---------------------------- MODULE ClaudeHistory ----------------------------
(***************************************************************************)
(* Importing Claude Code's session history: Collector.Collect parses the   *)
(* transcripts line by line, Store.Write stores the events.  The agent     *)
(* keeps writing the transcripts meanwhile, prunes old ones, and dies in   *)
(* the middle of a line; the import is run again and again, for whatever   *)
(* periods, and is cut short by errors and crashes.                        *)
(*                                                                         *)
(* Records carry what the events depend on: type, uuid, time (0 when       *)
(* missing), session, side (a sidechain), content and usage.  The content  *)
(* is a sequence of blocks, Text for a plain string, NoMessage or Unknown. *)
(* A record is written in two halves, then its newline; a line on disk is  *)
(* the sequence of the halves it holds, and a record just if it holds the  *)
(* two of it and nothing else.                                             *)
(*                                                                         *)
(* There is one project directory.  The store's day files are those of one *)
(* writer (DayFile).                                                       *)
(***************************************************************************)
EXTENDS EventFiles, DayFile, FiniteSets

CONSTANTS
  Scripts,      \* what the agent writes to each file, in the order of the walk
  Bad,          \* what is read of a line that does not parse
  Text, NoMessage, Unknown,
  NoName,       \* a tool whose name is not known
  Periods,      \* the periods imports are run for
  MaxDeaths,    \* bound on agents that die in the middle of a line
  MaxFaults     \* bound on imports cut short and files and directories not read

Files == DOMAIN Scripts
Records == UNION {{Scripts[f][n] : n \in DOMAIN Scripts[f]} : f \in Files}
Days == {DayOf(r.time) : r \in Records}

ASSUME ScriptsAssumption ==
  /\ Len(Scripts) \in Nat /\ Files = 1 .. Len(Scripts)
  /\ \A f \in Files : Scripts[f] \in Seq(Records)
  /\ \A r \in Records : r.time \in Nat
ASSUME BadAssumption == Bad \notin Records
ASSUME PeriodsAssumption == \A p \in Periods : p.start \in Nat /\ p.end \in Nat
ASSUME BoundsAssumption == MaxDeaths \in Nat /\ MaxFaults \in Nat

VARIABLES
  lines,        \* disk: the lines of each transcript
  next,         \* agent: how many records of its script it is done with
  part,         \* agent: how many halves of the next one it has written
  cut,          \* disk: the last line lacks its newline
  gone,         \* disk: the transcripts that were pruned
  pc,           \* the import: "idle", "list", "file" or "write"
  period,       \* what it asks for
  files,        \* the transcripts it has yet to read
  at,           \* in the one it reads: the lines, and the halves of the next, behind it
  read,         \* the lines it has got of it, each a record or Bad
  got,          \* the events collected, each with its place in the result
  todo,         \* the days not yet written
  stored,       \* the day files
  deaths, faults,
  had,          \* history: what the transcript being read had to give when it was opened
  owed,         \* history: what those read to their end had to give
  promised,     \* history: what complete imports had to give and stored in whole files
  split         \* history: some line was read in two

disk == <<lines, next, part, cut, gone>>
import == <<pc, period, files, at, read, got, todo, had, owed>>
rest == <<stored, deaths, faults, promised, split>>
vars == <<disk, import, rest>>

\* No bound on either side.
Always == [start |-> ZeroTime, end |-> ZeroTime]

-----------------------------------------------------------------------------
(* From lines to events.  An event comes with its place among the events   *)
(* of its file: the line, and the position in what the line yields.        *)

NewEvent(type, id, rec, attrs) ==
  [id |-> <<type, id>>, type |-> type, time |-> rec.time, session |-> rec.session,
   attrs |-> attrs]

IsBlocks(content) == content \notin {Text, NoMessage, Unknown}

ASSUME ContentAssumption ==
  \A r \in Records : IsBlocks(r.content) =>
    r.content \in Seq({r.content[k] : k \in DOMAIN r.content})

\* The positions of the blocks of a kind.
Blocks(rec, kind) ==
  IF IsBlocks(rec.content) THEN {k \in DOMAIN rec.content : rec.content[k].kind = kind} ELSE {}

Assistants(ls) == {n \in DOMAIN ls : ls[n] # Bad /\ ls[n].type = "assistant" /\ ls[n].content # NoMessage}

\* Gives up at the first line that does not parse.
UsersBeforeDamage(ls) ==
  {n \in DOMAIN ls : /\ \A m \in 1 .. n : ls[m] # Bad
                     /\ ls[n].type = "user" /\ ls[n].content # NoMessage}

Users(ls) == {n \in DOMAIN ls : ls[n] # Bad /\ ls[n].type = "user" /\ ls[n].content # NoMessage}

Before(x, y) == x[1] < y[1] \/ (x[1] = y[1] /\ x[2] < y[2])

\* Passes over the tools of messages outside the period, too.
RegisteredInPeriod(ls, p) == {n \in Assistants(ls) : Contains(p, ls[n].time)}

\* The lines whose tools toolNames knows, in the period or not.
Registered(ls, p) == Assistants(ls)

\* The name last registered before line n for a tool use that has an id.
ToolName(ls, n, id, p) ==
  LET uses == {x \in UNION {{m} \X Blocks(ls[m], "tool_use") : m \in Registered(ls, p)} :
                 x[1] < n /\ id # Missing /\ ls[x[1]].content[x[2]].id = id}
      last == CHOOSE x \in uses : \A y \in uses : ~Before(x, y)
  IN IF uses = {} THEN NoName ELSE ls[last[1]].content[last[2]].name

ToolResults(ls, n, p) ==
  {<<<<n, k>>, NewEvent("tool", ls[n].content[k].id, ls[n],
                        [ok |-> ~ls[n].content[k].error, side |-> ls[n].side,
                         tool |-> ToolName(ls, n, ls[n].content[k].id, p)])>> :
     k \in Blocks(ls[n], "tool_result")}

\* A prompt is a string, or text in a block, outside sidechains.
IsPrompt(rec) == ~rec.side /\ (rec.content = Text \/ Blocks(rec, "text") # {})

\* It comes after the tool results of its line.
Prompts(ls, n) ==
  IF ~IsPrompt(ls[n]) THEN {}
  ELSE {<<<<n, 1 + IF ls[n].content = Text THEN 0 ELSE Len(ls[n].content)>>,
          NewEvent("prompt", ls[n].uuid, ls[n], <<>>)>>}

UserEvents(ls, p) ==
  UNION {ToolResults(ls, n, p) \cup Prompts(ls, n) : n \in {m \in Users(ls) : Contains(p, ls[m].time)}}

AssistantEvents(ls, p) ==
  {<<<<n, 1>>, NewEvent("message", ls[n].uuid, ls[n], [usage |-> ls[n].usage, side |-> ls[n].side])>> :
     n \in {m \in Assistants(ls) : Contains(p, ls[m].time)}}

\* Tracks the span of a session within the period only.
SpannedInPeriod(ls, p) == {n \in DOMAIN ls : ls[n] # Bad /\ Contains(p, ls[n].time)}

\* The lines that count for the span of a session: every record, in the period
\* or not.
Spanned(ls, p) == {n \in DOMAIN ls : ls[n] # Bad}

Times(ls, session, p) == {ls[n].time : n \in {m \in Spanned(ls, p) : ls[m].session = session}} \ {ZeroTime}

Bound(type, session, t) ==
  [id |-> <<type, session>>, type |-> type, time |-> t, session |-> session, attrs |-> <<>>]

\* When the sessions of a file start and end, after the events of its lines and in
\* any order.
SessionEvents(ls, p) ==
  LET sessions == {s \in {ls[n].session : n \in Spanned(ls, p)} : s # Missing /\ Times(ls, s, p) # {}}
      first(s) == CHOOSE t \in Times(ls, s, p) : \A u \in Times(ls, s, p) : t <= u
      last(s) == CHOOSE t \in Times(ls, s, p) : \A u \in Times(ls, s, p) : t >= u
  IN {<<<<Len(ls) + 1, 1>>, Bound("start", s, first(s))>> : s \in {r \in sessions : Contains(p, first(r))}}
     \cup {<<<<Len(ls) + 1, 1>>, Bound("end", s, last(s))>> : s \in {r \in sessions : Contains(p, last(r))}}

FileEvents(ls, p) == UserEvents(ls, p) \cup AssistantEvents(ls, p) \cup SessionEvents(ls, p)

-----------------------------------------------------------------------------
(* The agent and the disk.                                                 *)

Start == [line |-> 0, halves |-> 0]

Init ==
  /\ lines = [f \in Files |-> <<>>]
  /\ next = [f \in Files |-> 0] /\ part = [f \in Files |-> 0]
  /\ cut = [f \in Files |-> FALSE]
  /\ gone = {}
  /\ pc = "idle" /\ period = Always
  /\ files = {} /\ at = Start /\ read = <<>>
  /\ got = {} /\ todo = {}
  /\ stored = [d \in Days |-> EmptyDay]
  /\ deaths = 0 /\ faults = 0
  /\ had = {} /\ owed = {} /\ promised = {}
  /\ split = FALSE

NextRecord(f) == Scripts[f][next[f] + 1]
Busy(f) == f \notin gone /\ next[f] < Len(Scripts[f])

\* Continues the line that lacks its newline, or begins one.
WithHalf(f, half) ==
  IF cut[f] THEN [lines[f] EXCEPT ![Len(lines[f])] = Append(@, half)]
  ELSE Append(lines[f], <<half>>)

\* The agent writes a record in two halves ...
WriteHalf(f) ==
  /\ Busy(f) /\ part[f] < 2
  /\ part' = [part EXCEPT ![f] = @ + 1]
  /\ lines' = [lines EXCEPT ![f] = WithHalf(f, <<NextRecord(f), part[f] + 1>>)]
  /\ cut' = [cut EXCEPT ![f] = TRUE]
  /\ UNCHANGED <<next, gone, import, rest>>

\* ... and then the newline ...
EndLine(f) ==
  /\ Busy(f) /\ part[f] = 2
  /\ part' = [part EXCEPT ![f] = 0]
  /\ next' = [next EXCEPT ![f] = @ + 1]
  /\ cut' = [cut EXCEPT ![f] = FALSE]
  /\ UNCHANGED <<lines, gone, import, rest>>

\* ... or dies before; the next agent continues the line with its own record.
Die(f) ==
  /\ Busy(f) /\ part[f] > 0
  /\ deaths < MaxDeaths
  /\ deaths' = deaths + 1
  /\ part' = [part EXCEPT ![f] = 0]
  /\ next' = [next EXCEPT ![f] = @ + 1]
  /\ UNCHANGED <<lines, cut, gone, import, stored, faults, promised, split>>

\* Whoever has the file open can still read it.
Prune(f) ==
  /\ f \notin gone
  /\ gone' = gone \cup {f}
  /\ UNCHANGED <<lines, next, part, cut, import, rest>>

-----------------------------------------------------------------------------
(* An import: Collect.                                                     *)

\* json.Unmarshal of halves that are read as one line.
Decode(halves) ==
  IF \E r \in Records : halves = <<<<r, 1>>, <<r, 2>>>> THEN halves[1][1] ELSE Bad

\* Line n of f has its newline.
Ended(f, n) == n < Len(lines[f]) \/ (n = Len(lines[f]) /\ ~cut[f])

\* Collect lists the transcripts; it ends here when there is no projects directory.
\* Glob says nothing of a project directory it cannot read.
Collect(p) ==
  /\ pc = "idle"
  /\ pc' = "list"
  /\ period' = p
  /\ \/ files' = {f \in Files \ gone : lines[f] # <<>>} /\ UNCHANGED faults
     \/ files' = {} /\ faults < MaxFaults /\ faults' = faults + 1
  /\ UNCHANGED <<disk, at, read, got, todo, had, owed, stored, deaths, promised, split>>

\* The transcript being read, or to be read next.
File == CHOOSE f \in files : \A g \in files : f <= g

\* What the ended lines of f have to give of their records: of the events they yield
\* when everything is asked for, those in the period.
ToGive(f) ==
  LET ended == [n \in 1 .. Cardinality({m \in DOMAIN lines[f] : Ended(f, m)}) |-> Decode(lines[f][n])]
  IN {x[2] : x \in {y \in UserEvents(ended, Always) \cup AssistantEvents(ended, Always) :
                       Contains(period, y[2].time)}}

OpenFile ==
  /\ pc = "list" /\ files # {} /\ File \notin gone
  /\ pc' = "file"
  /\ had' = ToGive(File)
  /\ UNCHANGED <<disk, period, files, at, read, got, todo, owed, rest>>

Unread(f) == SubSeq(lines[f][at.line + 1], at.halves + 1, Len(lines[f][at.line + 1]))

AtEnd(f) == at.line < Len(lines[f]) => Unread(f) = <<>> /\ ~Ended(f, at.line + 1)

\* readLine takes what there is up to a newline or the end of the file, and the
\* rest of such a line for one of its own later; an empty line is passed over.
ReadLine ==
  /\ pc = "file" /\ ~AtEnd(File)
  /\ at' = IF Ended(File, at.line + 1) THEN [line |-> at.line + 1, halves |-> 0]
           ELSE [at EXCEPT !.halves = Len(lines[File][at.line + 1])]
  /\ read' = IF Unread(File) = <<>> THEN read ELSE Append(read, Decode(Unread(File)))
  /\ split' = (split \/ (at.halves > 0 /\ Unread(File) # <<>>))
  /\ UNCHANGED <<disk, pc, period, files, got, todo, had, owed, stored, deaths, faults, promised>>

OnToNext ==
  /\ pc' = "list"
  /\ files' = files \ {File}
  /\ at' = Start /\ read' = <<>>
  /\ had' = {}

\* What was read of a transcript is in the result ...
Collects == got' = got \cup {<<<<File, x[1]>>, x[2]>> : x \in FileEvents(read, period)}

CloseFile ==
  /\ pc = "file" /\ AtEnd(File)
  /\ Collects
  /\ OnToNext
  /\ owed' = owed \cup had
  /\ UNCHANGED <<disk, period, todo, rest>>

\* ... also when reading failed; a transcript that cannot be opened gives nothing.
\* Both have a diagnostic.
FailFile ==
  /\ \/ pc = "list" /\ files # {} /\ UNCHANGED got
     \/ pc = "file" /\ Collects
  /\ IF pc = "list" /\ File \in gone THEN UNCHANGED faults
     ELSE faults < MaxFaults /\ faults' = faults + 1
  /\ OnToNext
  /\ UNCHANGED <<disk, period, todo, owed, stored, deaths, promised, split>>

-----------------------------------------------------------------------------
(* An import: Write.                                                       *)

\* The import returns, and what it held is gone.
Returned ==
  /\ pc' = "idle" /\ period' = Always
  /\ files' = {} /\ at' = Start /\ read' = <<>>
  /\ got' = {} /\ todo' = {}
  /\ had' = {} /\ owed' = {}

\* Write is called on what was collected.
Write ==
  /\ pc = "list" /\ files = {}
  /\ IF \A x \in got : x[2].time # ZeroTime
     THEN /\ pc' = "write" /\ todo' = {DayOf(x[2].time) : x \in got}
          /\ UNCHANGED <<period, files, at, read, got, had, owed>>
     ELSE Returned
  /\ UNCHANGED <<disk, rest>>

Earlier(x, y) == x[1] < y[1] \/ (x[1] = y[1] /\ Before(x[2], y[2]))

\* Hands the whole batch to each day file.
NewOnAnyDay(d) ==
  {x \in got : /\ \A e \in stored[d].events : e.id # x[2].id
               /\ \A z \in got : z[2].id = x[2].id => ~Earlier(z[1], x[1])}

\* Takes only what is later than everything the day has.
NewOnDayByTime(d) ==
  {x \in got : /\ DayOf(x[2].time) = d
               /\ \A e \in stored[d].events : e.time < x[2].time}

\* Of the collected events of a day the first of each id that is new to it.
NewOnDay(d) ==
  {x \in got : /\ DayOf(x[2].time) = d
               /\ \A e \in stored[d].events : e.id # x[2].id
               /\ \A z \in got : z[2].id = x[2].id /\ DayOf(z[2].time) = d => ~Earlier(z[1], x[1])}

\* The next day to be written.
Day == CHOOSE d \in todo : \A c \in todo : d <= c

FirstOf(N) == {x \in N : \A z \in N : ~Earlier(z[1], x[1])}
EventsIn(N) == {x[2] : x \in N}

\* The day file when the new events have been appended.
Written(c, N) == IF N = {} THEN {c} ELSE {Put(c, EventsIn(N), x[2]) : x \in FirstOf(N)}

\* Those of the new events up to one of them; events of one place come in any order.
Parts(N) ==
  LET upTo(x) == {S \in SUBSET N : /\ x \in S
                                   /\ \A y \in N : Earlier(y[1], x[1]) => y \in S
                                   /\ \A y \in S : ~Earlier(x[1], y[1])}
      ending(S, x) == {[events |-> EventsIn(S), first |-> y[2], last |-> x[2]] :
                         y \in {z \in FirstOf(S) : z = x => S = {x}}}
  IN UNION {UNION {ending(S, x) : S \in upTo(x)} : x \in N}

\* What meets an open line is owed no longer: its first event may be lost.
WriteDay ==
  /\ pc = "write" /\ todo # {}
  /\ \E c \in Written(stored[Day], NewOnDay(Day)) : stored' = [stored EXCEPT ![Day] = c]
  /\ todo' = todo \ {Day}
  /\ owed' = {e \in owed : ~(DayOf(e.time) = Day /\ stored[Day].open)}
  /\ UNCHANGED <<disk, pc, period, files, at, read, got, had, deaths, faults, promised, split>>

Done ==
  /\ pc = "write" /\ todo = {}
  /\ Returned
  /\ promised' = promised \cup owed
  /\ UNCHANGED <<disk, stored, deaths, faults, split>>

\* The context is done, a step fails, or the process dies, be it in the middle of
\* an append.
Abort ==
  /\ pc # "idle"
  /\ faults < MaxFaults
  /\ faults' = faults + 1
  /\ IF pc = "write" /\ todo # {}
     THEN \E c \in Interrupted(stored[Day], Parts(NewOnDay(Day))) : stored' = [stored EXCEPT ![Day] = c]
     ELSE UNCHANGED stored
  /\ Returned
  /\ UNCHANGED <<disk, deaths, promised, split>>

AgentStep(f) == WriteHalf(f) \/ EndLine(f) \/ Die(f) \/ Prune(f)

ImportStep == OpenFile \/ ReadLine \/ CloseFile \/ FailFile \/ Write \/ WriteDay \/ Done

Next ==
  \/ \E f \in Files : AgentStep(f)
  \/ \E p \in Periods : Collect(p)
  \/ ImportStep \/ Abort

Spec == Init /\ [][Next]_vars

\* An import that has begun goes on, and its user asks for everything again and
\* again, for a single period now and then.
ImportSpec == Spec /\ WF_vars(ImportStep) /\ SF_vars(Collect(Always))

-----------------------------------------------------------------------------
TypeOK ==
  /\ \A f \in Files : /\ lines[f] \in Seq(Seq(Records \X {1, 2}))
                       /\ next[f] \in 0 .. Len(Scripts[f]) /\ part[f] \in 0 .. 2
                       /\ cut[f] \in BOOLEAN
  /\ gone \in SUBSET Files /\ files \in SUBSET Files
  /\ pc \in {"idle", "list", "file", "write"}
  /\ period \in Periods \cup {Always}
  /\ at \in [line : Nat, halves : Nat]
  /\ read \in Seq(Records \cup {Bad})
  /\ todo \in SUBSET Days
  /\ deaths \in 0 .. MaxDeaths /\ faults \in 0 .. MaxFaults /\ split \in BOOLEAN
  /\ \A e \in EventsIn(got) \cup owed \cup promised : e.time \in Nat
  /\ DOMAIN stored = Days
  /\ \A d \in Days : /\ \A e \in stored[d].events : e.time # ZeroTime /\ DayOf(e.time) = d
                     /\ stored[d].last \subseteq stored[d].events
                     /\ stored[d].open \in BOOLEAN

\* Asking for a period gives what asking for everything gives in that period,
\* tool names included, "so tool_result records just inside the period boundary
\* still resolve names", also of lines that are read in two: imports of adjacent
\* periods lose and change nothing.
PeriodsCutCleanly ==
  EventsIn(FileEvents(read, period)) = {e \in EventsIn(FileEvents(read, Always)) : Contains(period, e.time)}

\* "Re-running is safe": when an import has run to its end, each event of a record
\* whose line had ended when its transcript was opened is stored, and stays; but for
\* transcripts with a diagnostic, and for days whose file ended in a torn line, where
\* it is the next import that makes up for what this one loses.  Whatever the agent has written
\* since, and whatever imports of other periods have stored before, those cut short
\* in the middle of a line among them.
ImportsAreComplete == \A e \in promised : \E x \in stored[DayOf(e.time)].events : x.id = e.id

\* However often a session is imported while its transcript grows, and for whatever
\* periods, the store has one start of it; as long as no agent has died in the
\* middle of a line, which may be lost and the start with it, and no import has
\* read one in two, missing its record and reading the next.
StartsOnce ==
  deaths = 0 /\ ~split =>
    \A c, d \in Days : \A e \in stored[c].events, x \in stored[d].events :
      e.type = "start" /\ x.type = "start" /\ e.session = x.session => e = x

\* The lines of f hold record r.
OnDisk(f, r) == f \notin gone /\ \E n \in DOMAIN lines[f] : Decode(lines[f][n]) = r

\* "Unparseable lines and files are reported as diagnostics, never silently
\* dropped": a torn line costs no other.  The events of a record are stored in the
\* end, unless its transcript is pruned or its line lost first.
RecordsAreImported ==
  \A f \in Files : \A x \in UserEvents(Scripts[f], Always) \cup AssistantEvents(Scripts[f], Always) :
    LET source == Scripts[f][x[1][1]]
    IN OnDisk(f, source) ~>
         (~OnDisk(f, source) \/ \E y \in stored[DayOf(x[2].time)].events : y.id = x[2].id)

=============================================================================
