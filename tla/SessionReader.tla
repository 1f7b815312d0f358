--------------------------- MODULE SessionReader ---------------------------
(***************************************************************************)
(* The Claude Code session reader: List reads the live-session records of  *)
(* the running agents, asks the system for the process of each, and then   *)
(* reads the transcripts.  Meanwhile agents start, write their records and *)
(* transcripts, exit and crash, and the system gives their pids to others. *)
(*                                                                         *)
(* There is one project directory; a transcript that does not exist has    *)
(* size 0.  Opening or reading any file or directory may fail at any time, *)
(* and so may asking for a process.                                        *)
(***************************************************************************)
EXTENDS Transcript

CONSTANTS
  Setups,       \* stores to begin with: lines, id and size of each transcript, the time,
                \* the pids the system has, whether transcripts change, what callers ask
  Ids,          \* session ids
  Pids,
  StartTolerance,
  ReuseGap,     \* time before the system gives a pid away again
  Names,        \* session names in records, "" for none
  NoId,         \* a process that is no agent
  NoPid, None,
  Torn,         \* a record file that does not parse
  MaxClock      \* bound on time

LiveRecords == [pid : Pids, id : Ids, startedAt : Nat, name : Names]

\* No line that has begun is of a later time.
WrittenBy(ls, bytes, time) == \A n \in DOMAIN ls : BeginOf(ls, n) < bytes => ls[n].time <= time

ASSUME PidsAssumption == Pids \subseteq Nat /\ NoPid \notin Pids
ASSUME IdsAssumption == NoId \notin Ids
ASSUME NoneAssumption == None # Torn /\ None \notin Nat
ASSUME TimesAssumption ==
  /\ StartTolerance \in Nat /\ ReuseGap \in Nat /\ ReuseGap > StartTolerance
  /\ MaxClock \in Nat \ {0}
ASSUME SetupsAssumption ==
  \A s \in Setups :
    /\ s.ids \in [DOMAIN s.lines -> Ids] /\ s.pids \subseteq Pids
    /\ s.size \in [DOMAIN s.lines -> Nat]
    /\ s.now \in 1 .. MaxClock
    /\ \A o \in s.options : o.since \in Nat
    /\ \A f \in DOMAIN s.lines :
         /\ s.lines[f] \in Seq(LineRecords)
         /\ WrittenBy(s.lines[f], s.size[f], s.now)

VARIABLES
  now,
  setup,        \* never changes
  size, mtime,  \* disk: of each transcript
  start, agent, \* system: when each pid's process started, and the session it runs
  free,         \* system: when the pid may be given away
  rec,          \* disk: the live-session record of each pid
  pc, opts,     \* the reader
  recs,         \* record files it has yet to read
  held,         \* the record it has read and not yet probed
  live,         \* session -> the record of its live process
  files,        \* transcripts it has yet to read
  out,          \* the sessions it returns
  diags,        \* the transcripts it returns diagnostics of
  alive,        \* history: the agents that lived at some moment of the call
  steady,       \* history: the pids whose agents were on record all through it, and
                \* could be read and probed
  there         \* history: the transcripts that had a session all through it, in a
                \* directory that could be read

clock == <<now, setup>>
disk == <<size, mtime>>
system == <<start, agent, free, rec>>
reader == <<pc, opts, recs, held, live, files, out, diags>>
history == <<alive, steady, there>>
vars == <<clock, disk, system, reader, history>>

Files == DOMAIN setup.lines
Lines(f) == setup.lines[f]
Running(p) == start[p] # None
IsAgent(p) == Running(p) /\ agent[p] # NoId
IsLive(r) == r # None /\ r # Torn

\* The process has written the record of its own, and in time.
OnRecord(p) ==
  /\ IsAgent(p) /\ IsLive(rec[p])
  /\ rec[p].id = agent[p]
  /\ rec[p].startedAt \in start[p] .. start[p] + StartTolerance

Session(f, o) == ReadSession(Lines(f), size[f], mtime[f], o.noContent)

\* There is something to list, by what the whole transcript says.
Listable(f, o) ==
  /\ size[f] > 0 /\ ~NoSession(Lines(f), size[f])
  /\ o.since # NoTime => Latest(Lines(f), ScanRecords(Lines(f), 0, size[f])).activity >= o.since

\* List returns a session for the transcript.
ShownSince(f, o) ==
  /\ size[f] > 0 /\ ~NoSession(Lines(f), size[f])
  /\ o.since # NoTime => Session(f, o).activity >= o.since

-----------------------------------------------------------------------------
Init ==
  /\ setup \in Setups
  /\ now = setup.now
  /\ size = setup.size
  /\ mtime = [f \in Files |-> now]
  /\ start = [p \in Pids |-> None]
  /\ agent = [p \in Pids |-> NoId]
  /\ free = [p \in Pids |-> 0]
  /\ rec = [p \in Pids |-> None]
  /\ pc = "idle" /\ opts = None
  /\ recs = {} /\ held = None
  /\ live = [i \in Ids |-> None]
  /\ files = {} /\ out = <<>> /\ diags = {}
  /\ alive = {} /\ steady = {} /\ there = {}

-----------------------------------------------------------------------------
(* Agents and the system.                                                  *)

Tick ==
  /\ now < MaxClock
  /\ now' = now + 1
  /\ UNCHANGED <<setup, disk, system, reader, history>>

\* A transcript grows to any length, its last line unfinished or not.
Grow(f) ==
  /\ \E s \in size[f] + 1 .. EndOf(Lines(f), Len(Lines(f))) :
       /\ WrittenBy(Lines(f), s, now)
       /\ size' = [size EXCEPT ![f] = s]
  /\ mtime' = [mtime EXCEPT ![f] = now]
  /\ UNCHANGED <<clock, system, reader, alive, steady>>
  /\ there' = {g \in there : Listable(g, opts)'}

Prune(f) ==
  /\ size[f] > 0
  /\ size' = [size EXCEPT ![f] = 0]
  /\ there' = there \ {f}
  /\ UNCHANGED <<clock, mtime, system, reader, alive, steady>>

\* The system starts an agent for session i, or, with NoId, something else.
Start(p, i) ==
  /\ ~Running(p) /\ now >= free[p]
  /\ start' = [start EXCEPT ![p] = now]
  /\ agent' = [agent EXCEPT ![p] = i]
  /\ alive' = IF i = NoId \/ pc = "idle" THEN alive ELSE alive \cup {<<p, i>>}
  /\ UNCHANGED <<clock, disk, free, rec, reader, steady, there>>

\* An agent writes its record some time after it has started; the file may be
\* seen half-written.
Register(p) ==
  /\ IsAgent(p)
  /\ IsLive(rec[p]) => rec[p].startedAt < start[p]
  /\ \/ rec' = [rec EXCEPT ![p] = Torn]
     \/ \E n \in Names :
          rec' = [rec EXCEPT ![p] = [pid |-> p, id |-> agent[p], startedAt |-> now, name |-> n]]
  /\ UNCHANGED <<clock, disk, start, agent, free, reader, history>>

\* A process ends; its record is removed only by an agent that exits cleanly.
End(p) ==
  /\ Running(p)
  /\ start' = [start EXCEPT ![p] = None]
  /\ agent' = [agent EXCEPT ![p] = NoId]
  /\ free' = [free EXCEPT ![p] = now + ReuseGap]
  /\ \/ UNCHANGED rec
     \/ IsAgent(p) /\ rec' = [rec EXCEPT ![p] = None]
  /\ steady' = steady \ {p}
  /\ UNCHANGED <<clock, disk, reader, alive, there>>

AgentStep(p) == Register(p) \/ End(p) \/ \E i \in Ids \cup {NoId} : Start(p, i)

World ==
  \/ (setup.grows \/ setup.pids # {}) /\ Tick
  \/ setup.grows /\ \E f \in Files : Grow(f) \/ Prune(f)
  \/ \E p \in setup.pids : AgentStep(p)

-----------------------------------------------------------------------------
(* List.                                                                   *)

\* The names of the record files are read at once; Glob says nothing of a directory
\* it cannot read.
Begin(o) ==
  /\ pc = "idle"
  /\ pc' = "live"
  /\ opts' = o
  /\ \/ recs' = {p \in Pids : rec[p] # None} /\ steady' = {p \in Pids : OnRecord(p)}
     \/ recs' = {} /\ steady' = {}
  /\ alive' = {<<p, agent[p]>> : p \in {q \in Pids : IsAgent(q)}}
  /\ there' = {f \in Files : Listable(f, o)}
  /\ live' = [i \in Ids |-> None] /\ out' = <<>> /\ diags' = {}
  /\ UNCHANGED <<clock, disk, system, held, files>>

\* What a call has found is its caller's from then on.
Forget ==
  /\ out' = <<>> /\ diags' = {}
  /\ live' = [i \in Ids |-> None]
  /\ alive' = {} /\ steady' = {} /\ there' = {}

\* Asks for the process of a record that did not parse.
ReadRecordBlindly ==
  /\ pc = "live" /\ recs # {}
  /\ \E p \in recs :
       /\ \A q \in recs : p <= q
       /\ recs' = recs \ {p}
       /\ \/ rec[p] # None /\ held' = rec[p] /\ pc' = "probe" /\ UNCHANGED steady
          \/ UNCHANGED <<held, pc>> /\ steady' = steady \ {p}
  /\ UNCHANGED <<clock, disk, system, opts, live, files, out, diags, alive, there>>

\* liveSessions: reads a record, if it is still there and whole, and can be read;
\* the diagnostic it gives otherwise is left out.
ReadRecord ==
  /\ pc = "live" /\ recs # {}
  /\ \E p \in recs :
       /\ \A q \in recs : p <= q
       /\ recs' = recs \ {p}
       /\ \/ IsLive(rec[p]) /\ held' = rec[p] /\ pc' = "probe" /\ UNCHANGED steady
          \/ ~IsLive(rec[p]) /\ UNCHANGED <<held, pc, steady>>
          \/ UNCHANGED <<held, pc>> /\ steady' = steady \ {p}
  /\ UNCHANGED <<clock, disk, system, opts, live, files, out, diags, alive, there>>

\* Takes any process with the pid for the one on record.
MatchesPid(r) == Running(r.pid)

Matches(r) ==
  /\ Running(r.pid)
  /\ start[r.pid] - r.startedAt \in -StartTolerance .. StartTolerance

\* A record that matches no process takes back what another said of its session.
ProbeRetracting ==
  /\ pc = "probe"
  /\ \/ /\ live' = [live EXCEPT ![held.id] = IF Matches(held) THEN held ELSE None]
        /\ UNCHANGED steady
     \/ UNCHANGED live /\ steady' = steady \ {held.pid}
  /\ held' = None
  /\ pc' = "live"
  /\ UNCHANGED <<clock, disk, system, opts, recs, files, out, diags, alive, there>>

\* processStart of the pid on record, if it can be told.
Probe ==
  /\ pc = "probe"
  /\ \/ /\ live' = [live EXCEPT ![held.id] = IF Matches(held) THEN held ELSE @]
        /\ UNCHANGED steady
     \/ UNCHANGED live /\ steady' = steady \ {held.pid}
  /\ held' = None
  /\ pc' = "live"
  /\ UNCHANGED <<clock, disk, system, opts, recs, files, out, diags, alive, there>>

\* The transcripts are listed when all records have been seen, by Glob again.
ListFiles ==
  /\ pc = "live" /\ recs = {}
  /\ pc' = "files"
  /\ \/ files' = {f \in Files : size[f] > 0} /\ UNCHANGED there
     \/ files' = {} /\ there' = {}
  /\ UNCHANGED <<clock, disk, system, opts, recs, held, live, out, diags, alive, steady>>

\* A session as List returns it: what its transcript says, and its process.
Listed(f) ==
  LET i == setup.ids[f]
      s == Session(f, opts)
  IN [id |-> i, file |-> f, seen |-> size[f], at |-> mtime[f],
      pid |-> IF live[i] = None THEN NoPid ELSE live[i].pid,
      said |-> IF live[i] # None /\ ~opts.noContent /\ live[i].name # ""
               THEN [s EXCEPT !.title = [from |-> "harness", text |-> live[i].name]] ELSE s]

\* A transcript that cannot be read is passed over with a diagnostic, and no error.
ReadFile ==
  /\ pc = "files"
  /\ \E f \in files :
       /\ \A g \in files : f <= g
       /\ files' = files \ {f}
       /\ \/ size[f] > 0 /\ ShownSince(f, opts) /\ out' = out \o <<Listed(f)>> /\ UNCHANGED diags
          \/ size[f] > 0 /\ ~ShownSince(f, opts) /\ UNCHANGED <<out, diags>>
          \/ diags' = diags \cup {f} /\ UNCHANGED out
  /\ UNCHANGED <<clock, disk, system, pc, opts, recs, held, live, history>>

\* The context is done, which List sees before each transcript.
Cancelled ==
  /\ pc = "files" /\ files # {}
  /\ pc' = "cancelled"
  /\ UNCHANGED <<clock, disk, system, opts, recs, held, live, files, out, diags, history>>

Complete ==
  /\ pc = "files" /\ files = {}
  /\ pc' = "complete"
  /\ UNCHANGED <<clock, disk, system, opts, recs, held, live, files, out, diags, history>>

ReaderStep == ReadRecord \/ Probe \/ ListFiles \/ ReadFile \/ Cancelled \/ Complete

-----------------------------------------------------------------------------
OutOK(e) == e.id \in Ids /\ e.file \in Files /\ e.pid \in Pids \cup {NoPid}

TypeOK ==
  /\ now \in 1 .. MaxClock
  /\ start \in [Pids -> Nat \cup {None}]
  /\ agent \in [Pids -> Ids \cup {NoId}]
  /\ free \in [Pids -> Nat]
  /\ rec \in [Pids -> LiveRecords \cup {None, Torn}]
  /\ pc \in {"idle", "live", "probe", "files", "cancelled", "complete"}
  /\ recs \in SUBSET Pids
  /\ held \in LiveRecords \cup {None}
  /\ live \in [Ids -> LiveRecords \cup {None}]
  /\ pc = "probe" => held # None
  /\ files \in SUBSET Files /\ there \in SUBSET Files /\ diags \in SUBSET Files
  /\ steady \in SUBSET Pids
  /\ alive \in SUBSET (Pids \X Ids)
  /\ \A n \in DOMAIN out : OutOK(out[n])

\* "A stale file left by a crash or reboot may name a reused PID, so liveness
\* alone is not trusted": a session is listed as running only if an agent ran it
\* under that very pid at some moment of the call, whatever dies, and whichever
\* pid is given to another process, between the steps of the call.  It takes a
\* system that gives a pid away again only after longer than startTolerance.
RunningWasAlive ==
  \A n \in DOMAIN out : out[n].pid # NoPid => <<out[n].pid, out[n].id>> \in alive

\* A session whose agent was alive and on record all through the call is never
\* shown as resumable, stale records of earlier agents of it notwithstanding:
\* resuming it "would attach a second agent to the same conversation".  It takes a
\* record and a process that can be read: a failure counts as no agent.
SteadyIsRunning ==
  \A n \in DOMAIN out : (\E p \in steady : agent[p] = out[n].id) => out[n].pid # NoPid

\* What reading all of a transcript would tell, as far as it was written.
InFull(e) == Latest(setup.lines[e.file], ScanRecords(setup.lines[e.file], 0, e.seen))

\* Some line of S lies in the last MaxTailBytes: it begins after their first byte.
Near(e, S) ==
  \E n \in S : e.seen <= MaxTailBytes \/ BeginOf(setup.lines[e.file], n) > e.seen - MaxTailBytes

\* The window does not show in the times: they are those of the whole file, a
\* human prompt however long the agent has kept on working since it, unless what
\* they are taken from is further from the end than the largest window.  Then the
\* time the file was written stands for the activity.
TimesAreExact ==
  \A n \in DOMAIN out :
    LET e == out[n]
        ls == setup.lines[e.file]
        lines == ScanRecords(ls, 0, e.seen)
        human == {m \in lines : IsHumanPrompt(ls[m])}
        main == {m \in Stamped(ls, lines) : ~ls[m].side}
    IN /\ e.said.human = IF Near(e, human) THEN InFull(e).human ELSE NoTime
       /\ e.said.activity = IF Near(e, main) THEN InFull(e).activity ELSE e.at

\* Nor in the content: the prompts are the latest of the file, each once, the last
\* human prompt among them if it has a text to show and is in reach of the largest
\* window; a title is the latest the harness gave it, the file's first prompt, or
\* the name of the process.  With NoContent there is none of it.
ContentIsLatest ==
  \A n \in DOMAIN out :
    LET said == out[n].said
        full == InFull(out[n])
        ls == setup.lines[out[n].file]
        human == {m \in ScanRecords(ls, 0, out[n].seen) : IsHumanPrompt(ls[m])}
        last == {m \in human : \A k \in human : k <= m}
    IN /\ IsSuffix(said.prompts, full.prompts) /\ Len(said.prompts) <= RecentPrompts
       /\ (\A m \in last : IsShown(ls[m])) /\ Near(out[n], last) /\ RecentPrompts > 0 /\ ~opts.noContent =>
            said.prompts # <<>>
       /\ said.title.from = "harness" => said.title.text \in Names \cup {full.title}
       /\ said.title.from = "first-prompt" => said.title.text = full.prompts[1].text
       /\ opts.noContent => said.prompts = <<>> /\ said.title.from = "cwd"

=============================================================================
