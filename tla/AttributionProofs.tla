-------------------------- MODULE AttributionProofs --------------------------
(***************************************************************************)
(* What is proved of what attributes work: imports of git history, the     *)
(* identity map and work references, for any number of clones, commits,    *)
(* imports, people, rules and texts.                                       *)
(***************************************************************************)
EXTENDS GitHistory, Identity, WorkRefs, OrderFacts, SequenceTheorems

-----------------------------------------------------------------------------
(* Imports of git history: TypeInv types the state, ResultInv says what a  *)
(* result has at each step of its collection, StoreInv what the store has. *)

Branches == {None} \cup UNION {BranchesOf(c) : c \in Clones}

\* The events an import can make.
GoodEvents == {CommitEvent(x[1], x[2], x[3]) : x \in (DOMAIN Commits) \X Clones \X Branches}

Steps == {"idle", "next", "log", "branch", "origin", "write"}
Reading == step \in {"log", "branch", "origin"}

\* The day files, each with events of its day.
KeptOK ==
  /\ kept \in [CommitDays -> DayFiles(GoodEvents)]
  /\ \A d \in CommitDays : \A e \in kept[d].events : DayOf(e.time) = d

TypeInv ==
  /\ clones \in [Clones -> UNION {Heads[c] : c \in Clones}]
  /\ \A c \in Clones : clones[c] \in Heads[c]
  /\ step \in Steps /\ span \in Spans \cup {Unbounded}
  /\ repos \subseteq Clones /\ (Reading => repos # {})
  /\ log \subseteq DOMAIN Commits /\ branch \in Branches
  /\ events \in Seq(SUBSET GoodEvents) /\ KeptOK /\ unwritten \subseteq CommitDays
  /\ diags \subseteq Clones \X {"open", "log", "branch", "origin"}
  /\ ended \in BOOLEAN
  /\ moves \in 0 .. MaxMoves /\ faults \in 0 .. MaxFaults
  /\ met \subseteq Clones /\ DOMAIN found \subseteq Clones
  /\ \A c \in DOMAIN found : found[c] \subseteq DOMAIN Commits
  /\ due \subseteq DOMAIN Commits /\ owed \subseteq DOMAIN Commits

-----------------------------------------------------------------------------
\* The empty sequence is a sequence of anything, and a function without arguments.
LEMMA EmptyIs ==
  ASSUME NEW S
  PROVE  <<>> \in Seq(S) /\ DOMAIN <<>> = {}
OBVIOUS

\* The clone being read is one of those to be read.
LEMMA RepoIs ==
  ASSUME repos \subseteq Clones, repos # {}
  PROVE  Repo \in repos
<1>1. repos \in SUBSET Nat
  BY HeadsAssumption
<1>. QED
  BY <1>1, Least DEF Repo

\* An event is told by its hash, its clone and its branch.
LEMMA GoodEvent ==
  ASSUME NEW e \in GoodEvents
  PROVE  /\ e.hash \in DOMAIN Commits /\ e.workspace \in Clones
         /\ e.id = <<"git:commit:", e.hash>> /\ e.time = Commits[e.hash].time
         /\ e.tools = AITools(Commits[e.hash])
BY DEF GoodEvents, CommitEvent, EventId

\* What a log yields are such events.
LEMMA EventsAreGood ==
  ASSUME NEW hs \in SUBSET DOMAIN Commits, NEW c \in Clones, NEW b \in Branches, NEW p
  PROVE  /\ EventsOf(hs, p, c, b) \subseteq GoodEvents
         /\ \A e \in EventsOf(hs, p, c, b) : e.workspace = c /\ e.branch = b
         /\ {e.hash : e \in EventsOf(hs, p, c, b)} = {h \in hs : Contains(p, Commits[h].time)}
<1>1. \A h \in hs : CommitEvent(h, c, b) \in GoodEvents
  <2>. TAKE h \in hs
  <2>1. <<h, c, b>> \in (DOMAIN Commits) \X Clones \X Branches
    OBVIOUS
  <2>. QED
    BY <2>1 DEF GoodEvents
<1>2. \A h : CommitEvent(h, c, b).hash = h /\ CommitEvent(h, c, b).workspace = c /\ CommitEvent(h, c, b).branch = b
  BY DEF CommitEvent
<1>. QED
  BY <1>1, <1>2 DEF EventsOf

\* Events appended are collected with the others.
LEMMA CollectedGrows ==
  ASSUME NEW S, events \in Seq(SUBSET S), NEW E \in SUBSET S, events' = Append(events, E)
  PROVE  events' \in Seq(SUBSET S) /\ Collected' = Collected \cup E
<1>1. events' \in Seq(SUBSET S) /\ Len(events') = Len(events) + 1
  OBVIOUS
<1>2. /\ DOMAIN events = 1 .. Len(events) /\ DOMAIN events' = 1 .. Len(events) + 1
      /\ Len(events) \in Nat
      /\ events'[Len(events) + 1] = E
      /\ \A n \in 1 .. Len(events) : events'[n] = events[n]
  BY <1>1
<1>3. ASSUME NEW x \in Collected'
      PROVE  x \in Collected \cup E
  <2>1. PICK n \in DOMAIN events' : x \in events'[n]
    BY <1>3 DEF Collected
  <2>. QED
    BY <1>2, <2>1 DEF Collected
<1>4. ASSUME NEW x \in Collected
      PROVE  x \in Collected'
  <2>1. PICK n \in DOMAIN events : x \in events[n]
    BY <1>4 DEF Collected
  <2>. QED
    BY <1>2, <2>1 DEF Collected
<1>5. E \subseteq Collected'
  BY <1>2 DEF Collected
<1>. QED
  BY <1>1, <1>3, <1>4, <1>5

\* All that is collected is good.
LEMMA CollectedGood ==
  ASSUME TypeInv
  PROVE  Collected \subseteq GoodEvents
<1>1. \A n \in DOMAIN events : events[n] \subseteq GoodEvents
  BY DEF TypeInv
<1>. QED
  BY <1>1 DEF Collected

\* The day to be written is one of those.
LEMMA NextDayIs ==
  ASSUME TypeInv, unwritten # {}
  PROVE  NextDay \in unwritten /\ NextDay \in CommitDays
<1>1. unwritten \subseteq CommitDays
  BY DEF TypeInv
<1>2. \A h \in DOMAIN Commits : DayOf(Commits[h].time) \in Nat
  BY CommitsAssumption, DayTicksAssumption DEF DayOf
<1>3. unwritten \in SUBSET Nat
  BY <1>1, <1>2 DEF CommitDays
<1>. QED
  BY <1>1, <1>3, Least DEF NextDay

\* What is new to a day is of that day, and not in its file.
LEMMA FirstOnDayIs ==
  ASSUME TypeInv, NEW d \in CommitDays
  PROVE  /\ kept[d] \in DayFiles(GoodEvents)
         /\ FirstOnDay(d) \in SUBSET GoodEvents
         /\ FirstOnDay(d) \cap kept[d].events = {}
         /\ \A e \in FirstOnDay(d) : DayOf(e.time) = d
BY CollectedGood DEF TypeInv, KeptOK, FirstOnDay

\* An append keeps what is safe, and makes what it writes safe if no line was open.
LEMMA SavedDay ==
  ASSUME TypeInv, NEW d \in CommitDays, NEW c \in Saved(kept[d], FirstOnDay(d))
  PROVE  /\ c \in DayFiles(GoodEvents)
         /\ c.events \subseteq kept[d].events \cup FirstOnDay(d)
         /\ Safe(kept[d]) \subseteq Safe(c)
         /\ ~kept[d].open => Safe(c) = kept[d].events \cup FirstOnDay(d)
<1>1. PICK k \in DayFiles(GoodEvents) : k = kept[d]
  BY FirstOnDayIs
<1>2. PICK N \in SUBSET GoodEvents : N = FirstOnDay(d) /\ N \cap k.events = {}
  BY <1>1, FirstOnDayIs
<1>3. CASE N = {}
  BY <1>1, <1>2, <1>3 DEF Saved, Safe, DayFiles
<1>4. ASSUME NEW first \in N, c = Put(k, N, first)
      PROVE  /\ c \in DayFiles(GoodEvents) /\ c.events \subseteq k.events \cup N
             /\ Safe(k) \subseteq Safe(c) /\ (~k.open => Safe(c) = k.events \cup N)
  BY <1>2, <1>4, PutFacts
<1>. QED
  BY <1>1, <1>2, <1>3, <1>4 DEF Saved

\* One that is interrupted keeps it too.
LEMMA InterruptedDay ==
  ASSUME TypeInv, NEW d \in CommitDays, NEW c \in Interrupted(kept[d], SomeOf(FirstOnDay(d)))
  PROVE  /\ c \in DayFiles(GoodEvents)
         /\ c.events \subseteq kept[d].events \cup FirstOnDay(d)
         /\ Safe(kept[d]) \subseteq Safe(c)
<1>1. PICK k \in DayFiles(GoodEvents) : k = kept[d]
  BY FirstOnDayIs
<1>2. PICK N \in SUBSET GoodEvents : N = FirstOnDay(d) /\ N \cap k.events = {}
  BY <1>1, FirstOnDayIs
<1>3. \A p \in SomeOf(N) : p.events \in SUBSET N /\ p.first \in p.events /\ p.last \in p.events
  BY DEF SomeOf
<1>4. \A p \in SomeOf(N) : p.events \in SUBSET GoodEvents /\ p.events \cap k.events = {}
  BY <1>2, <1>3
<1>5. c \in Interrupted(k, SomeOf(N))
  BY <1>1, <1>2
<1>6. /\ c \in DayFiles(GoodEvents)
      /\ c = k \/ \E p \in SomeOf(N) : c.events \subseteq k.events \cup p.events
      /\ Safe(k) \subseteq Safe(c)
  BY <1>3, <1>4, <1>5, InterruptedFacts
<1>. QED
  BY <1>1, <1>2, <1>3, <1>6

\* A day file changed so has events of its day still.
LEMMA DayChanged ==
  ASSUME TypeInv, NEW d \in CommitDays, NEW c \in DayFiles(GoodEvents),
         c.events \subseteq kept[d].events \cup FirstOnDay(d), kept' = [kept EXCEPT ![d] = c]
  PROVE  KeptOK'
<1>1. kept' \in [CommitDays -> DayFiles(GoodEvents)] /\ kept'[d] = c /\ \A b \in CommitDays \ {d} : kept'[b] = kept[b]
  BY DEF TypeInv, KeptOK
<1>2. \A e \in c.events : DayOf(e.time) = d
  BY FirstOnDayIs DEF TypeInv, KeptOK
<1>. QED
  BY <1>1, <1>2 DEF TypeInv, KeptOK

\* An import that has returned holds nothing.
LEMMA FinishedTyped ==
  ASSUME TypeInv, Finished, UNCHANGED <<clones, moves>>,
         KeptOK', faults' \in 0 .. MaxFaults, owed' \subseteq DOMAIN Commits
  PROVE  TypeInv'
<1>1. None \in Branches /\ <<>> \in Seq(SUBSET GoodEvents) /\ DOMAIN <<>> = {}
  BY EmptyIs DEF Branches
<1>. QED
  BY <1>1 DEF TypeInv, Finished, Steps, Reading

\* Another step leaves the types of what it does not touch.
LEMMA StepTyped ==
  ASSUME TypeInv, GNext
  PROVE  TypeInv'
<1>. USE DEF Steps, Reading
<1>1. ASSUME NEW c \in Clones, Move(c)
      PROVE  TypeInv'
  BY <1>1, LimitsAssumption DEF TypeInv, KeptOK, Move, import
<1>2. ASSUME NEW p \in Spans, Discover(p)
      PROVE  TypeInv'
  BY <1>2 DEF TypeInv, KeptOK, Discover
<1>3. CASE EndContext
  BY <1>3, LimitsAssumption DEF TypeInv, KeptOK, EndContext
<1>4. CASE GiveUp
  BY <1>4, FinishedTyped DEF TypeInv, KeptOK, GiveUp
<1>. DEFINE Fault == faults' \in 0 .. MaxFaults
<1>5. (Fails \/ Works) => Fault
  BY LimitsAssumption DEF TypeInv, Fails, Works
<1>6. repos # {} => Repo \in repos /\ Repo \in Clones
  BY RepoIs DEF TypeInv
<1>7. None \in Branches /\ \A c \in Clones : clones[c].branch \in Branches /\ clones[c].reach \subseteq DOMAIN Commits
  <2>1. \A c \in Clones : clones[c].branch \in BranchesOf(c) /\ clones[c].reach \subseteq DOMAIN Commits
    BY HeadsAssumption DEF TypeInv, BranchesOf
  <2>. QED
    BY <2>1 DEF Branches
<1>8. CASE Open
  BY <1>5, <1>6, <1>7, <1>8 DEF TypeInv, KeptOK, Open, OnToNext, Diagnosed
<1>9. CASE ReadLog
  <2>1. repos # {} /\ Repo \in Clones
    BY <1>6, <1>9 DEF TypeInv, KeptOK, ReadLog
  <2>2. CASE /\ Works
             /\ log' = Logged(clones[Repo], span)
             /\ found' = [c \in DOMAIN found \cup {Repo} |-> IF c = Repo THEN Wanted(clones[Repo], span) ELSE found[c]]
             /\ IF log' = {} THEN step' = "next" /\ repos' = repos \ {Repo}
                ELSE step' = "branch" /\ UNCHANGED repos
             /\ UNCHANGED <<branch, diags>>
    <3>1. Logged(clones[Repo], span) \subseteq DOMAIN Commits /\ Wanted(clones[Repo], span) \subseteq DOMAIN Commits
      BY <1>7, <2>1 DEF Logged, Wanted
    <3>2. DOMAIN found' \subseteq Clones /\ \A c \in DOMAIN found' : found'[c] \subseteq DOMAIN Commits
      BY <2>1, <2>2, <3>1 DEF TypeInv
    <3>. QED
      BY <1>5, <1>9, <2>1, <2>2, <3>1, <3>2 DEF TypeInv, KeptOK, ReadLog
  <2>3. CASE Fails /\ Diagnosed("log") /\ OnToNext /\ UNCHANGED found
    BY <1>5, <1>7, <1>9, <2>1, <2>3 DEF TypeInv, KeptOK, ReadLog, OnToNext, Diagnosed
  <2>. QED
    BY <1>9, <2>2, <2>3 DEF ReadLog
<1>10. CASE ReadBranch
  BY <1>5, <1>6, <1>7, <1>10 DEF TypeInv, KeptOK, ReadBranch, Diagnosed
<1>11. CASE ReadOrigin
  <2>1. repos # {} /\ Repo \in Clones
    BY <1>6, <1>11 DEF TypeInv, ReadOrigin
  <2>2. EventsOf(log, span, Repo, branch) \subseteq GoodEvents
    BY <2>1, EventsAreGood DEF TypeInv
  <2>3. events' \in Seq(SUBSET GoodEvents)
    BY <1>11, <2>2 DEF TypeInv, ReadOrigin
  <2>. QED
    BY <1>5, <1>7, <1>11, <2>1, <2>3 DEF TypeInv, KeptOK, ReadOrigin, OnToNext, Diagnosed
<1>12. CASE Deliver
  <2>1. unwritten' \subseteq CommitDays
    BY <1>12, CollectedGood, GoodEvent DEF Deliver, CommitDays
  <2>2. due' \subseteq DOMAIN Commits
    BY <1>12 DEF TypeInv, Deliver
  <2>. QED
    BY <1>12, <2>1, <2>2 DEF TypeInv, KeptOK, Deliver
<1>13. CASE StoreDay
  <2>1. NextDay \in CommitDays
    BY <1>13, NextDayIs DEF StoreDay
  <2>2. PICK c \in Saved(kept[NextDay], FirstOnDay(NextDay)) : kept' = [kept EXCEPT ![NextDay] = c]
    BY <1>13 DEF StoreDay
  <2>3. KeptOK'
    BY <2>1, <2>2, SavedDay, DayChanged
  <2>. QED
    BY <1>13, <2>3 DEF TypeInv, StoreDay
<1>14. CASE Stored
  <2>1. owed' \subseteq DOMAIN Commits
    BY <1>14 DEF TypeInv, Stored
  <2>. QED
    BY <1>14, <2>1, FinishedTyped DEF TypeInv, KeptOK, Stored
<1>15. CASE Die
  <2>1. KeptOK'
    <3>1. ASSUME unwritten # {},
                 NEW c \in Interrupted(kept[NextDay], SomeOf(FirstOnDay(NextDay))), kept' = [kept EXCEPT ![NextDay] = c]
          PROVE  KeptOK'
      BY <3>1, NextDayIs, InterruptedDay, DayChanged
    <3>2. UNCHANGED kept => KeptOK'
      BY DEF TypeInv, KeptOK
    <3>. QED
      BY <1>15, <3>1, <3>2 DEF Die
  <2>. QED
    BY <1>15, <2>1, FinishedTyped, LimitsAssumption DEF TypeInv, Die
<1>. QED
  BY <1>1, <1>2, <1>3, <1>4, <1>8, <1>9, <1>10, <1>11, <1>12, <1>13, <1>14, <1>15 DEF GNext

\* The types are invariant.
LEMMA TypesStay == GSpec => []TypeInv
<1>1. GInit => TypeInv
  <2>1. None \in Branches /\ <<>> \in Seq(SUBSET GoodEvents) /\ DOMAIN <<>> = {}
    BY EmptyIs DEF Branches
  <2>2. GInit => 0 \in 0 .. MaxMoves /\ 0 \in 0 .. MaxFaults
    BY LimitsAssumption
  <2>7. GInit => KeptOK
    BY EmptyDayFacts DEF GInit, KeptOK
  <2>3. GInit => unwritten = {} /\ due = {} /\ owed = {} /\ met = {} /\ found = <<>> /\ repos = {} /\ events = <<>>
    BY DEF GInit
  <2>4. GInit => /\ clones \in [Clones -> UNION {Heads[c] : c \in Clones}]
                 /\ \A c \in Clones : clones[c] \in Heads[c]
    BY DEF GInit
  <2>5. GInit => ~Reading /\ step \in Steps /\ span = Unbounded /\ log = {} /\ branch = None /\ diags = {} /\ ended = FALSE
    BY DEF GInit, Steps, Reading
  <2>6. GInit => moves = 0 /\ faults = 0
    BY DEF GInit
  <2>. QED
    BY <2>1, <2>2, <2>3, <2>4, <2>5, <2>6, <2>7 DEF TypeInv
<1>2. TypeInv /\ [GNext]_gvars => TypeInv'
  <2>1. TypeInv /\ UNCHANGED gvars => TypeInv'
    BY DEF gvars, import, TypeInv, KeptOK, Reading
  <2>. QED
    BY <2>1, StepTyped
<1>. QED
  BY <1>1, <1>2, PTL DEF GSpec

\* Every reachable state of the import, the clones and the store is well typed.
THEOREM GitTypeCorrect == GSpec => []GitTypeOK
<1>1. TypeInv => GitTypeOK
  <2>. SUFFICES ASSUME TypeInv PROVE GitTypeOK
    OBVIOUS
  <2>1. /\ DOMAIN kept = CommitDays
        /\ \A d \in CommitDays : /\ kept[d].last \subseteq kept[d].events /\ kept[d].open \in BOOLEAN
                                 /\ kept[d].events \subseteq GoodEvents
                                 /\ \A e \in kept[d].events : DayOf(e.time) = d
    BY DEF TypeInv, KeptOK, DayFiles
  <2>2. \A e \in Collected \cup CommitsKept : e.hash \in DOMAIN Commits /\ e.time = Commits[e.hash].time
    BY <2>1, CollectedGood, GoodEvent DEF CommitsKept
  <2>. QED
    BY <2>1, <2>2 DEF TypeInv, GitTypeOK, Steps
<1>. QED
  BY <1>1, TypesStay, PTL

-----------------------------------------------------------------------------
(* What is collected at each step.                                         *)

HashesOf(c) == {e.hash : e \in {x \in Collected : x.workspace = c}}

\* The clones whose log could not be read.
Unread == {c \in Clones : <<c, "open">> \in diags \/ <<c, "log">> \in diags}

BranchTold(c, b) ==
  /\ b \in BranchesOf(c)
  /\ b = None => <<c, "branch">> \in diags \/ \E s \in Heads[c] : s.branch = None

\* The log of the clone being read is known.
HasLog == step \in {"branch", "origin"}

ResultInv ==
  /\ \A c \in DOMAIN found : c \notin repos => HashesOf(c) = found[c]
  /\ \A e \in Collected : /\ e.workspace \in DOMAIN found /\ e.workspace \notin repos
                          /\ BranchTold(e.workspace, e.branch)
  /\ \A c \in repos : c \in DOMAIN found <=> (c = Repo /\ HasLog)
  /\ HasLog => found[Repo] = {h \in log : Contains(span, Commits[h].time)}
  /\ met = repos \cup DOMAIN found \cup Unread
  /\ Unread \cap (repos \cup DOMAIN found) = {}
  /\ IF step = "origin" THEN BranchTold(Repo, branch) ELSE branch = None
  /\ step = "write" => repos = {}
  /\ step = "idle" => repos = {} /\ DOMAIN found = {} /\ events = <<>> /\ diags = {}

\* git's bounds let all through that is wanted.
LEMMA LoggedIsWanted ==
  ASSUME NEW c \in Clones, TypeInv
  PROVE  {h \in Logged(clones[c], span) : Contains(span, Commits[h].time)} = Wanted(clones[c], span)
<1>1. clones[c].reach \subseteq DOMAIN Commits
  BY HeadsAssumption DEF TypeInv
<1>2. span.start \in Nat /\ span.end \in Nat
  BY SpansAssumption DEF TypeInv, Unbounded, ZeroTime
<1>3. \A h \in clones[c].reach : Commits[h].time \in Nat
  BY <1>1, CommitsAssumption
<1>4. \A h \in clones[c].reach : Contains(span, Commits[h].time) =>
        /\ span.start # ZeroTime => Commits[h].time >= span.start
        /\ span.end # ZeroTime => Commits[h].time <= span.end
  BY <1>2, <1>3 DEF Contains
<1>. QED
  BY <1>4 DEF Logged, Wanted

\* Nothing is collected in the end.
LEMMA FinishedResult ==
  ASSUME Finished
  PROVE  ResultInv'
<1>1. DOMAIN found' = {} /\ DOMAIN events' = {}
  BY EmptyIs DEF Finished
<1>2. Collected' = {} /\ Unread' = {}
  BY <1>1 DEF Collected, Unread, Finished
<1>. QED
  BY <1>1, <1>2 DEF ResultInv, Finished, HasLog

\* Whatever is said of branches stays said.
LEMMA MoreIsTold ==
  ASSUME diags \subseteq diags', NEW c, NEW b, BranchTold(c, b)
  PROVE  BranchTold(c, b)'
BY DEF BranchTold

\* Going on to the next clone, after one whose log could not be read.
LEMMA UnreadResult ==
  ASSUME TypeInv, ResultInv, step \in {"next", "log"}, repos # {}, OnToNext,
         NEW action \in {"open", "log"}, Diagnosed(action),
         UNCHANGED <<events, met, found>>
  PROVE  ResultInv'
<1>1. Repo \in repos /\ Repo \in Clones
  BY RepoIs DEF TypeInv
<1>2. Collected' = Collected /\ Unread' = Unread \cup {Repo}
  BY <1>1 DEF Collected, Unread, Diagnosed
<1>3. Repo \notin DOMAIN found
  BY <1>1 DEF ResultInv, HasLog
<1>4. \A e \in Collected : BranchTold(e.workspace, e.branch)'
  BY MoreIsTold DEF ResultInv, Diagnosed
<1>5. \A c : HashesOf(c)' = HashesOf(c)
  BY <1>2 DEF HashesOf
<1>6. step' = "next" /\ repos' = repos \ {Repo} /\ branch' = None
  BY DEF OnToNext
<1>7. \A c \in repos : c # Repo => c \notin DOMAIN found
  BY DEF ResultInv
<1>. QED
  BY <1>1, <1>2, <1>3, <1>4, <1>5, <1>6, <1>7 DEF ResultInv, HasLog

\* When the log has been read, there is something to collect, or nothing to wait for.
LEMMA ReadLogResult ==
  ASSUME TypeInv, ResultInv, ReadLog
  PROVE  ResultInv'
<1>1. step = "log" /\ repos # {} /\ Repo \in repos /\ Repo \in Clones
  BY RepoIs DEF TypeInv, ReadLog, Reading
<1>2. CASE Fails /\ Diagnosed("log") /\ OnToNext /\ UNCHANGED found
  BY <1>1, <1>2, UnreadResult DEF ReadLog
<1>3. CASE /\ Works
           /\ log' = Logged(clones[Repo], span)
           /\ found' = [c \in DOMAIN found \cup {Repo} |-> IF c = Repo THEN Wanted(clones[Repo], span) ELSE found[c]]
           /\ IF log' = {} THEN step' = "next" /\ repos' = repos \ {Repo}
              ELSE step' = "branch" /\ UNCHANGED repos
           /\ UNCHANGED <<branch, diags>>
  <2>1. /\ Collected' = Collected /\ Unread' = Unread /\ branch' = None
        /\ \A c : HashesOf(c)' = HashesOf(c)
        /\ \A c, b : BranchTold(c, b)' = BranchTold(c, b)
    BY <1>1, <1>3 DEF ResultInv, ReadLog, Collected, Unread, HashesOf, BranchTold
  <2>2. DOMAIN found' = DOMAIN found \cup {Repo} /\ \A c \in DOMAIN found : c # Repo => found'[c] = found[c]
    BY <1>3
  <2>3. found'[Repo] = {h \in log' : Contains(span, Commits[h].time)}
    BY <1>1, <1>3, LoggedIsWanted
  <2>4. Repo \notin DOMAIN found /\ \A c \in repos : c \notin DOMAIN found
    BY <1>1 DEF ResultInv, HasLog
  <2>5. \A e \in Collected : e.workspace # Repo
    BY <1>1 DEF ResultInv
  <2>6. HashesOf(Repo) = {}
    BY <2>5 DEF HashesOf
  <2>7. Repo \notin Unread
    BY <1>1 DEF ResultInv
  <2>8. span' = span /\ met' = met
    BY DEF ReadLog
  <2>9. CASE log' = {}
    BY <1>1, <1>3, <2>1, <2>2, <2>3, <2>4, <2>5, <2>6, <2>7, <2>8, <2>9 DEF ResultInv, HasLog
  <2>10. CASE log' # {}
    <3>1. repos' = repos /\ Repo' = Repo /\ step' = "branch"
      BY <1>3, <2>10 DEF Repo
    <3>. QED
      BY <1>1, <2>1, <2>2, <2>3, <2>4, <2>5, <2>7, <2>8, <3>1 DEF ResultInv, HasLog
  <2>. QED
    BY <2>9, <2>10
<1>. QED
  BY <1>2, <1>3 DEF ReadLog

\* The branch read is that of the clone, or a diagnostic says it could not be read.
LEMMA ReadBranchResult ==
  ASSUME TypeInv, ResultInv, ReadBranch
  PROVE  ResultInv'
<1>1. step = "branch" /\ repos # {} /\ Repo \in repos /\ Repo \in Clones
  BY RepoIs DEF TypeInv, ReadBranch, Reading
<1>2. /\ repos' = repos /\ Repo' = Repo /\ step' = "origin"
      /\ Collected' = Collected /\ \A c : HashesOf(c)' = HashesOf(c)
  BY DEF ReadBranch, Repo, Collected, HashesOf
<1>3. Unread' = Unread /\ diags \subseteq diags'
  BY DEF ReadBranch, Unread, Diagnosed
<1>4. BranchTold(Repo, branch)'
  <2>1. CASE Works /\ branch' = clones[Repo].branch /\ UNCHANGED diags
    BY <1>1, <1>2, <2>1 DEF TypeInv, BranchTold, BranchesOf
  <2>2. CASE Fails /\ Diagnosed("branch") /\ UNCHANGED branch
    BY <1>1, <1>2, <2>2 DEF ResultInv, BranchTold, BranchesOf, Diagnosed
  <2>. QED
    BY <2>1, <2>2 DEF ReadBranch
<1>5. \A e \in Collected : BranchTold(e.workspace, e.branch)'
  BY <1>3, MoreIsTold DEF ResultInv
<1>6. UNCHANGED <<span, log, met, found>>
  BY DEF ReadBranch
<1>. QED
  BY <1>1, <1>2, <1>3, <1>4, <1>5, <1>6 DEF ResultInv, HasLog

\* Whether the origin is known or not, the commits are collected.
LEMMA ReadOriginResult ==
  ASSUME TypeInv, ResultInv, ReadOrigin
  PROVE  ResultInv'
<1>1. step = "origin" /\ repos # {} /\ Repo \in repos /\ Repo \in Clones
  BY RepoIs DEF TypeInv, ReadOrigin, Reading
<1>0. PICK r \in Clones, b \in Branches : r = Repo /\ b = branch
  BY <1>1 DEF TypeInv
<1>. DEFINE new == EventsOf(log, span, r, b)
<1>2. /\ new \subseteq GoodEvents
      /\ \A e \in new : e.workspace = r /\ e.branch = b
      /\ {e.hash : e \in new} = {h \in log : Contains(span, Commits[h].time)}
  <2>1. log \in SUBSET DOMAIN Commits
    BY DEF TypeInv
  <2>2. PICK hs, p : hs \in SUBSET DOMAIN Commits /\ hs = log /\ p = span
    BY <2>1
  <2>3. /\ EventsOf(hs, p, r, b) \subseteq GoodEvents
        /\ \A e \in EventsOf(hs, p, r, b) : e.workspace = r /\ e.branch = b
        /\ {e.hash : e \in EventsOf(hs, p, r, b)} = {h \in hs : Contains(p, Commits[h].time)}
    BY <2>2, EventsAreGood
  <2>. QED
    BY <2>2, <2>3
<1>3. Collected' = Collected \cup new
  BY <1>0, <1>2, CollectedGrows DEF TypeInv, ReadOrigin
<1>4. Unread' = Unread /\ diags \subseteq diags'
  BY DEF ReadOrigin, Unread, Diagnosed
<1>5. BranchTold(r, b)
  BY <1>0, <1>1 DEF ResultInv
<1>6. \A e \in Collected \cup new : BranchTold(e.workspace, e.branch)'
  BY <1>2, <1>4, <1>5, MoreIsTold DEF ResultInv
<1>7. \A e \in Collected : e.workspace # r
  BY <1>0, <1>1 DEF ResultInv
<1>8. HashesOf(r)' = {e.hash : e \in new} /\ \A c : c # r => HashesOf(c)' = HashesOf(c)
  BY <1>2, <1>3, <1>7 DEF HashesOf
<1>9. found[r] = {h \in log : Contains(span, Commits[h].time)} /\ r \in DOMAIN found /\ r \in repos
  BY <1>0, <1>1 DEF ResultInv, HasLog
<1>10. /\ repos' = repos \ {r} /\ step' = "next" /\ branch' = None
       /\ UNCHANGED <<met, found>>
  BY <1>0 DEF ReadOrigin, OnToNext
<1>11. \A c \in repos : c # r => c \notin DOMAIN found
  BY <1>0 DEF ResultInv
<1>. QED
  BY <1>1, <1>2, <1>3, <1>4, <1>6, <1>8, <1>9, <1>10, <1>11 DEF ResultInv, HasLog

\* A step whatever.
LEMMA StepResult ==
  ASSUME TypeInv, ResultInv, GNext
  PROVE  ResultInv'
<1>1. ASSUME UNCHANGED <<step, repos, log, branch, span, events, diags, met, found>>
      PROVE  ResultInv'
  BY <1>1 DEF ResultInv, HasLog, Collected, HashesOf, Unread, BranchTold, Repo
<1>2. ASSUME NEW c \in Clones, Move(c)
      PROVE  ResultInv'
  BY <1>1, <1>2 DEF Move, import
<1>3. ASSUME NEW p \in Spans, Discover(p)
      PROVE  ResultInv'
  <2>1. /\ step = "idle" /\ DOMAIN found = {} /\ events = <<>> /\ diags = {} /\ branch = None
        /\ step' = "next" /\ met' = repos'
        /\ UNCHANGED <<branch, events, diags, found>>
    BY <1>3 DEF ResultInv, Discover
  <2>2. Collected' = {} /\ Unread' = {}
    BY <2>1, EmptyIs DEF Collected, Unread
  <2>. QED
    BY <2>1, <2>2 DEF ResultInv, HasLog
<1>4. CASE EndContext
  BY <1>1, <1>4 DEF EndContext
<1>5. CASE GiveUp \/ Stored \/ Die
  BY <1>5, FinishedResult DEF GiveUp, Stored, Die
<1>6. CASE Open
  <2>1. CASE Fails /\ Diagnosed("open") /\ OnToNext
    BY <1>6, <2>1, UnreadResult DEF Open
  <2>2. CASE Works /\ step' = "log" /\ UNCHANGED <<repos, log, branch, diags>>
    BY <1>6, <2>2 DEF Open, ResultInv, HasLog, Collected, HashesOf, Unread, BranchTold, Repo
  <2>. QED
    BY <1>6, <2>1, <2>2 DEF Open
<1>7. CASE Deliver
  BY <1>7 DEF Deliver, ResultInv, HasLog, Collected, HashesOf, Unread, BranchTold, Repo
<1>8. CASE StoreDay
  BY <1>1, <1>8 DEF StoreDay
<1>. QED
  BY <1>2, <1>3, <1>4, <1>5, <1>6, <1>7, <1>8, ReadLogResult, ReadBranchResult, ReadOriginResult DEF GNext

\* A result is so at each step.
LEMMA ResultStays == GSpec => []ResultInv
<1>1. GInit => ResultInv
  <2>1. GInit => Collected = {} /\ Unread = {} /\ DOMAIN found = {}
    BY EmptyIs DEF GInit, Collected, Unread
  <2>. QED
    BY <2>1 DEF GInit, ResultInv, HasLog
<1>2. TypeInv /\ ResultInv /\ [GNext]_gvars => ResultInv'
  <2>1. ResultInv /\ UNCHANGED gvars => ResultInv'
    BY DEF gvars, import, ResultInv, HasLog, Collected, HashesOf, Unread, BranchTold, Repo
  <2>. QED
    BY <2>1, StepResult
<1>. QED
  BY <1>1, <1>2, TypesStay, PTL DEF GSpec

\* A tool is at its first trailer only.
LEMMA ToolsOnce ==
  ASSUME NEW h \in DOMAIN Commits, NEW m \in DOMAIN AITools(Commits[h]), NEW n \in DOMAIN AITools(Commits[h]),
         AITools(Commits[h])[m] = AITools(Commits[h])[n]
  PROVE  m = n
<1>. DEFINE toolAt(k) == AIToolByEmail(Commits[h].coAuthors[k])
<1>1. /\ m \in Nat /\ n \in Nat /\ m >= 1 /\ n >= 1
      /\ toolAt(m) = toolAt(n)
      /\ \A k \in 1 .. m - 1 : toolAt(k) # toolAt(m)
      /\ \A k \in 1 .. n - 1 : toolAt(k) # toolAt(n)
  BY CommitsAssumption DEF AITools
<1>. QED
  BY <1>1

\* A result has just the commits its clones held in the period when their logs were
\* read, and tells each of its own clone; what could not be read is diagnosed.
THEOREM ResultsAreExact == GSpec => []GitResultIsExact
<1>1. TypeInv /\ ResultInv => GitResultIsExact
  <2>. SUFFICES ASSUME TypeInv, ResultInv, step = "write"
                PROVE  /\ \A c \in DOMAIN found : {e.hash : e \in {x \in Collected : x.workspace = c}} = found[c]
                       /\ \A e \in Collected : e.workspace \in DOMAIN found
                       /\ met \ DOMAIN found = {c \in Clones : <<c, "open">> \in diags \/ <<c, "log">> \in diags}
                       /\ \A e \in Collected :
                            /\ e.branch \in BranchesOf(e.workspace)
                            /\ e.branch = None => <<e.workspace, "branch">> \in diags \/ \E s \in Heads[e.workspace] : s.branch = None
                            /\ \A m, n \in DOMAIN e.tools : e.tools[m] = e.tools[n] => m = n
    BY DEF GitResultIsExact
  <2>1. repos = {} /\ step # "origin"
    BY DEF ResultInv
  <2>2. \A e \in Collected : \A m, n \in DOMAIN e.tools : e.tools[m] = e.tools[n] => m = n
    BY CollectedGood, GoodEvent, ToolsOnce
  <2>3. \A e \in Collected : BranchTold(e.workspace, e.branch)
    BY DEF ResultInv
  <2>4. \A c \in DOMAIN found : HashesOf(c) = found[c]
    BY <2>1 DEF ResultInv
  <2>5. met \ DOMAIN found = Unread
    BY <2>1 DEF ResultInv
  <2>. QED
    BY <2>2, <2>3, <2>4, <2>5 DEF ResultInv, BranchTold, HashesOf, Unread
<1>. QED
  BY <1>1, TypesStay, ResultStays, PTL

-----------------------------------------------------------------------------
(* What is stored.                                                         *)

\* What one clone yields has no commit twice.
BatchesOK == \A n \in DOMAIN events : \A e, x \in events[n] : e.hash = x.hash => e = x

\* A commit is stored, and no append will take it away.
IsSafe(h) == \E e \in Safe(kept[DayOf(Commits[h].time)]) : e.hash = h

\* What is due has been collected.
DueIsCollected == step = "write" => \A h \in due : \E e \in Collected : e.hash = h

\* What is due and not written yet is still to come.
Covered ==
  step = "write" => \A e \in Collected : e.hash \in due => DayOf(e.time) \in unwritten \/ IsSafe(e.hash)

OwedIsSafe == \A h \in owed : IsSafe(h)

StoreInv == BatchesOK /\ OneEventPerCommit /\ DueIsCollected /\ Covered /\ OwedIsSafe

\* An event that is stored or collected is told by its commit, which tells its day.
LEMMA EventOfCommit ==
  ASSUME TypeInv, NEW e \in Collected \cup CommitsKept
  PROVE  /\ e.id = <<"git:commit:", e.hash>> /\ e.time = Commits[e.hash].time /\ e.hash \in DOMAIN Commits
         /\ DayOf(e.time) \in CommitDays
<1>1. CommitsKept \subseteq GoodEvents
  BY DEF TypeInv, KeptOK, DayFiles, CommitsKept
<1>2. e \in GoodEvents
  BY <1>1, CollectedGood
<1>. QED
  BY <1>2, GoodEvent DEF CommitDays

\* Of the events new to a day, each commit has one, and the day has none of it.
LEMMA FirstOnDayIsNew ==
  ASSUME TypeInv, BatchesOK, NEW d \in CommitDays, NEW e \in FirstOnDay(d)
  PROVE  /\ \A x \in FirstOnDay(d) : e.hash = x.hash => e = x
         /\ \A x \in kept[d].events : e.hash # x.hash
<1>1. e \in Collected /\ \A x \in kept[d].events : x.id # e.id
  BY DEF FirstOnDay
<1>2. \A x \in kept[d].events : x \in CommitsKept
  BY DEF CommitsKept
<1>3. ASSUME NEW x \in FirstOnDay(d), e.hash = x.hash
      PROVE  e = x
  <2>1. x \in Collected /\ e.id = x.id
    BY <1>1, <1>3, EventOfCommit DEF FirstOnDay
  <2>2. PICK n \in DOMAIN events : e \in events[n] /\ \A m \in 1 .. n - 1 : \A y \in events[m] : y.id # e.id
    BY DEF FirstOnDay
  <2>3. PICK k \in DOMAIN events : x \in events[k] /\ \A m \in 1 .. k - 1 : \A y \in events[m] : y.id # x.id
    BY DEF FirstOnDay
  <2>4. n \in Nat /\ k \in Nat /\ n >= 1 /\ k >= 1
    BY DEF TypeInv
  <2>5. ~(n < k) /\ ~(k < n)
    BY <2>1, <2>2, <2>3, <2>4
  <2>6. n = k
    BY <2>4, <2>5
  <2>. QED
    BY <1>3, <2>2, <2>3, <2>6 DEF BatchesOK
<1>. QED
  BY <1>1, <1>2, <1>3, EventOfCommit

\* Such events may be added to their day, or some of them.
LEMMA OneEventStill ==
  ASSUME TypeInv, BatchesOK, OneEventPerCommit, NEW d \in CommitDays, NEW c,
         c.events \subseteq kept[d].events \cup FirstOnDay(d), kept' = [kept EXCEPT ![d] = c]
  PROVE  OneEventPerCommit'
<1>1. kept'[d] = c /\ \A b \in CommitDays \ {d} : kept'[b] = kept[b]
  BY DEF TypeInv, KeptOK
<1>2. CommitsKept' \subseteq CommitsKept \cup FirstOnDay(d)
  BY <1>1 DEF CommitsKept
<1>3. ASSUME NEW e \in FirstOnDay(d), NEW x \in CommitsKept
      PROVE  e.hash # x.hash
  <2>1. PICK b \in CommitDays : x \in kept[b].events
    BY DEF CommitsKept
  <2>2. DayOf(x.time) = b /\ DayOf(e.time) = d
    BY <2>1, FirstOnDayIs DEF TypeInv, KeptOK
  <2>3. CASE b = d
    BY <2>1, <2>3, FirstOnDayIsNew
  <2>4. CASE b # d
    <3>1. e.time = Commits[e.hash].time /\ x.time = Commits[x.hash].time
      BY EventOfCommit DEF FirstOnDay
    <3>. QED
      BY <2>2, <2>4, <3>1
  <2>. QED
    BY <2>3, <2>4
<1>. QED
  BY <1>2, <1>3, FirstOnDayIsNew DEF OneEventPerCommit

\* What is safe stays so when a day file is changed so.
LEMMA SafeStays ==
  ASSUME TypeInv, NEW d \in CommitDays, NEW c, kept' = [kept EXCEPT ![d] = c],
         Safe(kept[d]) \subseteq Safe(c), NEW h \in DOMAIN Commits, IsSafe(h)
  PROVE  IsSafe(h)'
<1>1. kept'[d] = c /\ \A b \in CommitDays \ {d} : kept'[b] = kept[b]
  BY DEF TypeInv, KeptOK
<1>2. DayOf(Commits[h].time) \in CommitDays
  BY DEF CommitDays
<1>. QED
  BY <1>1, <1>2 DEF IsSafe

\* Of each commit collected for a day, one event is stored, and only one.
LEMMA StoreDayStores ==
  ASSUME TypeInv, StoreInv, StoreDay
  PROVE  StoreInv'
<1>1. PICK d \in CommitDays : d = NextDay /\ d \in unwritten
  BY NextDayIs DEF StoreDay
<1>2. PICK c \in Saved(kept[d], FirstOnDay(d)) : kept' = [kept EXCEPT ![d] = c]
  BY <1>1 DEF StoreDay
<1>3. /\ step = "write" /\ UNCHANGED <<step, events, owed>> /\ Collected' = Collected
      /\ unwritten' = unwritten \ {d}
      /\ due' = {h \in due : ~(DayOf(Commits[h].time) = d /\ kept[d].open)}
  BY <1>1 DEF StoreDay, Collected
<1>4. /\ c.events \subseteq kept[d].events \cup FirstOnDay(d)
      /\ Safe(kept[d]) \subseteq Safe(c)
      /\ ~kept[d].open => Safe(c) = kept[d].events \cup FirstOnDay(d)
  BY SavedDay
<1>5. OneEventPerCommit'
  BY <1>2, <1>4, OneEventStill DEF StoreInv
<1>6. \A h \in DOMAIN Commits : IsSafe(h) => IsSafe(h)'
  BY <1>2, <1>4, SafeStays
<1>7. ASSUME NEW e \in Collected, DayOf(e.time) = d, ~kept[d].open
      PROVE  IsSafe(e.hash)'
  <2>1. /\ e.hash \in DOMAIN Commits /\ e.time = Commits[e.hash].time
        /\ e.id = <<"git:commit:", e.hash>>
    BY EventOfCommit
  <2>2. kept'[d] = c
    BY <1>2 DEF TypeInv, KeptOK
  <2>3. SUFFICES \E x \in kept[d].events \cup FirstOnDay(d) : x.hash = e.hash
    BY <1>4, <1>7, <2>1, <2>2 DEF IsSafe
  <2>4. CASE ~ \E x \in kept[d].events : x.hash = e.hash
    <3>. DEFINE places == {n \in DOMAIN events : \E x \in events[n] : x.id = e.id}
    <3>1. places \in SUBSET Nat /\ places # {}
      BY DEF TypeInv, Collected
    <3>2. PICK n \in places : \A m \in places : n <= m
      BY <3>1, Least
    <3>3. PICK x \in events[n] : x.id = e.id
      BY <3>2
    <3>4. x \in Collected
      BY <3>2, <3>3 DEF Collected
    <3>5. x.hash = e.hash /\ DayOf(x.time) = d
      <4>1. x.id = <<"git:commit:", x.hash>> /\ x.time = Commits[x.hash].time
        BY <3>4, EventOfCommit
      <4>. QED
        BY <1>7, <2>1, <3>3, <4>1
    <3>6. \A y \in kept[d].events : y.id # x.id
      <4>1. \A y \in kept[d].events : y.id = <<"git:commit:", y.hash>>
        BY EventOfCommit DEF CommitsKept
      <4>. QED
        BY <2>1, <2>4, <3>3, <4>1
    <3>7. \A m \in 1 .. n - 1 : \A y \in events[m] : y.id # x.id
      BY <3>2, <3>3 DEF TypeInv
    <3>. QED
      BY <3>2, <3>3, <3>4, <3>5, <3>6, <3>7 DEF FirstOnDay
  <2>. QED
    BY <2>4
<1>8. Covered'
  <2>. SUFFICES ASSUME NEW e \in Collected, e.hash \in due'
                PROVE  DayOf(e.time) \in unwritten' \/ IsSafe(e.hash)'
    BY <1>3 DEF Covered
  <2>1. e.hash \in due /\ e.hash \in DOMAIN Commits /\ e.time = Commits[e.hash].time
    BY <1>3, EventOfCommit
  <2>2. CASE DayOf(e.time) = d
    BY <1>3, <1>7, <2>1, <2>2
  <2>3. CASE DayOf(e.time) # d
    <3>1. DayOf(e.time) \in unwritten \/ IsSafe(e.hash)
      BY <1>3, <2>1 DEF StoreInv, Covered
    <3>. QED
      BY <1>3, <1>6, <2>1, <2>3, <3>1
  <2>. QED
    BY <2>2, <2>3
<1>9. BatchesOK' /\ DueIsCollected'
  BY <1>3 DEF StoreInv, BatchesOK, DueIsCollected
<1>10. OwedIsSafe'
  BY <1>3, <1>6 DEF TypeInv, StoreInv, OwedIsSafe
<1>. QED
  BY <1>5, <1>8, <1>9, <1>10 DEF StoreInv

\* An import that ends leaves what is safe, and one event of each commit.
LEMMA FinishedStores ==
  ASSUME StoreInv, Finished, OneEventPerCommit', OwedIsSafe'
  PROVE  StoreInv'
<1>1. events' = <<>> /\ step' # "write"
  BY DEF Finished
<1>. QED
  BY <1>1, EmptyIs DEF StoreInv, BatchesOK, DueIsCollected, Covered

\* Even when it dies in the middle of an append.
LEMMA DieStores ==
  ASSUME TypeInv, StoreInv, Die
  PROVE  StoreInv'
<1>1. Finished /\ owed' = owed
  BY DEF Die
<1>2. CASE UNCHANGED kept
  BY <1>1, <1>2, FinishedStores DEF StoreInv, OneEventPerCommit, CommitsKept, OwedIsSafe, IsSafe
<1>3. ASSUME unwritten # {},
             NEW c \in Interrupted(kept[NextDay], SomeOf(FirstOnDay(NextDay))), kept' = [kept EXCEPT ![NextDay] = c]
      PROVE  StoreInv'
  <2>1. NextDay \in CommitDays
    BY <1>3, NextDayIs
  <2>2. c.events \subseteq kept[NextDay].events \cup FirstOnDay(NextDay) /\ Safe(kept[NextDay]) \subseteq Safe(c)
    BY <1>3, <2>1, InterruptedDay
  <2>3. OneEventPerCommit'
    BY <1>3, <2>1, <2>2, OneEventStill DEF StoreInv
  <2>4. OwedIsSafe'
    BY <1>1, <1>3, <2>1, <2>2, SafeStays DEF TypeInv, StoreInv, OwedIsSafe
  <2>. QED
    BY <1>1, <2>3, <2>4, FinishedStores
<1>. QED
  BY <1>2, <1>3 DEF Die

\* A step whatever; what an import that is done had to store is safe.
LEMMA StepStores ==
  ASSUME TypeInv, ResultInv, StoreInv, GNext
  PROVE  StoreInv'
<1>. USE DEF OneEventPerCommit, CommitsKept, OwedIsSafe, IsSafe
<1>1. ASSUME UNCHANGED <<events, kept, owed>>, step' # "write"
      PROVE  StoreInv'
  BY <1>1 DEF StoreInv, BatchesOK, DueIsCollected, Covered
<1>2. ASSUME UNCHANGED <<step, events, unwritten, kept, due, owed>>
      PROVE  StoreInv'
  BY <1>2 DEF StoreInv, BatchesOK, DueIsCollected, Covered, Collected
<1>3. ASSUME Finished, UNCHANGED <<kept, owed>>
      PROVE  StoreInv'
  BY <1>3, FinishedStores DEF StoreInv
<1>4. ASSUME NEW c \in Clones, Move(c)
      PROVE  StoreInv'
  BY <1>2, <1>4 DEF Move, import
<1>5. ASSUME NEW p \in Spans, Discover(p)
      PROVE  StoreInv'
  BY <1>1, <1>5 DEF Discover
<1>6. CASE EndContext
  BY <1>2, <1>6 DEF EndContext
<1>7. CASE GiveUp
  BY <1>3, <1>7 DEF GiveUp
<1>8. CASE Open \/ ReadLog \/ ReadBranch
  BY <1>1, <1>8 DEF Open, ReadLog, ReadBranch, OnToNext
<1>9. CASE ReadOrigin
  <2>1. \A e, x \in EventsOf(log, span, Repo, branch) : e.hash = x.hash => e = x
    BY DEF EventsOf, CommitEvent
  <2>2. /\ repos # {} /\ Repo \in Clones
    BY <1>9, RepoIs DEF TypeInv, ReadOrigin, Reading
  <2>3. EventsOf(log, span, Repo, branch) \in SUBSET GoodEvents
    BY <2>2, EventsAreGood DEF TypeInv
  <2>4. \A n \in DOMAIN events' : events'[n] = EventsOf(log, span, Repo, branch) \/ (n \in DOMAIN events /\ events'[n] = events[n])
    BY <1>9, <2>3 DEF TypeInv, ReadOrigin
  <2>5. BatchesOK'
    BY <2>1, <2>4 DEF StoreInv, BatchesOK
  <2>. QED
    BY <1>9, <2>5 DEF ReadOrigin, OnToNext, StoreInv, DueIsCollected, Covered
<1>10. CASE Deliver
  <2>1. /\ repos = {} /\ UNCHANGED <<events, kept, owed>> /\ Collected' = Collected
        /\ unwritten' = {DayOf(e.time) : e \in Collected}
        /\ due' = UNION {found[c] : c \in DOMAIN found}
    BY <1>10 DEF Deliver, Collected
  <2>2. \A c \in DOMAIN found : HashesOf(c) = found[c]
    BY <2>1 DEF ResultInv
  <2>3. DueIsCollected'
    BY <2>1, <2>2 DEF DueIsCollected, HashesOf
  <2>. QED
    BY <2>1, <2>3 DEF StoreInv, BatchesOK, Covered
<1>11. CASE StoreDay
  BY <1>11, StoreDayStores
<1>12. CASE Stored
  <2>1. step = "write" /\ unwritten = {} /\ kept' = kept /\ Finished /\ owed' = owed \cup due
    BY <1>12 DEF Stored
  <2>2. \A h \in due : IsSafe(h)
    BY <2>1 DEF StoreInv, DueIsCollected, Covered
  <2>3. OwedIsSafe'
    BY <2>1, <2>2 DEF StoreInv
  <2>. QED
    BY <2>1, <2>3, FinishedStores DEF StoreInv
<1>. QED
  BY <1>4, <1>5, <1>6, <1>7, <1>8, <1>9, <1>10, <1>11, <1>12, DieStores DEF GNext

\* The store is so at each step.
LEMMA StoreStays == GSpec => []StoreInv
<1>1. GInit => StoreInv
  <2>1. GInit => CommitsKept = {}
    BY EmptyDayFacts DEF GInit, CommitsKept
  <2>. QED
    BY <2>1, EmptyIs DEF GInit, StoreInv, BatchesOK, OneEventPerCommit, DueIsCollected, Covered, OwedIsSafe
<1>2. TypeInv /\ ResultInv /\ StoreInv /\ [GNext]_gvars => StoreInv'
  <2>1. StoreInv /\ UNCHANGED gvars => StoreInv'
    BY DEF gvars, import, StoreInv, BatchesOK, OneEventPerCommit, CommitsKept, DueIsCollected, Covered, OwedIsSafe, IsSafe, Collected
  <2>. QED
    BY <2>1, StepStores
<1>. QED
  BY <1>1, <1>2, TypesStay, ResultStays, PTL DEF GSpec

\* However many clones hold a commit, and whichever can be read, it is stored once.
THEOREM CommitsCountOnce == GSpec => []OneEventPerCommit
<1>1. StoreInv => OneEventPerCommit
  BY DEF StoreInv
<1>. QED
  BY <1>1, StoreStays, PTL

\* What an import could read is stored when it is done, and stays so, whatever dies
\* or fails in the middle of an append; but for days whose file ended in a torn line.
THEOREM ReadCommitsStay == GSpec => []CommitsAreKept
<1>1. StoreInv => CommitsAreKept
  BY DEF StoreInv, OwedIsSafe, IsSafe, Safe, CommitsAreKept
<1>. QED
  BY <1>1, StoreStays, PTL

-----------------------------------------------------------------------------
(* The identity map.                                                       *)

\* The identities NewMap has put in the map.
Done == {p \in Places(people) : p[1] < at \/ (p[1] = at /\ p[2] < entry)}

\* Where NewMap can be.
CursorOK ==
  /\ at \in 1 .. Len(people) + 1 /\ entry \in Nat
  /\ at > Len(people) => entry = 0
  /\ at <= Len(people) => entry <= Len(people[at].identities) + 1

\* What it has seen is sound, and the map has just that.
SoFar ==
  /\ \A i \in DOMAIN people : i < at \/ (i = at /\ entry > 0) => people[i].personId # NoPerson
  /\ \A p \in Done : Complete(IdentityAt(people, p))
  /\ DOMAIN owner = {Key(IdentityAt(people, p)) : p \in Done}
  /\ \A p \in Done : owner[Key(IdentityAt(people, p))] = ClaimantAt(people, p)

MapInv ==
  /\ people \in Configs
  /\ status = "building" => CursorOK /\ SoFar
  /\ MapIsExact

-----------------------------------------------------------------------------
\* A place is a person and one of their identities.
LEMMA PlaceIs ==
  ASSUME NEW c \in Configs, NEW p
  PROVE  p \in Places(c) <=> \E i \in DOMAIN c : \E n \in DOMAIN c[i].identities : p = <<i, n>>
BY DEF Places

\* Places are numbers.
LEMMA PlaceTypes ==
  ASSUME NEW c \in Configs, NEW p \in Places(c)
  PROVE  /\ p[1] \in 1 .. Len(c) /\ p[2] \in 1 .. Len(c[p[1]].identities)
         /\ p = <<p[1], p[2]>> /\ Len(c) \in Nat /\ Len(c[p[1]].identities) \in Nat
BY PlaceIs, ConfigsAssumption

\* The loop is a loop over all places.
LEMMA NewMapPreserves ==
  ASSUME MapInv, NewMap
  PROVE  MapInv'
<1>1. Len(people) \in Nat
  BY ConfigsAssumption DEF MapInv
<1>2. Done' = {}
  BY PlaceTypes DEF NewMap, MapInv, Done
<1>3. CursorOK'
  BY <1>1, ConfigsAssumption DEF NewMap, MapInv, CursorOK
<1>4. SoFar'
  BY <1>1, <1>2, ConfigsAssumption DEF NewMap, MapInv, SoFar
<1>. QED
  BY <1>3, <1>4 DEF NewMap, MapInv, MapIsExact

\* Beginning a person adds nothing to the map.
LEMMA BeginPersonPreserves ==
  ASSUME MapInv, BeginPerson
  PROVE  MapInv'
<1>1. CursorOK /\ SoFar /\ people \in Configs
  BY DEF MapInv, BeginPerson
<1>2. at \in DOMAIN people /\ Len(people) \in Nat /\ Len(Person.identities) \in Nat
  BY <1>1, ConfigsAssumption DEF CursorOK, BeginPerson, Person
<1>3. CASE Person.personId = NoPerson /\ Reject
  BY <1>1, <1>2, <1>3 DEF MapInv, MapIsExact, Sound, Reject, Person
<1>4. CASE /\ Person.personId # NoPerson
           /\ entry' = 1
           /\ UNCHANGED <<people, status, at, owner>>
  <2>1. Done' = Done
    BY <1>1, <1>4, PlaceTypes DEF Done, BeginPerson
  <2>2. CursorOK'
    BY <1>1, <1>2, <1>4 DEF CursorOK, Person
  <2>3. SoFar'
    BY <1>1, <1>2, <1>4, <2>1 DEF SoFar, Person
  <2>. QED
    BY <1>1, <1>4, <2>2, <2>3 DEF MapInv, MapIsExact, BeginPerson
<1>. QED
  BY <1>3, <1>4 DEF BeginPerson

\* The place NewMap has come to.
LEMMA AtPlace ==
  ASSUME MapInv, AtIdentity
  PROVE  /\ CursorOK /\ SoFar /\ people \in Configs
         /\ at \in DOMAIN people
         /\ <<at, entry>> \in Places(people) /\ <<at, entry>> \notin Done
         /\ Entry = IdentityAt(people, <<at, entry>>)
         /\ Person.personId = ClaimantAt(people, <<at, entry>>)
         /\ at \in Nat /\ entry \in Nat
<1>1. CursorOK /\ SoFar /\ people \in Configs
  BY DEF MapInv, AtIdentity
<1>2. at \in DOMAIN people /\ at \in Nat /\ entry \in Nat
  BY <1>1, ConfigsAssumption DEF CursorOK, AtIdentity
<1>. QED
  BY <1>1, <1>2, PlaceIs DEF AtIdentity, Person, Entry, IdentityAt, ClaimantAt, Done

\* An identity that is added is the only new one, and clashes with none before.
LEMMA AddPreserves ==
  ASSUME MapInv, Add
  PROVE  MapInv'
<1>. DEFINE here == <<at, entry>>
            key == Key(Entry)
<1>1. /\ CursorOK /\ SoFar /\ people \in Configs
      /\ at \in DOMAIN people
      /\ here \in Places(people) /\ here \notin Done
      /\ Entry = IdentityAt(people, here)
      /\ Person.personId = ClaimantAt(people, here)
      /\ at \in Nat /\ entry \in Nat
  BY AtPlace DEF Add
<1>2. Done' = Done \cup {here}
  BY <1>1, PlaceTypes DEF Done, Add
<1>3. CursorOK'
  BY <1>1, ConfigsAssumption DEF CursorOK, Add, AtIdentity, Person
<1>4. DOMAIN owner' = DOMAIN owner \cup {key} /\ owner'[key] = Person.personId
  BY DEF Add, With
<1>5. \A k \in DOMAIN owner : owner'[k] = owner[k]
  BY DEF Add, With, MayInsert
<1>6. SoFar'
  <2>1. \A i \in DOMAIN people' : i < at' \/ (i = at' /\ entry' > 0) => people'[i].personId # NoPerson
    BY <1>1, ConfigsAssumption DEF SoFar, Add, AtIdentity, Person
  <2>2. \A p \in Done' : Complete(IdentityAt(people, p))'
    BY <1>1, <1>2 DEF SoFar, Add
  <2>3. DOMAIN owner' = {Key(IdentityAt(people, p)) : p \in Done}'
    BY <1>1, <1>2, <1>4 DEF SoFar, Add
  <2>4. \A p \in Done' : (owner[Key(IdentityAt(people, p))] = ClaimantAt(people, p))'
    BY <1>1, <1>2, <1>4, <1>5 DEF SoFar, Add
  <2>. QED
    BY <2>1, <2>2, <2>3, <2>4 DEF SoFar
<1>. QED
  BY <1>1, <1>3, <1>6 DEF MapInv, MapIsExact, Add, AtIdentity

\* What is refused is bad by itself, or by one that came before it.
LEMMA RefusePreserves ==
  ASSUME MapInv, Refuse
  PROVE  MapInv'
<1>. DEFINE here == <<at, entry>>
<1>1. /\ SoFar /\ people \in Configs
      /\ here \in Places(people)
      /\ Entry = IdentityAt(people, here)
      /\ Person.personId = ClaimantAt(people, here)
  BY AtPlace DEF Refuse
<1>2. ~Sound(people)
  <2>1. CASE ~Complete(Entry)
    BY <1>1, <2>1 DEF Sound
  <2>2. CASE ~MayInsert(Key(Entry), Person.personId)
    <3>1. PICK p \in Done : Key(IdentityAt(people, p)) = Key(Entry)
      BY <1>1, <2>2 DEF MayInsert, SoFar
    <3>2. owner[Key(Entry)] = ClaimantAt(people, p) /\ p \in Places(people)
      BY <1>1, <3>1 DEF SoFar, Done
    <3>. QED
      BY <1>1, <2>2, <3>1, <3>2 DEF MayInsert, Sound
  <2>. QED
    BY <2>1, <2>2 DEF Refuse
<1>. QED
  BY <1>1, <1>2 DEF MapInv, MapIsExact, Refuse, Reject, Sound

\* Going on to the next person adds nothing.
LEMMA EndPersonPreserves ==
  ASSUME MapInv, EndPerson
  PROVE  MapInv'
<1>1. CursorOK /\ SoFar /\ people \in Configs
  BY DEF MapInv, EndPerson
<1>2. /\ Len(people) \in Nat /\ at \in Nat /\ at \in DOMAIN people /\ entry \in Nat
      /\ Len(people[at].identities) \in Nat /\ entry > Len(people[at].identities)
  BY <1>1, ConfigsAssumption DEF CursorOK, EndPerson, Person
<1>3. Done' = Done
  <2>1. ASSUME NEW p \in Places(people)
        PROVE  (p[1] < at \/ (p[1] = at /\ p[2] < entry)) <=> (p[1] < at + 1 \/ (p[1] = at + 1 /\ p[2] < 0))
    BY <1>1, <1>2, PlaceTypes
  <2>. QED
    BY <2>1 DEF Done, EndPerson
<1>4. CursorOK'
  BY <1>1, <1>2, ConfigsAssumption DEF CursorOK, EndPerson
<1>5. SoFar'
  BY <1>1, <1>2, <1>3, ConfigsAssumption DEF SoFar, EndPerson
<1>. QED
  BY <1>1, <1>4, <1>5 DEF MapInv, MapIsExact, EndPerson

\* When the loop is over, it has been everywhere.
LEMMA MapDonePreserves ==
  ASSUME MapInv, MapDone
  PROVE  MapInv'
<1>1. CursorOK /\ SoFar /\ people \in Configs
  BY DEF MapInv, MapDone
<1>2. Len(people) \in Nat /\ at \in Nat /\ at > Len(people) /\ DOMAIN people = 1 .. Len(people)
  BY <1>1, ConfigsAssumption DEF CursorOK, MapDone
<1>3. Done = Places(people)
  BY <1>1, <1>2, PlaceTypes DEF Done
<1>4. Sound(people)
  BY <1>1, <1>2, <1>3 DEF SoFar, Sound
<1>. QED
  BY <1>1, <1>3, <1>4 DEF MapInv, MapIsExact, MapDone, SoFar, Sound

\* NewMap accepts a configuration just if it is sound, whatever the number and
\* the order of people and identities, and its map is exact.
THEOREM MapsAreExact == ISpec => []MapIsExact
<1>1. IInit => MapInv
  BY DEF IInit, MapInv, MapIsExact
<1>2. MapInv /\ [INext]_ivars => MapInv'
  <2>. SUFFICES ASSUME MapInv, [INext]_ivars
                PROVE  MapInv'
    OBVIOUS
  <2>1. CASE NewMap
    BY <2>1, NewMapPreserves
  <2>2. CASE BeginPerson
    BY <2>2, BeginPersonPreserves
  <2>3. CASE Add
    BY <2>3, AddPreserves
  <2>4. CASE Refuse
    BY <2>4, RefusePreserves
  <2>5. CASE EndPerson
    BY <2>5, EndPersonPreserves
  <2>6. CASE MapDone
    BY <2>6, MapDonePreserves
  <2>7. CASE UNCHANGED ivars
    BY <2>7 DEF ivars, MapInv, MapIsExact, Sound, CursorOK, SoFar, Done
  <2>. QED
    BY <2>1, <2>2, <2>3, <2>4, <2>5, <2>6, <2>7 DEF INext
<1>3. MapInv => MapIsExact
  BY DEF MapInv
<1>. QED
  BY <1>1, <1>2, <1>3, PTL DEF ISpec

-----------------------------------------------------------------------------
(* What is looked up.                                                      *)

\* The configuration is as ConfigsAssumption says, in every state.
ReadyInv == people \in Configs /\ MapIsExact

\* A ready map has for a key just who claims an identity with that key.
LEMMA KeyIsClaimed ==
  ASSUME ReadyInv, status = "ready", NEW key, NEW ps \in SUBSET Places(people),
         \A p \in Places(people) : Key(IdentityAt(people, p)) = key <=> p \in ps
  PROVE  {Resolve(key)} = Claiming(ps)
<1>1. /\ Sound(people)
      /\ DOMAIN owner = {Key(IdentityAt(people, p)) : p \in Places(people)}
      /\ \A p \in Places(people) : owner[Key(IdentityAt(people, p))] = ClaimantAt(people, p)
  BY DEF ReadyInv, MapIsExact
<1>2. CASE ps = {}
  BY <1>1, <1>2 DEF Resolve, Claiming
<1>3. CASE ps # {}
  <2>1. PICK p \in ps : TRUE
    BY <1>3
  <2>2. key \in DOMAIN owner /\ Resolve(key) = ClaimantAt(people, p)
    BY <1>1, <2>1 DEF Resolve
  <2>3. \A q \in ps : ClaimantAt(people, q) = ClaimantAt(people, p)
    BY <1>1, <2>1 DEF Sound
  <2>. QED
    BY <1>3, <2>1, <2>2, <2>3 DEF Claiming
<1>. QED
  BY <1>2, <1>3

\* Sequences that together are as long as two characters are one character each.
LEMMA TwoParts ==
  ASSUME NEW S, NEW a \in Seq(S), NEW b \in Seq(S), NEW c \in Seq(S), NEW d \in Seq(S),
         a # <<>>, b # <<>>, Len(c) = 1, Len(d) = 1, a \o b = c \o d
  PROVE  a = c /\ b = d
<1>1. Len(a) \in Nat \ {0} /\ Len(b) \in Nat \ {0}
  OBVIOUS
<1>2. Len(a \o b) = Len(a) + Len(b) /\ Len(c \o d) = 2
  OBVIOUS
<1>3. Len(a) = 1 /\ Len(b) = 1
  BY <1>1, <1>2
<1>4. (a \o b)[1] = a[1] /\ (a \o b)[2] = b[1]
  <2>1. \A i \in 1 .. Len(a) + Len(b) : (a \o b)[i] = IF i <= Len(a) THEN a[i] ELSE b[i - Len(a)]
    BY ConcatProperties
  <2>2. \A i \in 1 .. 2 : (a \o b)[i] = IF i <= 1 THEN a[i] ELSE b[i - 1]
    BY <1>3, <2>1
  <2>. QED
    BY <2>2
<1>5. (c \o d)[1] = c[1] /\ (c \o d)[2] = d[1]
  OBVIOUS
<1>6. a[1] = c[1] /\ b[1] = d[1]
  BY <1>4, <1>5
<1>. QED
  BY <1>3, <1>6

\* Only one device and account make up a key of two parts.
LEMMA LocalKeyIsUnique ==
  ASSUME NEW d \in SlashFree, NEW n \in SlashFree,
         NEW device \in Seq(STRING) \ {<<>>}, NEW value \in Seq(STRING) \ {<<>>},
         LocalKey(device, value) = LocalKey(d, n)
  PROVE  device = d /\ value = n
<1>1. d \in Seq(STRING) /\ n \in Seq(STRING) /\ Len(d) = 1 /\ Len(n) = 1
  BY NamesAssumption DEF SlashFree
<1>2. device \in Seq(STRING) /\ value \in Seq(STRING) /\ device # <<>> /\ value # <<>>
  OBVIOUS
<1>. QED
  BY <1>1, <1>2, TwoParts DEF LocalKey

\* The parts of a listed identity.
LEMMA PartsOfIdentity ==
  ASSUME people \in Configs, NEW p \in Places(people)
  PROVE  /\ IdentityAt(people, p).value \in Seq(STRING) \ {<<>>}
         /\ IdentityAt(people, p).device \in Seq(STRING) \ {<<>>}
<1>1. PICK i \in DOMAIN people : \E n \in DOMAIN people[i].identities : p = <<i, n>>
  BY PlaceIs
<1>2. PICK n \in DOMAIN people[i].identities : p = <<i, n>>
  BY <1>1
<1>. QED
  BY <1>1, <1>2, ConfigsAssumption DEF IdentityAt

\* Every account resolves to whoever lists it and to nobody otherwise: an email in
\* any spelling, a local account on its device and on no other.
LEMMA ReadyResolvesExactly == ReadyInv => ResolveIsExact
<1>. SUFFICES ASSUME ReadyInv, status = "ready"
              PROVE  /\ \A n \in Names : {ResolveGitHub(n)} = Claiming(Account("github", n))
                     /\ \A e \in Emails : {ResolveGitEmail(e)} = Claiming(Account("git_email", <<e.address>>))
                     /\ \A d, n \in SlashFree : {ResolveLocalAccount(d, n)} = Claiming(LocalAccount(d, n))
  BY DEF ResolveIsExact
<1>1. people \in Configs
  BY DEF ReadyInv
<1>2. ASSUME NEW type \in {"github", "git_email"}, NEW value, NEW p \in Places(people)
      PROVE  Key(IdentityAt(people, p)) = <<type, value>> <=> p \in Account(type, value)
  BY <1>2 DEF Key, Account
<1>3. ASSUME NEW d \in SlashFree, NEW n \in SlashFree, NEW p \in Places(people)
      PROVE  Key(IdentityAt(people, p)) = <<"local_account", LocalKey(d, n)>> <=> p \in LocalAccount(d, n)
  <2>. DEFINE id == IdentityAt(people, p)
  <2>1. id.value \in Seq(STRING) \ {<<>>} /\ id.device \in Seq(STRING) \ {<<>>}
    BY <1>1, PartsOfIdentity
  <2>2. LocalKey(id.device, id.value) = LocalKey(d, n) <=> id.device = d /\ id.value = n
    BY <2>1, LocalKeyIsUnique
  <2>. HIDE DEF id
  <2>3. Key(id) = <<"local_account", LocalKey(d, n)>> <=>
          id.type = "local_account" /\ LocalKey(id.device, id.value) = LocalKey(d, n)
    BY DEF Key
  <2>. QED
    BY <2>2, <2>3 DEF Account, LocalAccount, id
<1>4. \A n \in Names : {ResolveGitHub(n)} = Claiming(Account("github", n))
  BY <1>2, KeyIsClaimed DEF ResolveGitHub, Account
<1>5. \A e \in Emails : {ResolveGitEmail(e)} = Claiming(Account("git_email", <<e.address>>))
  BY <1>2, KeyIsClaimed DEF ResolveGitEmail, HashEmail, Account
<1>6. \A d, n \in SlashFree : {ResolveLocalAccount(d, n)} = Claiming(LocalAccount(d, n))
  BY <1>3, KeyIsClaimed DEF ResolveLocalAccount, LocalAccount, Account
<1>. QED
  BY <1>4, <1>5, <1>6

\* A map NewMap has accepted resolves the accounts of a developer to that developer
\* and conflates nobody, for any configuration and any names without slashes.
THEOREM ResolvesAreExact == ISpec => []ResolveIsExact
<1>1. IInit => people \in Configs
  BY DEF IInit
<1>2. people \in Configs /\ [INext]_ivars => (people \in Configs)'
  BY DEF INext, NewMap, BeginPerson, Add, Refuse, Reject, EndPerson, MapDone, ivars
<1>3. people \in Configs /\ MapIsExact => ResolveIsExact
  BY ReadyResolvesExactly DEF ReadyInv
<1>. QED
  BY <1>1, <1>2, <1>3, MapsAreExact, PTL DEF ISpec

-----------------------------------------------------------------------------
(* Work references: WorkInv says what the rules, the set and the           *)
(* references are at any time, from the history of texts.                  *)

RulesOK == rules = <<>> \/ (rules \in RuleLists \cup {DefaultWorkRefRules} /\ Accepted(rules))

TextsOK ==
  /\ texts \in Seq([source : Sources, text : Texts])
  /\ rules = <<>> => texts = <<>>

\* What the texts say of an identifier.
IsTold(id, kind, sources) ==
  /\ sources = {texts[n].source : n \in Sightings(id)}
  /\ \E n \in Sightings(id), i \in DOMAIN rules :
       /\ \A m \in Sightings(id) : n <= m
       /\ Finds(i, texts[n].text, id)
       /\ \A j \in DOMAIN rules : Finds(j, texts[n].text, id) => i <= j
       /\ kind = rules[i].name

EntriesOK ==
  /\ IsFiniteSet(DOMAIN byId)
  /\ DOMAIN byId = {id \in Ids : Sightings(id) # {}}
  /\ \A id \in DOMAIN byId :
       /\ byId[id] = [kind |-> byId[id].kind, sources |-> byId[id].sources]
       /\ IsTold(id, byId[id].kind, byId[id].sources)

\* A reference is its entry, with a title or without.
IsRefOf(r, id) ==
  /\ r = [id |-> id, kind |-> byId[id].kind, titled |-> r.titled,
          sources |-> InFixedOrder(byId[id].sources)]
  /\ r.titled => id \in Titled

RefsOK ==
  given => \E ids \in SortedSeqs(DOMAIN byId) :
             /\ refs \in Seq({refs[n] : n \in DOMAIN refs}) /\ Len(refs) = Cardinality(DOMAIN byId)
             /\ \A n \in 1 .. Len(refs) : IsRefOf(refs[n], ids[n])

WorkInv == RulesOK /\ TextsOK /\ EntriesOK /\ RefsOK

-----------------------------------------------------------------------------
\* Accepted rules are a sequence, and each has a pattern that every text knows.
LEMMA RulesAre ==
  ASSUME RulesOK
  PROVE  /\ Len(rules) \in Nat /\ DOMAIN rules = 1 .. Len(rules)
         /\ rules # <<>> => Accepted(rules)
         /\ \A i \in DOMAIN rules, t \in Texts : rules[i].pattern \in DOMAIN t
<1>1. CASE rules = <<>>
  <2>1. Len(rules) = 0 /\ DOMAIN rules = {}
    BY <1>1
  <2> QED
    BY <1>1, <2>1
<1>2. CASE rules \in RuleLists \cup {DefaultWorkRefRules} /\ Accepted(rules)
  <2>1. rules \in Seq({rules[i] : i \in DOMAIN rules})
    BY <1>2, RulesAssumption
  <2>2. Len(rules) \in Nat /\ DOMAIN rules = 1 .. Len(rules)
    BY <2>1
  <2>3. \A i \in DOMAIN rules, t \in Texts : rules[i].pattern \in DOMAIN t
    BY <1>2, TextsAssumption DEF Accepted
  <2> QED
    BY <1>2, <2>2, <2>3
<1> QED
  BY <1>1, <1>2 DEF RulesOK

\* A text says finitely much.
LEMMA FoundIsFinite ==
  ASSUME RulesOK, NEW t \in Texts
  PROVE  IsFiniteSet(Found(t))
<1> DEFINE I == 1 .. Len(rules)
           T == {t[rules[i].pattern] : i \in I}
           f == [i \in I |-> t[rules[i].pattern]]
<1>1. Len(rules) \in Nat /\ DOMAIN rules = I /\ \A i \in I : rules[i].pattern \in DOMAIN t
  BY RulesAre
<1>2. IsFiniteSet(I)
  BY <1>1, FS_Interval
<1>3. f \in Surjection(I, T)
  BY DEF Surjection
<1> HIDE DEF f
<1>4. IsFiniteSet(T)
  <2> HIDE DEF T, I
  <2> QED
    BY <1>2, <1>3, FS_Surjection
<1>5. \A x \in T : IsFiniteSet(x)
  BY <1>1, TextsAssumption
<1>6. IsFiniteSet(UNION T)
  <2> HIDE DEF T
  <2> QED
    BY <1>4, <1>5, FS_UNION
<1>7. Found(t) \in SUBSET UNION T
  BY <1>1 DEF Found, Finds
<1> QED
  BY <1>6, <1>7, FS_Subset

\* What a text is found to have, some rule finds first: KindOf names it.
LEMMA KindIsFirst ==
  ASSUME RulesOK, NEW t \in Texts, NEW id \in Found(t)
  PROVE  \E i \in DOMAIN rules :
           /\ Finds(i, t, id) /\ KindOf(id, t) = rules[i].name
           /\ \A j \in DOMAIN rules : Finds(j, t, id) => i <= j
<1> DEFINE F == {i \in DOMAIN rules : Finds(i, t, id)}
           IsFirst(i) == Finds(i, t, id) /\ \A j \in 1 .. i - 1 : ~Finds(j, t, id)
           chosen == CHOOSE i \in DOMAIN rules : IsFirst(i)
<1>1. Len(rules) \in Nat /\ DOMAIN rules = 1 .. Len(rules)
  BY RulesAre
<1>2. F \in SUBSET Nat /\ F # {}
  BY <1>1 DEF Found
<1>3. PICK m \in F : \A n \in F : m <= n
  BY <1>2, Least
<1>4. m \in DOMAIN rules /\ IsFirst(m)
  BY <1>1, <1>3
<1>5. chosen \in DOMAIN rules /\ IsFirst(chosen)
  BY <1>4
<1>6. KindOf(id, t) = rules[chosen].name
  BY DEF KindOf
<1>7. \A j \in DOMAIN rules : Finds(j, t, id) => chosen <= j
  BY <1>1, <1>5
<1> HIDE DEF chosen
<1> QED
  BY <1>5, <1>6, <1>7

\* The identifiers of a set can be sorted.
LEMMA IdsAreSorted ==
  ASSUME EntriesOK
  PROVE  SortedSeqs(DOMAIN byId) # {}
<1> DEFINE S == DOMAIN byId
<1>1. IsFiniteSet(S) /\ S \in SUBSET Nat
  BY IdsAssumption DEF EntriesOK
<1> HIDE DEF S
<1>2. PICK s \in [1 .. Cardinality(S) -> S] : Ascends(s, S)
  BY <1>1, AscentExists
<1>3. s \in SortedSeqs(S)
  BY <1>2 DEF SortedSeqs, Ascends
<1> QED
  BY <1>3 DEF S

-----------------------------------------------------------------------------
\* A new text is one more sighting of what it has.
LEMMA NewSighting ==
  ASSUME TextsOK, NEW s, NEW t \in Texts, AddText(s, t), NEW id \in Ids
  PROVE  /\ Sightings(id)' = Sightings(id) \cup (IF id \in Found(t) THEN {Len(texts) + 1} ELSE {})
         /\ \A n \in Sightings(id) : n \in 1 .. Len(texts) /\ texts'[n] = texts[n]
         /\ texts'[Len(texts) + 1] = [source |-> s, text |-> t]
         /\ Len(texts) \in Nat
<1>1. texts' = Append(texts, [source |-> s, text |-> t]) /\ rules' = rules
  BY DEF AddText
<1>2. \A x : Found(x)' = Found(x)
  BY <1>1 DEF Found, Finds
<1>3. texts \in Seq([source : Sources, text : Texts])
  BY DEF TextsOK
<1>4. DOMAIN texts' = 1 .. Len(texts) + 1 /\ DOMAIN texts = 1 .. Len(texts) /\ Len(texts) \in Nat
  BY <1>1, <1>3
<1>5. /\ \A n \in 1 .. Len(texts) : texts'[n] = texts[n]
      /\ texts'[Len(texts) + 1] = [source |-> s, text |-> t]
  BY <1>1, <1>3
<1> QED
  BY <1>2, <1>4, <1>5 DEF Sightings

\* Each identifier keeps one entry, which gains the source of the new text.
LEMMA EntriesGrow ==
  ASSUME WorkInv, NEW s \in Sources, NEW t \in Texts, AddText(s, t)
  PROVE  EntriesOK'
<1> USE DEF WorkInv
<1> DEFINE len == Len(texts)
<1>1. /\ rules' = rules /\ len \in Nat
      /\ DOMAIN byId' = DOMAIN byId \cup Found(t)
      /\ \A id \in DOMAIN byId' : byId'[id] = EntryWith(id, s, t)
  BY DEF AddText, TextsOK
<1>2. IsFiniteSet(DOMAIN byId')
  <2>1. IsFiniteSet(Found(t)) /\ IsFiniteSet(DOMAIN byId)
    BY FoundIsFinite DEF EntriesOK
  <2>2. IsFiniteSet(DOMAIN byId \cup Found(t))
    BY <2>1, FS_Union
  <2> QED
    BY <1>1, <2>2
<1>3. Found(t) \subseteq Ids /\ DOMAIN byId \subseteq Ids
  BY DEF Found, EntriesOK
<1>4. \A id \in Ids : id \in DOMAIN byId <=> Sightings(id) # {}
  BY DEF EntriesOK
<1>5. /\ \A id \in Ids : /\ Sightings(id)' = Sightings(id) \cup (IF id \in Found(t) THEN {len + 1} ELSE {})
                         /\ \A n \in Sightings(id) : n \in 1 .. len /\ texts'[n] = texts[n]
      /\ texts'[len + 1] = [source |-> s, text |-> t]
  <2>1. \A id \in Ids : /\ Sightings(id)' = Sightings(id) \cup (IF id \in Found(t) THEN {len + 1} ELSE {})
                        /\ \A n \in Sightings(id) : n \in 1 .. len /\ texts'[n] = texts[n]
    BY NewSighting
  <2>2. texts'[len + 1] = [source |-> s, text |-> t]
    BY DEF AddText, TextsOK
  <2> QED
    BY <2>1, <2>2
<1>6. DOMAIN byId' = {id \in Ids : Sightings(id)' # {}}
  BY <1>1, <1>3, <1>4, <1>5
<1>7. ASSUME NEW id \in DOMAIN byId'
      PROVE  /\ byId'[id] = [kind |-> byId'[id].kind, sources |-> byId'[id].sources]
             /\ IsTold(id, byId[id].kind, byId[id].sources)'
  <2>1. id \in Ids
    BY <1>6
  <2>2. CASE id \notin DOMAIN byId
    <3>1. id \in Found(t) /\ Sightings(id)' = {len + 1}
      BY <1>1, <1>4, <1>5, <2>1, <2>2
    <3>2. byId'[id] = [kind |-> KindOf(id, t), sources |-> {s}]
      BY <1>1, <2>2 DEF EntryWith
    <3>3. PICK i \in DOMAIN rules :
            /\ Finds(i, t, id) /\ KindOf(id, t) = rules[i].name
            /\ \A j \in DOMAIN rules : Finds(j, t, id) => i <= j
      BY <3>1, KindIsFirst
    <3>4. byId'[id].sources = {texts'[n].source : n \in Sightings(id)'}
      BY <1>5, <3>1, <3>2
    <3>5. len + 1 \in Sightings(id)' /\ texts'[len + 1].text = t /\ \A m \in Sightings(id)' : len + 1 <= m
      BY <1>1, <1>5, <3>1
    <3>6. byId'[id] = [kind |-> byId'[id].kind, sources |-> byId'[id].sources] /\ byId'[id].kind = rules'[i].name
      BY <1>1, <3>2, <3>3
    <3>7. /\ i \in DOMAIN rules' /\ id \in texts'[len + 1].text[rules'[i].pattern]
          /\ \A j \in DOMAIN rules' : id \in texts'[len + 1].text[rules'[j].pattern] => i <= j
      BY <1>1, <3>3, <3>5 DEF Finds
    <3> HIDE DEF len
    <3> QED
      BY <3>4, <3>5, <3>6, <3>7 DEF IsTold, Finds
  <2>3. CASE id \in DOMAIN byId
    <3>1. /\ byId[id] = [kind |-> byId[id].kind, sources |-> byId[id].sources]
          /\ byId[id].sources = {texts[n].source : n \in Sightings(id)}
      BY <2>3 DEF EntriesOK, IsTold
    <3>2. PICK n \in Sightings(id), i \in DOMAIN rules :
            /\ \A m \in Sightings(id) : n <= m
            /\ Finds(i, texts[n].text, id)
            /\ \A j \in DOMAIN rules : Finds(j, texts[n].text, id) => i <= j
            /\ byId[id].kind = rules[i].name
      BY <2>3 DEF EntriesOK, IsTold
    <3>3. byId'[id] = [kind |-> byId[id].kind,
                       sources |-> byId[id].sources \cup (IF id \in Found(t) THEN {s} ELSE {})]
      BY <1>1, <2>3, <3>1 DEF EntryWith
    <3>4. byId'[id].sources = {texts'[m].source : m \in Sightings(id)'}
      BY <1>5, <2>1, <3>1, <3>3
    <3>5. n \in Sightings(id)' /\ texts'[n] = texts[n] /\ \A m \in Sightings(id)' : n <= m
      BY <1>1, <1>5, <2>1, <3>2
    <3> QED
      BY <1>1, <3>2, <3>3, <3>4, <3>5 DEF IsTold, Finds
  <2> QED
    BY <2>2, <2>3
<1> QED
  BY <1>2, <1>6, <1>7 DEF EntriesOK

\* The references given are the entries, sorted.
LEMMA RefsAreEntries ==
  ASSUME WorkInv, GetRefs
  PROVE  RefsOK'
<1> DEFINE S == DOMAIN byId
<1>1. (CHOOSE s \in SortedSeqs(S) : TRUE) \in SortedSeqs(S)
  BY IdsAreSorted DEF WorkInv
<1>2. Cardinality(S) \in Nat
  BY FS_CardinalityType DEF WorkInv, EntriesOK
<1>3. \A s \in SortedSeqs(S) : DOMAIN s = 1 .. Cardinality(S)
  BY DEF SortedSeqs
<1>4. PICK ids \in SortedSeqs(S) :
        refs' = [n \in 1 .. Cardinality(S) |->
                   [id |-> ids[n], kind |-> byId[ids[n]].kind, titled |-> FALSE,
                    sources |-> InFixedOrder(byId[ids[n]].sources)]]
  BY <1>1, <1>3 DEF GetRefs, Refs
<1>5. refs' \in Seq({refs'[n] : n \in DOMAIN refs'}) /\ Len(refs') = Cardinality(S)
  <2>1. DOMAIN refs' = 1 .. Cardinality(S) /\ refs' = [n \in 1 .. Cardinality(S) |-> refs'[n]]
    BY <1>4
  <2>2. refs' \in [1 .. Cardinality(S) -> {refs'[n] : n \in DOMAIN refs'}]
    BY <2>1
  <2> QED
    BY <1>2, <2>1, <2>2
<1>6. byId' = byId
  BY DEF GetRefs
<1>7. ASSUME NEW n \in 1 .. Len(refs')
      PROVE  IsRefOf(refs[n], ids[n])'
  BY <1>4, <1>5, <1>6 DEF IsRefOf
<1> QED
  BY <1>5, <1>6, <1>7 DEF RefsOK

\* Looking titles up changes nothing but them.
LEMMA TitlesPreserve ==
  ASSUME WorkInv, ResolveTitles
  PROVE  RefsOK'
<1>1. PICK ids \in SortedSeqs(DOMAIN byId) :
        /\ refs \in Seq({refs[n] : n \in DOMAIN refs}) /\ Len(refs) = Cardinality(DOMAIN byId)
        /\ \A n \in 1 .. Len(refs) : IsRefOf(refs[n], ids[n])
  BY DEF WorkInv, RefsOK, ResolveTitles
<1>2. byId' = byId
  BY DEF ResolveTitles
<1>3. CASE refs' = refs
  BY <1>1, <1>2, <1>3 DEF RefsOK, IsRefOf
<1>4. CASE refs' = [n \in DOMAIN refs |-> [refs[n] EXCEPT !.titled = @ \/ refs[n].id \in Titled]]
  <2>1. DOMAIN refs = 1 .. Len(refs) /\ Len(refs) \in Nat /\ DOMAIN refs' = 1 .. Len(refs)
    BY <1>1, <1>4
  <2>2. refs' \in [1 .. Len(refs) -> {refs'[n] : n \in DOMAIN refs'}]
    BY <1>4, <2>1
  <2>3. refs' \in Seq({refs'[n] : n \in DOMAIN refs'}) /\ Len(refs') = Len(refs)
    BY <2>1, <2>2
  <2>4. ASSUME NEW n \in 1 .. Len(refs)
        PROVE  IsRefOf(refs[n], ids[n])'
    <3>1. IsRefOf(refs[n], ids[n]) /\ refs'[n] = [refs[n] EXCEPT !.titled = @ \/ refs[n].id \in Titled]
      BY <1>1, <1>4, <2>1
    <3> DEFINE e == byId[ids[n]]
               is(titled) == [id |-> ids[n], kind |-> e.kind, titled |-> titled,
                              sources |-> InFixedOrder(e.sources)]
    <3>2. refs[n] = is(refs[n].titled) /\ (refs[n].titled => ids[n] \in Titled)
      BY <3>1 DEF IsRefOf
    <3>3. refs'[n] = is(refs[n].titled \/ ids[n] \in Titled)
      BY <3>1, <3>2
    <3>4. refs'[n].titled = (refs[n].titled \/ ids[n] \in Titled)
      BY <3>3
    <3>5. refs'[n] = is(refs'[n].titled) /\ (refs'[n].titled => ids[n] \in Titled)
      BY <3>2, <3>3, <3>4
    <3> QED
      BY <1>2, <3>5 DEF IsRefOf
  <2> QED
    BY <1>1, <1>2, <2>3, <2>4 DEF RefsOK
<1> QED
  BY <1>3, <1>4 DEF ResolveTitles

\* The rest depends on the rules, the entries and the texts only.
LEMMA WorkKept ==
  ASSUME RulesOK, TextsOK, EntriesOK, UNCHANGED <<rules, byId, texts>>
  PROVE  RulesOK' /\ TextsOK' /\ EntriesOK'
<1>1. rules' = rules /\ byId' = byId /\ texts' = texts
  OBVIOUS
<1>2. RulesOK' /\ TextsOK'
  BY <1>1 DEF RulesOK, Accepted, TextsOK
<1>3. \A id \in Ids : Sightings(id)' = Sightings(id)
  BY <1>1 DEF Sightings, Found, Finds
<1>4. \A id \in DOMAIN byId : IsTold(id, byId[id].kind, byId[id].sources)'
  <2> TAKE id \in DOMAIN byId
  <2>1. id \in Ids /\ IsTold(id, byId[id].kind, byId[id].sources)
    BY DEF EntriesOK
  <2> QED
    BY <1>1, <1>3, <2>1 DEF IsTold, Finds
<1>5. EntriesOK'
  BY <1>1, <1>3, <1>4 DEF EntriesOK
<1> QED
  BY <1>2, <1>5

\* WorkInv is inductive.
LEMMA WorkStays == WSpec => []WorkInv
<1>1. WInit => WorkInv
  <2>1. DOMAIN <<>> = {} /\ <<>> \in Seq([source : Sources, text : Texts]) /\ IsFiniteSet({})
    BY FS_EmptySet
  <2>2. WInit => \A id \in Ids : Sightings(id) = {}
    BY <2>1 DEF WInit, Sightings
  <2> QED
    BY <2>1, <2>2 DEF WInit, WorkInv, RulesOK, TextsOK, EntriesOK, RefsOK
<1>2. ASSUME WorkInv, [WNext]_wvars
      PROVE  WorkInv'
  <2> USE <1>2 DEF WorkInv
  <2>1. ASSUME NEW rs \in RuleLists, Extractor(rs)
        PROVE  WorkInv'
    <3>1. RulesOK'
      BY <2>1 DEF Extractor, RulesOK, Accepted
    <3>2. texts = <<>> /\ texts' = <<>> /\ byId' = byId /\ given' = given /\ refs' = refs
      BY <2>1 DEF Extractor, TextsOK
    <3>3. TextsOK' /\ RefsOK'
      BY <3>2 DEF TextsOK, RefsOK, IsRefOf
    <3>4. \A id \in Ids : Sightings(id) = {} /\ Sightings(id)' = {}
      BY <3>2 DEF Sightings
    <3>5. DOMAIN byId = {}
      BY <3>4 DEF EntriesOK
    <3>6. EntriesOK'
      BY <3>2, <3>4, <3>5 DEF EntriesOK
    <3> QED
      BY <3>1, <3>3, <3>6
  <2>2. CASE NewSet
    <3>1. DOMAIN <<>> = {} /\ <<>> \in Seq([source : Sources, text : Texts]) /\ IsFiniteSet({})
      BY FS_EmptySet
    <3>2. \A id \in Ids : Sightings(id)' = {}
      BY <2>2, <3>1 DEF NewSet, Sightings
    <3> QED
      BY <2>2, <3>1, <3>2 DEF NewSet, RulesOK, Accepted, TextsOK, EntriesOK, RefsOK
  <2>3. ASSUME NEW s \in Sources, NEW t \in Texts, AddText(s, t)
        PROVE  WorkInv'
    <3>1. EntriesOK'
      BY <2>3, EntriesGrow
    <3>2. /\ rules' = rules /\ rules # <<>> /\ given' = FALSE
          /\ texts' = Append(texts, [source |-> s, text |-> t])
      BY <2>3 DEF AddText
    <3>3. RulesOK' /\ RefsOK'
      BY <3>2 DEF RulesOK, Accepted, RefsOK
    <3>4. TextsOK'
      BY <3>2 DEF TextsOK
    <3> QED
      BY <3>1, <3>3, <3>4
  <2>4. CASE GetRefs
    <3>1. RefsOK'
      BY <2>4, RefsAreEntries
    <3>2. RulesOK' /\ TextsOK' /\ EntriesOK'
      BY <2>4, WorkKept DEF GetRefs
    <3> QED
      BY <3>1, <3>2
  <2>5. CASE ResolveTitles
    <3>1. RefsOK'
      BY <2>5, TitlesPreserve
    <3>2. RulesOK' /\ TextsOK' /\ EntriesOK'
      BY <2>5, WorkKept DEF ResolveTitles
    <3> QED
      BY <3>1, <3>2
  <2>6. CASE UNCHANGED wvars
    <3>1. RulesOK' /\ TextsOK' /\ EntriesOK'
      BY <2>6, WorkKept DEF wvars
    <3>2. RefsOK'
      BY <2>6 DEF wvars, RefsOK, IsRefOf
    <3> QED
      BY <3>1, <3>2
  <2> QED
    BY <1>2, <2>1, <2>2, <2>3, <2>4, <2>5, <2>6 DEF WNext
<1> QED
  BY <1>1, <1>2, PTL DEF WSpec

\* "Repeated sightings merge", and "a lookup failure never loses the references":
\* whatever texts come in whatever order, the references a set gives are the
\* identifiers seen, each once and in order, with all their sources, of the kind of
\* the rule that found them first.
THEOREM ReferencesAreSightings == WSpec => []RefsAreSightings
<1>1. ASSUME WorkInv, given
      PROVE  /\ \A n \in 1 .. Len(refs) - 1 : refs[n].id < refs[n + 1].id
             /\ {refs[n].id : n \in DOMAIN refs} = {id \in Ids : Sightings(id) # {}}
  <2>1. PICK ids \in SortedSeqs(DOMAIN byId) :
          /\ refs \in Seq({refs[n] : n \in DOMAIN refs}) /\ Len(refs) = Cardinality(DOMAIN byId)
          /\ \A n \in 1 .. Len(refs) : IsRefOf(refs[n], ids[n])
    BY <1>1 DEF WorkInv, RefsOK
  <2>2. DOMAIN refs = 1 .. Len(refs) /\ Len(refs) \in Nat /\ \A n \in 1 .. Len(refs) : refs[n].id = ids[n]
    BY <2>1 DEF IsRefOf
  <2>3. /\ ids \in [1 .. Len(refs) -> DOMAIN byId]
        /\ \A m, n \in 1 .. Len(refs) : m < n => ids[m] < ids[n]
    BY <2>1 DEF SortedSeqs
  <2>4. \A m, n \in 1 .. Len(refs) : m # n => ids[m] # ids[n]
    <3>1. \A n \in 1 .. Len(refs) : ids[n] \in Nat
      BY <1>1, <2>3, IdsAssumption DEF WorkInv, EntriesOK
    <3> QED
      BY <2>2, <2>3, <3>1
  <2>5. DOMAIN byId = {ids[n] : n \in 1 .. Len(refs)}
    <3> DEFINE S == DOMAIN byId
    <3>1. IsFiniteSet(S)
      BY <1>1 DEF WorkInv, EntriesOK
    <3>2. /\ ids \in [1 .. Cardinality(S) -> S]
          /\ \A m, n \in 1 .. Cardinality(S) : m # n => ids[m] # ids[n]
      BY <2>1, <2>3, <2>4
    <3>3. S = {ids[n] : n \in 1 .. Cardinality(S)}
      <4> HIDE DEF S
      <4> QED
        BY <3>1, <3>2, NoRepeatIsOnto
    <3> QED
      BY <2>1, <3>3
  <2>6. \A n \in 1 .. Len(refs) - 1 : refs[n].id < refs[n + 1].id
    BY <2>2, <2>3
  <2>7. {refs[n].id : n \in DOMAIN refs} = DOMAIN byId
    BY <2>2, <2>5
  <2> QED
    BY <1>1, <2>6, <2>7 DEF WorkInv, EntriesOK
<1> DEFINE Exact(r) ==
             LET ns == Sightings(r.id)
                 first == CHOOSE n \in ns : \A m \in ns : n <= m
                 finders == {i \in DOMAIN rules : Finds(i, texts[first].text, r.id)}
             IN /\ {i \in DOMAIN rules : rules[i].name = r.kind} = {i \in finders : \A j \in finders : i <= j}
                /\ r.sources = InFixedOrder({texts[n].source : n \in ns})
                /\ r.titled => r.id \in Titled
<1>2. ASSUME WorkInv, given, NEW n \in DOMAIN refs
      PROVE  Exact(refs[n])
  <2> DEFINE ns == Sightings(refs[n].id)
             first == CHOOSE k \in ns : \A m \in ns : k <= m
             finders == {i \in DOMAIN rules : Finds(i, texts[first].text, refs[n].id)}
  <2>1. PICK ids \in SortedSeqs(DOMAIN byId) :
          /\ refs \in Seq({refs[k] : k \in DOMAIN refs}) /\ Len(refs) = Cardinality(DOMAIN byId)
          /\ \A k \in 1 .. Len(refs) : IsRefOf(refs[k], ids[k])
    BY <1>2 DEF WorkInv, RefsOK
  <2>2. n \in 1 .. Len(refs) /\ ids[n] \in DOMAIN byId
    BY <2>1 DEF SortedSeqs
  <2>3. /\ refs[n].id = ids[n] /\ refs[n].kind = byId[ids[n]].kind
        /\ refs[n].sources = InFixedOrder(byId[ids[n]].sources)
        /\ refs[n].titled => ids[n] \in Titled
    BY <2>1, <2>2 DEF IsRefOf
  <2>4. IsTold(refs[n].id, refs[n].kind, byId[ids[n]].sources)
    BY <1>2, <2>2, <2>3 DEF WorkInv, EntriesOK
  <2>5. PICK k \in ns, i \in DOMAIN rules :
          /\ \A m \in ns : k <= m
          /\ Finds(i, texts[k].text, refs[n].id)
          /\ \A j \in DOMAIN rules : Finds(j, texts[k].text, refs[n].id) => i <= j
          /\ refs[n].kind = rules[i].name
    BY <2>4 DEF IsTold
  <2>6. ns \subseteq Nat
    BY <1>2 DEF WorkInv, TextsOK, Sightings
  <2>7. first = k
    BY <2>5, <2>6
  <2>8. /\ DOMAIN rules \subseteq Nat
        /\ \A x, y \in DOMAIN rules : rules[x].name = rules[y].name => x = y
    <3>1. RulesOK /\ rules # <<>>
      BY <1>2, <2>5 DEF WorkInv
    <3>2. /\ Len(rules) \in Nat /\ DOMAIN rules = 1 .. Len(rules)
          /\ Accepted(rules)
      BY <3>1, RulesAre
    <3>3. \A x, y \in DOMAIN rules : rules[x].name = rules[y].name => x = y
      BY <3>2, Zenon DEF Accepted
    <3> QED
      BY <3>2, <3>3
  <2>9. {x \in DOMAIN rules : rules[x].name = refs[n].kind} = {x \in finders : \A j \in finders : x <= j}
    <3> HIDE DEF ns, first
    <3> QED
      BY <2>5, <2>7, <2>8
  <2>10. refs[n].sources = InFixedOrder({texts[m].source : m \in ns})
    BY <2>3, <2>4 DEF IsTold
  <2> QED
    BY <2>3, <2>9, <2>10
<1>3. WorkInv => RefsAreSightings
  <2> SUFFICES ASSUME WorkInv, given
               PROVE  RefsAreSightings
    BY DEF RefsAreSightings
  <2>1. \A r \in {refs[n] : n \in DOMAIN refs} : Exact(r)
    <3> HIDE DEF Exact
    <3> QED
      BY <1>2
  <2> QED
    BY <1>1, <2>1, Zenon DEF RefsAreSightings
<1> QED
  BY <1>3, WorkStays, PTL

=============================================================================
