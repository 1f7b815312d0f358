---------------------------- MODULE SessionProofs ----------------------------
(***************************************************************************)
(* Proofs about the session reader as the catalog calls it, for any stores *)
(* and pids, any agents and other processes, and any order of readers.     *)
(***************************************************************************)
EXTENDS SessionCatalog, OrderFacts, SequenceTheorems

-----------------------------------------------------------------------------
(* Types.                                                                  *)

IsSeq(s) == \E S : s \in Seq(S)

\* The reader works only in its turn.
InTurn ==
  /\ order \in Seq({Claude, Other})
  /\ turn \in Nat
  /\ pc # "idle" => Turn(Claude)

TypeInv == TypeOK /\ setup \in Setups /\ InTurn /\ IsSeq(out)

LEMMA SeqAppend ==
  ASSUME NEW s, IsSeq(s), NEW x
  PROVE  /\ IsSeq(s \o <<x>>)
         /\ \A n \in DOMAIN (s \o <<x>>) : (n \in DOMAIN s /\ (s \o <<x>>)[n] = s[n]) \/ (s \o <<x>>)[n] = x
<1>1. PICK S : s \in Seq(S)
  BY DEF IsSeq
<1>2. s \in Seq(S \cup {x}) /\ <<x>> \in Seq(S \cup {x})
  BY <1>1
<1>3. s \o <<x>> \in Seq(S \cup {x})
  BY <1>2
<1>4. \A n \in DOMAIN (s \o <<x>>) : (n \in DOMAIN s /\ (s \o <<x>>)[n] = s[n]) \/ (s \o <<x>>)[n] = x
  BY <1>2
<1> QED
  BY <1>3, <1>4 DEF IsSeq

LEMMA TypeInit == CInit => TypeInv
<1> SUFFICES ASSUME CInit PROVE TypeInv
  OBVIOUS
<1>1. TypeOK
  <2>1. now \in 1 .. MaxClock
    BY SetupsAssumption DEF CInit, Init
  <2> QED
    BY <2>1, TimesAssumption, NoneAssumption DEF CInit, Init, TypeOK
<1>2. InTurn /\ IsSeq(out) /\ setup \in Setups
  BY DEF CInit, Init, InTurn, IsSeq
<1> QED
  BY <1>1, <1>2 DEF TypeInv

\* What the agents and the system do keeps the types, and lets the reader be.
LEMMA TypeWorld ==
  ASSUME TypeInv, World, UNCHANGED calls
  PROVE  TypeInv'
<1>0. UNCHANGED <<setup, pc, opts, recs, held, live, files, out, order, turn>>
  BY DEF World, AgentStep, Tick, Grow, Prune, Start, Register, End, disk, system, reader, history,
         clock, calls
<1>1. ASSUME NEW p \in setup.pids, AgentStep(p)
      PROVE  TypeOK'
  <2>0. p \in Pids
    BY <1>1, SetupsAssumption DEF TypeInv
  <2>1. ASSUME NEW i \in Ids \cup {NoId}, Start(p, i)
        PROVE  TypeOK'
    <3>1. start' \in [Pids -> Nat \cup {None}] /\ agent' \in [Pids -> Ids \cup {NoId}]
      BY <2>0, <2>1 DEF TypeInv, TypeOK, Start
    <3>2. alive' \in SUBSET (Pids \X Ids)
      BY <2>0, <2>1 DEF TypeInv, TypeOK, Start
    <3> QED
      BY <1>0, <2>1, <3>1, <3>2 DEF TypeInv, TypeOK, OutOK, Files, Start, clock, disk, reader
  <2>2. CASE Register(p)
    <3>1. rec' \in [Pids -> LiveRecords \cup {None, Torn}]
      <4>1. IsAgent(p) => agent[p] \in Ids
        BY <2>0 DEF TypeInv, TypeOK, IsAgent
      <4>2. now \in Nat
        BY TimesAssumption DEF TypeInv, TypeOK
      <4> QED
        BY <2>0, <2>2, <4>1, <4>2 DEF TypeInv, TypeOK, Register, LiveRecords
    <3> QED
      BY <1>0, <2>2, <3>1 DEF TypeInv, TypeOK, OutOK, Files, Register, clock, disk, reader, history
  <2>3. CASE End(p)
    <3>1. start' \in [Pids -> Nat \cup {None}] /\ agent' \in [Pids -> Ids \cup {NoId}]
      BY <2>0, <2>3 DEF TypeInv, TypeOK, End
    <3>2. free' \in [Pids -> Nat]
      BY <2>0, <2>3, TimesAssumption DEF TypeInv, TypeOK, End
    <3>3. rec' \in [Pids -> LiveRecords \cup {None, Torn}]
      BY <2>0, <2>3 DEF TypeInv, TypeOK, End
    <3> QED
      BY <1>0, <2>3, <3>1, <3>2, <3>3 DEF TypeInv, TypeOK, OutOK, Files, End, clock, disk, reader
  <2> QED
    BY <1>1, <2>1, <2>2, <2>3 DEF AgentStep
<1>2. ASSUME Tick PROVE TypeOK'
  BY <1>0, <1>2, TimesAssumption
     DEF TypeInv, TypeOK, OutOK, Files, Tick, disk, system, reader, history
<1>3. ASSUME NEW f \in Files, Grow(f) \/ Prune(f)
      PROVE  TypeOK'
  BY <1>0, <1>3 DEF TypeInv, TypeOK, OutOK, Files, Grow, Prune, clock, system, reader, history
<1>4. TypeOK'
  BY <1>1, <1>2, <1>3 DEF World
<1>5. InTurn' /\ IsSeq(out')
  BY <1>0 DEF TypeInv, InTurn, Turn
<1> QED
  BY <1>0, <1>4, <1>5 DEF TypeInv

\* So does a step of the reader, in its turn.
LEMMA TypeReader ==
  ASSUME TypeInv, ReadClaude
  PROVE  TypeInv'
<1>0. /\ UNCHANGED <<clock, disk, system, opts, calls>>
      /\ TypeOK /\ Turn(Claude) /\ setup \in Setups
  BY DEF TypeInv, ReadClaude, ReaderStep, ReadRecord, Probe, ListFiles, ReadFile, Cancelled, Complete,
         disk, system, history
<1>1. InTurn'
  BY <1>0 DEF TypeInv, InTurn, Turn, calls
<1>2. setup' = setup /\ start' = start /\ agent' = agent /\ free' = free /\ rec' = rec /\ now' = now
      /\ alive' = alive /\ steady' \in SUBSET steady /\ there' \in SUBSET there
  <2>1. alive' = alive /\ steady' \in SUBSET steady /\ there' \in SUBSET there
    BY DEF ReadClaude, ReaderStep, ReadRecord, Probe, ListFiles, ReadFile, Cancelled, Complete, history
  <2> QED
    BY <1>0, <2>1 DEF clock, system
<1>3. ASSUME ReadRecord
      PROVE  TypeOK' /\ IsSeq(out')
  <2>1. PICK p \in recs : /\ recs' = recs \ {p}
                          /\ \/ IsLive(rec[p]) /\ held' = rec[p] /\ pc' = "probe"
                             \/ UNCHANGED <<held, pc>>
    BY <1>3 DEF ReadRecord
  <2>2. p \in Pids /\ (IsLive(rec[p]) => rec[p] \in LiveRecords /\ rec[p] # None)
    BY <1>0, <2>1 DEF TypeOK, IsLive
  <2>3. held' \in LiveRecords \cup {None} /\ (pc' = "probe" => held' # None)
    BY <1>0, <2>1, <2>2 DEF TypeOK
  <2> QED
    BY <1>0, <1>2, <1>3, <2>1, <2>3 DEF TypeInv, TypeOK, OutOK, Files, ReadRecord
<1>4. ASSUME Probe
      PROVE  TypeOK' /\ IsSeq(out')
  <2>1. live' \in [Ids -> LiveRecords \cup {None}]
    BY <1>0, <1>4 DEF Probe, TypeOK
  <2> QED
    BY <1>0, <1>2, <1>4, <2>1 DEF TypeInv, TypeOK, OutOK, Files, Probe
<1>5. ASSUME ReadFile
      PROVE  TypeOK' /\ IsSeq(out')
  <2>1. PICK f \in files : /\ out' = out \/ out' = out \o <<Listed(f)>>
                           /\ diags' \in SUBSET (diags \cup {f})
    BY <1>5 DEF ReadFile
  <2>2. OutOK(Listed(f))
    <3>1. f \in Files /\ setup.ids[f] \in Ids
      BY <1>0, <2>1, SetupsAssumption DEF TypeOK, Files
    <3>2. live[setup.ids[f]] # None => live[setup.ids[f]].pid \in Pids
      BY <1>0, <3>1 DEF TypeOK, LiveRecords
    <3> QED
      BY <3>1, <3>2 DEF OutOK, Listed
  <2>3. IsSeq(out') /\ \A n \in DOMAIN out' : OutOK(out'[n])
    <3>1. CASE out' = out
      BY <1>0, <3>1 DEF TypeInv, TypeOK
    <3>2. CASE out' = out \o <<Listed(f)>>
      <4>1. /\ IsSeq(out \o <<Listed(f)>>)
            /\ \A n \in DOMAIN (out \o <<Listed(f)>>) :
                 \/ n \in DOMAIN out /\ (out \o <<Listed(f)>>)[n] = out[n]
                 \/ (out \o <<Listed(f)>>)[n] = Listed(f)
        BY SeqAppend DEF TypeInv
      <4>2. IsSeq(out') /\ \A n \in DOMAIN out' : (n \in DOMAIN out /\ out'[n] = out[n]) \/ out'[n] = Listed(f)
        BY <3>2, <4>1
      <4> QED
        BY <1>0, <2>2, <4>2 DEF TypeOK
    <3> QED
      BY <2>1, <3>1, <3>2
  <2> QED
    BY <1>0, <1>2, <1>5, <2>1, <2>3 DEF TypeOK, OutOK, Files, ReadFile
<1>6. ASSUME ListFiles \/ Cancelled \/ Complete
      PROVE  TypeOK' /\ IsSeq(out')
  BY <1>0, <1>2, <1>6 DEF TypeInv, TypeOK, OutOK, Files, ListFiles, Cancelled, Complete
<1> QED
  BY <1>0, <1>1, <1>2, <1>3, <1>4, <1>5, <1>6 DEF TypeInv, ReadClaude, ReaderStep

LEMMA TypeCatalog ==
  ASSUME TypeInv,
         \/ \E o \in setup.orders : Call(o)
         \/ \E o \in setup.options : CallClaude(o)
         \/ Leave \/ Gather \/ CallOther \/ Return
  PROVE  TypeInv'
<1>0. TypeOK /\ InTurn /\ setup \in Setups /\ IsSeq(out)
  BY DEF TypeInv
<1>1. ASSUME NEW o \in setup.orders, Call(o)
      PROVE  TypeInv'
  <2>1. pc' = "idle" /\ order' \in Seq({Claude, Other}) /\ turn' \in Nat
    BY <1>0, <1>1, HarnessAssumption DEF InTurn, Turn, Idle, Call
  <2>2. TypeOK'
    BY <1>0, <1>1 DEF TypeOK, OutOK, Files, Call, Forget, clock, system
  <2>3. IsSeq(out')
    BY <1>1 DEF Call, Forget, IsSeq
  <2> QED
    BY <1>0, <1>1, <2>1, <2>2, <2>3 DEF TypeInv, InTurn, Call, clock
<1>2. ASSUME NEW o \in setup.options, CallClaude(o)
      PROVE  TypeInv'
  <2>1. CASE Begin(o) /\ UNCHANGED calls
    <3>1. alive' \in SUBSET (Pids \X Ids)
      BY <1>0, <2>1 DEF TypeOK, Begin, IsAgent
    <3>2. TypeOK'
      BY <1>0, <2>1, <3>1 DEF TypeOK, OutOK, Files, Begin, clock, disk, system
    <3>3. IsSeq(out') /\ setup' = setup
      BY <2>1 DEF Begin, IsSeq, clock
    <3>4. InTurn'
      BY <1>0, <1>2, <2>1 DEF InTurn, Turn, CallClaude, calls
    <3> QED
      BY <1>0, <3>2, <3>3, <3>4 DEF TypeInv
  <2>2. CASE pc = "idle" /\ turn' = turn + 1 /\ UNCHANGED <<vars, order>>
    BY <1>0, <2>2 DEF TypeInv, TypeOK, OutOK, Files, InTurn, vars, clock, disk, system, reader, history
  <2> QED
    BY <1>2, <2>1, <2>2 DEF CallClaude
<1>3. ASSUME Gather
      PROVE  TypeInv'
  <2>1. InTurn'
    BY <1>0, <1>3 DEF InTurn, Gather
  <2>2. TypeOK' /\ IsSeq(out') /\ setup' = setup
    BY <1>0, <1>3 DEF TypeOK, OutOK, Files, Gather, clock, disk, system, history
  <2> QED
    BY <1>0, <2>1, <2>2 DEF TypeInv
<1>4. ASSUME Leave \/ CallOther \/ Return
      PROVE  TypeInv'
  <2>1. UNCHANGED <<vars, order>> /\ turn' \in Nat
    BY <1>0, <1>4 DEF InTurn, Leave, CallOther, Return
  <2>2. pc = "idle"
    <3>1. CASE CallOther
      BY <1>0, <3>1, HarnessAssumption DEF InTurn, Turn, CallOther
    <3>2. CASE Return
      BY <1>0, <3>2 DEF InTurn, Turn, Return
    <3> QED
      BY <1>4, <3>1, <3>2 DEF Leave
  <2> QED
    BY <1>0, <2>1, <2>2
       DEF TypeInv, TypeOK, OutOK, Files, InTurn, vars, clock, disk, system, reader, history
<1> QED
  BY <1>1, <1>2, <1>3, <1>4

LEMMA TypeStep == TypeInv /\ [CNext]_cvars => TypeInv'
<1> SUFFICES ASSUME TypeInv, [CNext]_cvars PROVE TypeInv'
  OBVIOUS
<1>1. CASE UNCHANGED cvars
  BY <1>1 DEF TypeInv, TypeOK, OutOK, Files, InTurn, Turn, cvars, vars, calls, clock, disk, system,
              reader, history
<1> QED
  BY <1>1, TypeWorld, TypeReader, TypeCatalog DEF CNext

\* Every reachable state of the reader, of the catalog that calls it and of the
\* agents around them is well typed (List, liveSessions, Catalog.List).
THEOREM TypeCorrect == CSpec => []TypeOK
<1>1. TypeInv => TypeOK
  BY DEF TypeInv
<1> QED
  BY <1>1, TypeInit, TypeStep, PTL DEF CSpec

-----------------------------------------------------------------------------
(* Who is running.  What makes a record trustworthy is that no process     *)
(* with its pid can have started soon after it was written but the agent   *)
(* that wrote it.                                                          *)

\* If a process that started by the time the record says has its pid it is the
\* agent that wrote it; any other came later than ReuseGap.
Genuine(r) ==
  /\ r.startedAt <= now
  /\ Running(r.pid) /\ start[r.pid] <= r.startedAt => agent[r.pid] = r.id
  /\ Running(r.pid) /\ start[r.pid] > r.startedAt => start[r.pid] >= r.startedAt + ReuseGap
  /\ ~Running(r.pid) => free[r.pid] >= r.startedAt + ReuseGap

SystemInv ==
  /\ \A p \in Pids : Running(p) => start[p] <= now
  /\ \A p \in Pids : IsLive(rec[p]) => rec[p].pid = p /\ Genuine(rec[p])
  /\ held # None => Genuine(held)

\* Every agent there is while the reader works is one it may call alive, and so is
\* every one it has found.
FoundInv ==
  /\ pc # "idle" => \A p \in Pids : IsAgent(p) => <<p, agent[p]>> \in alive
  /\ \A i \in Ids : live[i] # None => live[i].id = i /\ <<live[i].pid, i>> \in alive
  /\ RunningWasAlive

AliveInv == TypeInv /\ SystemInv /\ FoundInv

\* The types of what the steps below compare.
LEMMA Times ==
  ASSUME TypeOK, NEW p \in Pids
  PROVE  /\ now \in Nat /\ free[p] \in Nat /\ (Running(p) => start[p] \in Nat)
         /\ StartTolerance \in Nat /\ ReuseGap \in Nat /\ StartTolerance < ReuseGap
         /\ \A r \in LiveRecords : r.startedAt \in Nat /\ r.pid \in Pids /\ r.id \in Ids /\ IsLive(r) = (r # None /\ r # Torn)
         /\ IsLive(rec[p]) => rec[p] \in LiveRecords
<1> QED
  BY TimesAssumption DEF TypeOK, Running, IsLive, LiveRecords

LEMMA SystemInit == CInit => SystemInv /\ FoundInv
<1> QED
  BY DEF CInit, Init, SystemInv, FoundInv, RunningWasAlive, Running, IsLive, IsAgent

\* A step of a process keeps every record genuine that was.
LEMMA GenuineStays ==
  ASSUME TypeInv, NEW r \in LiveRecords, Genuine(r),
         NEW p \in Pids, AgentStep(p)
  PROVE  Genuine(r)'
<1>0. /\ TypeOK /\ now' = now
      /\ r.startedAt \in Nat /\ r.pid \in Pids
  BY DEF TypeInv, AgentStep, Start, Register, End, clock, LiveRecords
<1>1. now \in Nat /\ free[r.pid] \in Nat /\ ReuseGap \in Nat /\ StartTolerance \in Nat /\ StartTolerance < ReuseGap
  BY <1>0, Times
<1>2. ASSUME NEW i \in Ids \cup {NoId}, Start(p, i)
      PROVE  Genuine(r)'
  <2>1. CASE r.pid = p
    <3>1. ~Running(p) /\ now >= free[p] /\ start'[p] = now /\ free' = free
      BY <1>0, <1>2 DEF Start, TypeOK
    <3>2. start'[p] >= r.startedAt + ReuseGap
      BY <1>0, <1>1, <2>1, <3>1 DEF Genuine
    <3>3. start'[p] > r.startedAt /\ start'[p] \in Nat
      BY <1>0, <1>1, <3>1, <3>2
    <3> QED
      BY <1>0, <1>1, <2>1, <3>1, <3>2, <3>3, NoneAssumption DEF Genuine, Running
  <2>2. CASE r.pid # p
    BY <1>0, <1>2, <2>2 DEF Start, TypeOK, Genuine, Running
  <2> QED
    BY <2>1, <2>2
<1>3. CASE Register(p)
  BY <1>0, <1>3 DEF Register, Genuine, Running
<1>4. CASE End(p)
  <2>1. CASE r.pid = p
    <3>1. start'[p] = None /\ free'[p] = now + ReuseGap
      BY <1>0, <1>4 DEF End, TypeOK
    <3> QED
      BY <1>0, <1>1, <2>1, <3>1 DEF Genuine, Running
  <2>2. CASE r.pid # p
    BY <1>0, <1>4, <2>2 DEF End, TypeOK, Genuine, Running
  <2> QED
    BY <2>1, <2>2
<1> QED
  BY <1>2, <1>3, <1>4 DEF AgentStep

LEMMA SystemWorld ==
  ASSUME TypeInv, SystemInv, World
  PROVE  SystemInv'
<1>0. TypeOK /\ held' = held /\ setup.pids \subseteq Pids
  BY SetupsAssumption DEF TypeInv, World, AgentStep, Tick, Grow, Prune, Start, Register, End, reader
<1>1. ASSUME NEW p \in Pids, AgentStep(p)
      PROVE  SystemInv'
  <2>1. now' = now /\ now \in Nat
    BY <1>0, <1>1, Times DEF AgentStep, Start, Register, End, clock
  <2>2. \A q \in Pids : Running(q)' => start'[q] <= now'
    BY <1>0, <1>1, <2>1 DEF SystemInv, TypeOK, AgentStep, Start, Register, End, Running
  <2>3. held' # None => Genuine(held)'
    <3>1. held # None => held \in LiveRecords
      BY <1>0 DEF TypeOK
    <3> QED
      BY <1>0, <1>1, <3>1, GenuineStays DEF SystemInv
  <2>4. ASSUME NEW q \in Pids, IsLive(rec'[q])
        PROVE  rec'[q].pid = q /\ Genuine(rec[q])'
    <3>1. CASE rec'[q] = rec[q]
      BY <1>0, <1>1, <2>4, <3>1, GenuineStays, Times DEF SystemInv, IsLive
    <3>2. CASE rec'[q] # rec[q]
      <4>1. q = p /\ Register(p)
        BY <1>0, <1>1, <2>4, <3>2 DEF AgentStep, Start, Register, End, TypeOK, IsLive
      <4>2. rec'[p].pid = p /\ rec'[p].id = agent[p] /\ rec'[p].startedAt = now
        BY <1>0, <2>4, <4>1 DEF Register, TypeOK, IsLive
      <4>3. Running(p) /\ start[p] <= now /\ start' = start /\ agent' = agent
        BY <4>1 DEF SystemInv, Register, IsAgent
      <4>4. start[p] \in Nat
        BY <1>0, <4>3, Times
      <4> QED
        BY <2>1, <4>1, <4>2, <4>3, <4>4 DEF Genuine, Running
    <3> QED
      BY <3>1, <3>2
  <2> QED
    BY <2>2, <2>3, <2>4 DEF SystemInv
<1>2. ASSUME Tick
      PROVE  SystemInv'
  <2>1. now' = now + 1 /\ now \in Nat /\ UNCHANGED <<start, agent, free, rec>>
    BY <1>0, <1>2, TimesAssumption DEF Tick, TypeOK, system
  <2>2. \A p \in Pids : Running(p) => start[p] \in Nat
    BY <1>0, Times
  <2>3. \A r \in LiveRecords : Genuine(r) => Genuine(r)'
    BY <2>1 DEF Genuine, Running, LiveRecords
  <2>4. held' # None => Genuine(held)'
    <3>1. held # None => held \in LiveRecords
      BY <1>0 DEF TypeOK
    <3> QED
      BY <1>0, <2>3, <3>1 DEF SystemInv, Genuine, Running
  <2>5. \A p \in Pids : Running(p)' => start'[p] <= now'
    BY <2>1, <2>2 DEF SystemInv, Running
  <2>6. \A p \in Pids : IsLive(rec[p])' => rec'[p].pid = p /\ Genuine(rec[p])'
    BY <1>0, <2>1, <2>3, Times DEF SystemInv, Genuine, Running, IsLive
  <2> QED
    BY <2>4, <2>5, <2>6 DEF SystemInv
<1>3. ASSUME NEW f \in Files, Grow(f) \/ Prune(f)
      PROVE  SystemInv'
  BY <1>0, <1>3 DEF Grow, Prune, clock, system, SystemInv, Genuine, Running, IsLive
<1> QED
  BY <1>0, <1>1, <1>2, <1>3 DEF World

LEMMA SystemRest ==
  ASSUME TypeInv, SystemInv, [CNext]_cvars, ~World
  PROVE  SystemInv'
<1>1. UNCHANGED <<now, system>>
  BY DEF CNext, Call, CallClaude, Begin, Leave, ReadClaude, ReaderStep, ReadRecord, Probe, ListFiles, ReadFile,
         Cancelled, Complete, Gather, CallOther, Return, cvars, vars, clock
<1>2. held' = held \/ held' = None \/ \E p \in Pids : IsLive(rec[p]) /\ held' = rec[p]
  BY DEF CNext, Call, CallClaude, Begin, Leave, ReadClaude, ReaderStep, ReadRecord, Probe, ListFiles, ReadFile,
         Cancelled, Complete, Gather, CallOther, Return, cvars, vars, reader, TypeInv, TypeOK
<1>3. held' # None => Genuine(held)'
  BY <1>1, <1>2 DEF SystemInv, Genuine, Running, system
<1> QED
  BY <1>1, <1>3 DEF SystemInv, Genuine, Running, IsLive, system

\* A process that Matches a genuine record is the agent of it.
LEMMA MatchIsAgent ==
  ASSUME TypeInv, SystemInv, pc = "probe", Matches(held)
  PROVE  held.pid \in Pids /\ IsAgent(held.pid) /\ agent[held.pid] = held.id /\ held.id \in Ids
<1>1. held \in LiveRecords /\ Genuine(held)
  BY DEF TypeInv, TypeOK, SystemInv
<1>2. held.pid \in Pids /\ held.id \in Ids /\ held.startedAt \in Nat
  BY <1>1 DEF LiveRecords
<1>3. /\ Running(held.pid) /\ start[held.pid] \in Nat
      /\ StartTolerance \in Nat /\ ReuseGap \in Nat /\ StartTolerance < ReuseGap
  BY <1>2, Times DEF TypeInv, Matches
<1>4. start[held.pid] - held.startedAt <= StartTolerance
  BY <1>2, <1>3 DEF Matches
<1>5. start[held.pid] <= held.startedAt
  BY <1>1, <1>2, <1>3, <1>4 DEF Genuine
<1>6. agent[held.pid] = held.id
  BY <1>1, <1>3, <1>5 DEF Genuine
<1> QED
  BY <1>2, <1>3, <1>6, IdsAssumption DEF IsAgent

LEMMA FoundWorld ==
  ASSUME TypeInv, FoundInv, World
  PROVE  FoundInv'
<1>0. /\ TypeOK /\ UNCHANGED <<pc, live, out>> /\ alive \subseteq alive' /\ setup.pids \subseteq Pids
  BY SetupsAssumption DEF TypeInv, World, AgentStep, Tick, Grow, Prune, Start, Register, End, reader, history
<1>1. ASSUME pc # "idle", NEW q \in Pids, IsAgent(q)'
      PROVE  <<q, agent'[q]>> \in alive'
  <2>1. CASE start'[q] = start[q] /\ agent'[q] = agent[q]
    BY <1>0, <1>1, <2>1 DEF FoundInv, IsAgent, Running
  <2>2. ASSUME NEW p \in Pids, NEW i \in Ids \cup {NoId}, Start(p, i), q = p
        PROVE  <<q, agent'[q]>> \in alive'
    BY <1>0, <1>1, <2>2 DEF Start, TypeOK, IsAgent
  <2>3. ASSUME NEW p \in Pids, End(p), q = p
        PROVE  FALSE
    BY <1>0, <1>1, <2>3 DEF End, TypeOK, IsAgent, Running
  <2> QED
    BY <1>0, <2>1, <2>2, <2>3
       DEF World, AgentStep, Tick, Grow, Prune, Start, Register, End, system, TypeOK
<1>2. RunningWasAlive'
  BY <1>0 DEF FoundInv, RunningWasAlive
<1> QED
  BY <1>0, <1>1, <1>2 DEF FoundInv

LEMMA FoundReader ==
  ASSUME AliveInv, ReadClaude
  PROVE  FoundInv'
<1>0. /\ TypeOK /\ pc # "idle" /\ UNCHANGED <<start, agent, alive>>
  BY DEF AliveInv, TypeInv, ReadClaude, ReaderStep, ReadRecord, Probe, ListFiles, ReadFile, Cancelled, Complete,
         system, history
<1>1. \A p \in Pids : IsAgent(p)' => <<p, agent'[p]>> \in alive'
  BY <1>0 DEF AliveInv, FoundInv, IsAgent, Running
<1>2. ASSUME Probe
      PROVE  FoundInv'
  <2>1. ASSUME NEW i \in Ids, live'[i] # None
        PROVE  live'[i].id = i /\ <<live'[i].pid, i>> \in alive'
    <3>1. CASE live'[i] = live[i]
      BY <1>0, <2>1, <3>1 DEF AliveInv, FoundInv
    <3>2. CASE live'[i] # live[i]
      <4>1. Matches(held) /\ live'[i] = held /\ held.id = i
        BY <1>0, <1>2, <2>1, <3>2 DEF Probe, TypeOK
      <4> QED
        BY <1>0, <1>2, <4>1, MatchIsAgent DEF AliveInv, FoundInv, Probe
    <3> QED
      BY <3>1, <3>2
  <2> QED
    BY <1>0, <1>1, <1>2, <2>1 DEF AliveInv, FoundInv, RunningWasAlive, Probe
<1>3. ASSUME ReadFile
      PROVE  FoundInv'
  <2>1. PICK f \in files : out' = out \/ out' = out \o <<Listed(f)>>
    BY <1>3 DEF ReadFile
  <2>2. Listed(f).pid # NoPid => <<Listed(f).pid, Listed(f).id>> \in alive
    <3>1. setup.ids[f] \in Ids
      BY <1>0, <2>1, SetupsAssumption DEF AliveInv, TypeInv, TypeOK, Files
    <3> QED
      BY <3>1 DEF Listed, AliveInv, FoundInv
  <2>3. RunningWasAlive'
    <3>1. CASE out' = out
      BY <1>0, <3>1 DEF AliveInv, FoundInv, RunningWasAlive
    <3>2. CASE out' = out \o <<Listed(f)>>
      <4>1. \A n \in DOMAIN (out \o <<Listed(f)>>) :
              \/ n \in DOMAIN out /\ (out \o <<Listed(f)>>)[n] = out[n]
              \/ (out \o <<Listed(f)>>)[n] = Listed(f)
        BY SeqAppend DEF AliveInv, TypeInv
      <4>2. \A n \in DOMAIN out' : (n \in DOMAIN out /\ out'[n] = out[n]) \/ out'[n] = Listed(f)
        BY <3>2, <4>1
      <4> QED
        BY <1>0, <2>2, <4>2 DEF AliveInv, FoundInv, RunningWasAlive
    <3> QED
      BY <2>1, <3>1, <3>2
  <2> QED
    BY <1>0, <1>1, <1>3, <2>3 DEF AliveInv, FoundInv, ReadFile
<1>4. ASSUME ReadRecord \/ ListFiles \/ Cancelled \/ Complete
      PROVE  FoundInv'
  <2>1. UNCHANGED <<live, out>>
    BY <1>4 DEF ReadRecord, ListFiles, Cancelled, Complete
  <2> QED
    BY <1>0, <1>1, <2>1 DEF AliveInv, FoundInv, RunningWasAlive
<1> QED
  BY <1>2, <1>3, <1>4 DEF ReadClaude, ReaderStep

LEMMA FoundCatalog ==
  ASSUME TypeInv, FoundInv,
         \/ \E o \in setup.orders : Call(o)
         \/ \E o \in setup.options : CallClaude(o)
         \/ Leave \/ Gather \/ CallOther \/ Return
         \/ UNCHANGED cvars
  PROVE  FoundInv'
<1>1. ASSUME NEW o \in setup.orders, Call(o)
      PROVE  FoundInv'
  <2>1. pc' = "idle" /\ live' = [i \in Ids |-> None] /\ out' = <<>>
    BY <1>1 DEF TypeInv, InTurn, Turn, Idle, Call, Forget
  <2> QED
    BY <2>1 DEF FoundInv, RunningWasAlive
<1>2. ASSUME NEW o \in setup.options, Begin(o)
      PROVE  FoundInv'
  <2>1. live' = [i \in Ids |-> None] /\ out' = <<>> /\ UNCHANGED <<start, agent>>
    BY <1>2 DEF Begin, system
  <2>2. \A p \in Pids : IsAgent(p)' => <<p, agent'[p]>> \in alive'
    BY <1>2, <2>1 DEF Begin, IsAgent, Running
  <2> QED
    BY <2>1, <2>2 DEF FoundInv, RunningWasAlive
<1>3. CASE UNCHANGED vars
  BY <1>3 DEF FoundInv, RunningWasAlive, IsAgent, Running, vars, system, reader, history
<1>4. CASE Gather
  BY <1>4 DEF FoundInv, RunningWasAlive, IsAgent, Running, Gather, system, history
<1> QED
  BY <1>1, <1>2, <1>3, <1>4 DEF CallClaude, Leave, CallOther, Return, cvars

\* Whatever starts, ends, registers or crashes while List looks, and whichever pids
\* the system gives away: a session is shown as running only if an agent ran it
\* under that pid at some moment of the call (liveSessions).
THEOREM RunningIsGenuine == CSpec => []RunningWasAlive
<1>1. CInit => AliveInv
  BY TypeInit, SystemInit DEF AliveInv
<1>2. AliveInv /\ [CNext]_cvars => AliveInv'
  <2> SUFFICES ASSUME AliveInv, [CNext]_cvars PROVE AliveInv'
    OBVIOUS
  <2>1. TypeInv' /\ SystemInv'
    BY TypeStep, SystemWorld, SystemRest DEF AliveInv
  <2>2. FoundInv'
    BY FoundWorld, FoundReader, FoundCatalog DEF AliveInv, CNext
  <2> QED
    BY <2>1, <2>2 DEF AliveInv
<1>3. AliveInv => RunningWasAlive
  BY DEF AliveInv, FoundInv
<1> QED
  BY <1>1, <1>2, <1>3, PTL DEF CSpec

-----------------------------------------------------------------------------
(* Who must be shown as running.  A record that stays is read, probed and  *)
(* found, and nothing another record says takes it back.                   *)

SteadyInv ==
  /\ \A p \in steady : OnRecord(p)
  /\ pc \in {"live", "probe"} =>
       \A p \in steady : p \in recs \/ (pc = "probe" /\ held = rec[p]) \/ live[agent[p]] # None
  /\ pc = "files" => \A p \in steady : live[agent[p]] # None
  /\ SteadyIsRunning

ShownInv == TypeInv /\ SystemInv /\ SteadyInv

LEMMA SteadyWorld ==
  ASSUME TypeInv, SteadyInv, World
  PROVE  SteadyInv'
<1>0. /\ TypeOK /\ UNCHANGED <<pc, recs, held, live, out>> /\ steady' \subseteq steady
      /\ setup.pids \subseteq Pids
  BY SetupsAssumption DEF TypeInv, World, AgentStep, Tick, Grow, Prune, Start, Register, End, reader, history
<1>1. ASSUME NEW q \in steady'
      PROVE  start'[q] = start[q] /\ agent'[q] = agent[q] /\ rec'[q] = rec[q]
  <2>1. q \in steady /\ q \in Pids /\ OnRecord(q)
    BY <1>0, <1>1 DEF TypeOK, SteadyInv
  <2>2. start[q] \in Nat /\ rec[q].startedAt \in Nat /\ rec[q].startedAt >= start[q] /\ Running(q) /\ IsLive(rec[q])
    BY <1>0, <2>1, Times, TimesAssumption DEF OnRecord, IsAgent
  <2>3. ASSUME NEW p \in Pids, AgentStep(p)
        PROVE  start'[q] = start[q] /\ agent'[q] = agent[q] /\ rec'[q] = rec[q]
    <3>1. CASE Register(p)
      <4>1. p # q
        BY <2>2, <3>1 DEF Register
      <4> QED
        BY <1>0, <2>1, <3>1, <4>1 DEF Register, TypeOK
    <3>2. CASE End(p)
      <4>1. p # q
        BY <1>1, <3>2 DEF End
      <4> QED
        BY <1>0, <2>1, <3>2, <4>1 DEF End, TypeOK
    <3>3. ASSUME NEW i \in Ids \cup {NoId}, Start(p, i)
          PROVE  start'[q] = start[q] /\ agent'[q] = agent[q] /\ rec'[q] = rec[q]
      <4>1. p # q
        BY <2>2, <3>3 DEF Start
      <4> QED
        BY <1>0, <2>1, <3>3, <4>1 DEF Start, TypeOK
    <3> QED
      BY <2>3, <3>1, <3>2, <3>3 DEF AgentStep
  <2> QED
    BY <1>0, <2>3 DEF World, Tick, Grow, Prune, system
<1>2. \A p \in steady' : OnRecord(p)'
  BY <1>0, <1>1 DEF SteadyInv, OnRecord, IsAgent, Running, IsLive
<1>3. SteadyIsRunning'
  BY <1>0, <1>1 DEF SteadyInv, SteadyIsRunning
<1> QED
  BY <1>0, <1>1, <1>2, <1>3 DEF SteadyInv

LEMMA SteadyReader ==
  ASSUME ShownInv, ReadClaude
  PROVE  SteadyInv'
<1>0. /\ TypeOK /\ UNCHANGED <<start, agent, rec>> /\ steady' \in SUBSET steady
  BY DEF ShownInv, TypeInv, ReadClaude, ReaderStep, ReadRecord, Probe, ListFiles, ReadFile, Cancelled, Complete,
         system, history
<1>1. \A p \in steady : OnRecord(p)'
  BY <1>0 DEF ShownInv, SteadyInv, OnRecord, IsAgent, Running, IsLive
<1>2. ASSUME ReadRecord
      PROVE  SteadyInv'
  <2>1. PICK p \in recs : /\ recs' = recs \ {p}
                          /\ \/ IsLive(rec[p]) /\ held' = rec[p] /\ pc' = "probe"
                             \/ ~IsLive(rec[p]) /\ UNCHANGED <<held, pc>>
                             \/ UNCHANGED <<held, pc>> /\ steady' = steady \ {p}
    BY <1>2 DEF ReadRecord
  <2>2. pc = "live" /\ UNCHANGED <<live, out>>
    BY <1>2 DEF ReadRecord
  <2>3. p \in steady => IsLive(rec[p])
    BY DEF ShownInv, SteadyInv, OnRecord
  <2> QED
    BY <1>0, <1>1, <2>1, <2>2, <2>3 DEF ShownInv, SteadyInv, SteadyIsRunning
<1>3. ASSUME Probe
      PROVE  SteadyInv'
  <2>1. pc = "probe" /\ pc' = "live" /\ UNCHANGED <<recs, out>> /\ held \in LiveRecords /\ held # None
    BY <1>0, <1>3 DEF Probe, TypeOK
  <2>2. \A i \in Ids : live[i] # None => live'[i] # None
    BY <1>0, <1>3, <2>1 DEF Probe, TypeOK
  <2>3. ASSUME NEW p \in steady', held = rec[p]
        PROVE  live'[agent[p]] # None
    <3>1. p \in Pids /\ OnRecord(p)
      BY <1>0 DEF TypeOK, ShownInv, SteadyInv
    <3>2. Running(p) /\ held.pid = p /\ held.id = agent[p] /\ agent[p] \in Ids
      BY <2>1, <2>3, <3>1 DEF OnRecord, IsAgent, ShownInv, SystemInv, LiveRecords
    <3>3. held.startedAt \in start[p] .. start[p] + StartTolerance
      BY <2>3, <3>1 DEF OnRecord
    <3>4. start[p] \in Nat /\ held.startedAt \in Nat /\ StartTolerance \in Nat
      BY <1>0, <2>1, <3>1, <3>2, Times
    <3>5. start[p] - held.startedAt \in -StartTolerance .. StartTolerance
      BY <3>3, <3>4
    <3>6. Matches(held)
      BY <3>2, <3>5 DEF Matches
    <3>7. live' = [live EXCEPT ![held.id] = IF Matches(held) THEN held ELSE @]
      BY <1>3, <3>2 DEF Probe
    <3> QED
      BY <1>0, <2>1, <3>2, <3>6, <3>7 DEF TypeOK
  <2>4. \A p \in steady : agent[p] \in Ids
    BY <1>0 DEF TypeOK, ShownInv, SteadyInv, OnRecord, IsAgent
  <2> QED
    BY <1>0, <1>1, <2>1, <2>2, <2>3, <2>4 DEF ShownInv, SteadyInv, SteadyIsRunning
<1>4. ASSUME ReadFile
      PROVE  SteadyInv'
  <2>1. PICK f \in files : out' = out \/ out' = out \o <<Listed(f)>>
    BY <1>4 DEF ReadFile
  <2>2. pc = "files" /\ UNCHANGED <<pc, recs, held, live>>
    BY <1>4 DEF ReadFile
  <2>3. (\E p \in steady : agent[p] = Listed(f).id) => Listed(f).pid # NoPid
    <3>1. setup.ids[f] \in Ids
      BY <1>0, <2>1, SetupsAssumption DEF ShownInv, TypeInv, TypeOK, Files
    <3>2. live[setup.ids[f]] # None => live[setup.ids[f]].pid \in Pids
      BY <1>0, <3>1 DEF TypeOK, LiveRecords
    <3> QED
      BY <2>2, <3>2, PidsAssumption DEF Listed, ShownInv, SteadyInv
  <2>4. SteadyIsRunning'
    <3>1. CASE out' = out
      BY <1>0, <3>1 DEF ShownInv, SteadyInv, SteadyIsRunning
    <3>2. CASE out' = out \o <<Listed(f)>>
      <4>1. \A n \in DOMAIN (out \o <<Listed(f)>>) :
              \/ n \in DOMAIN out /\ (out \o <<Listed(f)>>)[n] = out[n]
              \/ (out \o <<Listed(f)>>)[n] = Listed(f)
        BY SeqAppend DEF ShownInv, TypeInv
      <4>2. \A n \in DOMAIN out' : (n \in DOMAIN out /\ out'[n] = out[n]) \/ out'[n] = Listed(f)
        BY <3>2, <4>1
      <4> QED
        BY <1>0, <2>3, <4>2 DEF ShownInv, SteadyInv, SteadyIsRunning
    <3> QED
      BY <2>1, <3>1, <3>2
  <2> QED
    BY <1>0, <1>1, <2>2, <2>4 DEF ShownInv, SteadyInv
<1>5. ASSUME ListFiles \/ Cancelled \/ Complete
      PROVE  SteadyInv'
  BY <1>0, <1>1, <1>5 DEF ListFiles, Cancelled, Complete, ShownInv, SteadyInv, SteadyIsRunning
<1> QED
  BY <1>2, <1>3, <1>4, <1>5 DEF ReadClaude, ReaderStep

LEMMA SteadyCatalog ==
  ASSUME TypeInv, SteadyInv,
         \/ \E o \in setup.orders : Call(o)
         \/ \E o \in setup.options : CallClaude(o)
         \/ Leave \/ Gather \/ CallOther \/ Return
         \/ UNCHANGED cvars
  PROVE  SteadyInv'
<1>1. ASSUME NEW o \in setup.orders, Call(o)
      PROVE  SteadyInv'
  <2>1. out' = <<>> /\ steady' = {}
    BY <1>1 DEF Call, Forget
  <2> QED
    BY <2>1 DEF SteadyInv, SteadyIsRunning
<1>2. ASSUME NEW o \in setup.options, Begin(o)
      PROVE  SteadyInv'
  <2>1. /\ out' = <<>> /\ pc' = "live" /\ UNCHANGED <<start, agent, rec>>
        /\ \/ recs' = {p \in Pids : rec[p] # None} /\ steady' = {p \in Pids : OnRecord(p)}
           \/ steady' = {}
    BY <1>2 DEF Begin, system
  <2>2. \A p \in steady' : p \in recs' /\ OnRecord(p)'
    BY <2>1 DEF OnRecord, IsAgent, Running, IsLive
  <2> QED
    BY <2>1, <2>2 DEF SteadyInv, SteadyIsRunning
<1>3. CASE UNCHANGED vars
  BY <1>3 DEF SteadyInv, SteadyIsRunning, OnRecord, IsAgent, IsLive, Running, vars, system, reader, history
<1>4. CASE Gather
  BY <1>4 DEF SteadyInv, SteadyIsRunning, OnRecord, IsAgent, IsLive, Running, Gather, system, history
<1> QED
  BY <1>1, <1>2, <1>3, <1>4 DEF CallClaude, Leave, CallOther, Return, cvars

\* A session whose agent lived and was on record, in time, all through the call is
\* never shown as resumable, whatever other records say of it (liveSessions, List).
THEOREM SteadyIsShown == CSpec => []SteadyIsRunning
<1>1. CInit => ShownInv
  <2>1. CInit => SteadyInv
    BY DEF CInit, Init, SteadyInv, SteadyIsRunning
  <2> QED
    BY <2>1, TypeInit, SystemInit DEF ShownInv
<1>2. ShownInv /\ [CNext]_cvars => ShownInv'
  <2> SUFFICES ASSUME ShownInv, [CNext]_cvars PROVE ShownInv'
    OBVIOUS
  <2>1. TypeInv' /\ SystemInv'
    BY TypeStep, SystemWorld, SystemRest DEF ShownInv
  <2>2. SteadyInv'
    BY SteadyWorld, SteadyReader, SteadyCatalog DEF ShownInv, CNext
  <2> QED
    BY <2>1, <2>2 DEF ShownInv
<1>3. ShownInv => SteadyIsRunning
  BY DEF ShownInv, SteadyInv
<1> QED
  BY <1>1, <1>2, <1>3, PTL DEF CSpec

-----------------------------------------------------------------------------
(* What a window tells of a transcript, for all transcripts and windows.   *)

\* A line ends where the one before it does, and its bytes later.
LEMMA EndsAre ==
  ASSUME NEW ls \in Seq(LineRecords)
  PROVE  /\ EndOf(ls, 0) = 0
         /\ \A n \in 1 .. Len(ls) : EndOf(ls, n) = EndOf(ls, n - 1) + ls[n].size
         /\ \A n \in 0 .. Len(ls) : EndOf(ls, n) \in Nat
<1> DEFINE N == Len(ls)
           Is(f, k) == /\ f \in [0 .. k -> Nat] /\ f[0] = 0
                       /\ \A i \in 1 .. k : f[i] = f[i - 1] + ls[i].size
           Bad == {k \in 0 .. N : ~\E f : Is(f, k)}
<1>1. N \in Nat /\ \A n \in 1 .. N : ls[n].size \in Nat
  <2>1. \A r \in LineRecords : r.size \in Nat
    BY DEF LineRecords
  <2> QED
    BY <2>1
<1>2. ASSUME Bad # {}
      PROVE  FALSE
  <2>1. PICK k \in Bad : \A j \in Bad : k <= j
    <3>1. Bad \in SUBSET Nat
      BY <1>1
    <3> HIDE DEF Bad
    <3> QED
      BY <1>2, <3>1, Least
  <2>2. CASE k = 0
    <3>1. Is([i \in 0 .. 0 |-> 0], 0)
      OBVIOUS
    <3> QED
      BY <2>1, <2>2, <3>1
  <2>3. CASE k # 0
    <3>1. k \in 1 .. N /\ k - 1 \in 0 .. N /\ k - 1 \notin Bad
      BY <1>1, <2>1, <2>3
    <3>2. PICK f : Is(f, k - 1)
      BY <3>1
    <3> DEFINE g == [i \in 0 .. k |-> IF i = k THEN f[k - 1] + ls[k].size ELSE f[i]]
    <3>3. g \in [0 .. k -> Nat] /\ g[0] = 0
      BY <1>1, <3>1, <3>2
    <3>4. \A i \in 1 .. k : g[i] = g[i - 1] + ls[i].size
      BY <1>1, <3>1, <3>2
    <3>5. Is(g, k)
      BY <3>3, <3>4
    <3> QED
      BY <2>1, <3>5
  <2> QED
    BY <2>2, <2>3
<1>3. PICK f : Is(f, N)
  BY <1>1, <1>2
<1> DEFINE By(end) == [k \in 0 .. N |-> IF k = 0 THEN 0 ELSE end[k - 1] + ls[k].size]
<1>4. f = By(f)
  BY <1>1, <1>3
<1> DEFINE e == CHOOSE end : end = By(end)
<1>5. e = By(e)
  BY <1>4
<1>6. \A n : EndOf(ls, n) = e[n]
  BY DEF EndOf
<1> HIDE DEF e
<1>7. e[0] = 0 /\ \A n \in 1 .. N : e[n] = e[n - 1] + ls[n].size
  BY <1>1, <1>5
<1> DEFINE Wrong == {k \in 0 .. N : e[k] \notin Nat}
<1>8. ASSUME Wrong # {}
      PROVE  FALSE
  <2>1. PICK k \in Wrong : \A j \in Wrong : k <= j
    <3>1. Wrong \in SUBSET Nat
      BY <1>1
    <3> HIDE DEF Wrong
    <3> QED
      BY <1>8, <3>1, Least
  <2>2. k # 0 /\ k \in 1 .. N /\ k - 1 \in 0 .. N /\ k - 1 \notin Wrong
    BY <1>1, <1>7, <2>1
  <2> QED
    BY <1>1, <1>7, <2>1, <2>2
<1> QED
  BY <1>1, <1>6, <1>7, <1>8

\* Lines follow each other.
LEMMA LinesAscend ==
  ASSUME NEW ls \in Seq(LineRecords)
  PROVE  /\ \A n \in DOMAIN ls : EndOf(ls, n) \in Nat /\ BeginOf(ls, n) \in Nat /\ BeginOf(ls, n) < EndOf(ls, n)
         /\ \A m, n \in DOMAIN ls : m < n => BeginOf(ls, m) < BeginOf(ls, n) /\ EndOf(ls, m) < EndOf(ls, n)
<1> DEFINE N == Len(ls)
<1>1. N \in Nat /\ DOMAIN ls = 1 .. N /\ \A n \in 1 .. N : ls[n].size \in Nat /\ ls[n].size > 0
  <2>1. \A r \in LineRecords : r.size \in Nat /\ r.size > 0
    BY DEF LineRecords
  <2> QED
    BY <2>1
<1>2. /\ \A n \in 1 .. N : EndOf(ls, n) = EndOf(ls, n - 1) + ls[n].size
      /\ \A n \in 0 .. N : EndOf(ls, n) \in Nat
  BY EndsAre
<1> HIDE DEF N
<1>3. ASSUME NEW i \in 0 .. N
      PROVE  \A j \in 0 .. N : i < j => EndOf(ls, i) < EndOf(ls, j)
  <2> DEFINE Bad == {j \in 0 .. N : i < j /\ ~(EndOf(ls, i) < EndOf(ls, j))}
  <2>1. ASSUME Bad # {}
        PROVE  FALSE
    <3>1. PICK k \in Bad : \A j \in Bad : k <= j
      <4>1. Bad \in SUBSET Nat
        BY <1>1
      <4> HIDE DEF Bad
      <4> QED
        BY <2>1, <4>1, Least
    <3>2. k \in 1 .. N /\ k - 1 \in 0 .. N /\ k - 1 \notin Bad /\ i <= k - 1
      BY <1>1, <3>1
    <3>3. EndOf(ls, i) <= EndOf(ls, k - 1)
      BY <1>1, <1>2, <3>2
    <3> QED
      BY <1>1, <1>2, <3>1, <3>2, <3>3
  <2> QED
    BY <2>1
<1>4. \A n \in 1 .. N : BeginOf(ls, n) = EndOf(ls, n - 1) /\ n - 1 \in 0 .. N /\ n \in 0 .. N
  BY <1>1, <1>2 DEF BeginOf
<1>5. \A n \in 1 .. N : EndOf(ls, n) \in Nat /\ BeginOf(ls, n) \in Nat /\ BeginOf(ls, n) < EndOf(ls, n)
  BY <1>1, <1>2, <1>3, <1>4
<1>6. \A m, n \in 1 .. N : m < n => m - 1 < n - 1
  BY <1>1
<1>7. \A m, n \in 1 .. N : m < n => BeginOf(ls, m) < BeginOf(ls, n) /\ EndOf(ls, m) < EndOf(ls, n)
  BY <1>3, <1>4, <1>6
<1> QED
  BY <1>1, <1>5, <1>7

\* Max and Min are what they are called.
LEMMA MaxIs ==
  ASSUME NEW S \in SUBSET Nat, S # {}, IsFiniteSet(S)
  PROVE  Max(S) \in S /\ \A n \in S : Max(S) >= n
BY Greatest DEF Max

LEMMA MinIs ==
  ASSUME NEW S \in SUBSET Nat, S # {}
  PROVE  Min(S) \in S /\ \A n \in S : Min(S) <= n
BY Least DEF Min

LEMMA SomeLines ==
  ASSUME NEW ls \in Seq(LineRecords), NEW S \in SUBSET DOMAIN ls
  PROVE  S \in SUBSET Nat /\ IsFiniteSet(S)
<1>1. Len(ls) \in Nat /\ DOMAIN ls = 1 .. Len(ls)
  OBVIOUS
<1>2. IsFiniteSet(DOMAIN ls)
  BY <1>1, FS_Interval
<1> QED
  BY <1>1, <1>2, FS_Subset

\* A window sees the last of some lines if it sees any of them.
LEMMA LastInWindow ==
  ASSUME NEW ls \in Seq(LineRecords), NEW from \in Nat, NEW to \in Nat, NEW K \in SUBSET DOMAIN ls,
         K \cap ScanRecords(ls, from, to) # {}
  PROVE  /\ K \cap ScanRecords(ls, 0, to) # {}
         /\ Max(K \cap ScanRecords(ls, from, to)) = Max(K \cap ScanRecords(ls, 0, to))
<1> DEFINE W == K \cap ScanRecords(ls, from, to)
           A == K \cap ScanRecords(ls, 0, to)
<1>1. W \subseteq A /\ \A m \in W, n \in A : m < n => n \in W
  BY LinesAscend DEF ScanRecords
<1>2. A \in SUBSET Nat /\ W \in SUBSET Nat /\ IsFiniteSet(A) /\ IsFiniteSet(W)
  BY SomeLines
<1>3. W # {}
  OBVIOUS
<1> HIDE DEF W, A
<1>4. Max(W) \in W /\ \A n \in W : Max(W) >= n
  BY <1>2, <1>3, MaxIs
<1>5. Max(A) \in A /\ \A n \in A : Max(A) >= n
  BY <1>1, <1>2, <1>3, MaxIs
<1>6. Max(W) = Max(A)
  <2>1. Max(A) >= Max(W) /\ Max(W) \in Nat /\ Max(A) \in Nat
    BY <1>1, <1>2, <1>4, <1>5
  <2>2. Max(A) > Max(W) => Max(A) \in W
    BY <1>1, <1>4, <1>5
  <2> QED
    BY <1>4, <2>1, <2>2
<1> QED
  BY <1>1, <1>3, <1>6 DEF W, A

PromptsOf(ls) == {n \in DOMAIN ls : IsHumanPrompt(ls[n])}
MainOf(ls) == {n \in DOMAIN ls : ls[n].time # NoTime /\ ~ls[n].side}
TitlesOf(ls) == {n \in DOMAIN ls : ls[n].type = "ai-title" /\ ls[n].title # ""}
ShownOf(ls) == {n \in DOMAIN ls : IsShown(ls[n])}

\* What Latest takes from some lines.
LEMMA LatestIs ==
  ASSUME NEW ls \in Seq(LineRecords), NEW S \in SUBSET DOMAIN ls
  PROVE  /\ Latest(ls, S).human = LastOf(ls, PromptsOf(ls) \cap S, "time", NoTime)
         /\ Latest(ls, S).activity = LastOf(ls, MainOf(ls) \cap S, "time", NoTime)
         /\ Latest(ls, S).title = LastOf(ls, TitlesOf(ls) \cap S, "title", "")
         /\ Latest(ls, S).prompts = [i \in DOMAIN InFileOrder(ShownOf(ls) \cap S) |->
                                       [at |-> ls[InFileOrder(ShownOf(ls) \cap S)[i]].time,
                                        text |-> ls[InFileOrder(ShownOf(ls) \cap S)[i]].text]]
<1>1. /\ {n \in S : IsHumanPrompt(ls[n])} = PromptsOf(ls) \cap S
      /\ {n \in Stamped(ls, S) : ~ls[n].side} = MainOf(ls) \cap S
      /\ {n \in S : ls[n].type = "ai-title" /\ ls[n].title # ""} = TitlesOf(ls) \cap S
      /\ Shown(ls, S) = ShownOf(ls) \cap S
  BY DEF PromptsOf, MainOf, TitlesOf, ShownOf, Stamped, Shown
<1> QED
  BY <1>1 DEF Latest

\* A stamped human prompt is one of the main lines.
LEMMA PromptIsMain ==
  ASSUME NEW ls \in Seq(LineRecords), NEW n \in PromptsOf(ls), ls[n].time # NoTime
  PROVE  n \in MainOf(ls)
BY DEF PromptsOf, MainOf, IsHumanPrompt

\* The loop of readTail ends, with all of the transcript, with all it may read, or
\* with a human prompt.
LEMMA TailWindow ==
  ASSUME NEW ls \in Seq(LineRecords), NEW to \in Nat
  PROVE  \E w \in 1 .. MaxTailBytes, from \in Nat :
           /\ from = (IF to > w THEN to - w ELSE 0)
           /\ ReadTail(ls, to) = Latest(ls, ScanRecords(ls, from, to))
           /\ \/ w >= to \/ w = MaxTailBytes
              \/ ReadTail(ls, to).human # NoTime
<1> DEFINE Good == {w \in Windows : Stops(ls, to, w)}
           w == Min(Good)
           from == Max({to - w, 0})
<1>1. Windows \subseteq 1 .. MaxTailBytes /\ MaxTailBytes \in Windows /\ MaxTailBytes \in Nat
  BY BytesAssumption DEF Windows
<1>2. Good # {} /\ Good \in SUBSET Nat
  <2>1. Stops(ls, to, MaxTailBytes)
    BY DEF Stops
  <2>2. MaxTailBytes \in Good
    BY <1>1, <2>1
  <2>3. \A x \in Good : x \in Windows
    OBVIOUS
  <2> HIDE DEF Good
  <2> QED
    BY <1>1, <2>2, <2>3
<1>3. w \in Good
  <2> HIDE DEF Good
  <2> QED
    BY <1>2, MinIs
<1>4. w \in 1 .. MaxTailBytes /\ Stops(ls, to, w)
  BY <1>1, <1>3
<1>5. ReadTail(ls, to) = Latest(ls, ScanRecords(ls, from, to))
  BY DEF ReadTail, TailFrom
<1>6. TailFrom(ls, to, w) = ReadTail(ls, to)
  BY DEF ReadTail
<1> HIDE DEF w
<1>7. from = (IF to > w THEN to - w ELSE 0) /\ from \in Nat
  <2>1. PICK a \in Int : a = to - w
    BY <1>4
  <2>2. Max({a, 0}) = (IF a > 0 THEN a ELSE 0)
    BY DEF Max
  <2> QED
    BY <1>4, <2>1, <2>2
<1> QED
  BY <1>4, <1>5, <1>6, <1>7 DEF Stops

\* Of some lines, those the window sees.
NearIn(ls, S, to) == \E n \in S : to <= MaxTailBytes \/ BeginOf(ls, n) > to - MaxTailBytes

\* The window does not show in the times.
LEMMA TailTimes ==
  ASSUME NEW ls \in Seq(LineRecords), NEW to \in Nat
  PROVE  LET lines == ScanRecords(ls, 0, to)
             human == PromptsOf(ls) \cap lines
             main == MainOf(ls) \cap lines
         IN /\ ReadTail(ls, to).human = IF NearIn(ls, human, to) THEN Latest(ls, lines).human ELSE NoTime
            /\ ReadTail(ls, to).activity = IF NearIn(ls, main, to) THEN Latest(ls, lines).activity ELSE NoTime
<1> DEFINE lines == ScanRecords(ls, 0, to)
           human == PromptsOf(ls) \cap lines
           main == MainOf(ls) \cap lines
<1>1. PICK w \in 1 .. MaxTailBytes, from \in Nat :
        /\ from = (IF to > w THEN to - w ELSE 0)
        /\ ReadTail(ls, to) = Latest(ls, ScanRecords(ls, from, to))
        /\ \/ w >= to \/ w = MaxTailBytes
           \/ ReadTail(ls, to).human # NoTime
  BY TailWindow
<1> DEFINE win == ScanRecords(ls, from, to)
<1>2. win \subseteq DOMAIN ls /\ lines \subseteq DOMAIN ls
  BY DEF ScanRecords
<1>3. win = {n \in lines : from = 0 \/ BeginOf(ls, n) > from}
  BY DEF ScanRecords
<1>4. \A n \in DOMAIN ls : BeginOf(ls, n) \in Nat
  BY LinesAscend
<1>5. MaxTailBytes \in Nat /\ w \in Nat /\ w <= MaxTailBytes
  BY BytesAssumption
<1>6. PromptsOf(ls) \subseteq DOMAIN ls /\ MainOf(ls) \subseteq DOMAIN ls
  BY DEF PromptsOf, MainOf
<1>7. ASSUME NEW K \in SUBSET DOMAIN ls
      PROVE  /\ K \cap win # {} => NearIn(ls, K \cap lines, to) /\ LastOf(ls, K \cap win, "time", NoTime) = LastOf(ls, K \cap lines, "time", NoTime)
             /\ (w >= to \/ w = MaxTailBytes) /\ K \cap win = {} => ~NearIn(ls, K \cap lines, to)
  <2>1. ASSUME K \cap win # {}
        PROVE  LastOf(ls, K \cap win, "time", NoTime) = LastOf(ls, K \cap lines, "time", NoTime)
    <3>1. K \cap lines # {} /\ Max(K \cap win) = Max(K \cap lines)
      <4> HIDE DEF win, lines
      <4>1. K \cap win # {} => K \cap lines # {} /\ Max(K \cap win) = Max(K \cap lines)
        BY LastInWindow DEF win, lines
      <4> QED
        BY <2>1, <4>1
    <3> QED
      BY <2>1, <3>1 DEF LastOf
  <2>2. ASSUME K \cap win # {}
        PROVE  NearIn(ls, K \cap lines, to)
    BY <1>1, <1>3, <1>4, <1>5, <2>2 DEF NearIn
  <2>3. ASSUME w >= to \/ w = MaxTailBytes, K \cap win = {}
        PROVE  ~NearIn(ls, K \cap lines, to)
    BY <1>1, <1>3, <1>4, <1>5, <2>3 DEF NearIn
  <2> QED
    BY <2>1, <2>2, <2>3
<1>8. /\ ReadTail(ls, to).human = LastOf(ls, PromptsOf(ls) \cap win, "time", NoTime)
      /\ ReadTail(ls, to).activity = LastOf(ls, MainOf(ls) \cap win, "time", NoTime)
      /\ Latest(ls, lines).human = LastOf(ls, human, "time", NoTime)
      /\ Latest(ls, lines).activity = LastOf(ls, main, "time", NoTime)
  <2>1. /\ Latest(ls, win).human = LastOf(ls, PromptsOf(ls) \cap win, "time", NoTime)
        /\ Latest(ls, win).activity = LastOf(ls, MainOf(ls) \cap win, "time", NoTime)
    BY <1>2, LatestIs
  <2>2. /\ Latest(ls, lines).human = LastOf(ls, human, "time", NoTime)
        /\ Latest(ls, lines).activity = LastOf(ls, main, "time", NoTime)
    BY <1>2, LatestIs
  <2> QED
    BY <1>1, <2>1, <2>2
<1>9. ReadTail(ls, to).human # NoTime => PromptsOf(ls) \cap win # {} /\ MainOf(ls) \cap win # {}
  <2> SUFFICES ASSUME ReadTail(ls, to).human # NoTime
               PROVE  PromptsOf(ls) \cap win # {} /\ MainOf(ls) \cap win # {}
    OBVIOUS
  <2> DEFINE P == PromptsOf(ls) \cap win
  <2>1. P # {} /\ ls[Max(P)].time # NoTime
    BY <1>8 DEF LastOf
  <2>2. P \in SUBSET Nat /\ IsFiniteSet(P)
    BY <1>6, SomeLines
  <2>3. Max(P) \in P
    <3> HIDE DEF P
    <3> QED
      BY <2>1, <2>2, MaxIs
  <2> QED
    BY <2>1, <2>3, PromptIsMain
<1> HIDE DEF win, lines
<1>10. ASSUME NEW K \in SUBSET DOMAIN ls, K \cap win # {} \/ w >= to \/ w = MaxTailBytes
       PROVE  LastOf(ls, K \cap win, "time", NoTime)
                = IF NearIn(ls, K \cap lines, to) THEN LastOf(ls, K \cap lines, "time", NoTime) ELSE NoTime
  BY <1>7, <1>10 DEF LastOf
<1>11. PromptsOf(ls) \cap win # {} \/ w >= to \/ w = MaxTailBytes
  BY <1>1, <1>9
<1>12. MainOf(ls) \cap win # {} \/ w >= to \/ w = MaxTailBytes
  BY <1>1, <1>9
<1> QED
  BY <1>6, <1>8, <1>10, <1>11, <1>12 DEF lines

\* InFileOrder puts lines in their order.
LEMMA InFileOrderIs ==
  ASSUME NEW S \in SUBSET Nat, IsFiniteSet(S)
  PROVE  Ascends(InFileOrder(S), S)
<1> DEFINE Good(s) == \A m, n \in DOMAIN s : m < n => s[m] < s[n]
<1>1. \A s \in [1 .. Cardinality(S) -> S] : Ascends(s, S) <=> Good(s)
  BY DEF Ascends
<1>2. \E s \in [1 .. Cardinality(S) -> S] : Good(s)
  BY <1>1, AscentExists
<1>3. /\ InFileOrder(S) \in [1 .. Cardinality(S) -> S]
      /\ Good(InFileOrder(S))
  BY <1>2 DEF InFileOrder
<1> QED
  BY <1>1, <1>3

\* The prompts of a window are the last of the file, what is kept of them too, and
\* a title in it is the last of the file.
LEMMA TailContent ==
  ASSUME NEW ls \in Seq(LineRecords), NEW to \in Nat
  PROVE  LET full == Latest(ls, ScanRecords(ls, 0, to))
             tail == ReadTail(ls, to)
         IN /\ Len(full.prompts) \in Nat /\ Len(tail.prompts) \in 0 .. Len(full.prompts)
            /\ DOMAIN full.prompts = 1 .. Len(full.prompts) /\ DOMAIN tail.prompts = 1 .. Len(tail.prompts)
            /\ \A i \in 1 .. Len(tail.prompts) :
                 tail.prompts[i] = full.prompts[Len(full.prompts) - Len(tail.prompts) + i]
            /\ tail.title # "" => tail.title = full.title
<1>1. PICK w \in 1 .. MaxTailBytes, from \in Nat :
        ReadTail(ls, to) = Latest(ls, ScanRecords(ls, from, to))
  BY TailWindow
<1> DEFINE lines == ScanRecords(ls, 0, to)
           win == ScanRecords(ls, from, to)
           S == ShownOf(ls) \cap lines
           T == ShownOf(ls) \cap win
           s == InFileOrder(S)
           t == InFileOrder(T)
           Said(n) == [at |-> ls[n].time, text |-> ls[n].text]
<1>2. lines \in SUBSET DOMAIN ls /\ win \in SUBSET DOMAIN ls
  BY DEF ScanRecords
<1>3. /\ Latest(ls, lines).prompts = [i \in DOMAIN s |-> Said(s[i])]
      /\ Latest(ls, lines).title = LastOf(ls, TitlesOf(ls) \cap lines, "title", "")
  BY <1>2, LatestIs
<1>4. /\ Latest(ls, win).prompts = [i \in DOMAIN t |-> Said(t[i])]
      /\ Latest(ls, win).title = LastOf(ls, TitlesOf(ls) \cap win, "title", "")
  BY <1>2, LatestIs
<1>5. T \in SUBSET S /\ \A x \in T, y \in S : x < y => y \in T
  BY LinesAscend DEF ScanRecords
<1>6. S \in SUBSET Nat /\ IsFiniteSet(S) /\ T \in SUBSET Nat /\ IsFiniteSet(T)
  BY <1>2, SomeLines
<1> HIDE DEF S, T
<1>7. Ascends(s, S) /\ Ascends(t, T)
  BY <1>6, InFileOrderIs
<1> HIDE DEF s, t
<1>8. /\ Cardinality(T) <= Cardinality(S)
      /\ \A i \in 1 .. Cardinality(T) : t[i] = s[Cardinality(S) - Cardinality(T) + i]
  BY <1>5, <1>6, <1>7, SortedEndsSorted
<1>9. /\ Cardinality(S) \in Nat /\ Cardinality(T) \in Nat
      /\ DOMAIN s = 1 .. Cardinality(S) /\ DOMAIN t = 1 .. Cardinality(T)
  BY <1>6, <1>7, FS_CardinalityType DEF Ascends
<1> DEFINE sp == Latest(ls, lines).prompts
           tp == Latest(ls, win).prompts
<1>10. /\ DOMAIN sp = 1 .. Cardinality(S) /\ \A i \in 1 .. Cardinality(S) : sp[i] = Said(s[i])
       /\ DOMAIN tp = 1 .. Cardinality(T) /\ \A i \in 1 .. Cardinality(T) : tp[i] = Said(t[i])
  <2> HIDE DEF Said
  <2> QED
    BY <1>3, <1>4, <1>9
<1> HIDE DEF sp, tp, Said
<1>11. /\ Len(sp) = Cardinality(S) /\ Len(tp) = Cardinality(T)
       /\ \A i \in 1 .. Cardinality(T) : tp[i] = sp[Cardinality(S) - Cardinality(T) + i]
  <2>1. \A f, n : n \in Nat /\ DOMAIN f = 1 .. n => Len(f) = n
    OBVIOUS
  <2>2. \A i \in 1 .. Cardinality(T) : Cardinality(S) - Cardinality(T) + i \in 1 .. Cardinality(S)
    BY <1>8, <1>9
  <2> QED
    BY <1>8, <1>9, <1>10, <2>1, <2>2
<1>12. Latest(ls, win).title # "" => Latest(ls, win).title = Latest(ls, lines).title
  <2> DEFINE K == TitlesOf(ls)
  <2>1. K \in SUBSET DOMAIN ls
    BY DEF TitlesOf
  <2> HIDE DEF K, win, lines
  <2>2. K \cap win # {} => K \cap lines # {} /\ Max(K \cap win) = Max(K \cap lines)
    BY <2>1, LastInWindow DEF win, lines
  <2> QED
    BY <1>3, <1>4, <2>2 DEF LastOf, K
<1> DEFINE full == Latest(ls, lines)
           tail == ReadTail(ls, to)
<1>13. tail = Latest(ls, win)
  BY <1>1
<1>14. /\ Len(sp) \in Nat /\ Len(tp) \in 0 .. Len(sp)
       /\ DOMAIN sp = 1 .. Len(sp) /\ DOMAIN tp = 1 .. Len(tp)
       /\ \A i \in 1 .. Len(tp) : tp[i] = sp[Len(sp) - Len(tp) + i]
  BY <1>8, <1>9, <1>10, <1>11
<1>15. /\ Len(full.prompts) \in Nat /\ Len(tail.prompts) \in 0 .. Len(full.prompts)
       /\ DOMAIN full.prompts = 1 .. Len(full.prompts) /\ DOMAIN tail.prompts = 1 .. Len(tail.prompts)
       /\ \A i \in 1 .. Len(tail.prompts) :
            tail.prompts[i] = full.prompts[Len(full.prompts) - Len(tail.prompts) + i]
       /\ tail.title # "" => tail.title = full.title
  <2> HIDE DEF tail, win, lines
  <2> QED
    BY <1>12, <1>13, <1>14 DEF sp, tp
<1> QED
  BY <1>15

\* The last human prompt is in the window, unless it is further from the end than
\* the largest.
LEMMA LastPromptInTail ==
  ASSUME NEW ls \in Seq(LineRecords), NEW to \in Nat, NEW l \in PromptsOf(ls) \cap ScanRecords(ls, 0, to),
         \A k \in PromptsOf(ls) \cap ScanRecords(ls, 0, to) : k <= l,
         IsShown(ls[l]), to <= MaxTailBytes \/ BeginOf(ls, l) > to - MaxTailBytes
  PROVE  1 \in DOMAIN ReadTail(ls, to).prompts
<1>1. PICK w \in 1 .. MaxTailBytes, from \in Nat :
        /\ from = (IF to > w THEN to - w ELSE 0)
        /\ ReadTail(ls, to) = Latest(ls, ScanRecords(ls, from, to))
        /\ \/ w >= to \/ w = MaxTailBytes
           \/ ReadTail(ls, to).human # NoTime
  BY TailWindow
<1> DEFINE win == ScanRecords(ls, from, to)
           T == ShownOf(ls) \cap win
           t == InFileOrder(T)
<1>2. win \in SUBSET DOMAIN ls /\ win \subseteq ScanRecords(ls, 0, to)
  BY DEF ScanRecords
<1>3. MaxTailBytes \in Nat /\ w \in Nat /\ l \in DOMAIN ls /\ BeginOf(ls, l) \in Nat
  BY BytesAssumption, LinesAscend DEF PromptsOf
<1>4. ASSUME w >= to \/ w = MaxTailBytes
      PROVE  l \in win
  <2>1. from = 0 \/ BeginOf(ls, l) > from
    BY <1>1, <1>3, <1>4
  <2>2. BeginOf(ls, l) >= from
    BY <1>1, <1>3, <2>1
  <2> QED
    BY <2>1, <2>2 DEF ScanRecords
<1>5. ASSUME ReadTail(ls, to).human # NoTime
      PROVE  l \in win
  <2>1. Latest(ls, win).human = LastOf(ls, PromptsOf(ls) \cap win, "time", NoTime)
    BY <1>2, LatestIs
  <2>2. PICK k : k \in PromptsOf(ls) \cap win
    <3> HIDE DEF win
    <3> QED
      BY <1>1, <1>5, <2>1 DEF LastOf, win
  <2>3. k <= l /\ k \in win
    BY <1>2, <2>2
  <2>4. k < l => l \in win
    BY <1>3, <2>2, LinesAscend DEF ScanRecords
  <2> QED
    BY <1>2, <1>3, <2>3, <2>4
<1>6. l \in T
  <2>1. l \in win
    BY <1>1, <1>4, <1>5
  <2> QED
    BY <1>3, <2>1 DEF ShownOf
<1>7. T \in SUBSET Nat /\ IsFiniteSet(T)
  BY <1>2, SomeLines
<1>8. Latest(ls, win).prompts = [i \in DOMAIN t |-> [at |-> ls[t[i]].time, text |-> ls[t[i]].text]]
  BY <1>2, LatestIs
<1> HIDE DEF win, T
<1>9. Ascends(t, T)
  BY <1>7, InFileOrderIs
<1>10. Cardinality(T) \in Nat /\ Cardinality(T) # 0
  BY <1>6, <1>7, FS_CardinalityType, FS_EmptySet
<1> HIDE DEF t
<1>11. 1 \in DOMAIN t
  BY <1>9, <1>10 DEF Ascends
<1> QED
  BY <1>1, <1>8, <1>11 DEF win

\* The window at the start holds the first of the lines.
LEMMA HeadLines ==
  ASSUME NEW ls \in Seq(LineRecords), NEW to \in Nat, NEW few \in Nat, few <= to
  PROVE  /\ ScanRecords(ls, 0, few) \subseteq ScanRecords(ls, 0, to)
         /\ \A m \in ScanRecords(ls, 0, few), n \in ScanRecords(ls, 0, to) :
              n < m => n \in ScanRecords(ls, 0, few)
<1>1. \A n \in DOMAIN ls : EndOf(ls, n) \in Nat
  BY LinesAscend
<1>2. \A m, n \in DOMAIN ls : n < m => EndOf(ls, n) < EndOf(ls, m)
  BY LinesAscend
<1>3. \A b \in Nat : ScanRecords(ls, 0, b) = {n \in DOMAIN ls : EndOf(ls, n) - 1 <= b /\ ls[n].type # "bad"}
  BY DEF ScanRecords
<1>4. ASSUME NEW n \in ScanRecords(ls, 0, few)
      PROVE  n \in ScanRecords(ls, 0, to)
  <2>1. n \in DOMAIN ls /\ EndOf(ls, n) - 1 <= few /\ ls[n].type # "bad" /\ EndOf(ls, n) \in Nat
    BY <1>1, <1>3, <1>4
  <2>2. EndOf(ls, n) - 1 <= to
    BY <2>1
  <2> QED
    BY <1>3, <2>1, <2>2
<1>5. ASSUME NEW m \in ScanRecords(ls, 0, few), NEW n \in ScanRecords(ls, 0, to), n < m
      PROVE  n \in ScanRecords(ls, 0, few)
  <2>1. /\ n \in DOMAIN ls /\ ls[n].type # "bad" /\ EndOf(ls, n) \in Nat
        /\ m \in DOMAIN ls /\ EndOf(ls, m) - 1 <= few /\ EndOf(ls, m) \in Nat
    BY <1>1, <1>3
  <2>2. EndOf(ls, n) < EndOf(ls, m)
    BY <1>2, <1>5, <2>1
  <2>3. EndOf(ls, n) - 1 <= few
    BY <2>1, <2>2
  <2> QED
    BY <1>3, <2>1, <2>3
<1> QED
  BY <1>4, <1>5

\* The first of some numbers in order is the least of any first few of them.
LEMMA FirstIsLeast ==
  ASSUME NEW S \in SUBSET Nat, IsFiniteSet(S), NEW H \in SUBSET S, H # {},
         \A m \in H, n \in S : n < m => n \in H
  PROVE  1 \in DOMAIN InFileOrder(S) /\ InFileOrder(S)[1] = Min(H)
<1>1. PICK s : s = InFileOrder(S) /\ Ascends(s, S)
  BY InFileOrderIs
<1>2. Min(H) \in H /\ \A n \in H : Min(H) <= n
  BY MinIs
<1>3. \A x \in S : \E n \in 1 .. Cardinality(S) : s[n] = x
  BY <1>1, SortedHasAll
<1>4. PICK N \in Nat : N = Cardinality(S)
  BY FS_CardinalityType
<1>5. /\ s \in [1 .. N -> S] /\ \A m, n \in 1 .. N : m < n => s[m] < s[n]
      /\ \A x \in S : \E n \in 1 .. N : s[n] = x
  BY <1>1, <1>3, <1>4 DEF Ascends
<1>6. Min(H) \in S
  BY <1>2
<1>7. PICK k \in 1 .. N : s[k] = Min(H)
  BY <1>5, <1>6
<1>8. 1 \in 1 .. N /\ s[1] \in S
  BY <1>4, <1>5, <1>7
<1>9. s[1] <= Min(H)
  <2>1. s[1] \in Nat /\ s[k] \in Nat
    BY <1>5, <1>8
  <2>2. k = 1 \/ 1 < k
    BY <1>4
  <2>3. 1 < k => s[1] < s[k]
    BY <1>5, <1>8
  <2> QED
    BY <1>7, <2>1, <2>2, <2>3
<1>10. s[1] = Min(H)
  <2>1. s[1] \in Nat /\ Min(H) \in Nat
    BY <1>6, <1>8
  <2>2. s[1] < Min(H) => s[1] \in H
    BY <1>2, <1>8
  <2> QED
    BY <1>2, <1>9, <2>1, <2>2
<1> QED
  BY <1>1, <1>5, <1>8, <1>10

\* A field of a record.
LEMMA TextOf ==
  ASSUME NEW r, NEW x, NEW y, r = [at |-> x, text |-> y]
  PROVE  r.text = y
OBVIOUS

\* The head's prompt is the first of the file.
LEMMA HeadPrompt ==
  ASSUME NEW ls \in Seq(LineRecords), NEW to \in Nat, ReadHead(ls, to).prompt # ""
  PROVE  ReadHead(ls, to).prompt = Latest(ls, ScanRecords(ls, 0, to)).prompts[1].text
<1>1. PICK few \in Nat : few = Min({to, HeadBytes}) /\ few <= to
  <2>1. HeadBytes \in Nat
    BY BytesAssumption
  <2>2. {to, HeadBytes} \in SUBSET Nat /\ {to, HeadBytes} # {}
    BY <2>1
  <2>3. Min({to, HeadBytes}) \in {to, HeadBytes} /\ \A n \in {to, HeadBytes} : Min({to, HeadBytes}) <= n
    BY <2>2, MinIs
  <2> QED
    BY <2>2, <2>3
<1>2. PICK lines, head : lines = ScanRecords(ls, 0, to) /\ head = ScanRecords(ls, 0, few)
  OBVIOUS
<1>3. lines \in SUBSET DOMAIN ls /\ head \in SUBSET DOMAIN ls
  BY <1>2 DEF ScanRecords
<1>4. head \subseteq lines /\ \A m \in head, n \in lines : n < m => n \in head
  BY <1>1, <1>2, HeadLines
<1>5. PICK S, H : S = ShownOf(ls) \cap lines /\ H = ShownOf(ls) \cap head
  OBVIOUS
<1>6. H \in SUBSET S /\ \A m \in H, n \in S : n < m => n \in H
  BY <1>4, <1>5
<1>7. S \in SUBSET Nat /\ IsFiniteSet(S)
  <2>1. S \in SUBSET DOMAIN ls
    BY <1>3, <1>5
  <2> QED
    BY <2>1, SomeLines
<1>8. ReadHead(ls, to).prompt = FirstOf(ls, H, "text", "")
  <2>1. Shown(ls, head) = H
    BY <1>3, <1>5 DEF Shown, ShownOf
  <2> QED
    BY <1>1, <1>2, <2>1 DEF ReadHead
<1>9. H # {} /\ ReadHead(ls, to).prompt = ls[Min(H)].text
  BY <1>8 DEF FirstOf
<1>10. 1 \in DOMAIN InFileOrder(S) /\ InFileOrder(S)[1] = Min(H)
  BY <1>6, <1>7, <1>9, FirstIsLeast
<1>11. Latest(ls, lines).prompts[1].text = ls[InFileOrder(S)[1]].text
  <2>1. Latest(ls, lines).prompts = [i \in DOMAIN InFileOrder(ShownOf(ls) \cap lines) |->
                                       [at |-> ls[InFileOrder(ShownOf(ls) \cap lines)[i]].time,
                                        text |-> ls[InFileOrder(ShownOf(ls) \cap lines)[i]].text]]
    BY <1>3, LatestIs
  <2>2. 1 \in DOMAIN InFileOrder(ShownOf(ls) \cap lines)
    BY <1>5, <1>10
  <2>3. Latest(ls, lines).prompts[1] = [at |-> ls[InFileOrder(ShownOf(ls) \cap lines)[1]].time,
                                        text |-> ls[InFileOrder(ShownOf(ls) \cap lines)[1]].text]
    BY <2>1, <2>2
  <2>4. Latest(ls, lines).prompts[1].text = ls[InFileOrder(ShownOf(ls) \cap lines)[1]].text
    BY <2>3, TextOf
  <2>5. ShownOf(ls) \cap lines = S
    BY <1>5
  <2> QED
    BY <2>4, <2>5, Zenon
<1> QED
  BY <1>2, <1>9, <1>10, <1>11

\* Of the prompts of a window, what is kept are the last of the file.
LEMMA KeptAreLast ==
  ASSUME NEW S, NEW full \in Seq(S), NEW tail \in Seq(S), Len(tail) <= Len(full),
         \A i \in 1 .. Len(tail) : tail[i] = full[Len(full) - Len(tail) + i]
  PROVE  /\ IsSuffix(LastPrompts(tail), full) /\ Len(LastPrompts(tail)) <= RecentPrompts
         /\ Len(tail) > 0 /\ RecentPrompts > 0 => LastPrompts(tail) # <<>>
<1>1. PICK N \in Nat, L \in Nat, R \in Nat : N = Len(full) /\ L = Len(tail) /\ R = RecentPrompts /\ L <= N
  BY BytesAssumption
<1>2. PICK d : d = Max({0, L - R})
  OBVIOUS
<1>a. d \in Nat /\ d <= L /\ L - d <= R /\ (L > 0 /\ R > 0 => L - d > 0)
  <2>1. CASE L >= R
    <3>1. L - R \in {0, L - R} /\ \A y \in {0, L - R} : L - R >= y
      BY <1>1, <2>1
    <3>2. \A x \in {0, L - R} : (\A y \in {0, L - R} : x >= y) => x = L - R
      BY <1>1, <2>1
    <3>3. d = L - R
      BY <1>2, <3>1, <3>2 DEF Max
    <3> QED
      BY <1>1, <2>1, <3>3
  <2>2. CASE L < R
    <3>1. 0 \in {0, L - R} /\ \A y \in {0, L - R} : 0 >= y
      BY <1>1, <2>2
    <3>2. \A x \in {0, L - R} : (\A y \in {0, L - R} : x >= y) => x = 0
      BY <1>1, <2>2
    <3>3. d = 0
      BY <1>2, <3>1, <3>2 DEF Max
    <3> QED
      BY <1>1, <2>2, <3>3
  <2> QED
    BY <1>1, <2>1, <2>2
<1>3. PICK kept : kept = LastPrompts(tail)
  OBVIOUS
<1>4. kept = SubSeq(tail, d + 1, L)
  BY <1>1, <1>2, <1>3 DEF LastPrompts
<1>5. PICK k \in Nat : k = L - d
  BY <1>a
<1>6. k \in Nat /\ d \in Nat /\ L = d + k /\ k <= R /\ k <= N
  BY <1>1, <1>a, <1>5
<1>7. /\ kept \in Seq(S) /\ Len(kept) = k
      /\ \A i \in 1 .. k : kept[i] = tail[d + i]
  <2>1. \A i \in d + 1 .. L : tail[i] \in S
    <3>1. \A i \in d + 1 .. L : i \in 1 .. L
      BY <1>6
    <3>2. \A i \in 1 .. L : tail[i] \in S
      BY <1>1
    <3> QED
      BY <3>1, <3>2
  <2>2. /\ SubSeq(tail, d + 1, L) \in Seq(S) /\ Len(SubSeq(tail, d + 1, L)) = L - d
        /\ \A i \in 1 .. L - d : SubSeq(tail, d + 1, L)[i] = tail[d + i]
    BY <1>6, <2>1, SubSeqProperties
  <2> QED
    BY <1>4, <1>5, <2>2
<1>8. \A i \in 1 .. k : kept[i] = full[N - k + i]
  <2>1. ASSUME NEW i \in 1 .. k
        PROVE  kept[i] = full[N - k + i]
    <3>1. d + i \in 1 .. L /\ N - L + (d + i) = N - k + i
      BY <1>6
    <3>2. tail[d + i] = full[N - L + (d + i)]
      BY <1>1, <3>1
    <3> QED
      BY <1>7, <3>1, <3>2
  <2> QED
    BY <2>1
<1>9. PICK p, q : p = Reverse(kept) /\ q = Reverse(full)
  OBVIOUS
<1>10. p \in Seq(S) /\ Len(p) = k /\ \A j \in 1 .. k : p[j] = kept[k - j + 1]
  <2>1. p = [j \in 1 .. k |-> kept[k - j + 1]]
    BY <1>7, <1>9 DEF Reverse
  <2>2. \A j \in 1 .. k : kept[k - j + 1] \in S
    BY <1>6, <1>7
  <2> QED
    BY <1>6, <2>1, <2>2
<1>11. q \in Seq(S) /\ Len(q) = N /\ \A j \in 1 .. N : q[j] = full[N - j + 1]
  <2>1. q = [j \in 1 .. N |-> full[N - j + 1]]
    BY <1>1, <1>9 DEF Reverse
  <2>2. \A j \in 1 .. N : full[N - j + 1] \in S
    BY <1>1
  <2> QED
    BY <1>1, <2>1, <2>2
<1>12. \A j \in 1 .. k : p[j] = q[j]
  <2>1. ASSUME NEW j \in 1 .. k
        PROVE  p[j] = q[j]
    <3>1. k - j + 1 \in 1 .. k /\ N - k + (k - j + 1) = N - j + 1 /\ j \in 1 .. N
      BY <1>6
    <3>2. p[j] = kept[k - j + 1] /\ q[j] = full[N - j + 1]
      BY <1>10, <1>11, <3>1
    <3>3. kept[k - j + 1] = full[N - k + (k - j + 1)]
      BY <1>8, <3>1
    <3> QED
      BY <3>1, <3>2, <3>3
  <2> QED
    BY <2>1
<1>13. SubSeq(p, 1, k) = SubSeq(q, 1, k)
  <2>1. SubSeq(p, 1, k) = [j \in 1 .. k |-> p[j]]
    BY <1>6, <1>10
  <2>2. SubSeq(q, 1, k) = [j \in 1 .. k |-> q[j]]
    BY <1>6, <1>11
  <2> QED
    BY <1>12, <2>1, <2>2
<1>14. IsSuffix(kept, full)
  BY <1>6, <1>9, <1>10, <1>11, <1>13 DEF IsSuffix, IsPrefix
<1>15. L > 0 /\ R > 0 => kept # <<>>
  <2>1. Len(<<>>) = 0
    OBVIOUS
  <2> QED
    BY <1>a, <1>5, <1>7, <2>1
<1> QED
  BY <1>1, <1>3, <1>6, <1>7, <1>14, <1>15

-----------------------------------------------------------------------------
(* What the reader makes of transcripts while they change.                 *)

\* What e says is what reading its file gave, but for a title of its process.
IsRead(e) ==
  /\ e.file \in Files /\ e.seen \in Nat
  /\ LET s == ReadSession(Lines(e.file), e.seen, e.at, opts.noContent)
     IN \/ e.said = s
        \/ /\ ~opts.noContent
           /\ \E x \in Names : e.said = [s EXCEPT !.title = [from |-> "harness", text |-> x]]

SaidInv ==
  /\ size \in [Files -> Nat]
  /\ \A n \in DOMAIN out : IsRead(out[n])

\* The results of a call change when it begins, ends, or reads a file.
LEMMA OutChanges ==
  ASSUME TypeInv, [CNext]_cvars
  PROVE  /\ setup' = setup
         /\ \/ out' = <<>>
            \/ out' = out /\ (opts' = opts \/ out = <<>>)
            \/ \E f \in files : ShownSince(f, opts) /\ out' = out \o <<Listed(f)>> /\ opts' = opts
<1>1. CASE UNCHANGED cvars
  BY <1>1 DEF cvars, vars, clock, reader
<1>2. CASE World /\ UNCHANGED calls
  BY <1>2 DEF World, Tick, Grow, Prune, AgentStep, Start, Register, End, clock, reader
<1>3. ASSUME NEW o \in setup.orders, Call(o)
      PROVE  setup' = setup /\ out' = <<>>
  BY <1>3 DEF Call, Forget, clock
<1>4. ASSUME NEW o \in setup.options, CallClaude(o)
      PROVE  setup' = setup /\ (out' = <<>> \/ (out' = out /\ opts' = opts))
  BY <1>4 DEF CallClaude, Begin, clock, vars, reader
<1>5. CASE ReadClaude
  <2>1. CASE ReadFile
    BY <2>1 DEF ReadFile, clock
  <2>2. CASE ReadRecord \/ Probe \/ ListFiles \/ Cancelled \/ Complete
    BY <2>2 DEF ReadRecord, Probe, ListFiles, Cancelled, Complete, clock
  <2> QED
    BY <1>5, <2>1, <2>2 DEF ReadClaude, ReaderStep
<1>6. CASE Leave \/ Gather \/ CallOther \/ Return
  BY <1>6 DEF Leave, Gather, CallOther, Return, vars, clock, reader
<1> QED
  BY <1>1, <1>2, <1>3, <1>4, <1>5, <1>6 DEF CNext

LEMMA IsReadStays ==
  ASSUME setup' = setup, opts' = opts, NEW e
  PROVE  IsRead(e)' <=> IsRead(e)
BY DEF IsRead, Files, Lines

LEMMA ListedIsRead ==
  ASSUME TypeInv, SaidInv, NEW f \in files
  PROVE  IsRead(Listed(f))
<1> DEFINE e == Listed(f)
           i == setup.ids[f]
           s == Session(f, opts)
<1>1. f \in Files /\ i \in Ids
  BY SetupsAssumption DEF TypeInv, TypeOK, Files
<1>2. e.file = f /\ e.seen = size[f] /\ e.at = mtime[f]
  BY DEF Listed
<1>3. e.file \in Files /\ e.seen \in Nat
  BY <1>1, <1>2 DEF SaidInv
<1>4. s = ReadSession(Lines(e.file), e.seen, e.at, opts.noContent)
  BY <1>2 DEF Session
<1>5. live[i] # None => live[i].name \in Names
  BY <1>1 DEF TypeInv, TypeOK, LiveRecords
<1>6. \/ e.said = s
      \/ /\ ~opts.noContent /\ live[i] # None
         /\ e.said = [s EXCEPT !.title = [from |-> "harness", text |-> live[i].name]]
  BY DEF Listed
<1> HIDE DEF e, i, s
<1>7. IsRead(e)
  BY <1>3, <1>4, <1>5, <1>6 DEF IsRead
<1> QED
  BY <1>7 DEF e

LEMMA SizesStay ==
  ASSUME TypeInv, size \in [Files -> Nat], [CNext]_cvars
  PROVE  (size \in [Files -> Nat])'
<1>1. setup' = setup
  BY OutChanges
<1>2. ASSUME NEW f \in Files, Grow(f)
      PROVE  size' \in [Files -> Nat]
  <2>1. PICK s \in size[f] + 1 .. EndOf(Lines(f), Len(Lines(f))) : size' = [size EXCEPT ![f] = s]
    BY <1>2 DEF Grow
  <2>2. Lines(f) \in Seq(LineRecords)
    BY SetupsAssumption DEF TypeInv, Files, Lines
  <2>3. EndOf(Lines(f), Len(Lines(f))) \in Nat /\ size[f] \in Nat
    <3>1. Len(Lines(f)) \in 0 .. Len(Lines(f))
      BY <2>2
    <3> QED
      BY <2>2, <3>1, EndsAre
  <2>4. s \in Nat
    BY <2>3
  <2> QED
    BY <2>1, <2>4
<1>3. ASSUME NEW f \in Files, Prune(f)
      PROVE  size' \in [Files -> Nat]
  BY <1>3 DEF Prune
<1>4. size' \in [Files -> Nat] \/ size' = size
  <2>1. CASE World
    BY <1>2, <1>3, <2>1 DEF World, Tick, AgentStep, Start, Register, End, disk
  <2>2. CASE ReadClaude
    BY <2>2 DEF ReadClaude, ReaderStep, ReadRecord, Probe, ListFiles, ReadFile, Cancelled, Complete, disk
  <2>3. CASE \/ \E o \in setup.orders : Call(o)
             \/ \E o \in setup.options : CallClaude(o)
             \/ Leave \/ Gather \/ CallOther \/ Return
             \/ UNCHANGED cvars
    BY <2>3 DEF Call, CallClaude, Begin, Leave, Gather, CallOther, Return, disk, vars, cvars
  <2> QED
    BY <2>1, <2>2, <2>3 DEF CNext
<1> QED
  BY <1>1, <1>4 DEF Files

LEMMA SaidStep == TypeInv /\ SaidInv /\ [CNext]_cvars => SaidInv'
<1> SUFFICES ASSUME TypeInv, SaidInv, [CNext]_cvars PROVE SaidInv'
  OBVIOUS
<1>1. (size \in [Files -> Nat])'
  BY SizesStay DEF SaidInv
<1>2. setup' = setup
  BY OutChanges
<1>3. CASE out' = <<>> \/ (out' = out /\ out = <<>>)
  BY <1>1, <1>3 DEF SaidInv
<1>4. CASE out' = out /\ opts' = opts
  BY <1>1, <1>2, <1>4, IsReadStays DEF SaidInv
<1>5. ASSUME NEW f \in files, out' = out \o <<Listed(f)>>, opts' = opts
      PROVE  SaidInv'
  <2>1. \A n \in DOMAIN (out \o <<Listed(f)>>) :
          \/ n \in DOMAIN out /\ (out \o <<Listed(f)>>)[n] = out[n]
          \/ (out \o <<Listed(f)>>)[n] = Listed(f)
    BY SeqAppend DEF TypeInv
  <2>2. \A n \in DOMAIN out' : IsRead(out'[n])
    BY <1>5, <2>1, ListedIsRead DEF SaidInv
  <2>3. \A n \in DOMAIN out' : IsRead(out[n])'
    BY <1>2, <1>5, <2>2, IsReadStays
  <2> QED
    BY <1>1, <2>3 DEF SaidInv
<1> QED
  BY <1>3, <1>4, <1>5, OutChanges

\* There is an activity where there is a main line.
LEMMA MainHasTime ==
  ASSUME NEW ls \in Seq(LineRecords), NEW lines \in SUBSET DOMAIN ls, MainOf(ls) \cap lines # {}
  PROVE  Latest(ls, lines).activity # NoTime
<1> DEFINE M == MainOf(ls) \cap lines
<1>1. M \in SUBSET Nat /\ IsFiniteSet(M)
  BY SomeLines
<1>2. Max(M) \in M
  BY <1>1, MaxIs
<1>3. ls[Max(M)].time # NoTime
  BY <1>2 DEF MainOf
<1>4. Latest(ls, lines).activity = ls[Max(M)].time
  BY LatestIs DEF LastOf
<1> QED
  BY <1>3, <1>4

\* A title of a process's is all that replaces what a transcript says.
LEMMA Titled ==
  ASSUME NEW a, NEW b, NEW c, NEW d, NEW h, NEW p, NEW t, NEW u, NEW x,
         x = [[created |-> a, cwd |-> b, branch |-> c, activity |-> d, human |-> h, prompts |-> p, title |-> t]
                EXCEPT !.title = u]
  PROVE  x.activity = d /\ x.human = h /\ x.prompts = p /\ x.title = u
OBVIOUS

LEMMA Untitled ==
  ASSUME NEW a, NEW b, NEW c, NEW d, NEW h, NEW p, NEW t, NEW x,
         x = [created |-> a, cwd |-> b, branch |-> c, activity |-> d, human |-> h, prompts |-> p, title |-> t]
  PROVE  x.activity = d /\ x.human = h /\ x.prompts = p /\ x.title = t
OBVIOUS

\* The title without one of a process's.
TitleOf(e) ==
  LET head == ReadHead(Lines(e.file), e.seen)
      tail == ReadTail(Lines(e.file), e.seen)
  IN CASE ~opts.noContent /\ tail.title # "" -> [from |-> "harness", text |-> tail.title]
       [] ~opts.noContent /\ tail.title = "" /\ head.prompt # "" ->
            [from |-> "first-prompt", text |-> head.prompt]
       [] OTHER -> [from |-> "cwd", text |-> head.cwd]

\* What was read is what the windows tell.
LEMMA SaidParts ==
  ASSUME NEW e, IsRead(e)
  PROVE  LET tail == ReadTail(Lines(e.file), e.seen)
         IN /\ e.said.human = tail.human
            /\ e.said.activity = IF tail.activity = NoTime THEN e.at ELSE tail.activity
            /\ e.said.prompts = IF opts.noContent THEN <<>> ELSE LastPrompts(tail.prompts)
            /\ \/ e.said.title = TitleOf(e)
               \/ /\ ~opts.noContent
                  /\ \E x \in Names : e.said.title = [from |-> "harness", text |-> x]
<1> DEFINE head == ReadHead(Lines(e.file), e.seen)
           tail == ReadTail(Lines(e.file), e.seen)
<1>1. PICK d, p, t : /\ d = IF tail.activity = NoTime THEN e.at ELSE tail.activity
                     /\ p = IF opts.noContent THEN <<>> ELSE LastPrompts(tail.prompts)
                     /\ t = TitleOf(e)
  OBVIOUS
<1>2. ReadSession(Lines(e.file), e.seen, e.at, opts.noContent) =
        [created |-> head.created, cwd |-> head.cwd, branch |-> head.branch,
         activity |-> d, human |-> tail.human, prompts |-> p, title |-> t]
  BY <1>1 DEF ReadSession, TitleOf
<1>3. CASE e.said = ReadSession(Lines(e.file), e.seen, e.at, opts.noContent)
  BY <1>1, <1>2, <1>3, Untitled
<1>4. ASSUME ~opts.noContent, NEW x \in Names,
             e.said = [ReadSession(Lines(e.file), e.seen, e.at, opts.noContent)
                         EXCEPT !.title = [from |-> "harness", text |-> x]]
      PROVE  /\ e.said.human = tail.human /\ e.said.activity = d /\ e.said.prompts = p
             /\ e.said.title = [from |-> "harness", text |-> x]
  BY <1>2, <1>4, Titled
<1> QED
  BY <1>1, <1>3, <1>4 DEF IsRead

LEMMA ReadLines ==
  ASSUME setup \in Setups, NEW e, IsRead(e)
  PROVE  Lines(e.file) \in Seq(LineRecords) /\ e.seen \in Nat
BY SetupsAssumption DEF IsRead, Files, Lines

LEMMA TimesFollow == setup \in Setups /\ SaidInv => TimesAreExact
<1> SUFFICES ASSUME setup \in Setups, SaidInv, NEW n \in DOMAIN out
             PROVE  LET e == out[n]
                        ls == setup.lines[e.file]
                        lines == ScanRecords(ls, 0, e.seen)
                        human == {m \in lines : IsHumanPrompt(ls[m])}
                        main == {m \in Stamped(ls, lines) : ~ls[m].side}
                    IN /\ e.said.human = IF Near(e, human) THEN InFull(e).human ELSE NoTime
                       /\ e.said.activity = IF Near(e, main) THEN InFull(e).activity ELSE e.at
  BY DEF TimesAreExact
<1>1. PICK e : e = out[n]
  OBVIOUS
<1>2. PICK ls, to, lines : ls = Lines(e.file) /\ to = e.seen /\ lines = ScanRecords(ls, 0, to)
  OBVIOUS
<1>3. IsRead(e)
  BY <1>1 DEF SaidInv
<1>4. ls \in Seq(LineRecords) /\ to \in Nat
  BY <1>2, <1>3, ReadLines
<1>5. lines \in SUBSET DOMAIN ls
  BY <1>2 DEF ScanRecords
<1>6. PICK human, main : human = PromptsOf(ls) \cap lines /\ main = MainOf(ls) \cap lines
  OBVIOUS
<1>7. /\ {m \in lines : IsHumanPrompt(ls[m])} = human
      /\ {m \in Stamped(ls, lines) : ~ls[m].side} = main
  BY <1>5, <1>6 DEF PromptsOf, MainOf, Stamped
<1>8. /\ \A S : Near(e, S) <=> NearIn(ls, S, to)
      /\ InFull(e) = Latest(ls, lines)
  BY <1>2 DEF Near, NearIn, InFull, Lines
<1>9. /\ ReadTail(ls, to).human = IF NearIn(ls, human, to) THEN Latest(ls, lines).human ELSE NoTime
      /\ ReadTail(ls, to).activity = IF NearIn(ls, main, to) THEN Latest(ls, lines).activity ELSE NoTime
  BY <1>2, <1>4, <1>6, TailTimes
<1>10. NearIn(ls, main, to) => Latest(ls, lines).activity # NoTime
  BY <1>4, <1>5, <1>6, MainHasTime DEF NearIn
<1>11. /\ e.said.human = ReadTail(ls, to).human
       /\ e.said.activity = IF ReadTail(ls, to).activity = NoTime THEN e.at ELSE ReadTail(ls, to).activity
  BY <1>2, <1>3, SaidParts
<1>12. /\ e.said.human = IF Near(e, human) THEN InFull(e).human ELSE NoTime
       /\ e.said.activity = IF Near(e, main) THEN InFull(e).activity ELSE e.at
  BY <1>8, <1>9, <1>10, <1>11
<1> QED
  BY <1>1, <1>2, <1>7, <1>12 DEF Lines

LEMMA PromptsAreSeq ==
  ASSUME NEW ls \in Seq(LineRecords), NEW lines \in SUBSET DOMAIN ls
  PROVE  Latest(ls, lines).prompts \in Seq([at : Nat, text : STRING])
<1>1. PICK S : S = ShownOf(ls) \cap lines
  OBVIOUS
<1>2. S \in SUBSET DOMAIN ls
  BY <1>1
<1>3. S \in SUBSET Nat /\ IsFiniteSet(S)
  BY <1>2, SomeLines
<1>4. PICK s : s = InFileOrder(S) /\ Ascends(s, S)
  BY <1>3, InFileOrderIs
<1>5. PICK N \in Nat : N = Cardinality(S)
  BY <1>3, FS_CardinalityType
<1>6. Latest(ls, lines).prompts = [i \in DOMAIN s |-> [at |-> ls[s[i]].time, text |-> ls[s[i]].text]]
  <2>1. Shown(ls, lines) = S
    BY <1>1 DEF Shown, ShownOf
  <2> QED
    BY <1>4, <2>1 DEF Latest
<1>7. DOMAIN s = 1 .. N /\ \A i \in 1 .. N : s[i] \in DOMAIN ls
  BY <1>2, <1>4, <1>5 DEF Ascends
<1>8. \A i \in DOMAIN ls : ls[i].time \in Nat /\ ls[i].text \in STRING
  <2>1. \A r \in LineRecords : r.time \in Nat /\ r.text \in STRING
    BY DEF LineRecords
  <2> QED
    BY <2>1
<1>9. \A i \in 1 .. N : [at |-> ls[s[i]].time, text |-> ls[s[i]].text] \in [at : Nat, text : STRING]
  BY <1>7, <1>8
<1>10. Latest(ls, lines).prompts = [i \in 1 .. N |-> [at |-> ls[s[i]].time, text |-> ls[s[i]].text]]
  BY <1>6, <1>7
<1> QED
  BY <1>9, <1>10

\* The fields of a title.
LEMMA TitleIs ==
  ASSUME NEW a, NEW b, NEW x, x = [from |-> a, text |-> b]
  PROVE  x.from = a /\ x.text = b
OBVIOUS

LEMMA NothingIsSuffix ==
  ASSUME NEW S, NEW s \in Seq(S)
  PROVE  IsSuffix(<<>>, s) /\ Len(<<>>) = 0
<1>1. Reverse(<<>>) = <<>>
  BY DEF Reverse
<1>2. Len(Reverse(s)) \in Nat
  BY DEF Reverse
<1>3. SubSeq(<<>>, 1, 0) = <<>> /\ SubSeq(Reverse(s), 1, 0) = <<>>
  BY SubSeqEmpty
<1>4. Len(<<>>) = 0
  OBVIOUS
<1> QED
  BY <1>1, <1>2, <1>3, <1>4 DEF IsSuffix, IsPrefix

\* What was read tells the latest.
LEMMA SaidContent ==
  ASSUME setup \in Setups, NEW e, IsRead(e)
  PROVE  /\ IsSuffix(e.said.prompts, InFull(e).prompts) /\ Len(e.said.prompts) <= RecentPrompts
         /\ LET ls == setup.lines[e.file]
                human == {m \in ScanRecords(ls, 0, e.seen) : IsHumanPrompt(ls[m])}
                last == {m \in human : \A k \in human : k <= m}
            IN (\A m \in last : IsShown(ls[m])) /\ Near(e, last) /\ RecentPrompts > 0 /\ ~opts.noContent =>
                 e.said.prompts # <<>>
         /\ e.said.title.from = "harness" => e.said.title.text \in Names \cup {InFull(e).title}
         /\ e.said.title.from = "first-prompt" => e.said.title.text = InFull(e).prompts[1].text
         /\ opts.noContent => e.said.prompts = <<>> /\ e.said.title.from = "cwd"
<1>1. PICK ls, to : ls = Lines(e.file) /\ to = e.seen
  OBVIOUS
<1>2. ls \in Seq(LineRecords) /\ to \in Nat
  BY <1>1, ReadLines
<1>3. PICK lines : lines = ScanRecords(ls, 0, to) /\ lines \in SUBSET DOMAIN ls
  BY DEF ScanRecords
<1>4. PICK tail, full, head : /\ tail = ReadTail(ls, to) /\ full = Latest(ls, lines)
                              /\ head = ReadHead(ls, to)
  OBVIOUS
<1>5. InFull(e) = full
  BY <1>1, <1>3, <1>4 DEF InFull, Lines
<1>6. /\ Len(full.prompts) \in Nat /\ Len(tail.prompts) \in 0 .. Len(full.prompts)
      /\ \A i \in 1 .. Len(tail.prompts) :
           tail.prompts[i] = full.prompts[Len(full.prompts) - Len(tail.prompts) + i]
      /\ tail.title # "" => tail.title = full.title
  BY <1>2, <1>3, <1>4, TailContent
<1>7. full.prompts \in Seq([at : Nat, text : STRING]) /\ tail.prompts \in Seq([at : Nat, text : STRING])
  <2>1. PICK from \in Nat : tail = Latest(ls, ScanRecords(ls, from, to))
    BY <1>2, <1>4, TailWindow
  <2>2. ScanRecords(ls, from, to) \in SUBSET DOMAIN ls
    BY DEF ScanRecords
  <2> QED
    BY <1>2, <1>3, <1>4, <2>1, <2>2, PromptsAreSeq
<1>8. /\ e.said.prompts = IF opts.noContent THEN <<>> ELSE LastPrompts(tail.prompts)
      /\ \/ e.said.title = TitleOf(e)
         \/ /\ ~opts.noContent
            /\ \E x \in Names : e.said.title = [from |-> "harness", text |-> x]
  BY <1>1, <1>4, SaidParts
<1>9. IsSuffix(e.said.prompts, full.prompts) /\ Len(e.said.prompts) <= RecentPrompts
  <2>1. CASE opts.noContent
    <3>1. IsSuffix(<<>>, full.prompts) /\ Len(<<>>) = 0
      BY <1>7, NothingIsSuffix
    <3> QED
      BY <1>8, <2>1, <3>1, BytesAssumption
  <2>2. CASE ~opts.noContent
    <3>1. Len(tail.prompts) <= Len(full.prompts)
      <4>1. PICK b \in Nat : b = Len(full.prompts)
        BY <1>6
      <4>2. PICK a \in 0 .. b : a = Len(tail.prompts)
        BY <1>6, <4>1
      <4>3. a <= b
        OBVIOUS
      <4> QED
        BY <4>1, <4>2, <4>3
    <3>2. IsSuffix(LastPrompts(tail.prompts), full.prompts) /\ Len(LastPrompts(tail.prompts)) <= RecentPrompts
      BY <1>6, <1>7, <3>1, KeptAreLast
    <3> QED
      BY <1>8, <2>2, <3>2
  <2> QED
    BY <2>1, <2>2
<1>10. head.prompt # "" => head.prompt = full.prompts[1].text
  BY <1>2, <1>3, <1>4, HeadPrompt
<1>14. PICK human, last : /\ human = {m \in lines : IsHumanPrompt(ls[m])}
                          /\ last = {m \in human : \A k \in human : k <= m}
  OBVIOUS
<1>15. ASSUME \A m \in last : IsShown(ls[m]), Near(e, last), RecentPrompts > 0, ~opts.noContent
       PROVE  e.said.prompts # <<>>
  <2>1. PICK l \in last : to <= MaxTailBytes \/ BeginOf(ls, l) > to - MaxTailBytes
    BY <1>1, <1>15 DEF Near, Lines
  <2>2. human = PromptsOf(ls) \cap ScanRecords(ls, 0, to)
    BY <1>3, <1>14 DEF PromptsOf
  <2>3. l \in human /\ (\A k \in human : k <= l) /\ IsShown(ls[l])
    BY <1>14, <1>15
  <2>4. 1 \in DOMAIN tail.prompts
    BY <1>2, <1>4, <2>1, <2>2, <2>3, LastPromptInTail
  <2>5. Len(tail.prompts) > 0
    BY <1>7, <2>4
  <2>6. Len(tail.prompts) <= Len(full.prompts)
    <3>1. PICK b \in Nat : b = Len(full.prompts)
      BY <1>6
    <3>2. PICK a \in 0 .. b : a = Len(tail.prompts)
      BY <1>6, <3>1
    <3>3. a <= b
      OBVIOUS
    <3> QED
      BY <3>1, <3>2, <3>3
  <2>7. LastPrompts(tail.prompts) # <<>>
    BY <1>6, <1>7, <1>15, <2>5, <2>6, KeptAreLast
  <2> QED
    BY <1>8, <1>15, <2>7
<1>11. TitleOf(e) = CASE ~opts.noContent /\ tail.title # "" -> [from |-> "harness", text |-> tail.title]
                      [] ~opts.noContent /\ tail.title = "" /\ head.prompt # "" ->
                           [from |-> "first-prompt", text |-> head.prompt]
                      [] OTHER -> [from |-> "cwd", text |-> head.cwd]
  BY <1>1, <1>4 DEF TitleOf
<1>12. /\ TitleOf(e).from = "harness" => TitleOf(e).text = full.title
       /\ TitleOf(e).from = "first-prompt" => TitleOf(e).text = full.prompts[1].text
       /\ opts.noContent => TitleOf(e).from = "cwd"
  <2>1. CASE ~opts.noContent /\ tail.title # ""
    <3>1. TitleOf(e) = [from |-> "harness", text |-> tail.title]
      BY <1>11, <2>1
    <3>2. TitleOf(e).from = "harness" /\ TitleOf(e).text = tail.title
      BY <3>1, TitleIs
    <3> QED
      BY <1>6, <2>1, <3>2
  <2>2. CASE ~opts.noContent /\ tail.title = "" /\ head.prompt # ""
    <3>1. TitleOf(e) = [from |-> "first-prompt", text |-> head.prompt]
      BY <1>11, <2>2
    <3>2. TitleOf(e).from = "first-prompt" /\ TitleOf(e).text = head.prompt
      BY <3>1, TitleIs
    <3> QED
      BY <1>10, <2>2, <3>2
  <2>3. CASE opts.noContent \/ (tail.title = "" /\ head.prompt = "")
    <3>1. TitleOf(e) = [from |-> "cwd", text |-> head.cwd]
      BY <1>11, <2>3
    <3>2. TitleOf(e).from = "cwd"
      BY <3>1, TitleIs
    <3> QED
      BY <3>2
  <2> QED
    BY <2>1, <2>2, <2>3
<1>13. ASSUME ~opts.noContent, NEW x \in Names, e.said.title = [from |-> "harness", text |-> x]
       PROVE  /\ e.said.title.from = "harness" => e.said.title.text \in Names
              /\ e.said.title.from # "first-prompt"
  BY <1>13
<1>16. LET file == setup.lines[e.file]
           prompts == {m \in ScanRecords(file, 0, e.seen) : IsHumanPrompt(file[m])}
           latest == {m \in prompts : \A k \in prompts : k <= m}
       IN (\A m \in latest : IsShown(file[m])) /\ Near(e, latest) /\ RecentPrompts > 0 /\ ~opts.noContent =>
            e.said.prompts # <<>>
  BY <1>1, <1>3, <1>14, <1>15 DEF Lines
<1> QED
  BY <1>5, <1>8, <1>9, <1>12, <1>13, <1>16

LEMMA ContentFollows == setup \in Setups /\ SaidInv => ContentIsLatest
<1> SUFFICES ASSUME setup \in Setups, SaidInv PROVE ContentIsLatest
  OBVIOUS
<1>1. \A n \in DOMAIN out : IsRead(out[n])
  BY DEF SaidInv
<1> QED
  BY <1>1, SaidContent DEF ContentIsLatest

LEMMA SaidInit == CInit => SaidInv
BY SetupsAssumption DEF CInit, Init, SaidInv, Files

\* However a transcript is cut, grows or goes while it is read, and however far it
\* reaches beyond the windows at its start and end, the times of a session are those
\* of the whole file as it was, down to the last MaxTailBytes (readTail).
THEOREM TimesAreThoseOfTheFile == CSpec => []TimesAreExact
<1>1. CInit => TypeInv /\ SaidInv
  BY TypeInit, SaidInit
<1>2. TypeInv /\ SaidInv /\ [CNext]_cvars => (TypeInv /\ SaidInv)'
  BY TypeStep, SaidStep
<1>3. TypeInv /\ SaidInv => TimesAreExact
  BY TimesFollow DEF TypeInv
<1> QED
  BY <1>1, <1>2, <1>3, PTL DEF CSpec

\* Nor does it show in what a session says of itself: its prompts are the latest of
\* the file, each once, its title the latest it was given, or its first prompt
\* (readHead, readTail, readSession).
THEOREM ContentIsThatOfTheFile == CSpec => []ContentIsLatest
<1>1. CInit => TypeInv /\ SaidInv
  BY TypeInit, SaidInit
<1>2. TypeInv /\ SaidInv /\ [CNext]_cvars => (TypeInv /\ SaidInv)'
  BY TypeStep, SaidStep
<1>3. TypeInv /\ SaidInv => ContentIsLatest
  BY ContentFollows DEF TypeInv
<1> QED
  BY <1>1, <1>2, <1>3, PTL DEF CSpec

-----------------------------------------------------------------------------
(* What a call returns.                                                    *)

\* Sorting keeps every session, and puts the newest first.
LEMMA SortIs ==
  ASSUME NEW s, IsSeq(s), \A n \in DOMAIN s : s[n].activity \in Nat
  PROVE  LET t == SortByActivity(s)
         IN /\ ToSet(t) = ToSet(s)
            /\ \A m, n \in DOMAIN t : m < n => t[m].activity >= t[n].activity
<1>a. PICK N \in Nat : N = Len(s)
  BY DEF IsSeq
<1>1. PICK D : D = 1 .. N /\ DOMAIN s = D
  BY <1>a DEF IsSeq
<1>2. IsFiniteSet(D) /\ Cardinality(D) = N
  <2>1. D = 1 .. N
    BY <1>1
  <2>2. IsFiniteSet(1 .. N) /\ Cardinality(1 .. N) = IF 1 > N THEN 0 ELSE N - 1 + 1
    BY FS_Interval
  <2> QED
    BY <2>1, <2>2
<1>3. PICK t : t = SortByActivity(s)
  OBVIOUS
<1>4. PICK p \in [D -> D] : /\ \A m, n \in D : m < n => Sooner(s, p[m], p[n])
                            /\ t = [n \in D |-> s[p[n]]]
  <2>1. PICK R : R = {x \in D \X D : Sooner(s, x[1], x[2])}
    OBVIOUS
  <2>2. \A x, y \in D : <<x, y>> \in R <=> Sooner(s, x, y)
    BY <2>1
  <2>3. \A x \in D : x \in Nat /\ s[x].activity \in Nat
    BY <1>1
  <2>4. /\ \A x \in D : ~Sooner(s, x, x)
        /\ \A x, y \in D : x # y => Sooner(s, x, y) \/ Sooner(s, y, x)
        /\ \A x, y, z \in D : Sooner(s, x, y) /\ Sooner(s, y, z) => Sooner(s, x, z)
    BY <2>3 DEF Sooner
  <2>5. \E q \in [1 .. Cardinality(D) -> D] :
          \A m, n \in 1 .. Cardinality(D) : m < n => <<q[m], q[n]>> \in R
    BY <1>2, <2>2, <2>4, SortExists
  <2>6. \E q \in [D -> D] : \A m, n \in D : m < n => Sooner(s, q[m], q[n])
    BY <1>1, <1>2, <2>2, <2>5
  <2>7. PICK q : q = CHOOSE p \in [DOMAIN s -> DOMAIN s] : \A m, n \in DOMAIN s : m < n => Sooner(s, p[m], p[n])
    OBVIOUS
  <2>8. q \in [D -> D] /\ \A m, n \in D : m < n => Sooner(s, q[m], q[n])
    BY <1>1, <2>6, <2>7
  <2>9. t = [n \in D |-> s[q[n]]]
    BY <1>1, <1>3, <2>7 DEF SortByActivity
  <2> QED
    BY <2>8, <2>9
<1>5. \A x \in D : x \in Nat /\ s[x].activity \in Nat
  BY <1>1
<1>6. \A m, n \in D : m # n => p[m] # p[n]
  <2>1. \A m, n \in D : m < n => p[m] # p[n]
    BY <1>4, <1>5 DEF Sooner
  <2> QED
    BY <1>5, <2>1
<1>7. D = {p[n] : n \in D}
  <2>1. D = 1 .. Cardinality(D)
    BY <1>1, <1>2
  <2>2. p \in [1 .. Cardinality(D) -> D] /\ \A m, n \in 1 .. Cardinality(D) : m # n => p[m] # p[n]
    BY <1>6, <2>1
  <2>3. D = {p[n] : n \in 1 .. Cardinality(D)}
    BY <1>2, <2>2, NoRepeatIsOnto
  <2> QED
    BY <2>1, <2>3
<1>8. ToSet(t) = ToSet(s)
  <2>1. ToSet(t) = {s[p[n]] : n \in D} /\ ToSet(s) = {s[n] : n \in D}
    BY <1>1, <1>4 DEF ToSet
  <2>2. \A m \in D : \E n \in D : m = p[n]
    BY <1>7
  <2> QED
    BY <2>1, <2>2
<1>9. \A m, n \in DOMAIN t : m < n => t[m].activity >= t[n].activity
  BY <1>4, <1>5 DEF Sooner
<1> QED
  BY <1>3, <1>8, <1>9

\* There is nothing in a transcript from after it was written.
StampInv ==
  /\ mtime \in [Files -> Nat]
  /\ \A f \in Files : WrittenBy(Lines(f), size[f], mtime[f])

\* The session of transcript f is among some.
HasFile(s, f) ==
  \E x \in ToSet(s) : x.harness = Claude /\ x.file = f /\ x.id = setup.ids[f]

\* What was told is among them, and what was read, and all there was to read.
Whole(s, failed, skipped) ==
  /\ told \subseteq ToSet(s)
  /\ \A n \in DOMAIN out : HasFile(s, out[n].file)
  /\ Claude \notin failed => \A f \in there \ skipped : HasFile(s, f)

\* The transcripts that have stayed are listable: the reader has read them, or will.
ReadInv ==
  /\ there # {} => Claude \in ToSet(order)
  /\ \A n \in DOMAIN out : out[n].id = setup.ids[out[n].file] /\ out[n].said.activity \in Nat
  /\ pc # "idle" => opts \in setup.options /\ \A f \in there : Listable(f, opts)
  /\ pc = "files" => \A f \in there : f \in files \cup diags \/ \E n \in DOMAIN out : out[n].file = f
  /\ pc = "complete" => \A f \in there : f \in diags \/ \E n \in DOMAIN out : out[n].file = f

\* The catalog has gathered what was read when its reader is not at work.
GatherInv ==
  /\ IsSeq(all) /\ \A n \in DOMAIN all : all[n].activity \in Nat
  /\ \A e \in told : e.harness = Other
  /\ turn # 0 => result = None /\ turn <= Len(order) + 1 /\ told \subseteq ToSet(all)
  /\ turn # 0 /\ pc = "idle" => Whole(all, errs, unread)
  /\ turn = 0 /\ result # None /\ ~result.cancelled =>
       /\ Whole(result.list, result.errs, result.unread)
       /\ \A m, n \in DOMAIN result.list :
            m < n => result.list[m].activity >= result.list[n].activity

WholeInv == TypeInv /\ SaidInv /\ StampInv /\ ReadInv /\ GatherInv

LEMMA StampStep ==
  ASSUME TypeInv, SaidInv, StampInv, [CNext]_cvars
  PROVE  StampInv'
<1>1. setup' = setup
  BY OutChanges
<1>2. CASE UNCHANGED disk
  BY <1>1, <1>2 DEF StampInv, Files, Lines, disk
<1>3. ASSUME NEW f \in Files, Grow(f)
      PROVE  StampInv'
  <2>1. PICK s : /\ WrittenBy(Lines(f), s, now) /\ size' = [size EXCEPT ![f] = s]
                 /\ mtime' = [mtime EXCEPT ![f] = now]
    BY <1>3 DEF Grow
  <2>2. now \in Nat
    BY TimesAssumption DEF TypeInv, TypeOK
  <2>3. mtime' \in [Files -> Nat]
    BY <2>1, <2>2 DEF StampInv
  <2>4. \A g \in Files : WrittenBy(Lines(g), size'[g], mtime'[g])
    BY <1>3, <2>1 DEF StampInv, SaidInv
  <2> QED
    BY <1>1, <2>3, <2>4 DEF StampInv, Files, Lines
<1>4. ASSUME NEW f \in Files, Prune(f)
      PROVE  StampInv'
  <2>1. size' = [size EXCEPT ![f] = 0] /\ mtime' = mtime
    BY <1>4 DEF Prune
  <2>2. \A n \in DOMAIN Lines(f) : BeginOf(Lines(f), n) \in Nat
    BY LinesAscend, SetupsAssumption DEF TypeInv, Files, Lines
  <2>3. WrittenBy(Lines(f), 0, mtime[f])
    BY <2>2 DEF WrittenBy
  <2>4. \A g \in Files : WrittenBy(Lines(g), size'[g], mtime'[g])
    BY <2>1, <2>3 DEF StampInv, SaidInv
  <2> QED
    BY <1>1, <2>1, <2>4 DEF StampInv, Files, Lines
<1>5. CASE World
  BY <1>2, <1>3, <1>4, <1>5 DEF World, Tick, AgentStep, Start, Register, End
<1>6. CASE ReadClaude
  BY <1>2, <1>6 DEF ReadClaude, ReaderStep, ReadRecord, Probe, ListFiles, ReadFile, Cancelled, Complete
<1>7. CASE \/ \E o \in setup.orders : Call(o)
           \/ \E o \in setup.options : CallClaude(o)
           \/ Leave \/ Gather \/ CallOther \/ Return
           \/ UNCHANGED cvars
  BY <1>2, <1>7 DEF Call, CallClaude, Begin, Leave, Gather, CallOther, Return, vars, cvars
<1> QED
  BY <1>5, <1>6, <1>7 DEF CNext

LEMMA ActivityIs ==
  ASSUME NEW ls \in Seq(LineRecords), NEW lines \in SUBSET DOMAIN ls
  PROVE  /\ Latest(ls, lines).activity \in Nat
         /\ Latest(ls, lines).activity # NoTime =>
              \E n \in MainOf(ls) \cap lines : Latest(ls, lines).activity = ls[n].time
<1>1. PICK M : M = MainOf(ls) \cap lines
  OBVIOUS
<1>2. M \in SUBSET DOMAIN ls /\ M \in SUBSET Nat /\ IsFiniteSet(M)
  BY <1>1, SomeLines
<1>3. Latest(ls, lines).activity = IF M = {} THEN NoTime ELSE ls[Max(M)].time
  BY <1>1, LatestIs DEF LastOf
<1>4. M # {} => Max(M) \in M
  BY <1>2, MaxIs
<1>5. \A n \in DOMAIN ls : ls[n].time \in Nat
  <2>1. \A r \in LineRecords : r.time \in Nat
    BY DEF LineRecords
  <2> QED
    BY <2>1
<1>6. CASE M = {}
  BY <1>3, <1>6 DEF NoTime
<1>7. CASE M # {}
  BY <1>1, <1>2, <1>3, <1>4, <1>5, <1>7
<1> QED
  BY <1>6, <1>7

\* What a call reads of a transcript with something to list is not left out for its
\* age: what is further from the end than the largest window is older than the file.
LEMMA ListableIsShown ==
  ASSUME TypeInv, SaidInv, StampInv, opts \in setup.options, NEW f \in Files, Listable(f, opts)
  PROVE  ShownSince(f, opts)
<1>1. PICK ls, to, at0 : ls = Lines(f) /\ to = size[f] /\ at0 = mtime[f]
  OBVIOUS
<1>2. ls \in Seq(LineRecords) /\ to \in Nat /\ at0 \in Nat /\ opts.since \in Nat
  BY <1>1, SetupsAssumption DEF TypeInv, SaidInv, StampInv, Files, Lines
<1>3. PICK lines : lines = ScanRecords(ls, 0, to) /\ lines \in SUBSET DOMAIN ls
  BY DEF ScanRecords
<1>4. SUFFICES ASSUME opts.since # NoTime
               PROVE  Session(f, opts).activity >= opts.since
  BY DEF Listable, ShownSince
<1>5. PICK a, b : a = Latest(ls, lines).activity /\ b = ReadTail(ls, to).activity
  OBVIOUS
<1>6. a \in Nat /\ a >= opts.since /\ a # NoTime
  <2>1. a \in Nat /\ a >= opts.since
    BY <1>1, <1>2, <1>3, <1>4, <1>5, ActivityIs DEF Listable
  <2> QED
    BY <1>2, <1>4, <2>1 DEF NoTime
<1>7. Session(f, opts).activity = IF b = NoTime THEN at0 ELSE b
  BY <1>1, <1>5 DEF Session, ReadSession
<1>8. b = a \/ b = NoTime
  BY <1>2, <1>3, <1>5, TailTimes
<1>9. at0 >= a
  <2>1. PICK n \in MainOf(ls) \cap lines : a = ls[n].time
    BY <1>2, <1>3, <1>5, <1>6, ActivityIs
  <2>2. n \in DOMAIN ls /\ EndOf(ls, n) - 1 <= to /\ ls[n].type # "bad"
    BY <1>3, <2>1 DEF ScanRecords
  <2>3. EndOf(ls, n) \in Nat /\ BeginOf(ls, n) = EndOf(ls, n) - ls[n].size
    BY <1>2, <2>2, LinesAscend DEF BeginOf
  <2>4. ls[n].size \in Nat /\ ls[n].size > 1
    <3>1. \A r \in LineRecords : r.size \in Nat /\ (r.type # "bad" => r.size > 1)
      BY DEF LineRecords
    <3> QED
      BY <1>2, <2>2, <3>1
  <2>5. BeginOf(ls, n) < to
    BY <1>2, <2>2, <2>3, <2>4
  <2> QED
    BY <1>1, <2>1, <2>2, <2>5 DEF StampInv, WrittenBy
<1> QED
  BY <1>2, <1>6, <1>7, <1>8, <1>9

\* One sequence after another has what both have.
LEMMA ConcatHas ==
  ASSUME NEW s, IsSeq(s), NEW t, IsSeq(t)
  PROVE  /\ IsSeq(s \o t) /\ ToSet(s \o t) = ToSet(s) \cup ToSet(t)
         /\ \A n \in DOMAIN s : n \in DOMAIN (s \o t) /\ (s \o t)[n] = s[n]
<1>1. PICK S : s \in Seq(S)
  BY DEF IsSeq
<1>2. PICK T : t \in Seq(T)
  BY DEF IsSeq
<1>3. PICK U : U = S \cup T
  OBVIOUS
<1>4. s \in Seq(U) /\ t \in Seq(U)
  BY <1>1, <1>2, <1>3
<1>5. s \o t \in Seq(U) /\ Len(s \o t) = Len(s) + Len(t)
  BY <1>4
<1>6. PICK M \in Nat, N \in Nat : M = Len(s) /\ N = Len(t)
  BY <1>4
<1>7. DOMAIN s = 1 .. M /\ DOMAIN t = 1 .. N /\ DOMAIN (s \o t) = 1 .. M + N
  BY <1>4, <1>5, <1>6
<1>8. \A n \in 1 .. M : (s \o t)[n] = s[n]
  BY <1>4, <1>6, <1>7
<1>9. \A n \in 1 .. N : M + n \in 1 .. M + N /\ (s \o t)[M + n] = t[n]
  BY <1>4, <1>6, <1>7
<1>10. ToSet(s \o t) = ToSet(s) \cup ToSet(t)
  <2>1. ASSUME NEW x \in ToSet(s \o t)
        PROVE  x \in ToSet(s) \cup ToSet(t)
    <3>1. PICK n \in 1 .. M + N : x = (s \o t)[n]
      BY <1>7, <2>1 DEF ToSet
    <3>2. CASE n <= M
      BY <1>7, <1>8, <3>1, <3>2 DEF ToSet
    <3>3. CASE n > M
      <4>1. n - M \in 1 .. N /\ M + (n - M) = n
        BY <3>3
      <4> QED
        BY <1>7, <1>9, <3>1, <4>1 DEF ToSet
    <3> QED
      BY <3>2, <3>3
  <2>2. \A n \in 1 .. M : s[n] \in ToSet(s \o t)
    BY <1>7, <1>8 DEF ToSet
  <2>3. \A n \in 1 .. N : t[n] \in ToSet(s \o t)
    BY <1>7, <1>9 DEF ToSet
  <2> QED
    BY <1>7, <2>1, <2>2, <2>3 DEF ToSet
<1>11. \A n \in 1 .. M : n \in 1 .. M + N
  OBVIOUS
<1> QED
  BY <1>5, <1>7, <1>8, <1>10, <1>11 DEF IsSeq

LEMMA OneIsSeq == \A x : IsSeq(<<x>>) /\ ToSet(<<x>>) = {x}
<1> TAKE x
<1>1. <<x>> \in Seq({x})
  OBVIOUS
<1>2. DOMAIN <<x>> = {1} /\ <<x>>[1] = x
  OBVIOUS
<1>3. IsSeq(<<x>>)
  BY <1>1 DEF IsSeq
<1>4. ToSet(<<x>>) = {<<x>>[i] : i \in {1}}
  BY <1>2 DEF ToSet
<1> QED
  BY <1>2, <1>3, <1>4

LEMMA ReadWorld ==
  ASSUME TypeInv, ReadInv, World, UNCHANGED calls
  PROVE  ReadInv'
<1>1. UNCHANGED <<setup, pc, opts, files, out, diags, order>>
  BY DEF World, AgentStep, Tick, Grow, Prune, Start, Register, End, reader, clock, calls
<1>2. there' \in SUBSET there
  <2>1. \A f \in Files : Grow(f) \/ Prune(f) => there' \in SUBSET there
    BY DEF Grow, Prune
  <2>2. \A p \in setup.pids : AgentStep(p) => there' = there
    BY DEF AgentStep, Start, Register, End, history
  <2> QED
    BY <2>1, <2>2 DEF World, Tick, history
<1>3. ASSUME pc # "idle"
      PROVE  opts' \in setup'.options /\ (\A f \in there : Listable(f, opts))'
  <2>1. opts \in setup.options /\ \A f \in there : Listable(f, opts)
    BY <1>3 DEF ReadInv
  <2>2. ASSUME size' = size
        PROVE  (\A f \in there : Listable(f, opts))'
    BY <1>1, <1>2, <2>1, <2>2 DEF Listable, Lines
  <2>3. ASSUME NEW f \in Files, Grow(f)
        PROVE  (\A g \in there : Listable(g, opts))'
    BY <2>3 DEF Grow
  <2>4. ASSUME NEW f \in Files, Prune(f)
        PROVE  (\A g \in there : Listable(g, opts))'
    <3>1. \A g \in there' : g \in there /\ size'[g] = size[g]
      BY <2>4 DEF Prune
    <3> QED
      BY <1>1, <2>1, <3>1 DEF Listable, Lines
  <2> QED
    BY <1>1, <2>1, <2>2, <2>3, <2>4 DEF World, Tick, AgentStep, Start, Register, End, disk
<1> QED
  BY <1>1, <1>2, <1>3 DEF ReadInv

LEMMA ListedIs ==
  ASSUME TypeInv, SaidInv, StampInv, NEW f \in files
  PROVE  LET e == Listed(f)
         IN e.file = f /\ e.id = setup.ids[e.file] /\ e.said.activity \in Nat
<1>1. PICK e : e = Listed(f)
  OBVIOUS
<1>2. IsRead(e)
  BY <1>1, ListedIsRead
<1>3. e.file = f /\ e.id = setup.ids[f] /\ e.at = mtime[f]
  BY <1>1 DEF Listed
<1>4. f \in Files
  BY DEF TypeInv, TypeOK
<1>5. PICK ls, to : ls = Lines(e.file) /\ to = e.seen /\ ls \in Seq(LineRecords) /\ to \in Nat
  BY <1>2, ReadLines DEF TypeInv
<1>6. ReadTail(ls, to).activity \in Nat
  <2>1. PICK from \in Nat : ReadTail(ls, to) = Latest(ls, ScanRecords(ls, from, to))
    BY <1>5, TailWindow
  <2>2. ScanRecords(ls, from, to) \in SUBSET DOMAIN ls
    BY DEF ScanRecords
  <2> QED
    BY <1>5, <2>1, <2>2, ActivityIs
<1>7. e.said.activity = IF ReadTail(ls, to).activity = NoTime THEN e.at ELSE ReadTail(ls, to).activity
  BY <1>2, <1>5, SaidParts
<1>8. e.said.activity \in Nat
  BY <1>3, <1>4, <1>6, <1>7 DEF StampInv
<1> QED
  BY <1>1, <1>3, <1>8

LEMMA ReadReader ==
  ASSUME TypeInv, SaidInv, StampInv, ReadInv, ReadClaude
  PROVE  ReadInv'
<1>1. UNCHANGED <<setup, size, opts, order>> /\ there' \in SUBSET there /\ pc # "idle"
  BY DEF ReadClaude, ReaderStep, ReadRecord, Probe, ListFiles, ReadFile, Cancelled, Complete, clock, disk,
         history, calls
<1>2. /\ there # {} => Claude \in ToSet(order)
      /\ opts \in setup.options /\ \A f \in there : Listable(f, opts)
      /\ \A n \in DOMAIN out : out[n].id = setup.ids[out[n].file] /\ out[n].said.activity \in Nat
  BY <1>1 DEF ReadInv
<1>3. (\A f \in there : Listable(f, opts))'
  BY <1>1, <1>2 DEF Listable, Lines
<1>4. CASE ReadRecord \/ Probe
  <2>1. out' = out /\ pc' \notin {"files", "complete"}
    BY <1>4 DEF ReadRecord, Probe
  <2> QED
    BY <1>1, <1>2, <1>3, <2>1 DEF ReadInv
<1>5. CASE ListFiles
  <2>1. /\ out' = out /\ pc' = "files"
        /\ files' = {f \in Files : size[f] > 0} \/ there' = {}
    BY <1>5 DEF ListFiles
  <2>2. \A f \in there' : f \in files'
    BY <1>1, <1>2, <2>1 DEF Listable, TypeInv, TypeOK
  <2> QED
    BY <1>1, <1>2, <1>3, <2>1, <2>2 DEF ReadInv
<1>6. CASE ReadFile
  <2>1. PICK f \in files :
          /\ pc = "files" /\ pc' = pc /\ files' = files \ {f} /\ there' = there
          /\ \/ ShownSince(f, opts) /\ out' = out \o <<Listed(f)>> /\ diags' = diags
             \/ size[f] > 0 /\ ~ShownSince(f, opts) /\ UNCHANGED <<out, diags>>
             \/ diags' = diags \cup {f} /\ out' = out
    BY <1>6 DEF ReadFile, history
  <2>2. \A g \in there : g \in files \cup diags \/ \E n \in DOMAIN out : out[n].file = g
    BY <2>1 DEF ReadInv
  <2>3. f \in there => ShownSince(f, opts)
    <3>1. f \in Files
      BY DEF TypeInv, TypeOK
    <3> QED
      BY <1>2, <3>1, ListableIsShown
  <2>4. CASE out' = out \o <<Listed(f)>> /\ diags' = diags
    <3>1. PICK e : e = Listed(f) /\ e.file = f /\ e.id = setup.ids[e.file] /\ e.said.activity \in Nat
      BY ListedIs
    <3>2. out' = out \o <<e>>
      BY <2>4, <3>1
    <3>3. /\ \A n \in DOMAIN out : n \in DOMAIN out' /\ out'[n] = out[n]
          /\ ToSet(out') = ToSet(out) \cup {e}
      <4>1. IsSeq(out) /\ IsSeq(<<e>>) /\ ToSet(<<e>>) = {e}
        BY OneIsSeq DEF TypeInv
      <4>2. /\ ToSet(out \o <<e>>) = ToSet(out) \cup ToSet(<<e>>)
            /\ \A n \in DOMAIN out : n \in DOMAIN (out \o <<e>>) /\ (out \o <<e>>)[n] = out[n]
        BY <4>1, ConcatHas
      <4> QED
        BY <3>2, <4>1, <4>2
    <3>4. \A n \in DOMAIN out' : (n \in DOMAIN out /\ out'[n] = out[n]) \/ out'[n] = e
      BY <3>2, SeqAppend DEF TypeInv
    <3>5. \E n \in DOMAIN out' : out'[n] = e
      BY <3>3 DEF ToSet
    <3>6. \A g \in there : g \in files' \cup diags' \/ \E n \in DOMAIN out' : out'[n].file = g
      BY <2>1, <2>2, <2>4, <3>1, <3>3, <3>5
    <3>7. \A n \in DOMAIN out' : out'[n].id = setup.ids[out'[n].file] /\ out'[n].said.activity \in Nat
      BY <1>2, <3>1, <3>4
    <3> QED
      BY <1>1, <1>2, <1>3, <2>1, <3>6, <3>7 DEF ReadInv
  <2>5. CASE out' = out /\ (diags' = diags => ~ShownSince(f, opts))
    <3>1. \A g \in there : g \in files' \cup diags' \/ \E n \in DOMAIN out' : out'[n].file = g
      BY <2>1, <2>2, <2>3, <2>5
    <3> QED
      BY <1>1, <1>2, <1>3, <2>1, <2>5, <3>1 DEF ReadInv
  <2>6. CASE out' = out /\ diags' = diags \cup {f}
    <3>1. \A g \in there : g \in files' \cup diags' \/ \E n \in DOMAIN out' : out'[n].file = g
      BY <2>1, <2>2, <2>6
    <3> QED
      BY <1>1, <1>2, <1>3, <2>1, <2>6, <3>1 DEF ReadInv
  <2> QED
    BY <2>1, <2>4, <2>5, <2>6
<1>7. CASE Cancelled
  BY <1>1, <1>2, <1>3, <1>7 DEF ReadInv, Cancelled
<1>8. CASE Complete
  BY <1>1, <1>2, <1>3, <1>8 DEF ReadInv, Complete
<1> QED
  BY <1>4, <1>5, <1>6, <1>7, <1>8 DEF ReadClaude, ReaderStep

LEMMA ReadStep ==
  ASSUME TypeInv, SaidInv, StampInv, ReadInv, [CNext]_cvars
  PROVE  ReadInv'
<1>1. CASE UNCHANGED cvars
  <2>1. UNCHANGED <<setup, size, pc, opts, files, out, diags, there, order>>
    BY <1>1 DEF cvars, vars, calls, clock, disk, reader, history
  <2> QED
    BY <2>1 DEF ReadInv, Listable, Lines
<1>2. ASSUME NEW o \in setup.orders, Call(o)
      PROVE  ReadInv'
  <2>1. pc = "idle"
    BY <1>2, HarnessAssumption DEF TypeInv, InTurn, Turn, Call, Idle
  <2> QED
    BY <1>2, <2>1 DEF Call, Forget, ReadInv
<1>3. ASSUME NEW o \in setup.options, CallClaude(o)
      PROVE  ReadInv'
  <2>1. CASE Begin(o) /\ UNCHANGED calls
    <3>1. /\ pc' = "live" /\ opts' = o /\ there' = {f \in Files : Listable(f, o)} /\ out' = <<>>
          /\ setup' = setup /\ size' = size /\ order' = order
      BY <2>1 DEF Begin, clock, disk, calls
    <3>2. Claude \in ToSet(order)
      BY <1>3 DEF CallClaude, Turn, ToSet
    <3>3. (\A f \in there : Listable(f, opts))'
      BY <3>1 DEF Listable, Lines
    <3> QED
      BY <3>1, <3>2, <3>3 DEF ReadInv
  <2>2. CASE UNCHANGED <<vars, order>>
    <3>1. UNCHANGED <<setup, size, pc, opts, files, out, diags, there, order>>
      BY <2>2 DEF vars, clock, disk, reader, history
    <3> QED
      BY <3>1 DEF ReadInv, Listable, Lines
  <2> QED
    BY <1>3, <2>1, <2>2 DEF CallClaude
<1>4. CASE Leave \/ CallOther \/ Return
  <2>1. UNCHANGED <<setup, size, pc, opts, files, out, diags, there, order>>
    BY <1>4 DEF Leave, CallOther, Return, vars, clock, disk, reader, history
  <2> QED
    BY <2>1 DEF ReadInv, Listable, Lines
<1>5. CASE Gather
  <2>1. UNCHANGED <<setup, out, there, order>> /\ pc' = "idle"
    BY <1>5 DEF Gather, clock, history
  <2> QED
    BY <2>1 DEF ReadInv
<1> QED
  BY <1>1, <1>2, <1>3, <1>4, <1>5, ReadWorld, ReadReader DEF CNext

LEMMA WholeStays ==
  ASSUME setup' = setup, told' = told, out' = out, there' \in SUBSET there, NEW s, NEW failed, NEW skipped, Whole(s, failed, skipped)
  PROVE  Whole(s, failed, skipped)'
BY DEF Whole, HasFile

\* Files are found whatever the order of the sessions.
LEMMA WholeInOrder ==
  ASSUME NEW s, NEW t, NEW failed, NEW skipped, Whole(s, failed, skipped), ToSet(s) \subseteq ToSet(t)
  PROVE  Whole(t, failed, skipped)
BY DEF Whole, HasFile

\* What the catalog keeps stays whole while the rest goes on.
LEMMA GatherStays ==
  ASSUME GatherInv, UNCHANGED <<setup, out, order, turn, all, errs, unread, result, told>>, there' \in SUBSET there,
         pc' = "idle" => pc = "idle"
  PROVE  GatherInv'
<1>1. PICK a, e, u, r : a = all /\ e = errs /\ u = unread /\ r = result
  OBVIOUS
<1>2. Whole(a, e, u) => Whole(a, e, u)'
  BY WholeStays
<1>3. Whole(r.list, r.errs, r.unread) => Whole(r.list, r.errs, r.unread)'
  BY WholeStays
<1>4. turn # 0 /\ pc = "idle" => Whole(all, errs, unread)
  BY DEF GatherInv
<1>5. (turn # 0 /\ pc = "idle" => Whole(all, errs, unread))'
  BY <1>1, <1>2, <1>4 DEF Whole, HasFile
<1>6. (turn = 0 /\ result # None /\ ~result.cancelled => Whole(result.list, result.errs, result.unread))'
  BY <1>1, <1>3 DEF GatherInv, Whole, HasFile
<1> QED
  BY <1>5, <1>6 DEF GatherInv

\* Our reader has returned.
LEMMA GatherGather ==
  ASSUME TypeInv, ReadInv, GatherInv, Gather
  PROVE  GatherInv'
<1>1. PICK given : given = GivenBy(Claude, out)
  OBVIOUS
<1>2. /\ all' = all \o given /\ pc' = "idle" /\ turn' = turn + 1 /\ turn \in DOMAIN order
      /\ pc \in {"cancelled", "complete"} /\ errs' = errs \cup {Claude : x \in {pc} \cap {"cancelled"}}
      /\ unread' = unread \cup diags
      /\ UNCHANGED <<setup, out, there, order, result, told>>
  BY <1>1 DEF Gather, Turn, clock, history
<1>3. turn \in Nat /\ Len(order) \in Nat /\ DOMAIN order = 1 .. Len(order)
  BY DEF TypeInv, InTurn
<1>4. turn # 0 /\ turn' # 0 /\ turn' <= Len(order) + 1
  BY <1>2, <1>3
<1>5. /\ given = [n \in DOMAIN out |-> [harness |-> Claude, id |-> out[n].id, file |-> out[n].file,
                                        activity |-> out[n].said.activity, pid |-> out[n].pid]]
      /\ IsSeq(given)
  <2>1. given = [n \in DOMAIN out |-> [harness |-> Claude, id |-> out[n].id, file |-> out[n].file,
                                       activity |-> out[n].said.activity, pid |-> out[n].pid]]
    BY <1>1 DEF GivenBy
  <2>2. PICK N \in Nat : DOMAIN out = 1 .. N
    BY DEF TypeInv, IsSeq
  <2>3. given \in Seq({given[n] : n \in 1 .. N})
    BY <2>1, <2>2
  <2> QED
    BY <2>1, <2>3 DEF IsSeq
<1>6. \A n \in DOMAIN out : \E x \in ToSet(given) :
        x.harness = Claude /\ x.file = out[n].file /\ x.id = out[n].id /\ x.activity = out[n].said.activity
  BY <1>5 DEF ToSet
<1>7. \A x \in ToSet(given) : x.activity \in Nat
  <2>1. \A n \in DOMAIN out : given[n].activity \in Nat
    BY <1>5 DEF ReadInv
  <2> QED
    BY <1>5, <2>1 DEF ToSet
<1>8. IsSeq(all') /\ ToSet(all') = ToSet(all) \cup ToSet(given)
  BY <1>2, <1>5, ConcatHas DEF GatherInv
<1>9. \A n \in DOMAIN all' : all'[n].activity \in Nat
  <2>1. \A x \in ToSet(all) : x.activity \in Nat
    BY DEF GatherInv, ToSet
  <2>2. \A n \in DOMAIN all' : all'[n] \in ToSet(all')
    BY DEF ToSet
  <2> QED
    BY <1>7, <1>8, <2>1, <2>2
<1>10. told \subseteq ToSet(all')
  BY <1>4, <1>8 DEF GatherInv
<1>11. \A n \in DOMAIN out : \E x \in ToSet(all') : x.harness = Claude /\ x.file = out[n].file /\ x.id = setup.ids[x.file]
  BY <1>6, <1>8 DEF ReadInv
<1>12. Claude \notin errs' => \A f \in there \ unread' : \E n \in DOMAIN out : out[n].file = f
  <2>1. Claude \notin errs' => pc = "complete"
    BY <1>2
  <2> QED
    BY <1>2, <2>1 DEF ReadInv
<1>13. Whole(all, errs, unread)'
  BY <1>2, <1>10, <1>11, <1>12 DEF Whole, HasFile
<1> QED
  BY <1>2, <1>4, <1>8, <1>9, <1>10, <1>13 DEF GatherInv

\* Another reader has returned.
LEMMA GatherOther ==
  ASSUME TypeInv, GatherInv, CallOther
  PROVE  GatherInv'
<1>1. PICK s \in OtherLists : all' = all \o s /\ told' = ToSet(s)
  BY DEF CallOther
<1>2. /\ turn' = turn + 1 /\ turn \in DOMAIN order /\ order[turn] = Other /\ errs' \in {errs, errs \cup {Other}}
      /\ UNCHANGED <<setup, out, there, order, unread, result, pc>>
  BY DEF CallOther, Turn, vars, clock, reader, history
<1>3. pc = "idle"
  BY <1>2, HarnessAssumption DEF TypeInv, InTurn, Turn
<1>4. turn # 0 /\ turn' # 0 /\ turn' <= Len(order) + 1
  BY <1>2 DEF TypeInv, InTurn
<1>5. IsSeq(s) /\ \A x \in ToSet(s) : x.activity \in Nat
  BY OthersAssumption DEF IsSeq, ToSet
<1>6. IsSeq(all') /\ ToSet(all') = ToSet(all) \cup ToSet(s)
  BY <1>1, <1>5, ConcatHas DEF GatherInv
<1>7. \A n \in DOMAIN all' : all'[n].activity \in Nat
  <2>1. \A x \in ToSet(all) : x.activity \in Nat
    BY DEF GatherInv, ToSet
  <2>2. \A n \in DOMAIN all' : all'[n] \in ToSet(all')
    BY DEF ToSet
  <2> QED
    BY <1>5, <1>6, <2>1, <2>2
<1>8. Claude \in errs' <=> Claude \in errs
  BY <1>2, HarnessAssumption
<1>9. Whole(all, errs, unread)
  BY <1>3, <1>4 DEF GatherInv
<1>10. Whole(all, errs, unread)'
  BY <1>1, <1>2, <1>6, <1>8, <1>9 DEF Whole, HasFile
<1>11. told' \subseteq ToSet(all') /\ \A e \in told' : e.harness = Other
  BY <1>1, <1>6, OthersAssumption DEF ToSet
<1> QED
  BY <1>2, <1>4, <1>6, <1>7, <1>10, <1>11 DEF GatherInv

\* The catalog returns.
LEMMA GatherReturn ==
  ASSUME TypeInv, GatherInv, Return
  PROVE  GatherInv'
<1>1. /\ turn = Len(order) + 1 /\ turn' = 0
      /\ result' = [list |-> SortByActivity(all), errs |-> errs, unread |-> unread, cancelled |-> FALSE]
      /\ UNCHANGED <<setup, out, there, order, all, errs, unread, told, pc>>
  BY DEF Return, vars, clock, reader, history
<1>2. pc = "idle" /\ turn # 0
  BY <1>1 DEF TypeInv, InTurn, Turn
<1>3. Whole(all, errs, unread)
  BY <1>2 DEF GatherInv
<1>4. PICK t : t = SortByActivity(all)
  OBVIOUS
<1>5. ToSet(t) = ToSet(all) /\ \A m, n \in DOMAIN t : m < n => t[m].activity >= t[n].activity
  BY <1>4, SortIs DEF GatherInv
<1>6. result'.list = t /\ result'.errs = errs /\ result'.unread = unread
  BY <1>1, <1>4
<1>7. Whole(result.list, result.errs, result.unread)'
  BY <1>1, <1>3, <1>5, <1>6 DEF Whole, HasFile
<1> QED
  BY <1>1, <1>5, <1>6, <1>7 DEF GatherInv

LEMMA GatherCall ==
  ASSUME TypeInv, GatherInv, NEW o \in setup.orders, Call(o)
  PROVE  GatherInv'
<1>1. /\ turn' = 1 /\ order' = o /\ all' = <<>> /\ result' = None /\ told' = {} /\ out' = <<>> /\ there' = {}
  BY DEF Call, Forget
<1>2. Len(o) \in Nat
  BY HarnessAssumption DEF TypeInv
<1>3. IsSeq(<<>>) /\ DOMAIN <<>> = {}
  BY DEF IsSeq
<1>4. Whole(all, errs, unread)'
  BY <1>1, <1>3 DEF Whole
<1> QED
  BY <1>1, <1>2, <1>3, <1>4 DEF GatherInv

LEMMA GatherStep ==
  ASSUME TypeInv, ReadInv, GatherInv, [CNext]_cvars
  PROVE  GatherInv'
<1>1. CASE UNCHANGED cvars
  <2>1. UNCHANGED <<setup, pc, out, there, order, turn, all, errs, unread, result, told>>
    BY <1>1 DEF cvars, vars, calls, clock, reader, history
  <2> QED
    BY <2>1, GatherStays
<1>2. CASE World /\ UNCHANGED calls
  <2>1. UNCHANGED <<setup, pc, out, order, turn, all, errs, unread, result, told>>
    BY <1>2 DEF World, AgentStep, Tick, Grow, Prune, Start, Register, End, reader, clock, calls
  <2>2. there' \in SUBSET there
    <3>1. \A f \in Files : Grow(f) \/ Prune(f) => there' \in SUBSET there
      BY DEF Grow, Prune
    <3>2. \A p \in setup.pids : AgentStep(p) => there' = there
      BY DEF AgentStep, Start, Register, End, history
    <3> QED
      BY <1>2, <3>1, <3>2 DEF World, Tick, history
  <2> QED
    BY <2>1, <2>2, GatherStays
<1>3. ASSUME NEW o \in setup.options, CallClaude(o)
      PROVE  GatherInv'
  <2>0. pc = "idle" /\ turn \in DOMAIN order
    BY <1>3 DEF CallClaude, Turn
  <2>1. CASE Begin(o) /\ UNCHANGED calls
    <3>1. pc' = "live" /\ UNCHANGED <<order, turn, all, errs, unread, result, told>>
      BY <2>1 DEF Begin, calls
    <3>2. turn # 0
      BY <2>0 DEF TypeInv, InTurn
    <3> QED
      BY <3>1, <3>2 DEF GatherInv
  <2>2. CASE /\ errs' = errs \cup {Claude} /\ turn' = turn + 1
             /\ UNCHANGED <<vars, order, all, unread, result, told>>
    <3>1. UNCHANGED <<setup, pc, out, there, order, all, unread, result, told>> /\ Claude \in errs'
      BY <2>2 DEF vars, clock, reader, history
    <3>2. turn # 0 /\ turn' # 0 /\ turn' <= Len(order) + 1
      BY <2>0, <2>2 DEF TypeInv, InTurn
    <3>3. Whole(all, errs, unread)
      BY <2>0, <3>2 DEF GatherInv
    <3>4. Whole(all, errs, unread)'
      BY <3>1, <3>3 DEF Whole, HasFile
    <3> QED
      BY <3>1, <3>2, <3>4 DEF GatherInv
  <2> QED
    BY <1>3, <2>1, <2>2 DEF CallClaude
<1>4. CASE ReadClaude
  <2>1. UNCHANGED <<order, turn, all, errs, unread, result, told>> /\ pc' # "idle"
    BY <1>4 DEF ReadClaude, ReaderStep, ReadRecord, Probe, ListFiles, ReadFile, Cancelled, Complete, calls
  <2>2. turn # 0
    BY <1>4 DEF TypeInv, InTurn, ReadClaude, Turn
  <2> QED
    BY <2>1, <2>2 DEF GatherInv
<1>5. CASE Leave
  <2>1. turn' = 0 /\ result'.cancelled /\ all' = all /\ told' = told
    BY <1>5 DEF Leave
  <2> QED
    BY <2>1 DEF GatherInv
<1> QED
  BY <1>1, <1>2, <1>3, <1>4, <1>5, GatherCall, GatherGather, GatherOther, GatherReturn DEF CNext

LEMMA WholeInit == CInit => WholeInv
<1> SUFFICES ASSUME CInit PROVE WholeInv
  OBVIOUS
<1>1. TypeInv /\ SaidInv
  BY TypeInit, SaidInit
<1>2. StampInv
  <2>1. /\ mtime = [f \in Files |-> setup.now] /\ size = setup.size /\ setup \in Setups
        /\ setup.now \in Nat
    BY SetupsAssumption, TimesAssumption DEF CInit, Init
  <2>2. \A f \in Files : WrittenBy(Lines(f), setup.size[f], setup.now)
    BY <2>1, SetupsAssumption DEF Files, Lines
  <2> QED
    BY <2>1, <2>2 DEF StampInv
<1>3. ReadInv /\ GatherInv
  BY DEF CInit, Init, ReadInv, GatherInv, IsSeq
<1> QED
  BY <1>1, <1>2, <1>3 DEF WholeInv

LEMMA WholeStep == WholeInv /\ [CNext]_cvars => WholeInv'
BY TypeStep, SaidStep, StampStep, ReadStep, GatherStep DEF WholeInv

LEMMA AtMostOne ==
  ASSUME NEW x, NEW S, S \subseteq {x}
  PROVE  Cardinality(S) <= 1
<1>1. Cardinality({x}) = 1 /\ IsFiniteSet({x})
  BY FS_Singleton
<1> QED
  BY <1>1, FS_Subset

\* "One reader failing does not hide the others": every session a reader returned is
\* in the result, newest first, and every one that was there all through the call is,
\* or its transcript has a diagnostic, or its reader failed, whatever grows, goes and
\* fails in between (Catalog.List, SessionReader.List).
THEOREM ResultsAreWhole == CSpec => []ResultIsWhole
<1>1. ASSUME WholeInv PROVE ResultIsWhole
  <2> DEFINE returned == {out[n].file : n \in DOMAIN out}
             lasting == IF Claude \in result.errs THEN {} ELSE there \ result.unread
  <2> SUFFICES ASSUME result # None, ~result.cancelled
               PROVE  LET list == result.list
                      IN /\ told \subseteq ToSet(list)
                         /\ Claude \in ToSet(order) =>
                              \A f \in returned \cup lasting :
                                \E n \in DOMAIN list : list[n].harness = Claude /\ list[n].file = f
                         /\ \A m, n \in DOMAIN list : m < n => list[m].activity >= list[n].activity
    BY DEF ResultIsWhole
  <2>1. Whole(result.list, result.errs, result.unread)
    BY <1>1 DEF WholeInv, GatherInv
  <2>2. \A f : HasFile(result.list, f) =>
               \E n \in DOMAIN result.list : result.list[n].harness = Claude /\ result.list[n].file = f
    BY DEF HasFile, ToSet
  <2>3. \A f \in returned \cup lasting : HasFile(result.list, f)
    BY <2>1 DEF Whole
  <2> QED
    BY <1>1, <2>1, <2>2, <2>3 DEF WholeInv, GatherInv, Whole
<1> QED
  BY <1>1, WholeInit, WholeStep, PTL DEF CSpec

\* A query answered from a result without errors names no other session that there
\* was to find, those whose transcripts have a diagnostic aside, unless it is a full
\* id (Resolve).
THEOREM ResolvesAreCertain == CSpec => []ResolveNeverGuesses
<1>1. ASSUME WholeInv PROVE ResolveNeverGuesses
  <2> SUFFICES ASSUME result # None, ~result.cancelled, result.errs = {},
                      NEW h \in {None, Claude, Other}, NEW q \in Queries,
                      NEW n \in DOMAIN result.list,
                      Resolve(result.list, h, q) = {n}, result.list[n].id # q
               PROVE  Cardinality({x \in ToFind : (h # None => x.harness = h) /\ IsPrefix(q, x.id)}) <= 1
    BY DEF ResolveNeverGuesses
  <2>1. Whole(result.list, result.errs, result.unread)
    BY <1>1 DEF WholeInv, GatherInv
  <2>2. PICK list : list = result.list
    OBVIOUS
  <2>3. MatchesOf(list, h, q) = {n}
    <3>1. PICK found, exact : found = MatchesOf(list, h, q) /\ exact = {m \in found : list[m].id = q}
      OBVIOUS
    <3>2. Resolve(list, h, q) = IF Len(q) < MinQuery THEN {}
                                ELSE IF exact # {} THEN {m \in exact : \A k \in exact : m <= k}
                                ELSE found
      BY <3>1 DEF Resolve
    <3>3. n \notin exact
      BY <2>2, <3>1
    <3> QED
      BY <2>2, <3>1, <3>2, <3>3
  <2>4. ASSUME NEW x \in ToFind, h # None => x.harness = h, IsPrefix(q, x.id)
        PROVE  x = [harness |-> list[n].harness, id |-> list[n].id]
    <3>1. \E m \in DOMAIN list : x = [harness |-> list[m].harness, id |-> list[m].id]
      <4>1. ASSUME NEW f \in there \ result.unread
            PROVE  \E m \in DOMAIN list : list[m].harness = Claude /\ list[m].id = setup.ids[f]
        BY <2>1, <2>2 DEF Whole, HasFile, ToSet
      <4>2. ASSUME NEW e \in told
            PROVE  \E m \in DOMAIN list : list[m].harness = Other /\ list[m].id = e.id
        <5>1. e \in ToSet(list) /\ e.harness = Other
          BY <1>1, <2>1, <2>2 DEF Whole, WholeInv, GatherInv
        <5> QED
          BY <5>1 DEF ToSet
      <4> QED
        BY <2>4, <4>1, <4>2 DEF ToFind
    <3>2. PICK m \in DOMAIN list : x = [harness |-> list[m].harness, id |-> list[m].id]
      BY <3>1
    <3>3. m \in MatchesOf(list, h, q)
      BY <2>4, <3>2 DEF MatchesOf
    <3> QED
      BY <2>3, <3>2, <3>3
  <2>5. PICK X : X = {x \in ToFind : (h # None => x.harness = h) /\ IsPrefix(q, x.id)}
    OBVIOUS
  <2>6. X \subseteq {[harness |-> list[n].harness, id |-> list[n].id]}
    BY <2>4, <2>5
  <2>7. Cardinality(X) <= 1
    BY <2>6, AtMostOne
  <2> QED
    BY <2>5, <2>7
<1> QED
  BY <1>1, WholeInit, WholeStep, PTL DEF CSpec

=============================================================================
