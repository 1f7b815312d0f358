----------------------------- MODULE OtelProofs -----------------------------
(***************************************************************************)
(* Proofs about OtelReceiver, for any payloads, handlers and bounds: what  *)
(* is answered with 200 is stored, and requests in turn count once.        *)
(***************************************************************************)
EXTENDS OtelReceiver, EventStoreProofs

\* What a payload becomes: events of its recognized datapoints.
LEMMA ConvertFacts ==
  ASSUME NEW x \in Payloads, NEW clock \in 1 .. MaxClock, NEW later \in 1 .. MaxClock,
         NEW events \in Convert(x, clock, later)
  PROVE  /\ events \in Seq(Events)
         /\ \A i \in DOMAIN events : \E k \in DOMAIN x :
              Recognized(x[k]) /\ events[i] = PointEvent(x[k], clock, later)
<1> DEFINE S == {x[i] : i \in DOMAIN x}
           kept == {i \in DOMAIN x : Recognized(x[i])}
<1>1. x \in Seq(S)
  BY PayloadsAssumption
<1>2. IsFiniteSet(kept) /\ kept \in SUBSET DOMAIN x
  <2>1. DOMAIN x = 1 .. Len(x) /\ Len(x) \in Nat
    BY <1>1
  <2>2. IsFiniteSet(DOMAIN x)
    BY <2>1, FS_Interval
  <2> QED
    BY <2>2, FS_Subset
<1>3. PICK points \in InOrder(x, kept) :
         events = [i \in DOMAIN points |-> PointEvent(points[i], clock, later)]
  BY DEF Convert
<1> HIDE DEF S, kept
<1>4. points \in Seq(S) /\ Len(points) \in Nat
  BY <1>1, <1>2, <1>3, InOrderFacts
<1>5. PICK p \in [1 .. Len(points) -> kept] : \A k \in 1 .. Len(points) : points[k] = x[p[k]]
  BY <1>1, <1>2, <1>3, InOrderFacts
<1>6. ASSUME NEW i \in 1 .. Len(points)
      PROVE  /\ events[i] \in Events
             /\ \E k \in DOMAIN x : Recognized(x[k]) /\ events[i] = PointEvent(x[k], clock, later)
  <2>1. points[i] = x[p[i]] /\ p[i] \in DOMAIN x /\ Recognized(x[p[i]])
    BY <1>2, <1>5 DEF kept
  <2>2. events[i] = PointEvent(x[p[i]], clock, later)
    BY <1>3, <1>4, <2>1
  <2>3. PointEvent(x[p[i]], clock, later) \in Events
    BY <2>1, PayloadsAssumption
  <2> QED
    BY <2>1, <2>2, <2>3
<1>7. DOMAIN events = 1 .. Len(points) /\ events = [i \in 1 .. Len(points) |-> events[i]]
  BY <1>3, <1>4
<1>8. events \in [1 .. Len(points) -> Events]
  BY <1>6, <1>7
<1> QED
  BY <1>4, <1>6, <1>7, <1>8

-----------------------------------------------------------------------------
(* The inductive invariant.                                                *)

ReceiverTypeOK ==
  /\ now \in 1 .. MaxClock
  /\ handling \in [Writers -> Payloads \cup {None}]
  /\ attempts \in [Payloads -> 0 .. MaxAttempts]
  /\ awaited \in [Payloads -> Writers \cup {None}]
  /\ overlapped \in BOOLEAN

\* Only a handler with a request is at work in Write.
IdleIsDone == \A h \in Writers : handling[h] = None => pc[h] \in {"idle", "done"}

\* What was answered is an event of a day file, and safe in it.
AnsweredIsSafe ==
  \A e \in answered : /\ e \in Events /\ EventFile(e) \in DayFiles
                      /\ SafeIn(file[EventFile(e)], e.id)

\* An event made of one of the points.
MadeOf(points, e) ==
  \E q \in points : Recognized(q) /\ \E t, u \in 1 .. MaxClock : e = PointEvent(q, t, u)

\* Handlers write, and files hold, only events made of datapoints that were sent.
AllIsMade ==
  /\ \A h \in Writers : \A i \in DOMAIN batch[h] : MadeOf(Sent, batch[h][i])
  /\ \A f \in DayFiles : \A i \in DOMAIN file[f].lines :
       file[f].lines[i] # Damaged => MadeOf(Sent, file[f].lines[i])

\* Until requests overlap there is one handler, whose scan of a file is complete.
InTurn ==
  overlapped \/ /\ \A g, h \in Writers : handling[g] # None /\ handling[h] # None => g = h
                /\ NoDuplicateIds
                /\ KnownIsAll

OInv ==
  /\ CallInv /\ PlaceInv /\ ReceiverTypeOK
  /\ IdleIsDone /\ AnsweredIsSafe /\ AllIsMade /\ InTurn

LEMMA OInvInit == OInit => OInv
<1> SUFFICES ASSUME OInit PROVE OInv
  OBVIOUS
<1>1. Init
  BY DEF OInit
<1>2. CallInv /\ PlaceInv
  BY <1>1, CallInvInit, PlaceInvInit
<1>3. ReceiverTypeOK
  <2>1. 0 \in 0 .. MaxAttempts /\ 1 \in 1 .. MaxClock
    BY AttemptsAssumption, ClockAssumption
  <2> QED
    BY <2>1 DEF OInit, ReceiverTypeOK
<1>4. IdleIsDone /\ AnsweredIsSafe
  BY DEF OInit, Init, IdleIsDone, AnsweredIsSafe
<1>5. AllIsMade
  BY DEF OInit, Init, AllIsMade, EmptyFile
<1>6. InTurn
  BY <1>1, ExactInvInit DEF OInit, InTurn, ExactInv
<1> QED
  BY <1>2, <1>3, <1>4, <1>5, <1>6 DEF OInv

\* What a request does to the store: it calls Write with events of its payload,
\* or has none to write.
LEMMA PostIsCall ==
  ASSUME OInv, NEW h \in Writers, NEW x \in Payloads, Post(h, x)
  PROVE  /\ AnyCall(h)
         /\ \A g \in Writers : g # h => batch'[g] = batch[g] /\ pc'[g] = pc[g]
         /\ \A i \in DOMAIN batch'[h] : \E k \in DOMAIN x :
              /\ Recognized(x[k])
              /\ \E t, u \in 1 .. MaxClock : batch'[h][i] = PointEvent(x[k], t, u)
<1>0. TypeOK /\ now \in 1 .. MaxClock
  BY DEF OInv, CallInv, SafeInv, TypeInv, ReceiverTypeOK
<1>5. PICK later \in {now, now + 1} \cap (1 .. MaxClock) : \E events \in Convert(x, now, later) :
         IF events = <<>>
         THEN /\ pc' = [pc EXCEPT ![h] = "done"]
              /\ batch' = [batch EXCEPT ![h] = <<>>]
              /\ result' = [result EXCEPT ![h] = NoResult]
              /\ UNCHANGED <<file, todo, known, faults, counted>>
         ELSE Begin(h, events) \/ Reject(h, events)
  BY DEF Post
<1>1. PICK events \in Convert(x, now, later) :
         IF events = <<>>
         THEN /\ pc' = [pc EXCEPT ![h] = "done"]
              /\ batch' = [batch EXCEPT ![h] = <<>>]
              /\ result' = [result EXCEPT ![h] = NoResult]
              /\ UNCHANGED <<file, todo, known, faults, counted>>
         ELSE Begin(h, events) \/ Reject(h, events)
  BY <1>5
<1>2. /\ events \in Seq(Events)
      /\ \A i \in DOMAIN events : \E k \in DOMAIN x :
           Recognized(x[k]) /\ events[i] = PointEvent(x[k], now, later)
  BY <1>0, <1>1, ConvertFacts
<1>3. CASE events = <<>>
  <2>1. pc[h] \in {"idle", "done"}
    BY DEF Post, OInv, IdleIsDone
  <2>2. Skip(h) /\ batch'[h] = <<>>
    BY <1>0, <1>1, <1>3, <2>1 DEF Skip, TypeOK
  <2>3. \A g \in Writers : g # h => batch'[g] = batch[g] /\ pc'[g] = pc[g]
    BY <1>0, <1>1, <1>3 DEF TypeOK
  <2> QED
    BY <2>2, <2>3 DEF AnyCall
<1>4. CASE events # <<>>
  <2>1. Begin(h, events) \/ Reject(h, events)
    BY <1>1, <1>4
  <2>2. AnyCall(h)
    BY <1>2, <2>1 DEF AnyCall
  <2>3. batch'[h] = events /\ \A g \in Writers : g # h => batch'[g] = batch[g] /\ pc'[g] = pc[g]
    BY <1>0, <2>1 DEF Begin, Reject, TypeOK
  <2> QED
    BY <1>0, <1>2, <2>2, <2>3
<1> QED
  BY <1>3, <1>4

\* Every step of the receiver is one of the store's, or leaves the store alone.
LEMMA ReceiverStepIsAny ==
  ASSUME OInv, [ONext]_<<vars, ovars>>
  PROVE  [AnyNext]_vars
<1>1. ASSUME NEW h \in Writers, NEW x \in Payloads, Post(h, x)
      PROVE  AnyNext
  BY <1>1, PostIsCall DEF AnyNext
<1>2. ASSUME NEW h \in Writers, HandlerStep(h)
      PROVE  AnyNext
  BY <1>2 DEF HandlerStep, AnyNext, Interrupt
<1>3. ASSUME Tick \/ (\E h \in Writers : Respond(h)) \/ \E x \in Payloads : Lose(x) \/ BadRequest(x)
      PROVE  UNCHANGED vars
  BY <1>3 DEF Tick, Respond, Lose, BadRequest, vars
<1> QED
  BY <1>1, <1>2, <1>3 DEF ONext

\* Datapoints that were sent stay sent.
LEMMA SentGrows ==
  ASSUME ReceiverTypeOK, [ONext]_<<vars, ovars>>
  PROVE  Sent \subseteq Sent'
<1>1. \A x \in Payloads : attempts[x] > 0 => attempts'[x] > 0
  BY DEF ONext, Tick, Post, HandlerStep, Respond, Lose, BadRequest, ovars, ReceiverTypeOK
<1> QED
  BY <1>1 DEF Sent

LEMMA ReceiverTypeStep == OInv /\ [ONext]_<<vars, ovars>> => ReceiverTypeOK'
<1> SUFFICES ASSUME OInv, [ONext]_<<vars, ovars>> PROVE ReceiverTypeOK'
  OBVIOUS
<1>0. ReceiverTypeOK
  BY DEF OInv
<1>1. CASE Tick
  BY <1>0, <1>1, ClockAssumption DEF Tick, ReceiverTypeOK
<1>2. ASSUME NEW h \in Writers, NEW x \in Payloads, Post(h, x)
      PROVE  ReceiverTypeOK'
  <2>1. attempts[x] + 1 \in 0 .. MaxAttempts
    BY <1>0, <1>2, AttemptsAssumption DEF Post, ReceiverTypeOK
  <2>2. attempts' = [attempts EXCEPT ![x] = attempts[x] + 1]
    BY <1>0, <1>2 DEF Post, ReceiverTypeOK
  <2>3. /\ awaited' = [awaited EXCEPT ![x] = h] /\ handling' = [handling EXCEPT ![h] = x]
        /\ now' = now
    BY <1>2 DEF Post
  <2>4. overlapped' \in BOOLEAN
    BY <1>2 DEF Post
  <2> QED
    BY <1>0, <2>1, <2>2, <2>3, <2>4 DEF ReceiverTypeOK
<1>3. ASSUME NEW h \in Writers, Respond(h)
      PROVE  ReceiverTypeOK'
  BY <1>0, <1>3 DEF Respond, ReceiverTypeOK
<1>4. ASSUME NEW x \in Payloads, Lose(x)
      PROVE  ReceiverTypeOK'
  BY <1>0, <1>4 DEF Lose, ReceiverTypeOK
<1>5. ASSUME NEW x \in Payloads, BadRequest(x)
      PROVE  ReceiverTypeOK'
  <2>1. attempts[x] + 1 \in 0 .. MaxAttempts
    BY <1>0, <1>5, AttemptsAssumption DEF BadRequest, ReceiverTypeOK
  <2> QED
    BY <1>0, <1>5, <2>1 DEF BadRequest, ReceiverTypeOK
<1>6. CASE UNCHANGED ovars
  BY <1>0, <1>6 DEF ovars, ReceiverTypeOK
<1> QED
  BY <1>1, <1>2, <1>3, <1>4, <1>5, <1>6 DEF ONext, HandlerStep

LEMMA IdleIsDoneStep == OInv /\ [ONext]_<<vars, ovars>> => IdleIsDone'
<1> SUFFICES ASSUME OInv, [ONext]_<<vars, ovars>> PROVE IdleIsDone'
  OBVIOUS
<1>0. IdleIsDone /\ TypeOK /\ ReceiverTypeOK
  BY DEF OInv, CallInv, SafeInv, TypeInv
<1>1. ASSUME NEW h \in Writers, NEW x \in Payloads, Post(h, x)
      PROVE  IdleIsDone'
  <2>1. \A g \in Writers : g # h => pc'[g] = pc[g] /\ handling'[g] = handling[g]
    BY <1>0, <1>1, PostIsCall DEF Post, ReceiverTypeOK
  <2>2. handling'[h] # None
    BY <1>0, <1>1, NoneAssumption DEF Post, ReceiverTypeOK
  <2> QED
    BY <1>0, <2>1, <2>2 DEF IdleIsDone
<1>2. ASSUME NEW h \in Writers, HandlerStep(h)
      PROVE  IdleIsDone'
  <2>1. handling' = handling /\ handling[h] # None
    BY <1>2 DEF HandlerStep, ovars
  <2>2. \A g \in Writers : g # h => pc'[g] = pc[g]
    BY <1>0, <1>2 DEF HandlerStep, Step, Return, Scan, AppendEvents, Stop, FailAppend, TypeOK
  <2> QED
    BY <1>0, <2>1, <2>2 DEF IdleIsDone
<1>3. ASSUME NEW h \in Writers, Respond(h)
      PROVE  IdleIsDone'
  BY <1>0, <1>3 DEF Respond, IdleIsDone, ReceiverTypeOK, vars
<1>4. CASE Tick \/ \E x \in Payloads : Lose(x) \/ BadRequest(x)
  BY <1>0, <1>4 DEF Tick, Lose, BadRequest, IdleIsDone, vars
<1>5. CASE UNCHANGED <<vars, ovars>>
  BY <1>0, <1>5 DEF IdleIsDone, vars, ovars
<1> QED
  BY <1>1, <1>2, <1>3, <1>4, <1>5 DEF ONext

LEMMA AnsweredIsSafeStep == OInv /\ [ONext]_<<vars, ovars>> => AnsweredIsSafe'
<1> SUFFICES ASSUME OInv, [ONext]_<<vars, ovars>>, NEW e \in answered'
             PROVE  e \in Events /\ EventFile(e) \in DayFiles /\ SafeIn(file'[EventFile(e)], e.id)
  BY DEF AnsweredIsSafe
<1>0. TypeInv /\ TypeOK /\ CallIsSafe /\ [AnyNext]_vars /\ AnsweredIsSafe
  BY ReceiverStepIsAny DEF OInv, CallInv, SafeInv, TypeInv
<1>1. CASE e \in answered
  BY <1>0, <1>1, StepKeepsSafe DEF AnsweredIsSafe
<1>2. CASE e \notin answered
  <2>1. PICK h \in Writers : Respond(h)
    BY <1>2 DEF ONext, Tick, Post, HandlerStep, Lose, BadRequest, ovars
  <2>2. /\ pc[h] = "done" /\ ~result[h].err /\ file' = file
        /\ e \in {batch[h][i] : i \in DOMAIN batch[h]}
    BY <1>2, <2>1 DEF Respond, vars
  <2>3. PICK i \in DOMAIN batch[h] : e = batch[h][i]
    BY <2>2
  <2>4. batch[h] \in Seq(Events)
    BY <1>0 DEF TypeOK
  <2>5. EventFile(e) \in DayFiles /\ SafeIn(file[EventFile(e)], e.id)
    BY <1>0, <2>2, <2>3 DEF CallIsSafe
  <2> QED
    BY <2>2, <2>3, <2>4, <2>5
<1> QED
  BY <1>1, <1>2

LEMMA AllIsMadeStep == OInv /\ [ONext]_<<vars, ovars>> => AllIsMade'
<1> SUFFICES ASSUME OInv, [ONext]_<<vars, ovars>> PROVE AllIsMade'
  OBVIOUS
<1>0. TypeInv /\ TypeOK /\ ReceiverTypeOK /\ [AnyNext]_vars /\ AllIsMade
  BY ReceiverStepIsAny DEF OInv, CallInv, SafeInv, TypeInv
<1>1. \A e : MadeOf(Sent, e) => MadeOf(Sent', e)
  BY <1>0, SentGrows DEF MadeOf
<1>2. ASSUME NEW f \in DayFiles, NEW i \in DOMAIN file'[f].lines, file'[f].lines[i] # Damaged
      PROVE  MadeOf(Sent', file'[f].lines[i])
  <2>1. MadeOf(Sent, file'[f].lines[i])
    BY <1>0, <1>2, StepLinesComeFrom DEF AllIsMade
  <2> QED
    BY <1>1, <2>1
<1>3. ASSUME NEW h \in Writers, NEW i \in DOMAIN batch'[h]
      PROVE  MadeOf(Sent', batch'[h][i])
  <2>1. CASE batch'[h] = batch[h]
    BY <1>0, <1>1, <1>3, <2>1 DEF AllIsMade
  <2>2. CASE batch'[h] # batch[h]
    <3>1. PICK g \in Writers, x \in Payloads : Post(g, x)
      <4>1. \A g \in Writers : HandlerStep(g) => batch' = batch
        BY DEF HandlerStep, Step, Return, Scan, AppendEvents, Stop, FailAppend
      <4> QED
        BY <2>2, <4>1 DEF ONext, Tick, Respond, Lose, BadRequest, vars
    <3>2. g = h
      BY <2>2, <3>1, PostIsCall
    <3>3. PICK k \in DOMAIN x :
            /\ Recognized(x[k])
            /\ \E t, u \in 1 .. MaxClock : batch'[h][i] = PointEvent(x[k], t, u)
      BY <1>3, <3>1, <3>2, PostIsCall
    <3>4. attempts'[x] > 0
      BY <1>0, <3>1 DEF Post, ReceiverTypeOK
    <3>5. x[k] \in Sent'
      BY <3>4 DEF Sent
    <3> QED
      BY <3>3, <3>5 DEF MadeOf
  <2> QED
    BY <2>1, <2>2
<1> QED
  BY <1>2, <1>3 DEF AllIsMade

LEMMA InTurnStep == OInv /\ [ONext]_<<vars, ovars>> => InTurn'
<1> SUFFICES ASSUME OInv, [ONext]_<<vars, ovars>>, ~overlapped' PROVE InTurn'
  BY DEF InTurn
<1>0. TypeInv /\ TypeOK /\ ReceiverTypeOK /\ [AnyNext]_vars /\ IdleIsDone /\ InTurn
  BY ReceiverStepIsAny DEF OInv, CallInv, SafeInv, TypeInv
<1>1. ~overlapped
  BY <1>0 DEF ONext, Tick, Post, HandlerStep, Respond, Lose, BadRequest, ovars
<1>2. ExactInv /\ \A g, h \in Writers : handling[g] # None /\ handling[h] # None => g = h
  BY <1>0, <1>1 DEF InTurn, ExactInv
<1>3. Alone
  BY <1>0, <1>2 DEF Alone, IdleIsDone
<1>4. ExactInv'
  BY <1>0, <1>2, <1>3, ExactInvStep
<1>5. ASSUME NEW g \in Writers, NEW h \in Writers, handling'[g] # None, handling'[h] # None
      PROVE  g = h
  <2>1. ASSUME NEW v \in Writers, NEW x \in Payloads, Post(v, x)
        PROVE  g = h
    <3>1. \A w \in Writers : handling[w] = None
      BY <2>1 DEF Post
    <3>2. \A w \in Writers : w # v => handling'[w] = None
      BY <1>0, <2>1, <3>1 DEF Post, ReceiverTypeOK
    <3> QED
      BY <1>5, <3>2
  <2>2. CASE \A w \in Writers : handling'[w] # None => handling[w] # None
    BY <1>2, <1>5, <2>2
  <2>3. \A w \in Writers : Respond(w) => \A v \in Writers : handling'[v] # None => handling[v] # None
    BY <1>0 DEF Respond, ReceiverTypeOK
  <2> QED
    BY <2>1, <2>2, <2>3 DEF ONext, Tick, HandlerStep, Lose, BadRequest, ovars
<1> QED
  BY <1>4, <1>5 DEF InTurn, ExactInv

LEMMA OInvStep == OInv /\ [ONext]_<<vars, ovars>> => OInv'
<1> SUFFICES ASSUME OInv, [ONext]_<<vars, ovars>> PROVE OInv'
  OBVIOUS
<1>1. [AnyNext]_vars
  BY ReceiverStepIsAny
<1>2. CallInv' /\ PlaceInv'
  BY <1>1, CallInvStep, PlaceInvStep DEF OInv
<1> QED
  BY <1>2, ReceiverTypeStep, IdleIsDoneStep, AnsweredIsSafeStep, AllIsMadeStep, InTurnStep DEF OInv

\* Every reachable state of the receiver and its store is well typed, whatever
\* datapoints are posted and however requests overlap, fail and are repeated.
THEOREM ReceiverTypeCorrect == OSpec => []OTypeOK
<1>1. OInv => OTypeOK
  BY DEF OInv, OTypeOK, ReceiverTypeOK, AnsweredIsSafe, CallInv, SafeInv, TypeInv
<1> QED
  BY <1>1, OInvInit, OInvStep, PTL DEF OSpec

\* A 200 is only given for events that are on disk, or whose file says that it is
\* damaged: any number of handlers, retries, lost answers and failed appends
\* (handleMetrics answers 500 when Write returns an error).
THEOREM AnswersAreStored == OSpec => []AnsweredIsStored
<1>1. OInv => AnsweredIsStored
  BY DEF OInv, AnsweredIsSafe, AnsweredIsStored, SafeIn
<1> QED
  BY <1>1, OInvInit, OInvStep, PTL DEF OSpec

-----------------------------------------------------------------------------
(* Requests in turn count once.                                            *)

\* Only finitely many datapoints have been sent.
LEMMA SentIsFinite == IsFiniteSet(Sent)
<1> DEFINE Points(x) == {x[i] : i \in DOMAIN x}
           Posted == {y \in Payloads : attempts[y] > 0}
           All == {Points(x) : x \in Posted}
<1>1. ASSUME NEW x \in Posted
      PROVE  IsFiniteSet(Points(x))
  <2>1. x \in Seq(Points(x))
    BY <1>1, PayloadsAssumption
  <2>2. DOMAIN x = 1 .. Len(x) /\ Len(x) \in Nat
    BY <2>1
  <2>3. IsFiniteSet(DOMAIN x)
    BY <2>2, FS_Interval
  <2> DEFINE at == [i \in DOMAIN x |-> x[i]]
  <2>4. at \in Surjection(DOMAIN x, Points(x))
    BY DEF Surjection
  <2> QED
    BY <2>3, <2>4, FS_Surjection
<1>2. IsFiniteSet(Posted)
  BY PayloadsAssumption, FS_Subset
<1>3. IsFiniteSet(All)
  <2> HIDE DEF Points, Posted
  <2> DEFINE of == [x \in Posted |-> Points(x)]
  <2>1. of \in Surjection(Posted, All)
    BY DEF Surjection
  <2> QED
    BY <1>2, <2>1, FS_Surjection
<1>4. \A T \in All : IsFiniteSet(T)
  BY <1>1
<1>5. IsFiniteSet(UNION All)
  BY <1>3, <1>4, FS_UNION
<1> QED
  BY <1>5 DEF Sent

\* A datapoint that says when it was measured becomes the same event whenever it
\* arrives; whom an event is like does not depend on the arrival anyway.
LEMMA ArrivalIsNoMatter ==
  ASSUME NEW q, NEW p, NEW t, NEW u, NEW clock
  PROVE  /\ q.time > 0 => PointEvent(q, t, u) = PointEvent(q, clock, clock)
         /\ Alike(PointEvent(q, t, u), p) <=> Alike(PointEvent(q, clock, clock), p)
  BY DEF PointEvent, TimeOf, Alike

\* Each line like p goes back to a datapoint like p, and no two to the same one:
\* equal events have the same file and the same id.
LEMMA TurnsCountOnce ==
  ASSUME OInv, ~overlapped, NEW p \in Sent, Timed(p)
  PROVE  CountsOnce(p)
<1> DEFINE line(y) == file[y[1]].lines[y[2]]
           A == {y \in StoredPlaces : Alike(line(y), p)}
           B == {q \in Sent : Recognized(q) /\ Alike(PointEvent(q, now, now), p)}
<1>1. AllIsMade /\ PlaceInv /\ NoDuplicateIds
  BY DEF OInv, InTurn
<1>2. ASSUME NEW y \in StoredPlaces
      PROVE  /\ y[1] \in DayFiles /\ y[2] \in DOMAIN file[y[1]].lines
             /\ line(y) # Damaged /\ y = <<y[1], y[2]>>
  BY <1>2 DEF StoredPlaces
<1>3. ASSUME NEW y \in A
      PROVE  \E q \in B : line(y) = PointEvent(q, now, now)
  <2>1. MadeOf(Sent, line(y))
    BY <1>1, <1>2 DEF AllIsMade
  <2>2. PICK q \in Sent : Recognized(q) /\ \E t, u \in 1 .. MaxClock : line(y) = PointEvent(q, t, u)
    BY <2>1 DEF MadeOf
  <2>3. PICK t \in 1 .. MaxClock, u \in 1 .. MaxClock : line(y) = PointEvent(q, t, u)
    BY <2>2
  <2>4. Alike(PointEvent(q, now, now), p)
    BY <2>3, ArrivalIsNoMatter
  <2>5. q.time > 0
    BY <2>2, <2>4 DEF Timed
  <2> QED
    BY <2>2, <2>3, <2>4, <2>5, ArrivalIsNoMatter
<1>4. ASSUME NEW y \in A, NEW z \in A, line(y) = line(z)
      PROVE  y = z
  <2>1. y[1] = EventFile(line(y)) /\ z[1] = EventFile(line(z))
    BY <1>1, <1>2 DEF PlaceInv, InPlace
  <2>2. y[1] = z[1]
    BY <1>4, <2>1
  <2>3. y[2] = z[2]
    BY <1>1, <1>2, <1>4, <2>2 DEF NoDuplicateIds
  <2> QED
    BY <1>2, <2>2, <2>3
<1>5. IsFiniteSet(B)
  BY SentIsFinite, FS_Subset
<1> DEFINE from == [y \in A |-> CHOOSE q \in B : line(y) = PointEvent(q, now, now)]
<1> HIDE DEF A, B, line
<1>6. \A y \in A : from[y] \in B /\ line(y) = PointEvent(from[y], now, now)
  BY <1>3
<1>7. from \in Injection(A, B)
  BY <1>4, <1>6 DEF Injection, IsInjective
<1>8. Cardinality(A) <= Cardinality(B)
  BY <1>5, <1>7, FS_Injection
<1> QED
  BY <1>8 DEF CountsOnce, A, B, line

\* Handlers that take turns count every datapoint that says when it was measured
\* once: not even a Write that failed half way, an answer that got lost, or a torn
\* line makes a retry count again what is stored already.
THEOREM RetriesInTurnAreCountedOnce == OSpec => []RetriesInTurnCountOnce
<1>1. OInv => RetriesInTurnCountOnce
  BY TurnsCountOnce DEF RetriesInTurnCountOnce
<1> QED
  BY <1>1, OInvInit, OInvStep, PTL DEF OSpec

=============================================================================
