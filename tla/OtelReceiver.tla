---------------------------- MODULE OtelReceiver ----------------------------
(***************************************************************************)
(* The OTLP/HTTP metrics receiver on top of the event store.  Each request *)
(* runs in a goroutine of its own (a handler, the writers of EventStore),  *)
(* so requests overlap.  The exporter sends a payload, waits, and sends it *)
(* again when it times out, sees an error or loses the connection; a       *)
(* handler it no longer waits for runs on.                                 *)
(*                                                                         *)
(* A datapoint is a record of the service it came from, the metric's name, *)
(* the attributes type, model and session.id, its timeUnixNano (0 when it  *)
(* is missing or not positive) and its value.  Services are character      *)
(* sequences, as products are.                                             *)
(***************************************************************************)
EXTENDS EventStore

CONSTANTS
  Payloads,     \* metric posts: sequences of datapoints
  MaxAttempts,  \* bound on how often the exporter sends a payload
  MaxClock,     \* bound on the receiver's clock
  NoValue,      \* a datapoint whose asInt and asDouble do not parse
  None

ASSUME AttemptsAssumption == MaxAttempts \in Nat
ASSUME ClockAssumption == MaxClock \in Nat \ {0}

VARIABLES
  now,          \* the receiver's wall clock
  handling,     \* the payload each handler serves, or None
  attempts,     \* how often each payload was sent
  awaited,      \* the handler the exporter waits for, per payload, or None
  answered,     \* history: the events of requests answered with 200
  overlapped    \* history: two handlers have been at work at the same time

ovars == <<now, handling, attempts, awaited, answered, overlapped>>

-----------------------------------------------------------------------------
(* Conversion of a payload.                                                *)

\* Spelled with the characters EventFiles knows: "codex" and "codex-cli" share
\* a product, a missing service.name is "unknown", others keep their name.
Codex == <<"b">>
CodexCli == <<"b", "-", "1">>
Unknown == <<"1">>

SourceFor(service) ==
  IF service \in {Codex, CodexCli} THEN CodexCli
  ELSE IF service = <<>> THEN Unknown ELSE service

TokenTypes == {"input", "output", "cacheRead", "cacheCreation"}

\* The attribute a datapoint's value becomes.
AttrOf(p) ==
  IF p.metric = "cost" THEN "cost_usd"
  ELSE IF p.type \in TokenTypes THEN p.type ELSE "total"

Recognized(p) == p.value # NoValue /\ p.metric \in {"tokens", "cost"}

TimeOf(p, clock) == IF p.time > 0 THEN p.time ELSE clock

\* Takes the arrival time of the request for the time of each datapoint.
PointEventByArrival(p, clock, later) ==
  [id |-> <<SourceFor(p.service), p.metric, p.type, p.session, clock>>,
   type |-> "usage",
   time |-> later,
   product |-> SourceFor(p.service),
   model |-> p.model,
   attr |-> AttrOf(p),
   value |-> p.value]

\* The clock is read once for the id and once more for the timestamp.
PointEvent(p, clock, later) ==
  [id |-> <<SourceFor(p.service), p.metric, p.type, p.session, TimeOf(p, clock)>>,
   type |-> "usage",
   time |-> TimeOf(p, later),
   product |-> SourceFor(p.service),
   model |-> p.model,
   attr |-> AttrOf(p),
   value |-> p.value]

\* Turns every datapoint into an event.
ConvertAll(payload, clock, later) ==
  {[i \in DOMAIN payload |-> PointEvent(payload[i], clock, later)]}

\* The events of the recognized datapoints in their order (a single sequence).
Convert(payload, clock, later) ==
  {[i \in DOMAIN points |-> PointEvent(points[i], clock, later)] :
     points \in InOrder(payload, {i \in DOMAIN payload : Recognized(payload[i])})}

\* There are finitely many payloads, and Events has what they may become.
ASSUME PayloadsAssumption ==
  /\ IsFiniteSet(Payloads)
  /\ \A x \in Payloads : x \in Seq({x[i] : i \in DOMAIN x})
  /\ \A x \in Payloads : \A i \in DOMAIN x : Recognized(x[i]) =>
       \A clock, later \in 1 .. MaxClock : PointEvent(x[i], clock, later) \in Events
ASSUME NoneAssumption == None \notin Payloads /\ None \notin Writers

-----------------------------------------------------------------------------
OInit ==
  /\ Init
  /\ now = 1
  /\ handling = [h \in Writers |-> None]
  /\ attempts = [x \in Payloads |-> 0]
  /\ awaited = [x \in Payloads |-> None]
  /\ answered = {}
  /\ overlapped = FALSE

Tick ==
  /\ now < MaxClock
  /\ now' = now + 1
  /\ UNCHANGED <<vars, handling, attempts, awaited, answered, overlapped>>

\* The exporter sends x and handler h converts it: Write is called on the
\* events, unless there are none.
Post(h, x) ==
  /\ handling[h] = None
  /\ awaited[x] = None
  /\ attempts[x] < MaxAttempts
  /\ attempts' = [attempts EXCEPT ![x] = @ + 1]
  /\ awaited' = [awaited EXCEPT ![x] = h]
  /\ handling' = [handling EXCEPT ![h] = x]
  /\ overlapped' = (overlapped \/ \E g \in Writers : handling[g] # None)
  /\ \E later \in {now, now + 1} \cap (1 .. MaxClock) : \E events \in Convert(x, now, later) :
       IF events = <<>>
       THEN /\ pc' = [pc EXCEPT ![h] = "done"]
            /\ batch' = [batch EXCEPT ![h] = <<>>]
            /\ result' = [result EXCEPT ![h] = NoResult]
            /\ UNCHANGED <<file, todo, known, faults, counted>>
       ELSE Begin(h, events) \/ Reject(h, events)
  /\ UNCHANGED <<now, answered>>

\* Answers 200 without looking at the error of Write.
RespondRegardless(h) ==
  /\ pc[h] = "done"
  /\ handling[h] # None
  /\ handling' = [handling EXCEPT ![h] = None]
  /\ answered' = answered \cup {batch[h][i] : i \in DOMAIN batch[h]}
  /\ UNCHANGED <<vars, now, attempts, awaited, overlapped>>

\* Write has returned: 200, or 500 with its error.  An answer the exporter
\* still waits for settles the payload; it keeps the ones it got an error for.
Respond(h) ==
  /\ pc[h] = "done"
  /\ handling[h] # None
  /\ handling' = [handling EXCEPT ![h] = None]
  /\ answered' = IF result[h].err THEN answered
                 ELSE answered \cup {batch[h][i] : i \in DOMAIN batch[h]}
  /\ awaited' = IF awaited[handling[h]] = h /\ result[h].err
                THEN [awaited EXCEPT ![handling[h]] = None] ELSE awaited
  /\ UNCHANGED <<vars, now, attempts, overlapped>>

\* The exporter stops waiting, or the answer gets lost on its way.
Lose(x) ==
  /\ awaited[x] # None
  /\ attempts[x] < MaxAttempts
  /\ awaited' = [awaited EXCEPT ![x] = None]
  /\ UNCHANGED <<vars, now, handling, attempts, answered, overlapped>>

\* The body is cut off or is not OTLP JSON: 400 before anything is converted.
BadRequest(x) ==
  /\ awaited[x] = None
  /\ attempts[x] < MaxAttempts
  /\ attempts' = [attempts EXCEPT ![x] = @ + 1]
  /\ UNCHANGED <<vars, now, handling, awaited, answered, overlapped>>

HandlerStep(h) ==
  /\ handling[h] # None
  /\ Step(h) \/ Stop(h) \/ \E f \in DayFiles : FailAppend(h, f)
  /\ UNCHANGED ovars

ONext ==
  \/ Tick
  \/ \E h \in Writers : HandlerStep(h) \/ Respond(h) \/ \E x \in Payloads : Post(h, x)
  \/ \E x \in Payloads : Lose(x) \/ BadRequest(x)

OSpec == OInit /\ [][ONext]_<<vars, ovars>>

-----------------------------------------------------------------------------
OTypeOK ==
  /\ TypeOK
  /\ now \in 1 .. MaxClock
  /\ handling \in [Writers -> Payloads \cup {None}]
  /\ attempts \in [Payloads -> 0 .. MaxAttempts]
  /\ awaited \in [Payloads -> Writers \cup {None}]
  /\ answered \in SUBSET Events
  /\ overlapped \in BOOLEAN

\* A 200 is only given for events that are on disk, or whose file says that it
\* is damaged: neither a retry, nor a client that went away, nor a failed Write
\* makes the receiver acknowledge what it does not have.
AnsweredIsStored ==
  \A e \in answered : e.id \in IntactIds(file[EventFile(e)]) \/ HasDamage(file[EventFile(e)])

StoredPlaces == UNION {{<<f, i>> : i \in {j \in DOMAIN file[f].lines :
                                          file[f].lines[j] # Damaged}} : f \in DayFiles}

\* The datapoints the exporter has sent.
Sent == UNION {{x[i] : i \in DOMAIN x} : x \in {y \in Payloads : attempts[y] > 0}}

Alike(e, p) == /\ e.product = SourceFor(p.service) /\ e.attr = AttrOf(p)
               /\ e.model = p.model /\ e.value = p.value

\* The store holds no more lines like p than datapoints like p were sent.
CountsOnce(p) ==
  Cardinality({y \in StoredPlaces : Alike(file[y[1]].lines[y[2]], p)})
    <= Cardinality({q \in Sent : Recognized(q) /\ Alike(PointEvent(q, now, now), p)})

\* "Retried exports dedup": for each service, metric, type and model the store
\* holds no more lines than there are datapoints, however often and in however
\* many overlapping requests they were sent.
RetriesCountOnce == \A p \in Sent : CountsOnce(p)

\* Every datapoint that was sent and is like p says when it was measured.
Timed(p) == \A q \in Sent : Recognized(q) /\ Alike(PointEvent(q, now, now), p) => q.time > 0

\* The same where no handler starts before the last one is done, for datapoints
\* that say when they were measured: not even a Write that failed half way, or a
\* torn line, makes the retry count what is stored already a second time.
RetriesInTurnCountOnce == overlapped \/ \A p \in Sent : Timed(p) => CountsOnce(p)

=============================================================================
