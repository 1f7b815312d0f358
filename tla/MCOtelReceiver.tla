--------------------------- MODULE MCOtelReceiver ---------------------------
(***************************************************************************)
(* Small instances of OtelReceiver: a day of four ticks, payloads of one   *)
(* to three datapoints of two services.                                    *)
(***************************************************************************)
EXTENDS OtelReceiver

Point(service, metric, type, model, t, v) ==
  [service |-> service, metric |-> metric, type |-> type, model |-> model,
   session |-> "s", time |-> t, value |-> v]

in1 == Point(<<"a">>, "tokens", "input", "m1", 4, 5)
out1 == Point(<<"a">>, "tokens", "output", "m1", 3, 6)
cost1 == Point(Codex, "cost", "", "m1", 0, 1)
other == Point(<<"a">>, "lines", "", "m1", 3, 2)
broken == Point(<<"a">>, "tokens", "input", "m1", 3, NoValue)

\* Two days and two products, a point without a time, one that is no event, a
\* payload without events.
MixedPayloads == {<<in1, other, cost1>>, <<broken>>}
OnePayload == {<<in1, out1>>}

MCClock == 2
PointsOf(payloads) == UNION {{x[i] : i \in DOMAIN x} : x \in payloads}
EventsOf(payloads) ==
  {PointEvent(p, t, u) : p \in {q \in PointsOf(payloads) : Recognized(q)},
                         t \in 1 .. MCClock, u \in 1 .. MCClock}

MixedEvents == EventsOf(MixedPayloads)
OneEvents == EventsOf(OnePayload)

MixedBatches == UNION {[1 .. k -> MixedEvents] : k \in 0 .. 2}
NoBatches == {}

PointFiles == {[day |-> d, name |-> n] : d \in 0 .. 1, n \in {<<"a">>, CodexCli}}
PointRank == [f \in PointFiles |-> 2 * f.day + (IF f.name = <<"a">> THEN 0 ELSE 1)]

=============================================================================
