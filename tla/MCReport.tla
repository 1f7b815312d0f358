------------------------------ MODULE MCReport ------------------------------
(***************************************************************************)
(* Small instances of Report: days of four ticks, events on both sides of  *)
(* a midnight, from two sources and a third that only takes snapshots.     *)
(***************************************************************************)
EXTENDS Report

Event(type, time, source, session, model, flag, attrs) ==
  [type |-> type, time |-> time, source |-> source,
   version |-> IF time < 8 THEN "v1" ELSE "v2",
   confidence |-> CASE source = "claude" -> IF time < 8 THEN 9 ELSE 8 [] source = "otel" -> 10 [] source = "github" -> 5,
   mode |-> IF time < 8 THEN "history" ELSE "api",
   session |-> session, model |-> model, flag |-> flag, attrs |-> attrs]

NoAttrs == <<>>

opus == <<"claude-opus", "-4", "-8">>
opusLarge == opus \o <<"[1m]">>
opus80 == opus \o <<"0">>

answer == Event("message", 7, "claude", "A", opusLarge, FALSE, [input_tokens |-> 2, output_tokens |-> 1])
midnight == Event("message", 8, "claude", "A", opus, FALSE, [input_tokens |-> 3, cost_usd |-> 1])
usage == Event("usage", 9, "otel", "A", opus80, FALSE, [input_tokens |-> 4])
task == Event("task", 7, "otel", "B", Missing, FALSE, NoAttrs)
commit == Event("commit", 7, "otel", Missing, Missing, TRUE, [insertions |-> 5])
snapshot == Event("snapshot", 7, "github", Missing, Missing, FALSE, [contributions |-> 7])

MixedEvents == {answer, midnight, usage, task, commit, snapshot}
FewEvents == {answer, midnight, snapshot}

\* An older model costs more.
OpusPrices ==
  [m \in {opus, SubSeq(opus, 1, 2)} |->
     [t \in Tokens |-> IF t = "output_tokens" THEN 5 ELSE IF m = opus THEN 1 ELSE 3]]
OpusBoundaries == {"-4", "-8", "[1m]"}

Whole(from, to) == [start |-> 4 * from, end |-> 4 * to]

WholePeriods == {Whole(1, 2), Whole(2, 3), Whole(1, 3), [start |-> 8, end |-> ZeroTime]}
MiddayPeriods == {[start |-> 6, end |-> 12]}

=============================================================================
