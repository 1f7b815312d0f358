---------------------------- MODULE MCEventStore ----------------------------
(***************************************************************************)
(* Small instances of EventStore: two days, two products whose names       *)
(* sanitize to the same file and one more, a repeated id within a batch    *)
(* and one event without a timestamp.                                      *)
(***************************************************************************)
EXTENDS EventStoreRefinement, StoreRead

MCEvent(id, t, p) == [id |-> id, type |-> "usage", time |-> t, product |-> p]

x1 == MCEvent("x1", 2, <<"a">>)
x2 == MCEvent("x2", 3, <<"A">>)
x3 == MCEvent("x3", 3, <<"a">>)
y1 == MCEvent("y1", 4, <<"a">>)
z1 == MCEvent("z1", 3, <<"B", " ">>)
noTime == MCEvent("n1", 0, <<"a">>)
noProduct == MCEvent("n2", 2, <<>>)

MCEvents == {x1, x2, x3, y1, z1, noTime, noProduct}

\* In the order of the paths 01/a.jsonl, 01/b-.jsonl, 02/a.jsonl.
MCPathRank ==
  [f \in {EventFile(e) : e \in {x1, z1, y1}} |->
     IF f = EventFile(x1) THEN 1 ELSE IF f = EventFile(z1) THEN 2 ELSE 3]

MixedBatches == {<<x1, x2, x1, y1>>, <<x2, x3>>, <<x1, noTime>>, <<noProduct>>, <<>>}
HistoryBatches == {<<x1, y1, x2, x1>>, <<x1, noTime>>}

=============================================================================
