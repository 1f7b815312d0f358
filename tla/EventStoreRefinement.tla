------------------------ MODULE EventStoreRefinement ------------------------
(***************************************************************************)
(* EventStore implements EventLogContract: the stored ids are those of the *)
(* intact lines, the damaged files those with a line that does not decode. *)
(***************************************************************************)
EXTENDS EventStore

StatusOf(w) ==
  IF pc[w] = "idle" THEN "idle"
  ELSE IF pc[w] # "done" THEN "busy"
  ELSE IF result[w].err THEN "err" ELSE "ok"

Contract == INSTANCE EventLogContract WITH
  stored <- [f \in DayFiles |-> IntactIds(file[f])],
  damaged <- {f \in DayFiles : HasDamage(file[f])},
  asked <- batch,
  status <- [w \in Writers |-> StatusOf(w)]

\* Every step of Write, interrupted or not and whatever other writers do
\* meanwhile, is a step the contract allows or no step at all; in particular a
\* call succeeds only when each of its events can be read back or its file
\* reports damage.
ImplementsContract == Contract!CSpec

=============================================================================
