-------------------------- MODULE EventLogContract --------------------------
(***************************************************************************)
(* What the store promises its callers: per day file a set of event ids    *)
(* that calls of Write add to, in one step per file.  A call returns       *)
(* without error only when every event it was given is stored.  Stored     *)
(* ids are lost only together with damage that Read reports.               *)
(***************************************************************************)
EXTENDS EventFiles

CONSTANTS Writers, Batches, DayFiles

VARIABLES
  stored,       \* the ids of the events in each file that can be read back
  damaged,      \* the files with a line that cannot
  asked,        \* the events of each writer's call
  status        \* of each writer: "idle", "busy", "ok" or "err"

cvars == <<stored, damaged, asked, status>>

AskedIds(w, f) == {asked[w][i].id : i \in {j \in DOMAIN asked[w] : EventFile(asked[w][j]) = f}}

CInit ==
  /\ stored = [f \in DayFiles |-> {}]
  /\ damaged = {}
  /\ asked = [w \in Writers |-> <<>>]
  /\ status = [w \in Writers |-> "idle"]

CCall(w, b) ==
  /\ status[w] # "busy"
  /\ asked' = [asked EXCEPT ![w] = b]
  /\ status' = [status EXCEPT ![w] = IF \A i \in DOMAIN b : Valid(b[i]) THEN "busy" ELSE "err"]
  /\ UNCHANGED <<stored, damaged>>

\* Some events of the call reach file f; an error or a crash may end the call.
CStore(w, f) ==
  /\ status[w] = "busy"
  /\ \E gain \in SUBSET AskedIds(w, f), loss \in SUBSET stored[f], harm \in SUBSET {f} :
       /\ stored' = [stored EXCEPT ![f] = (@ \ loss) \cup gain]
       /\ damaged' = damaged \cup harm
       /\ loss # {} => f \in damaged'
  /\ \E s \in {"busy", "err", "idle"} : status' = [status EXCEPT ![w] = s]
  /\ UNCHANGED asked

COk(w) ==
  /\ status[w] = "busy"
  /\ \A i \in DOMAIN asked[w] :
       \/ asked[w][i].id \in stored[EventFile(asked[w][i])]
       \/ EventFile(asked[w][i]) \in damaged
  /\ status' = [status EXCEPT ![w] = "ok"]
  /\ UNCHANGED <<stored, damaged, asked>>

CFail(w) ==
  /\ status[w] = "busy"
  /\ \E s \in {"err", "idle"} : status' = [status EXCEPT ![w] = s]
  /\ UNCHANGED <<stored, damaged, asked>>

CNext == \E w \in Writers :
  \/ \E b \in Batches : CCall(w, b)
  \/ \E f \in DayFiles : CStore(w, f)
  \/ COk(w) \/ CFail(w)

CSpec == CInit /\ [][CNext]_cvars

=============================================================================
