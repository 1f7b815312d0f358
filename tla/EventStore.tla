----------------------------- MODULE EventStore -----------------------------
(***************************************************************************)
(* Store.Write and the day files it appends to, line by line.              *)
(*                                                                         *)
(* A writer is one caller of Store.Write: a goroutine of the telemetry     *)
(* receiver, or a process importing history.  Nothing serialises writers:  *)
(* the store takes no lock, so each call is the sequence of steps the      *)
(* operating system sees (read the ids of a file, append to it, go on with *)
(* the next file) and the steps of different writers interleave.           *)
(*                                                                         *)
(* A file is the sequence of its lines.  A line is the event it decodes    *)
(* to, or Damaged.  "open" says that the last line lacks its newline,      *)
(* which is how an interrupted append ends: whatever is appended next      *)
(* continues that line, and two JSON values on a line decode to nothing.   *)
(* Appending is one write(2) with O_APPEND, hence one step; a scan sees    *)
(* what the file held when it met the end of it, hence one step too.       *)
(***************************************************************************)
EXTENDS EventFiles, FiniteSets

CONSTANTS
  Writers,      \* concurrent callers of Write
  Events,       \* events any caller may hand to Write
  Batches,      \* the slices of events they do hand to it
  PathRank,     \* place of every day file in the order of sort.Strings
  Damaged,      \* a line that does not decode
  MaxFaults     \* bound on interruptions: errors, cancellations, crashes

DayFiles == DOMAIN PathRank
Lines == Events \cup {Damaged}
Ids == {e.id : e \in Events}

ASSUME BatchesAssumption == \A b \in Batches : b \in Seq(Events)
ASSUME FilesAssumption == \A e \in Events : Valid(e) => EventFile(e) \in DayFiles
ASSUME DamagedAssumption == Damaged \notin Events
ASSUME RankAssumption ==
  /\ PathRank \in [DayFiles -> Nat]
  /\ \A f, g \in DayFiles : PathRank[f] = PathRank[g] => f = g
ASSUME FaultsAssumption == MaxFaults \in Nat

VARIABLES
  file,         \* the day files
  pc,           \* where each writer is in Write
  batch,        \* the events of its call
  todo,         \* the files its call has not finished
  known,        \* the ids it read from the file it is about to append to
  result,       \* what its call returns, accumulated so far
  faults,       \* interruptions so far
  counted       \* history: what a result has counted, as written or duplicate

vars == <<file, pc, batch, todo, known, result, faults, counted>>

EmptyFile == [lines |-> <<>>, open |-> FALSE]
NoResult == [written |-> 0, duplicates |-> 0, err |-> FALSE]

\* The ids existingIDs finds: a line that does not decode contributes none.
IntactIds(c) == {c.lines[i].id : i \in {j \in DOMAIN c.lines : c.lines[j] # Damaged}}

-----------------------------------------------------------------------------
(* What appendEvents puts into a file.                                     *)

\* The positions of the batch that belong to file f ...
Own(b, f) == {i \in DOMAIN b : EventFile(b[i]) = f}

\* ... and the ones it keeps when a repeated id in one batch goes unnoticed.
FreshIgnoringBatch(b, f, ids) == {i \in Own(b, f) : b[i].id \notin ids}

\* ... and the ones it keeps when it is handed the whole batch for each file.
FreshOfWholeBatch(b, f, ids) ==
  {i \in DOMAIN b : b[i].id \notin ids /\ \A j \in DOMAIN b : j < i => b[j].id # b[i].id}

\* ... and the ones it keeps: ids neither in the file nor earlier in the batch.
Fresh(b, f, ids) ==
  {i \in Own(b, f) : /\ b[i].id \notin ids
                     /\ \A j \in Own(b, f) : j < i => b[j].id # b[i].id}

\* The elements of s at the positions kept, in their order (a single sequence).
InOrder(s, kept) ==
  LET order == {p \in [1 .. Cardinality(kept) -> kept] :
                  /\ \A j, k \in DOMAIN p : j < k => p[j] < p[k]
                  /\ \A i \in kept : \E k \in DOMAIN p : p[k] = i}
  IN {[k \in DOMAIN p |-> s[p[k]]] : p \in order}

\* The kept events in batch order.
Buffers(b, f, ids) == InOrder(b, Fresh(b, f, ids))

\* Appending to the bytes there are; the first line continues an open line.
Glue(lines, bytes) == [lines EXCEPT ![Len(lines)] = Damaged] \o Tail(bytes)

\* Opens with O_TRUNC in place of O_APPEND.
PutLinesTruncating(c, bytes, open) == [lines |-> bytes, open |-> open]

\* Leaves the newline after the last line of the buffer out.
PutLinesUnterminated(c, bytes, open) ==
  IF bytes = <<>> THEN c
  ELSE [lines |-> IF c.open THEN Glue(c.lines, bytes) ELSE c.lines \o bytes,
        open |-> TRUE]

\* Cuts an open last line off before it appends.
PutLinesRepairing(c, bytes, open) ==
  IF bytes = <<>> THEN c
  ELSE [lines |-> IF c.open THEN SubSeq(c.lines, 1, Len(c.lines) - 1) \o bytes
                  ELSE c.lines \o bytes,
        open |-> open]

PutLines(c, bytes, open) ==
  IF bytes = <<>> THEN c
  ELSE [lines |-> IF c.open THEN Glue(c.lines, bytes) ELSE c.lines \o bytes,
        open |-> open]

\* What an interrupted write may leave of a buffer: whole lines only, or whole
\* lines and a last one cut short, be it in its body or just before its newline.
Cuts(buf) ==
  {[bytes |-> SubSeq(buf, 1, k), open |-> FALSE] : k \in 0 .. Len(buf)}
  \cup {[bytes |-> Append(SubSeq(buf, 1, k - 1), IF whole THEN buf[k] ELSE Damaged),
         open |-> TRUE] : k \in 1 .. Len(buf), whole \in BOOLEAN}

-----------------------------------------------------------------------------
Init ==
  /\ file = [f \in DayFiles |-> EmptyFile]
  /\ pc = [w \in Writers |-> "idle"]
  /\ batch = [w \in Writers |-> <<>>]
  /\ todo = [w \in Writers |-> {}]
  /\ known = [w \in Writers |-> {}]
  /\ result = [w \in Writers |-> NoResult]
  /\ faults = 0
  /\ counted = {}

\* One event lacks its id, type, timestamp or product: nothing is written.
Reject(w, b) ==
  /\ pc[w] \in {"idle", "done"}
  /\ \E i \in DOMAIN b : ~Valid(b[i])
  /\ pc' = [pc EXCEPT ![w] = "done"]
  /\ batch' = [batch EXCEPT ![w] = b]
  /\ result' = [result EXCEPT ![w] = [NoResult EXCEPT !.err = TRUE]]
  /\ UNCHANGED <<file, todo, known, faults, counted>>

\* Write groups the events by file.
Begin(w, b) ==
  /\ pc[w] \in {"idle", "done"}
  /\ \A i \in DOMAIN b : Valid(b[i])
  /\ pc' = [pc EXCEPT ![w] = "file"]
  /\ batch' = [batch EXCEPT ![w] = b]
  /\ todo' = [todo EXCEPT ![w] = {EventFile(b[i]) : i \in DOMAIN b}]
  /\ result' = [result EXCEPT ![w] = NoResult]
  /\ UNCHANGED <<file, known, faults, counted>>

\* f is the next file of w's call in the order of the paths.
IsNext(w, f) == f \in todo[w] /\ \A g \in todo[w] : PathRank[f] <= PathRank[g]

\* Remembers the ids the store has taken instead of reading the file again.
ScanCached(w, f) ==
  /\ pc[w] = "file"
  /\ IsNext(w, f)
  /\ pc' = [pc EXCEPT ![w] = "append"]
  /\ known' = [known EXCEPT ![w] = {id \in Ids : <<f, id>> \in counted}]
  /\ UNCHANGED <<file, batch, todo, result, faults, counted>>

\* existingIDs
Scan(w, f) ==
  /\ pc[w] = "file"
  /\ IsNext(w, f)
  /\ pc' = [pc EXCEPT ![w] = "append"]
  /\ known' = [known EXCEPT ![w] = IntactIds(file[f])]
  /\ UNCHANGED <<file, batch, todo, result, faults, counted>>

\* Returns the partial result without the error.
StopSilently(w) ==
  /\ pc[w] = "file" /\ todo[w] # {}
  /\ faults < MaxFaults
  /\ faults' = faults + 1
  /\ pc' = [pc EXCEPT ![w] = "done"]
  /\ todo' = [todo EXCEPT ![w] = {}]
  /\ UNCHANGED <<file, batch, known, result, counted>>

\* The context is done, or existingIDs fails: Write returns what it has so far.
Stop(w) ==
  /\ pc[w] = "file" /\ todo[w] # {}
  /\ faults < MaxFaults
  /\ faults' = faults + 1
  /\ pc' = [pc EXCEPT ![w] = "done"]
  /\ todo' = [todo EXCEPT ![w] = {}]
  /\ result' = [result EXCEPT ![w].err = TRUE]
  /\ UNCHANGED <<file, batch, known, counted>>

\* The rest of appendEvents succeeds.  The file is not read again: known may
\* be older than what other writers have appended since.
AppendEvents(w, f) ==
  /\ pc[w] = "append"
  /\ IsNext(w, f)
  /\ \E buf \in Buffers(batch[w], f, known[w]) :
       /\ file' = [file EXCEPT ![f] = PutLines(@, buf, FALSE)]
       /\ result' = [result EXCEPT
            ![w].written = @ + Len(buf),
            ![w].duplicates = @ + Cardinality(Own(batch[w], f)) - Len(buf)]
  /\ pc' = [pc EXCEPT ![w] = "file"]
  /\ todo' = [todo EXCEPT ![w] = @ \ {f}]
  /\ known' = [known EXCEPT ![w] = {}]
  /\ counted' = counted \cup {<<f, batch[w][i].id>> : i \in Own(batch[w], f)}
  /\ UNCHANGED <<batch, faults>>

\* mkdir, open, write or close fails; the bytes written before stay.
FailAppend(w, f) ==
  /\ pc[w] = "append"
  /\ IsNext(w, f)
  /\ faults < MaxFaults
  /\ faults' = faults + 1
  /\ \E buf \in Buffers(batch[w], f, known[w]) :
       /\ buf # <<>>
       /\ \E cut \in Cuts(buf) :
            file' = [file EXCEPT ![f] = PutLines(@, cut.bytes, cut.open)]
  /\ pc' = [pc EXCEPT ![w] = "done"]
  /\ todo' = [todo EXCEPT ![w] = {}]
  /\ known' = [known EXCEPT ![w] = {}]
  /\ result' = [result EXCEPT ![w].err = TRUE]
  /\ UNCHANGED <<batch, counted>>

\* The process of the writer dies; in the middle of its append, or between
\* two steps.  No result is returned.
Crash(w) ==
  /\ pc[w] \in {"file", "append"}
  /\ faults < MaxFaults
  /\ faults' = faults + 1
  /\ IF pc[w] = "file" THEN file' = file
     ELSE \E f \in todo[w] :
            /\ IsNext(w, f)
            /\ \E buf \in Buffers(batch[w], f, known[w]) : \E cut \in Cuts(buf) :
                 file' = [file EXCEPT ![f] = PutLines(@, cut.bytes, cut.open)]
  /\ pc' = [pc EXCEPT ![w] = "idle"]
  /\ todo' = [todo EXCEPT ![w] = {}]
  /\ known' = [known EXCEPT ![w] = {}]
  /\ result' = [result EXCEPT ![w] = NoResult]
  /\ UNCHANGED <<batch, counted>>

\* All files are done.
Return(w) ==
  /\ pc[w] = "file" /\ todo[w] = {}
  /\ pc' = [pc EXCEPT ![w] = "done"]
  /\ UNCHANGED <<file, batch, todo, known, result, faults, counted>>

\* A call of Write goes on by itself ...
Step(w) == Return(w) \/ \E f \in DayFiles : Scan(w, f) \/ AppendEvents(w, f)

\* ... or is interrupted.
Interrupt(w) == Stop(w) \/ Crash(w) \/ \E f \in DayFiles : FailAppend(w, f)

Call(w) == \E b \in Batches : Begin(w, b) \/ Reject(w, b)

Next == \E w \in Writers : Call(w) \/ Step(w) \/ Interrupt(w)

Spec == Init /\ [][Next]_vars

\* A call that has begun runs on (the scheduler runs every goroutine), and the
\* owner of the store keeps importing: the collectors are meant to be re-run.
ReimportSpec ==
  /\ Spec
  /\ \A w \in Writers : WF_vars(Step(w)) /\ WF_vars(\E b \in Batches : Begin(w, b))

-----------------------------------------------------------------------------
TypeOK ==
  /\ file \in [DayFiles -> [lines : Seq(Lines), open : BOOLEAN]]
  /\ pc \in [Writers -> {"idle", "file", "append", "done"}]
  /\ batch \in [Writers -> Seq(Events)]
  /\ todo \in [Writers -> SUBSET DayFiles]
  /\ known \in [Writers -> SUBSET Ids]
  /\ result \in [Writers -> [written : Nat, duplicates : Nat, err : BOOLEAN]]
  /\ faults \in 0 .. MaxFaults
  /\ counted \in SUBSET (DayFiles \X Ids)

\* "an event whose deterministic ID already exists in its day file is skipped":
\* no id is on two lines of a file.  True of writers that take turns.
NoDuplicateIds ==
  \A f \in DayFiles : \A i, j \in DOMAIN file[f].lines :
    /\ file[f].lines[i] # Damaged /\ file[f].lines[j] # Damaged
    /\ file[f].lines[i].id = file[f].lines[j].id
    => i = j

HasDamage(c) == \E i \in DOMAIN c.lines : c.lines[i] = Damaged

\* "Damaged lines become diagnostics, never silent drops": an event a caller
\* was told is stored can be read back, or its file has a line Read complains of.
NoSilentLoss ==
  \A x \in counted : x[2] \in IntactIds(file[x[1]]) \/ HasDamage(file[x[1]])

\* The stronger reading: whatever a result counted can be read back.
CountedIsReadable == \A x \in counted : x[2] \in IntactIds(file[x[1]])

\* Every line that does not decode, and every last line that would stop decoding
\* were it continued, goes back to an interruption of its own: an append that
\* runs to its end damages no more than an interrupted one has put at stake.
AtStake ==
  UNION {{<<f, i>> : i \in {j \in DOMAIN file[f].lines :
                             \/ file[f].lines[j] = Damaged
                             \/ file[f].open /\ j = Len(file[f].lines)}} : f \in DayFiles}

DamagePerFault == Cardinality(AtStake) <= faults

\* Files only grow: a line stays as it is, unless it is an unterminated last one.
LinesStay ==
  [][\A f \in DayFiles : \A i \in DOMAIN file[f].lines :
       \/ i \in DOMAIN file'[f].lines /\ file'[f].lines[i] = file[f].lines[i]
       \/ file[f].open /\ i = Len(file[f].lines)]_vars

\* Re-importing the same history repairs what interruptions have cost, since an
\* id lost with its line is new to existingIDs: in the end every valid event is
\* in its file, to stay.
Reimported ==
  <>[](\A b \in Batches : (\A i \in DOMAIN b : Valid(b[i])) =>
         \A i \in DOMAIN b : b[i].id \in IntactIds(file[EventFile(b[i])]))

=============================================================================
