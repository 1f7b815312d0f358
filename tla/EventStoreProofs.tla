-------------------------- MODULE EventStoreProofs --------------------------
(***************************************************************************)
(* Proofs about EventStore, for any writers, events, batches and bounds,   *)
(* and about what the day files promise their readers: lines stay, damage  *)
(* goes back to interruptions, a query finds what its period holds, and    *)
(* every step of Write is one that EventLogContract allows.                *)
(***************************************************************************)
EXTENDS EventStoreRefinement, StoreRead, SequenceTheorems, FiniteSetTheorems, WellFoundedInduction, TLAPS

Contents == [lines : Seq(Lines), open : BOOLEAN]

\* Only a file with a last line can have an open one.
OpenHasLine == \A f \in DayFiles : file[f].open => file[f].lines # <<>>

\* The positions of a batch that belong to a file, or are kept, are finitely many.
LEMMA OwnFinite ==
  ASSUME NEW b \in Seq(Events), NEW f, NEW ids
  PROVE  /\ Own(b, f) \subseteq DOMAIN b
         /\ Fresh(b, f, ids) \subseteq Own(b, f)
         /\ IsFiniteSet(Own(b, f))
         /\ IsFiniteSet(Fresh(b, f, ids))
         /\ Cardinality(Own(b, f)) \in Nat
         /\ Cardinality(Fresh(b, f, ids)) \in Nat
         /\ Cardinality(Fresh(b, f, ids)) <= Cardinality(Own(b, f))
<1>1. Own(b, f) \subseteq DOMAIN b /\ Fresh(b, f, ids) \subseteq Own(b, f)
  BY DEF Own, Fresh
<1>2. IsFiniteSet(1 .. Len(b))
  BY FS_Interval
<1>3. DOMAIN b = 1 .. Len(b)
  OBVIOUS
<1>4. IsFiniteSet(Own(b, f))
  BY <1>1, <1>2, <1>3, FS_Subset
<1>5. IsFiniteSet(Fresh(b, f, ids)) /\ Cardinality(Fresh(b, f, ids)) <= Cardinality(Own(b, f))
  BY <1>1, <1>4, FS_Subset
<1> QED
  BY <1>1, <1>4, <1>5, FS_CardinalityType

\* A set of positions has a first one.
LEMMA FirstOf ==
  ASSUME NEW m \in Nat, NEW J \in SUBSET (1 .. m), J # {}
  PROVE  \E j \in J : \A i \in J : j <= i
<1> DEFINE S == 1 .. m
           R == StrictSubsetOrdering(S)
           T == {1 .. j : j \in J}
<1>1. IsFiniteSet(S)
  BY FS_Interval
<1>2. IsWellFoundedOn(R, SUBSET S)
  BY <1>1, FS_StrictSubsetOrderingWellFounded, FS_FiniteSubsetsOfFinite
<1>3. T \subseteq SUBSET S /\ T # {}
  <2>1. \A j \in J : 1 .. j \subseteq S
    OBVIOUS
  <2> QED
    BY <2>1
<1>4. \E x \in T : \A y \in T : ~(<<y, x>> \in R)
  <2> HIDE DEF R, S, T
  <2> QED
    BY <1>2, <1>3, WFMin
<1>5. PICK j \in J : \A y \in T : ~(<<y, 1 .. j>> \in R)
  BY <1>4
<1>6. ASSUME NEW i \in J, i < j
      PROVE  FALSE
  <2>1. 1 .. i \subseteq 1 .. j /\ j \in 1 .. j /\ j \notin 1 .. i
    BY <1>6
  <2>2. 1 .. i # 1 .. j
    BY <2>1
  <2>3. 1 .. i \in SUBSET S /\ 1 .. j \in SUBSET S /\ 1 .. i \in T
    OBVIOUS
  <2>4. <<1 .. i, 1 .. j>> \in R
    BY <2>1, <2>2, <2>3 DEF StrictSubsetOrdering
  <2> QED
    BY <1>5, <2>3, <2>4
<1> QED
  BY <1>6

\* The first event of a batch with an id that is new to the file is kept.
LEMMA NewIdIsKept ==
  ASSUME NEW b \in Seq(Events), NEW f, NEW ids,
         NEW i \in Own(b, f), b[i].id \notin ids
  PROVE  \E j \in Fresh(b, f, ids) : b[j].id = b[i].id
<1> DEFINE J == {j \in Own(b, f) : b[j].id = b[i].id}
<1>1. J \in SUBSET (1 .. Len(b)) /\ J # {} /\ Len(b) \in Nat
  BY OwnFinite
<1>2. PICK j \in J : \A k \in J : j <= k
  BY <1>1, FirstOf
<1>3. j \in Fresh(b, f, ids)
  BY <1>1, <1>2 DEF Fresh
<1> QED
  BY <1>2, <1>3

\* The elements at some positions of a sequence are one each, and in its order.
LEMMA InOrderFacts ==
  ASSUME NEW S, NEW s \in Seq(S), NEW kept \in SUBSET DOMAIN s, IsFiniteSet(kept),
         NEW picked \in InOrder(s, kept)
  PROVE  /\ picked \in Seq(S)
         /\ Len(picked) \in Nat /\ Len(picked) = Cardinality(kept)
         /\ \E p \in [1 .. Len(picked) -> kept] :
              /\ \A j, k \in 1 .. Len(picked) : p[j] = p[k] => j = k
              /\ \A i \in kept : \E k \in 1 .. Len(picked) : p[k] = i
              /\ \A k \in 1 .. Len(picked) : picked[k] = s[p[k]]
<1> DEFINE n == Cardinality(kept)
<1>1. PICK p \in [1 .. n -> kept] :
         /\ \A j, k \in DOMAIN p : j < k => p[j] < p[k]
         /\ \A i \in kept : \E k \in DOMAIN p : p[k] = i
         /\ picked = [k \in DOMAIN p |-> s[p[k]]]
  BY DEF InOrder
<1>2. n \in Nat
  BY FS_CardinalityType
<1>3. \A k \in 1 .. n : p[k] \in kept /\ p[k] \in DOMAIN s /\ p[k] \in Int
  BY <1>1
<1>4. \A k \in 1 .. n : s[p[k]] \in S
  BY <1>3
<1>5. picked = [k \in 1 .. n |-> s[p[k]]] /\ DOMAIN picked = 1 .. n
  BY <1>1
<1>6. picked \in [1 .. n -> S]
  BY <1>4, <1>5
<1>7. picked \in Seq(S)
  BY <1>2, <1>6
<1>8. Len(picked) = n
  BY <1>2, <1>5, <1>7
<1>9. ASSUME NEW j \in 1 .. n, NEW k \in 1 .. n, p[j] = p[k]
      PROVE  j = k
  <2>1. ~(j < k) /\ ~(k < j)
    BY <1>1, <1>3, <1>9
  <2> QED
    BY <2>1
<1>10. /\ \A j, k \in 1 .. n : p[j] = p[k] => j = k
       /\ \A i \in kept : \E k \in 1 .. n : p[k] = i
       /\ \A k \in 1 .. n : picked[k] = s[p[k]]
  BY <1>1, <1>5, <1>9
<1> QED
  BY <1>2, <1>7, <1>8, <1>10

\* What appendEvents keeps of a batch: events of the batch for that file, with
\* ids that are new and differ from one another.
LEMMA BufferFacts ==
  ASSUME NEW b \in Seq(Events), NEW f, NEW ids, NEW buf \in Buffers(b, f, ids)
  PROVE  /\ buf \in Seq(Events)
         /\ Len(buf) \in Nat /\ Len(buf) = Cardinality(Fresh(b, f, ids))
         /\ \A k \in 1 .. Len(buf) : \E i \in Fresh(b, f, ids) : buf[k] = b[i]
         /\ \A i \in Fresh(b, f, ids) : \E k \in 1 .. Len(buf) : buf[k] = b[i]
         /\ \A j, k \in 1 .. Len(buf) : buf[j].id = buf[k].id => j = k
<1> DEFINE kept == Fresh(b, f, ids)
<1>1. kept \in SUBSET DOMAIN b /\ IsFiniteSet(kept) /\ buf \in InOrder(b, kept)
  BY OwnFinite DEF Buffers
<1> HIDE DEF kept
<1>2. buf \in Seq(Events) /\ Len(buf) \in Nat /\ Len(buf) = Cardinality(kept)
  BY <1>1, InOrderFacts
<1>3. PICK p \in [1 .. Len(buf) -> kept] :
         /\ \A j, k \in 1 .. Len(buf) : p[j] = p[k] => j = k
         /\ \A i \in kept : \E k \in 1 .. Len(buf) : p[k] = i
         /\ \A k \in 1 .. Len(buf) : buf[k] = b[p[k]]
  BY <1>1, InOrderFacts
<1>4. \A k \in 1 .. Len(buf) : p[k] \in kept /\ p[k] \in Int
  BY <1>1, <1>3
<1>5. ASSUME NEW j \in 1 .. Len(buf), NEW k \in 1 .. Len(buf), buf[j].id = buf[k].id
      PROVE  j = k
  <2>1. b[p[j]].id = b[p[k]].id /\ p[j] \in kept /\ p[k] \in kept
    BY <1>3, <1>4, <1>5
  <2>2. p[j] = p[k]
    BY <1>4, <2>1 DEF Fresh, kept
  <2> QED
    BY <1>3, <2>2
<1>6. \A i \in kept : \E k \in 1 .. Len(buf) : buf[k] = b[i]
  BY <1>3
<1>7. \A k \in 1 .. Len(buf) : \E i \in kept : buf[k] = b[i]
  BY <1>3, <1>4
<1> QED
  BY <1>2, <1>5, <1>6, <1>7 DEF kept

\* d is c with bytes appended: the lines there were, but for an open last one,
\* which is damaged by the first line appended; then the lines appended.
Overlap(c) == IF c.open THEN 1 ELSE 0

IsPut(c, bytes, open, d) ==
  /\ d.open = open
  /\ Len(d.lines) = Len(c.lines) + Len(bytes) - Overlap(c)
  /\ \A i \in 1 .. Len(c.lines) :
       d.lines[i] = IF c.open /\ i = Len(c.lines) THEN Damaged ELSE c.lines[i]
  /\ \A i \in Len(c.lines) + 1 .. Len(c.lines) + Len(bytes) - Overlap(c) :
       d.lines[i] = bytes[i - Len(c.lines) + Overlap(c)]

\* What PutLines leaves of a file.
LEMMA PutLinesFacts ==
  ASSUME NEW c \in Contents, c.open => c.lines # <<>>,
         NEW bytes \in Seq(Lines), NEW open \in BOOLEAN, open => bytes # <<>>
  PROVE  /\ PutLines(c, bytes, open) \in Contents
         /\ PutLines(c, bytes, open).open => PutLines(c, bytes, open).lines # <<>>
         /\ bytes = <<>> => PutLines(c, bytes, open) = c
         /\ bytes # <<>> => IsPut(c, bytes, open, PutLines(c, bytes, open))
<1> DEFINE d == PutLines(c, bytes, open)
           n == Len(c.lines)
<1>1. c.lines \in Seq(Lines) /\ c.open \in BOOLEAN /\ n \in Nat /\ Damaged \in Lines
  BY DEF Contents, Lines
<1>2. CASE bytes = <<>>
  <2>1. d = c
    BY <1>2 DEF PutLines
  <2> QED
    BY <1>2, <2>1
<1>3. CASE bytes # <<>> /\ ~c.open
  <2>1. d = [lines |-> c.lines \o bytes, open |-> open]
    BY <1>3 DEF PutLines
  <2>2. /\ c.lines \o bytes \in Seq(Lines)
        /\ Len(c.lines \o bytes) = n + Len(bytes)
        /\ \A i \in 1 .. n + Len(bytes) : (c.lines \o bytes)[i] =
             IF i <= n THEN c.lines[i] ELSE bytes[i - n]
    BY <1>1, ConcatProperties
  <2>3. Len(bytes) \in Nat \ {0}
    BY <1>3, EmptySeq
  <2>4. c.lines \o bytes # <<>>
    BY <1>1, <2>2, <2>3
  <2> QED
    BY <1>1, <1>3, <2>1, <2>2, <2>3, <2>4 DEF Contents, IsPut, Overlap
<1>4. CASE bytes # <<>> /\ c.open
  <2> DEFINE front == [c.lines EXCEPT ![n] = Damaged]
  <2>1. d = [lines |-> front \o Tail(bytes), open |-> open]
    BY <1>4 DEF PutLines, Glue
  <2>2. n \in 1 .. Len(c.lines)
    BY <1>1, <1>4, EmptySeq
  <2>3. /\ front \in Seq(Lines) /\ Len(front) = n
        /\ \A i \in 1 .. n : front[i] = IF i = n THEN Damaged ELSE c.lines[i]
    BY <1>1, <2>2, ExceptSeq
  <2>4. /\ Tail(bytes) \in Seq(Lines) /\ Len(Tail(bytes)) = Len(bytes) - 1
        /\ \A i \in 1 .. Len(bytes) - 1 : Tail(bytes)[i] = bytes[i + 1]
    BY <1>4, HeadTailProperties
  <2>5. Len(bytes) \in Nat \ {0} /\ Len(Tail(bytes)) \in Nat
    BY <1>4, <2>4, EmptySeq
  <2>6. /\ front \o Tail(bytes) \in Seq(Lines)
        /\ Len(front \o Tail(bytes)) = n + (Len(bytes) - 1)
        /\ \A i \in 1 .. n + (Len(bytes) - 1) : (front \o Tail(bytes))[i] =
             IF i <= n THEN front[i] ELSE Tail(bytes)[i - n]
    <3> DEFINE rest == Tail(bytes)
    <3>1. front \in Seq(Lines) /\ rest \in Seq(Lines)
      BY <2>3, <2>4
    <3>2. Len(front) = n /\ Len(rest) = Len(bytes) - 1
      BY <2>3, <2>4
    <3> HIDE DEF front, rest
    <3>3. /\ front \o rest \in Seq(Lines)
          /\ Len(front \o rest) = Len(front) + Len(rest)
          /\ \A i \in 1 .. Len(front) + Len(rest) : (front \o rest)[i] =
               IF i <= Len(front) THEN front[i] ELSE rest[i - Len(front)]
      BY <3>1, ConcatProperties
    <3>4. /\ front \o rest \in Seq(Lines)
          /\ Len(front \o rest) = n + (Len(bytes) - 1)
          /\ \A i \in 1 .. n + (Len(bytes) - 1) : (front \o rest)[i] =
               IF i <= n THEN front[i] ELSE rest[i - n]
      BY <3>2, <3>3, Zenon
    <3> QED
      BY <3>4 DEF rest
  <2>7. front \o Tail(bytes) # <<>>
    BY <1>1, <2>2, <2>5, <2>6
  <2> DEFINE all == front \o Tail(bytes)
  <2>8. \A i \in 1 .. n : all[i] = IF i = n THEN Damaged ELSE c.lines[i]
    BY <1>1, <2>2, <2>3, <2>5, <2>6
  <2>9. ASSUME NEW i \in n + 1 .. n + Len(bytes) - 1
        PROVE  all[i] = bytes[i - n + 1]
    <3>1. i \in 1 .. n + (Len(bytes) - 1) /\ ~(i <= n) /\ i - n \in 1 .. Len(bytes) - 1
      BY <1>1, <2>5
    <3>2. all[i] = Tail(bytes)[i - n]
      BY <2>6, <3>1
    <3> QED
      BY <2>4, <3>1, <3>2
  <2> HIDE DEF all
  <2>10. d.lines = all /\ d.open = open /\ d \in Contents /\ all # <<>>
    BY <2>1, <2>6, <2>7 DEF Contents, all
  <2>11. Len(all) = n + Len(bytes) - 1
    BY <1>1, <2>5, <2>6 DEF all
  <2> QED
    BY <1>4, <2>8, <2>9, <2>10, <2>11 DEF IsPut, Overlap
<1> QED
  BY <1>1, <1>2, <1>3, <1>4

\* bytes are lines of buf, some of them cut short.
Partial(buf, bytes, open) ==
  /\ bytes \in Seq(Lines) /\ open \in BOOLEAN
  /\ open => bytes # <<>>
  /\ Len(bytes) <= Len(buf)
  /\ \A k \in 1 .. Len(bytes) : bytes[k] = buf[k] \/ bytes[k] = Damaged

LEMMA WholeIsPartial ==
  ASSUME NEW buf \in Seq(Events)
  PROVE  Partial(buf, buf, FALSE)
<1>1. buf \in Seq(Lines)
  <2>1. Events \subseteq Lines
    BY DEF Lines
  <2> QED
    BY <2>1, SeqMonotonic
<1> QED
  BY <1>1 DEF Partial

\* What an interrupted write may leave is part of the buffer.
LEMMA CutIsPartial ==
  ASSUME NEW buf \in Seq(Events), NEW cut \in Cuts(buf)
  PROVE  Partial(buf, cut.bytes, cut.open)
<1>1. Len(buf) \in Nat /\ Damaged \in Lines /\ Events \subseteq Lines
  BY DEF Lines
<1>2. CASE \E k \in 0 .. Len(buf) : cut = [bytes |-> SubSeq(buf, 1, k), open |-> FALSE]
  <2>1. PICK k \in 0 .. Len(buf) : cut = [bytes |-> SubSeq(buf, 1, k), open |-> FALSE]
    BY <1>2
  <2>2. \A i \in 1 .. k : buf[i] \in Lines
    BY <1>1
  <2>3. /\ SubSeq(buf, 1, k) \in Seq(Lines)
        /\ Len(SubSeq(buf, 1, k)) = k
        /\ \A i \in 1 .. k : SubSeq(buf, 1, k)[i] = buf[i]
    BY <1>1, <2>2, SubSeqProperties
  <2>4. cut.bytes = SubSeq(buf, 1, k) /\ cut.open = FALSE
    BY <2>1
  <2> DEFINE front == SubSeq(buf, 1, k)
  <2> HIDE DEF front
  <2>5. Partial(buf, front, FALSE)
    <3>1. front \in Seq(Lines) /\ Len(front) = k /\ \A i \in 1 .. k : front[i] = buf[i]
      BY <2>3 DEF front
    <3> QED
      BY <1>1, <3>1 DEF Partial
  <2>6. cut.bytes = front /\ cut.open = FALSE
    BY <2>4 DEF front
  <2> QED
    BY <2>5, <2>6
<1>3. CASE \E k \in 1 .. Len(buf), whole \in BOOLEAN :
             cut = [bytes |-> Append(SubSeq(buf, 1, k - 1), IF whole THEN buf[k] ELSE Damaged),
                    open |-> TRUE]
  <2>1. PICK k \in 1 .. Len(buf), whole \in BOOLEAN :
             cut = [bytes |-> Append(SubSeq(buf, 1, k - 1), IF whole THEN buf[k] ELSE Damaged),
                    open |-> TRUE]
    BY <1>3
  <2> DEFINE front == SubSeq(buf, 1, k - 1)
             last == IF whole THEN buf[k] ELSE Damaged
  <2>2. \A i \in 1 .. k - 1 : buf[i] \in Lines
    BY <1>1
  <2>3. /\ front \in Seq(Lines)
        /\ Len(front) = k - 1
        /\ \A i \in 1 .. k - 1 : front[i] = buf[i]
    <3>1. k - 1 \in Int /\ (1 <= k - 1 \/ k - 1 = 0)
      OBVIOUS
    <3>2. Len(front) = IF 1 <= k - 1 THEN (k - 1) - 1 + 1 ELSE 0
      BY <2>2, <3>1, SubSeqProperties
    <3> QED
      BY <2>2, <3>1, <3>2, SubSeqProperties
  <2>4. last \in Lines /\ (last = buf[k] \/ last = Damaged)
    BY <1>1
  <2>5. cut.bytes = Append(front, last) /\ cut.open = TRUE
    BY <2>1
  <2> HIDE <2>1 DEF front, last
  <2>6. /\ Append(front, last) \in Seq(Lines)
        /\ Len(Append(front, last)) = k
        /\ \A i \in 1 .. k - 1 : Append(front, last)[i] = front[i]
        /\ Append(front, last)[k] = last
    BY <2>3, <2>4
  <2>7. Append(front, last) # <<>>
    BY <2>6
  <2>8. \A i \in 1 .. k : Append(front, last)[i] = buf[i] \/ Append(front, last)[i] = Damaged
    BY <2>3, <2>4, <2>6
  <2> DEFINE all == Append(front, last)
  <2> HIDE DEF all
  <2>9. Partial(buf, all, TRUE)
    <3>1. /\ all \in Seq(Lines) /\ Len(all) = k /\ all # <<>>
          /\ \A i \in 1 .. k : all[i] = buf[i] \/ all[i] = Damaged
      BY <2>6, <2>7, <2>8 DEF all
    <3> QED
      BY <1>1, <3>1 DEF Partial
  <2>10. cut.bytes = all /\ cut.open = TRUE
    BY <2>5 DEF all
  <2> QED
    BY <2>9, <2>10
<1> QED
  BY <1>2, <1>3 DEF Cuts

-----------------------------------------------------------------------------
(* One step of a writer that touches a file puts part of a buffer into it. *)

Puts(w, f) ==
  \E buf \in Buffers(batch[w], f, known[w]) :
    \E bytes \in Seq(Lines), open \in BOOLEAN :
      /\ Partial(buf, bytes, open)
      /\ file' = [file EXCEPT ![f] = PutLines(file[f], bytes, open)]

LEMMA AppendPuts ==
  ASSUME TypeOK, NEW w \in Writers, NEW f, AppendEvents(w, f)
  PROVE  f \in DayFiles /\ Puts(w, f)
<1>1. f \in DayFiles /\ batch[w] \in Seq(Events)
  BY DEF TypeOK, AppendEvents, IsNext
<1>2. PICK buf \in Buffers(batch[w], f, known[w]) :
        file' = [file EXCEPT ![f] = PutLines(@, buf, FALSE)]
  BY DEF AppendEvents
<1>3. Partial(buf, buf, FALSE)
  BY <1>1, BufferFacts, WholeIsPartial
<1>4. buf \in Seq(Lines)
  BY <1>3 DEF Partial
<1> QED
  BY <1>1, <1>2, <1>3, <1>4 DEF Puts

LEMMA FailPuts ==
  ASSUME TypeOK, NEW w \in Writers, NEW f, FailAppend(w, f)
  PROVE  f \in DayFiles /\ Puts(w, f)
<1>1. f \in DayFiles /\ batch[w] \in Seq(Events)
  BY DEF TypeOK, FailAppend, IsNext
<1>2. PICK buf \in Buffers(batch[w], f, known[w]) : \E cut \in Cuts(buf) :
        file' = [file EXCEPT ![f] = PutLines(@, cut.bytes, cut.open)]
  BY DEF FailAppend
<1>3. PICK cut \in Cuts(buf) : file' = [file EXCEPT ![f] = PutLines(@, cut.bytes, cut.open)]
  BY <1>2
<1>4. Partial(buf, cut.bytes, cut.open)
  BY <1>1, BufferFacts, CutIsPartial
<1>5. cut.bytes \in Seq(Lines) /\ cut.open \in BOOLEAN
  BY <1>4 DEF Partial
<1> QED
  BY <1>1, <1>3, <1>4, <1>5 DEF Puts

LEMMA CrashPuts ==
  ASSUME TypeOK, NEW w \in Writers, Crash(w)
  PROVE  file' = file \/ \E f \in DayFiles : pc[w] = "append" /\ IsNext(w, f) /\ Puts(w, f)
<1>1. CASE pc[w] = "file"
  BY <1>1 DEF Crash
<1>2. CASE pc[w] # "file"
  <2>1. PICK f \in todo[w] :
          /\ IsNext(w, f)
          /\ \E buf \in Buffers(batch[w], f, known[w]) : \E cut \in Cuts(buf) :
               file' = [file EXCEPT ![f] = PutLines(@, cut.bytes, cut.open)]
    BY <1>2 DEF Crash
  <2>8. pc[w] = "append"
    BY <1>2 DEF Crash
  <2>2. f \in DayFiles /\ batch[w] \in Seq(Events)
    BY DEF TypeOK
  <2>3. PICK buf \in Buffers(batch[w], f, known[w]) : \E cut \in Cuts(buf) :
          file' = [file EXCEPT ![f] = PutLines(@, cut.bytes, cut.open)]
    BY <2>1
  <2>7. PICK cut \in Cuts(buf) : file' = [file EXCEPT ![f] = PutLines(@, cut.bytes, cut.open)]
    BY <2>3
  <2>4. Partial(buf, cut.bytes, cut.open)
    BY <2>2, BufferFacts, CutIsPartial
  <2>5. cut.bytes \in Seq(Lines) /\ cut.open \in BOOLEAN
    BY <2>4 DEF Partial
  <2> QED
    BY <2>1, <2>2, <2>4, <2>5, <2>7, <2>8 DEF Puts
<1> QED
  BY <1>1, <1>2

\* What a put does to the type of the files.
LEMMA PutsType ==
  ASSUME TypeOK, OpenHasLine, NEW w \in Writers, NEW f \in DayFiles, Puts(w, f)
  PROVE  file' \in [DayFiles -> Contents] /\ OpenHasLine'
<1>1. PICK buf \in Buffers(batch[w], f, known[w]), bytes \in Seq(Lines), open \in BOOLEAN :
        /\ Partial(buf, bytes, open)
        /\ file' = [file EXCEPT ![f] = PutLines(file[f], bytes, open)]
  BY DEF Puts
<1>2. file \in [DayFiles -> Contents] /\ file[f] \in Contents
  BY DEF TypeOK, Contents
<1>3. /\ PutLines(file[f], bytes, open) \in Contents
      /\ PutLines(file[f], bytes, open).open => PutLines(file[f], bytes, open).lines # <<>>
  BY <1>1, <1>2, PutLinesFacts DEF OpenHasLine, Partial
<1> QED
  BY <1>1, <1>2, <1>3 DEF OpenHasLine

-----------------------------------------------------------------------------
(* The invariants do not depend on which batches there are: they hold for  *)
(* callers that hand over any events, or find that they have none.         *)

Skip(w) ==
  /\ pc[w] \in {"idle", "done"}
  /\ pc' = [pc EXCEPT ![w] = "done"]
  /\ batch' = [batch EXCEPT ![w] = <<>>]
  /\ result' = [result EXCEPT ![w] = NoResult]
  /\ UNCHANGED <<file, todo, known, faults, counted>>

AnyCall(w) == Skip(w) \/ \E b \in Seq(Events) : Begin(w, b) \/ Reject(w, b)

AnyNext == \E w \in Writers : AnyCall(w) \/ Step(w) \/ Interrupt(w)

LEMMA NextIsAny == [Next]_vars => [AnyNext]_vars
<1>1. \A w \in Writers : Call(w) => AnyCall(w)
  BY BatchesAssumption DEF Call, AnyCall
<1> QED
  BY <1>1 DEF Next, AnyNext

TypeInv == TypeOK /\ OpenHasLine

LEMMA TypeInvInit == Init => TypeInv
<1> SUFFICES ASSUME Init PROVE TypeInv
  OBVIOUS
<1>1. EmptyFile \in Contents
  BY DEF EmptyFile, Contents
<1> QED
  BY <1>1, FaultsAssumption DEF Init, TypeInv, TypeOK, OpenHasLine, EmptyFile, NoResult, Contents

LEMMA ReadIdsType ==
  ASSUME NEW c \in Contents
  PROVE  IntactIds(c) \subseteq Ids
<1>1. \A i \in DOMAIN c.lines : c.lines[i] \in Lines
  BY DEF Contents
<1> QED
  BY <1>1 DEF IntactIds, Ids, Lines

LEMMA TypeInvStep == TypeInv /\ [AnyNext]_vars => TypeInv'
<1> SUFFICES ASSUME TypeInv, [AnyNext]_vars PROVE TypeInv'
  OBVIOUS
<1> USE DEF TypeInv
<1>1. ASSUME NEW w \in Writers, NEW b \in Seq(Events), Begin(w, b)
      PROVE  TypeInv'
  <2>1. {EventFile(b[i]) : i \in DOMAIN b} \subseteq DayFiles
    BY <1>1, FilesAssumption DEF Begin
  <2> QED
    BY <1>1, <2>1 DEF TypeOK, OpenHasLine, Begin, NoResult
<1>2. ASSUME NEW w \in Writers, NEW b \in Seq(Events), Reject(w, b)
      PROVE  TypeInv'
  BY <1>2 DEF TypeOK, OpenHasLine, Reject, NoResult
<1>3. ASSUME NEW w \in Writers, Return(w)
      PROVE  TypeInv'
  BY <1>3 DEF TypeOK, OpenHasLine, Return
<1>4. ASSUME NEW w \in Writers, NEW f \in DayFiles, Scan(w, f)
      PROVE  TypeInv'
  <2>1. IntactIds(file[f]) \subseteq Ids
    BY ReadIdsType DEF TypeOK, Contents
  <2> QED
    BY <1>4, <2>1 DEF TypeOK, OpenHasLine, Scan
<1>5. ASSUME NEW w \in Writers, NEW f \in DayFiles, AppendEvents(w, f)
      PROVE  TypeInv'
  <2>1. file' \in [DayFiles -> Contents] /\ OpenHasLine'
    BY <1>5, AppendPuts, PutsType
  <2>2. batch[w] \in Seq(Events)
    BY DEF TypeOK
  <2>3. PICK buf \in Buffers(batch[w], f, known[w]) :
          result' = [result EXCEPT
            ![w].written = @ + Len(buf),
            ![w].duplicates = @ + Cardinality(Own(batch[w], f)) - Len(buf)]
    BY <1>5 DEF AppendEvents
  <2>4. Len(buf) \in Nat /\ Cardinality(Own(batch[w], f)) - Len(buf) \in Nat
        /\ Cardinality(Own(batch[w], f)) \in Nat
    BY <2>2, BufferFacts, OwnFinite
  <2>5. result[w].written + Len(buf) \in Nat
        /\ result[w].duplicates + Cardinality(Own(batch[w], f)) - Len(buf) \in Nat
    BY <2>4 DEF TypeOK
  <2>6. result' \in [Writers -> [written : Nat, duplicates : Nat, err : BOOLEAN]]
    BY <2>3, <2>5 DEF TypeOK
  <2>7. {<<f, batch[w][i].id>> : i \in Own(batch[w], f)} \subseteq DayFiles \X Ids
    <3>1. ASSUME NEW i \in Own(batch[w], f)
          PROVE  batch[w][i].id \in Ids
      <4>1. i \in 1 .. Len(batch[w])
        BY <2>2 DEF Own
      <4>2. batch[w][i] \in Events
        BY <2>2, <4>1
      <4> QED
        BY <4>2 DEF Ids
    <3> QED
      BY <3>1
  <2>8. /\ pc' \in [Writers -> {"idle", "file", "append", "done"}]
        /\ batch' \in [Writers -> Seq(Events)]
        /\ todo' \in [Writers -> SUBSET DayFiles]
        /\ known' \in [Writers -> SUBSET Ids]
        /\ faults' \in 0 .. MaxFaults
        /\ counted' \in SUBSET (DayFiles \X Ids)
    BY <1>5, <2>7 DEF TypeOK, AppendEvents
  <2> QED
    BY <2>1, <2>6, <2>8 DEF TypeOK, Contents
<1>6. ASSUME NEW w \in Writers, Stop(w)
      PROVE  TypeInv'
  <2>1. result' \in [Writers -> [written : Nat, duplicates : Nat, err : BOOLEAN]]
    BY <1>6 DEF Stop, TypeOK
  <2>2. faults' \in 0 .. MaxFaults
    BY <1>6, FaultsAssumption DEF Stop, TypeOK
  <2>3. /\ pc' \in [Writers -> {"idle", "file", "append", "done"}]
        /\ todo' \in [Writers -> SUBSET DayFiles]
        /\ UNCHANGED <<file, batch, known, counted>>
    BY <1>6 DEF Stop, TypeOK
  <2> QED
    BY <2>1, <2>2, <2>3 DEF TypeOK, OpenHasLine
<1>7. ASSUME NEW w \in Writers, Crash(w)
      PROVE  TypeInv'
  <2>1. file' \in [DayFiles -> Contents] /\ OpenHasLine'
    BY <1>7, CrashPuts, PutsType DEF TypeOK, OpenHasLine, Contents
  <2> QED
    BY <1>7, <2>1, FaultsAssumption DEF TypeOK, Crash, NoResult, Contents
<1>8. ASSUME NEW w \in Writers, NEW f \in DayFiles, FailAppend(w, f)
      PROVE  TypeInv'
  <2>1. file' \in [DayFiles -> Contents] /\ OpenHasLine'
    BY <1>8, FailPuts, PutsType
  <2>2. result' \in [Writers -> [written : Nat, duplicates : Nat, err : BOOLEAN]]
    BY <1>8 DEF FailAppend, TypeOK
  <2>3. faults' \in 0 .. MaxFaults
    BY <1>8, FaultsAssumption DEF FailAppend, TypeOK
  <2>4. /\ pc' \in [Writers -> {"idle", "file", "append", "done"}]
        /\ todo' \in [Writers -> SUBSET DayFiles]
        /\ known' \in [Writers -> SUBSET Ids]
        /\ UNCHANGED <<batch, counted>>
    BY <1>8 DEF FailAppend, TypeOK
  <2> QED
    BY <2>1, <2>2, <2>3, <2>4 DEF TypeOK, Contents
<1>9. ASSUME NEW w \in Writers, Skip(w)
      PROVE  TypeInv'
  BY <1>9 DEF TypeOK, OpenHasLine, Skip, NoResult
<1>10. CASE UNCHANGED vars
  BY <1>10 DEF TypeOK, OpenHasLine, vars
<1> QED
  BY <1>1, <1>2, <1>3, <1>4, <1>5, <1>6, <1>7, <1>8, <1>9, <1>10 DEF AnyNext, AnyCall, Step, Interrupt

\* Every reachable state is well typed, whatever the callers write and however
\* often they are interrupted: Write, its errors and its crashes (store.go).
THEOREM TypeCorrect == Spec => []TypeOK
<1>1. TypeInv => TypeOK
  BY DEF TypeInv
<1> QED
  BY <1>1, TypeInvInit, TypeInvStep, NextIsAny, PTL DEF Spec

-----------------------------------------------------------------------------
(* Nothing that was counted is lost silently.                              *)

\* The id can be read back from c, or Read complains about c.
SafeIn(c, id) == id \in IntactIds(c) \/ HasDamage(c)

\* Part of what a line says of the content it is in.
LEMMA LineIsSafe ==
  ASSUME NEW c \in Contents, NEW i \in 1 .. Len(c.lines), NEW id,
         c.lines[i] = Damaged \/ c.lines[i].id = id
  PROVE  SafeIn(c, id)
<1>1. DOMAIN c.lines = 1 .. Len(c.lines)
  BY DEF Contents
<1> QED
  BY <1>1 DEF SafeIn, IntactIds, HasDamage

\* An append keeps what is safe safe.
LEMMA PutKeepsSafe ==
  ASSUME NEW c \in Contents, c.open => c.lines # <<>>,
         NEW bytes \in Seq(Lines), NEW open \in BOOLEAN, open => bytes # <<>>,
         NEW id, SafeIn(c, id)
  PROVE  SafeIn(PutLines(c, bytes, open), id)
<1> DEFINE d == PutLines(c, bytes, open)
           n == Len(c.lines)
<1>1. c.lines \in Seq(Lines) /\ n \in Nat /\ DOMAIN c.lines = 1 .. n
  BY DEF Contents
<1>2. PICK i \in 1 .. n : c.lines[i] = Damaged \/ c.lines[i].id = id
  BY <1>1 DEF SafeIn, IntactIds, HasDamage
<1>3. d \in Contents
  BY PutLinesFacts
<1>4. CASE bytes = <<>>
  <2>1. d = c
    BY <1>4, PutLinesFacts
  <2> QED
    BY <2>1
<1>5. CASE bytes # <<>>
  <2>1. /\ Len(d.lines) = n + Len(bytes) - (IF c.open THEN 1 ELSE 0)
        /\ d.lines[i] = IF c.open /\ i = n THEN Damaged ELSE c.lines[i]
    <3>1. IsPut(c, bytes, open, d)
      BY <1>5, PutLinesFacts
    <3> QED
      BY <3>1 DEF IsPut, Overlap
  <2>2. Len(bytes) \in Nat \ {0}
    BY <1>5, EmptySeq
  <2>3. i \in 1 .. Len(d.lines)
    BY <1>1, <2>1, <2>2
  <2>4. d.lines[i] = Damaged \/ d.lines[i].id = id
    BY <1>2, <2>1
  <2> QED
    BY <1>3, <2>3, <2>4, LineIsSafe
<1> QED
  BY <1>4, <1>5

\* What a complete append writes is safe.
LEMMA PutMakesSafe ==
  ASSUME NEW c \in Contents, c.open => c.lines # <<>>,
         NEW bytes \in Seq(Lines), NEW k \in 1 .. Len(bytes)
  PROVE  SafeIn(PutLines(c, bytes, FALSE), bytes[k].id)
<1> DEFINE d == PutLines(c, bytes, FALSE)
           n == Len(c.lines)
           s == Overlap(c)
<1>1. c.lines \in Seq(Lines) /\ n \in Nat /\ Len(bytes) \in Nat
  BY DEF Contents
<1>2. bytes # <<>> /\ (c.open => n # 0)
  BY <1>1
<1>0. d \in Contents /\ IsPut(c, bytes, FALSE, d)
  BY <1>2, PutLinesFacts
<1>3. /\ d \in Contents
      /\ Len(d.lines) = n + Len(bytes) - s
      /\ \A i \in 1 .. n : d.lines[i] = IF c.open /\ i = n THEN Damaged ELSE c.lines[i]
      /\ \A i \in n + 1 .. n + Len(bytes) - s : d.lines[i] = bytes[i - n + s]
  BY <1>0 DEF IsPut
<1>6. Len(d.lines) = n + Len(bytes) - s /\ k \in Nat /\ 1 <= k /\ k <= Len(bytes)
  <2>1. Len(d.lines) = n + Len(bytes) - s
    BY <1>3
  <2>2. k \in Nat /\ 1 <= k /\ k <= Len(bytes)
    BY <1>1
  <2> QED
    BY <2>1, <2>2
<1>7. (c.open /\ s = 1) \/ (~c.open /\ s = 0)
  BY DEF Overlap, Contents
<1> HIDE DEF d, n, s
<1>4. CASE c.open /\ k = 1
  <2>1. n \in 1 .. n /\ n \in 1 .. Len(d.lines)
    BY <1>1, <1>2, <1>4, <1>6, <1>7
  <2>2. d.lines[n] = Damaged
    BY <1>3, <1>4, <2>1
  <2> QED
    BY <1>3, <2>1, <2>2, LineIsSafe DEF d
<1>5. CASE ~(c.open /\ k = 1)
  <2> DEFINE i == k + n - s
  <2>1. i \in n + 1 .. n + Len(bytes) - s /\ i \in 1 .. Len(d.lines) /\ i - n + s = k
    BY <1>1, <1>5, <1>6, <1>7
  <2>2. d.lines[i] = bytes[k]
    BY <1>3, <2>1
  <2> QED
    BY <1>3, <2>1, <2>2, LineIsSafe DEF d
<1> QED
  BY <1>4, <1>5

\* The ids a writer has read from the file it is about to append to are safe in
\* it: whatever other writers have put into the file since then keeps them so.
KnownIsSafe ==
  \A w \in Writers, f \in DayFiles : pc[w] = "append" /\ IsNext(w, f) =>
    \A id \in known[w] : SafeIn(file[f], id)

SafeInv == TypeInv /\ NoSilentLoss /\ KnownIsSafe

LEMMA SafeInvInit == Init => SafeInv
<1> SUFFICES ASSUME Init PROVE SafeInv
  OBVIOUS
<1>1. NoSilentLoss /\ KnownIsSafe
  BY DEF Init, NoSilentLoss, KnownIsSafe
<1> QED
  BY <1>1, TypeInvInit DEF SafeInv

\* A step that puts something into a file, or none, keeps every file safe.
LEMMA PutsKeepSafe ==
  ASSUME TypeInv, NEW w \in Writers, NEW f \in DayFiles, Puts(w, f),
         NEW g \in DayFiles, NEW id, SafeIn(file[g], id)
  PROVE  SafeIn(file'[g], id)
<1>1. PICK buf \in Buffers(batch[w], f, known[w]), bytes \in Seq(Lines), open \in BOOLEAN :
        /\ Partial(buf, bytes, open)
        /\ file' = [file EXCEPT ![f] = PutLines(file[f], bytes, open)]
  BY DEF Puts
<1>2. file \in [DayFiles -> Contents] /\ file[f] \in Contents
  BY DEF TypeInv, TypeOK, Contents
<1>3. (file[f].open => file[f].lines # <<>>) /\ (open => bytes # <<>>)
  BY <1>1 DEF TypeInv, OpenHasLine, Partial
<1>4. CASE g = f
  <2>1. file'[g] = PutLines(file[f], bytes, open)
    BY <1>1, <1>2, <1>4
  <2> QED
    BY <1>2, <1>3, <1>4, <2>1, PutKeepsSafe
<1>5. CASE g # f
  BY <1>1, <1>2, <1>5
<1> QED
  BY <1>4, <1>5

\* A complete append makes every event of its file safe, be it new or known.
LEMMA AppendMakesSafe ==
  ASSUME TypeInv, KnownIsSafe, NEW w \in Writers, NEW f \in DayFiles, AppendEvents(w, f),
         NEW i \in Own(batch[w], f)
  PROVE  SafeIn(file'[f], batch[w][i].id)
<1>1. PICK buf \in Buffers(batch[w], f, known[w]) :
        file' = [file EXCEPT ![f] = PutLines(@, buf, FALSE)]
  BY DEF AppendEvents
<1>2. batch[w] \in Seq(Events) /\ file \in [DayFiles -> Contents] /\ file[f] \in Contents
  BY DEF TypeInv, TypeOK, Contents
<1>3. Partial(buf, buf, FALSE) /\ buf \in Seq(Lines)
  BY <1>2, BufferFacts, WholeIsPartial DEF Partial
<1>4. file'[f] = PutLines(file[f], buf, FALSE)
  BY <1>1, <1>2
<1>5. CASE batch[w][i].id \in known[w]
  <2>1. SafeIn(file[f], batch[w][i].id)
    BY <1>5 DEF AppendEvents, KnownIsSafe
  <2>2. Puts(w, f)
    BY AppendPuts DEF TypeInv
  <2> QED
    BY <2>1, <2>2, PutsKeepSafe
<1>6. CASE batch[w][i].id \notin known[w]
  <2>1. PICK j \in Fresh(batch[w], f, known[w]) : batch[w][j].id = batch[w][i].id
    BY <1>2, <1>6, NewIdIsKept
  <2>4. batch[w] \in Seq(Events)
    BY <1>2
  <2>5. \A l \in Fresh(batch[w], f, known[w]) : \E k \in 1 .. Len(buf) : buf[k] = batch[w][l]
    BY <2>4, BufferFacts
  <2>2. PICK k \in 1 .. Len(buf) : buf[k] = batch[w][j]
    BY <2>5
  <2>3. SafeIn(PutLines(file[f], buf, FALSE), buf[k].id)
    BY <1>2, <1>3, PutMakesSafe DEF TypeInv, OpenHasLine
  <2> QED
    BY <1>4, <2>1, <2>2, <2>3
<1> QED
  BY <1>5, <1>6

LEMMA ScanIsSafe ==
  ASSUME NEW c \in Contents, NEW id \in IntactIds(c)
  PROVE  SafeIn(c, id)
BY DEF SafeIn

\* A step that puts something into a file and leaves the calls of the other
\* writers as they are preserves both parts, if it counts nothing unsafe and
\* its writer has no append ahead of it.
LEMMA SafeAfterPut ==
  ASSUME SafeInv, TypeInv', NEW w \in Writers,
         \A g \in DayFiles, id \in Ids : SafeIn(file[g], id) => SafeIn(file'[g], id),
         \A x \in counted' \ counted : SafeIn(file'[x[1]], x[2]),
         \A v \in Writers : v # w => pc'[v] = pc[v] /\ todo'[v] = todo[v] /\ known'[v] = known[v],
         pc'[w] # "append"
  PROVE  NoSilentLoss' /\ KnownIsSafe'
<1>1. ASSUME NEW x \in counted'
      PROVE  SafeIn(file'[x[1]], x[2])
  <2>1. CASE x \in counted
    <3>1. x[1] \in DayFiles /\ x[2] \in Ids /\ SafeIn(file[x[1]], x[2])
      BY <2>1 DEF SafeInv, NoSilentLoss, SafeIn, TypeInv, TypeOK
    <3> QED
      BY <3>1
  <2>2. CASE x \notin counted
    BY <2>2
  <2> QED
    BY <2>1, <2>2
<1>2. ASSUME NEW v \in Writers, NEW f \in DayFiles, pc'[v] = "append", IsNext(v, f)',
             NEW id \in known'[v]
      PROVE  SafeIn(file'[f], id)
  <2>1. v # w /\ pc[v] = "append" /\ IsNext(v, f) /\ id \in known[v]
    BY <1>2 DEF IsNext
  <2>2. id \in Ids
    BY <2>1 DEF SafeInv, TypeInv, TypeOK
  <2> QED
    BY <2>1, <2>2 DEF SafeInv, KnownIsSafe
<1> QED
  BY <1>1, <1>2 DEF NoSilentLoss, KnownIsSafe, SafeIn

LEMMA SafeInvStep == SafeInv /\ [AnyNext]_vars => SafeInv'
<1> SUFFICES ASSUME SafeInv, [AnyNext]_vars PROVE SafeInv'
  OBVIOUS
<1>0. TypeInv /\ TypeInv' /\ TypeOK
  BY TypeInvStep DEF SafeInv, TypeInv
<1>1. ASSUME NEW w \in Writers, NEW b \in Seq(Events), Begin(w, b) \/ Reject(w, b)
      PROVE  NoSilentLoss' /\ KnownIsSafe'
  BY <1>0, <1>1, SafeAfterPut DEF Begin, Reject, TypeOK
<1>2. ASSUME NEW w \in Writers, Return(w) \/ Stop(w) \/ Skip(w)
      PROVE  NoSilentLoss' /\ KnownIsSafe'
  BY <1>0, <1>2, SafeAfterPut DEF Return, Stop, Skip, TypeOK
<1>3. ASSUME NEW w \in Writers, NEW f \in DayFiles, Scan(w, f)
      PROVE  NoSilentLoss' /\ KnownIsSafe'
  <2>1. file' = file /\ counted' = counted /\ todo' = todo
    BY <1>3 DEF Scan
  <2>2. NoSilentLoss'
    BY <2>1 DEF SafeInv, NoSilentLoss
  <2>3. ASSUME NEW v \in Writers, NEW g \in DayFiles, pc'[v] = "append", IsNext(v, g)',
               NEW id \in known'[v]
        PROVE  SafeIn(file'[g], id)
    <3>1. IsNext(v, g)
      BY <2>1, <2>3 DEF IsNext
    <3>2. CASE v = w
      <4>1. f = g
        BY <1>3, <3>1, <3>2, RankAssumption DEF Scan, IsNext
      <4>2. known'[w] = IntactIds(file[f])
        BY <1>0, <1>3 DEF Scan, TypeOK
      <4> QED
        BY <2>1, <2>3, <3>2, <4>1, <4>2 DEF SafeIn
    <3>3. CASE v # w
      <4>1. pc[v] = "append" /\ id \in known[v]
        BY <1>0, <1>3, <2>3, <3>3 DEF Scan, TypeOK
      <4> QED
        BY <2>1, <3>1, <4>1 DEF SafeInv, KnownIsSafe
    <3> QED
      BY <3>2, <3>3
  <2> QED
    BY <2>2, <2>3 DEF KnownIsSafe
<1>4. ASSUME NEW w \in Writers, NEW f \in DayFiles, AppendEvents(w, f)
      PROVE  NoSilentLoss' /\ KnownIsSafe'
  <2>1. \A g \in DayFiles, id \in Ids : SafeIn(file[g], id) => SafeIn(file'[g], id)
    BY <1>0, <1>4, AppendPuts, PutsKeepSafe
  <2>2. \A i \in Own(batch[w], f) : SafeIn(file'[f], batch[w][i].id)
    BY <1>0, <1>4, AppendMakesSafe DEF SafeInv
  <2>3. ASSUME NEW x \in counted' \ counted
        PROVE  SafeIn(file'[x[1]], x[2])
    <3>1. x \in {<<f, batch[w][i].id>> : i \in Own(batch[w], f)}
      BY <1>4 DEF AppendEvents
    <3>2. PICK i \in Own(batch[w], f) : x = <<f, batch[w][i].id>>
      BY <3>1
    <3> QED
      BY <2>2, <3>2
  <2>4. /\ \A v \in Writers : v # w => pc'[v] = pc[v] /\ todo'[v] = todo[v] /\ known'[v] = known[v]
        /\ pc'[w] # "append"
    BY <1>0, <1>4 DEF AppendEvents, TypeOK
  <2> QED
    BY <1>0, <2>1, <2>3, <2>4, SafeAfterPut
<1>5. ASSUME NEW w \in Writers, NEW f \in DayFiles, FailAppend(w, f)
      PROVE  NoSilentLoss' /\ KnownIsSafe'
  <2>1. \A g \in DayFiles, id \in Ids : SafeIn(file[g], id) => SafeIn(file'[g], id)
    BY <1>0, <1>5, FailPuts, PutsKeepSafe
  <2>2. /\ \A v \in Writers : v # w => pc'[v] = pc[v] /\ todo'[v] = todo[v] /\ known'[v] = known[v]
        /\ pc'[w] # "append" /\ counted' = counted
    BY <1>0, <1>5 DEF FailAppend, TypeOK
  <2> QED
    BY <1>0, <2>1, <2>2, SafeAfterPut
<1>6. ASSUME NEW w \in Writers, Crash(w)
      PROVE  NoSilentLoss' /\ KnownIsSafe'
  <2>1. \A g \in DayFiles, id \in Ids : SafeIn(file[g], id) => SafeIn(file'[g], id)
    BY <1>0, <1>6, CrashPuts, PutsKeepSafe
  <2>2. /\ \A v \in Writers : v # w => pc'[v] = pc[v] /\ todo'[v] = todo[v] /\ known'[v] = known[v]
        /\ pc'[w] # "append" /\ counted' = counted
    BY <1>0, <1>6 DEF Crash, TypeOK
  <2> QED
    BY <1>0, <2>1, <2>2, SafeAfterPut
<1>7. CASE UNCHANGED vars
  <2>1. NoSilentLoss'
    BY <1>7 DEF SafeInv, NoSilentLoss, vars
  <2>2. KnownIsSafe'
    BY <1>7 DEF SafeInv, KnownIsSafe, IsNext, vars
  <2> QED
    BY <1>0, <2>1, <2>2 DEF SafeInv
<1> QED
  BY <1>0, <1>1, <1>2, <1>3, <1>4, <1>5, <1>6, <1>7 DEF SafeInv, AnyNext, AnyCall, Step, Interrupt

\* Any number of writers, any interruptions: an event that a result of Write has
\* counted can be read back, or its file holds a line that Read reports as
\* damaged (store.Write, appendEvents, readFile).
THEOREM LossIsNeverSilent == Spec => []NoSilentLoss
<1>1. SafeInv => NoSilentLoss
  BY DEF SafeInv
<1> QED
  BY <1>1, SafeInvInit, SafeInvStep, NextIsAny, PTL DEF Spec

-----------------------------------------------------------------------------
(* Where lines come from.                                                  *)

\* A step either leaves the files alone, or one writer puts something into one.
LEMMA StepPuts ==
  ASSUME TypeInv, [AnyNext]_vars
  PROVE  file' = file \/ \E w \in Writers, f \in DayFiles : Puts(w, f)
<1>0. TypeOK
  BY DEF TypeInv
<1>1. CASE file' # file
  <2>1. \/ \E w \in Writers, f \in DayFiles : AppendEvents(w, f) \/ FailAppend(w, f)
        \/ \E w \in Writers : Crash(w)
    BY <1>1 DEF AnyNext, AnyCall, Step, Interrupt, Skip, Begin, Reject, Return, Stop, Scan, vars
  <2> QED
    BY <1>0, <1>1, <2>1, AppendPuts, FailPuts, CrashPuts
<1> QED
  BY <1>1

\* A line that decodes was in the file before, or is one of the buffer.
LEMMA PutLinesComeFrom ==
  ASSUME NEW c \in Contents, c.open => c.lines # <<>>,
         NEW buf \in Seq(Events), NEW bytes \in Seq(Lines), NEW open \in BOOLEAN,
         Partial(buf, bytes, open),
         NEW i \in DOMAIN PutLines(c, bytes, open).lines,
         PutLines(c, bytes, open).lines[i] # Damaged
  PROVE  \/ \E j \in DOMAIN c.lines : PutLines(c, bytes, open).lines[i] = c.lines[j]
         \/ \E k \in 1 .. Len(buf) : PutLines(c, bytes, open).lines[i] = buf[k]
<1> DEFINE d == PutLines(c, bytes, open)
           n == Len(c.lines)
           s == Overlap(c)
<1>1. (open => bytes # <<>>) /\ Len(bytes) \in Nat
  BY DEF Partial
<1>2. CASE bytes = <<>>
  BY <1>1, <1>2, PutLinesFacts
<1>3. CASE bytes # <<>>
  <2>1. d \in Contents /\ IsPut(c, bytes, open, d)
    BY <1>1, <1>3, PutLinesFacts
  <2>2. /\ Len(d.lines) = n + Len(bytes) - s
        /\ \A j \in 1 .. n : d.lines[j] = IF c.open /\ j = n THEN Damaged ELSE c.lines[j]
        /\ \A j \in n + 1 .. n + Len(bytes) - s : d.lines[j] = bytes[j - n + s]
    BY <2>1 DEF IsPut
  <2>3. /\ n \in Nat /\ DOMAIN c.lines = 1 .. n
        /\ DOMAIN d.lines = 1 .. n + Len(bytes) - s
        /\ (c.open /\ s = 1) \/ (~c.open /\ s = 0)
    BY <2>1, <2>2 DEF Contents, Overlap
  <2>4. \A k \in 1 .. Len(bytes) : bytes[k] # Damaged => k \in 1 .. Len(buf) /\ bytes[k] = buf[k]
    BY <1>1 DEF Partial
  <2>5. i \in DOMAIN d.lines /\ d.lines[i] # Damaged
    OBVIOUS
  <2> HIDE DEF d, n, s
  <2>6. CASE i \in 1 .. n
    <3>1. d.lines[i] = c.lines[i] /\ i \in DOMAIN c.lines
      BY <2>2, <2>3, <2>5, <2>6
    <3> QED
      BY <3>1 DEF d
  <2>7. CASE i \notin 1 .. n
    <3>1. i \in n + 1 .. n + Len(bytes) - s /\ i - n + s \in 1 .. Len(bytes)
      BY <1>1, <2>3, <2>5, <2>7
    <3>2. d.lines[i] = bytes[i - n + s]
      BY <2>2, <3>1
    <3>3. i - n + s \in 1 .. Len(buf) /\ d.lines[i] = buf[i - n + s]
      BY <2>4, <2>5, <3>1, <3>2
    <3> QED
      BY <3>3 DEF d
  <2> QED
    BY <2>6, <2>7
<1> QED
  BY <1>2, <1>3

\* So with every step: a line that decodes was in its file before, or belongs
\* there and is in a batch.
LEMMA StepLinesComeFrom ==
  ASSUME TypeInv, [AnyNext]_vars, NEW g \in DayFiles,
         NEW i \in DOMAIN file'[g].lines, file'[g].lines[i] # Damaged
  PROVE  \/ \E j \in DOMAIN file[g].lines :
              file'[g].lines[i] = file[g].lines[j] /\ file[g].lines[j] # Damaged
         \/ \E w \in Writers : \E k \in DOMAIN batch[w] :
              file'[g].lines[i] = batch[w][k] /\ EventFile(batch[w][k]) = g
<1>1. CASE file'[g] = file[g]
  BY <1>1
<1>2. CASE file'[g] # file[g]
  <2>1. PICK w \in Writers, f \in DayFiles : Puts(w, f)
    BY <1>2, StepPuts
  <2>2. PICK buf \in Buffers(batch[w], f, known[w]), bytes \in Seq(Lines), open \in BOOLEAN :
          /\ Partial(buf, bytes, open)
          /\ file' = [file EXCEPT ![f] = PutLines(file[f], bytes, open)]
    BY <2>1 DEF Puts
  <2>3. /\ file \in [DayFiles -> Contents] /\ file[f] \in Contents /\ batch[w] \in Seq(Events)
        /\ file[f].open => file[f].lines # <<>>
    BY DEF TypeInv, TypeOK, OpenHasLine, Contents
  <2>4. g = f /\ file'[g] = PutLines(file[f], bytes, open)
    BY <1>2, <2>2, <2>3
  <2>5. buf \in Seq(Events) /\ \A k \in 1 .. Len(buf) : \E l \in Own(batch[w], f) : buf[k] = batch[w][l]
    BY <2>3, BufferFacts, OwnFinite
  <2>6. \/ \E j \in DOMAIN file[f].lines : file'[g].lines[i] = file[f].lines[j]
        \/ \E k \in 1 .. Len(buf) : file'[g].lines[i] = buf[k]
    BY <2>2, <2>3, <2>4, <2>5, PutLinesComeFrom
  <2>7. ASSUME NEW k \in 1 .. Len(buf), file'[g].lines[i] = buf[k]
        PROVE  \E l \in DOMAIN batch[w] :
                 file'[g].lines[i] = batch[w][l] /\ EventFile(batch[w][l]) = g
    BY <2>4, <2>5, <2>7 DEF Own
  <2> QED
    BY <2>4, <2>6, <2>7
<1> QED
  BY <1>1, <1>2

\* Every event on disk is in the file its time and product name.
InPlace(c, f) == \A i \in DOMAIN c.lines : c.lines[i] # Damaged => EventFile(c.lines[i]) = f

PlaceInv == TypeInv /\ \A f \in DayFiles : InPlace(file[f], f)

LEMMA PlaceInvInit == Init => PlaceInv
<1> SUFFICES ASSUME Init PROVE PlaceInv
  OBVIOUS
<1>1. \A f \in DayFiles : InPlace(file[f], f)
  BY DEF Init, InPlace, EmptyFile
<1> QED
  BY <1>1, TypeInvInit DEF PlaceInv

LEMMA PlaceInvStep == PlaceInv /\ [AnyNext]_vars => PlaceInv'
<1> SUFFICES ASSUME PlaceInv, [AnyNext]_vars, NEW g \in DayFiles,
                    NEW i \in DOMAIN file'[g].lines, file'[g].lines[i] # Damaged
             PROVE  EventFile(file'[g].lines[i]) = g
  BY TypeInvStep DEF PlaceInv, InPlace
<1>1. TypeInv /\ InPlace(file[g], g)
  BY DEF PlaceInv
<1> QED
  BY <1>1, StepLinesComeFrom DEF InPlace

-----------------------------------------------------------------------------
(* What a call has done so far.                                            *)

\* The files a call still has to do, and that every event of the others is
\* safe: of a call at work, and of one that has returned without error.
CallIsSafe ==
  \A w \in Writers :
    /\ pc[w] \in {"idle", "done"} => todo[w] = {}
    /\ pc[w] \in {"file", "append"} \/ (pc[w] = "done" /\ ~result[w].err) =>
         \A i \in DOMAIN batch[w] :
           /\ EventFile(batch[w][i]) \in DayFiles
           /\ \/ EventFile(batch[w][i]) \in todo[w]
              \/ SafeIn(file[EventFile(batch[w][i])], batch[w][i].id)

CallInv == SafeInv /\ CallIsSafe

LEMMA CallInvInit == Init => CallInv
<1> SUFFICES ASSUME Init PROVE CallInv
  OBVIOUS
<1>1. CallIsSafe
  BY DEF Init, CallIsSafe
<1> QED
  BY <1>1, SafeInvInit DEF CallInv

\* No step of a writer takes anything from the files that was safe in them.
LEMMA StepKeepsSafe ==
  ASSUME TypeInv, [AnyNext]_vars, NEW g \in DayFiles, NEW id, SafeIn(file[g], id)
  PROVE  SafeIn(file'[g], id)
<1>1. CASE file' = file
  BY <1>1
<1>2. CASE file' # file
  BY <1>2, StepPuts, PutsKeepSafe
<1> QED
  BY <1>1, <1>2

\* What a step leaves of the calls of the writers that do not take it.
LEMMA OtherCallsStaySafe ==
  ASSUME CallInv, [AnyNext]_vars, NEW v \in Writers,
         pc'[v] = pc[v], batch'[v] = batch[v], todo'[v] = todo[v], result'[v] = result[v]
  PROVE  /\ pc'[v] \in {"idle", "done"} => todo'[v] = {}
         /\ pc'[v] \in {"file", "append"} \/ (pc'[v] = "done" /\ ~result'[v].err) =>
              \A i \in DOMAIN batch'[v] :
                /\ EventFile(batch'[v][i]) \in DayFiles
                /\ \/ EventFile(batch'[v][i]) \in todo'[v]
                   \/ SafeIn(file'[EventFile(batch'[v][i])], batch'[v][i].id)
<1>1. TypeInv
  BY DEF CallInv, SafeInv
<1>2. \A g \in DayFiles : \A id : SafeIn(file[g], id) => SafeIn(file'[g], id)
  BY <1>1, StepKeepsSafe
<1> QED
  BY <1>2 DEF CallInv, CallIsSafe

LEMMA CallInvStep == CallInv /\ [AnyNext]_vars => CallInv'
<1> SUFFICES ASSUME CallInv, [AnyNext]_vars PROVE CallIsSafe'
  BY SafeInvStep DEF CallInv
<1>0. SafeInv /\ TypeInv /\ TypeOK /\ CallIsSafe
  BY DEF CallInv, SafeInv, TypeInv
<1>1. \A g \in DayFiles : \A id : SafeIn(file[g], id) => SafeIn(file'[g], id)
  BY <1>0, StepKeepsSafe
<1> DEFINE Others(w) == \A v \in Writers : v # w =>
             pc'[v] = pc[v] /\ batch'[v] = batch[v] /\ todo'[v] = todo[v] /\ result'[v] = result[v]
           Own1(w) ==
             /\ pc'[w] \in {"idle", "done"} => todo'[w] = {}
             /\ pc'[w] \in {"file", "append"} \/ (pc'[w] = "done" /\ ~result'[w].err) =>
                  \A i \in DOMAIN batch'[w] :
                    /\ EventFile(batch'[w][i]) \in DayFiles
                    /\ \/ EventFile(batch'[w][i]) \in todo'[w]
                       \/ SafeIn(file'[EventFile(batch'[w][i])], batch'[w][i].id)
<1>2. ASSUME NEW w \in Writers, Others(w), Own1(w)
      PROVE  CallIsSafe'
  <2>1. \A v \in Writers : v # w => Own1(v)
    BY <1>2, OtherCallsStaySafe
  <2> QED
    BY <1>2, <2>1 DEF CallIsSafe
<1>3. ASSUME NEW w \in Writers, NEW b \in Seq(Events), Begin(w, b)
      PROVE  CallIsSafe'
  <2>1. Others(w)
    BY <1>0, <1>3 DEF Begin, TypeOK
  <2>2. pc'[w] = "file" /\ batch'[w] = b /\ todo'[w] = {EventFile(b[i]) : i \in DOMAIN b}
    BY <1>0, <1>3 DEF Begin, TypeOK
  <2>3. \A i \in DOMAIN b : EventFile(b[i]) \in DayFiles
    BY <1>3, FilesAssumption DEF Begin
  <2>4. Own1(w)
    BY <2>2, <2>3
  <2> QED
    BY <1>2, <2>1, <2>4
<1>4. ASSUME NEW w \in Writers, NEW b \in Seq(Events), Reject(w, b)
      PROVE  CallIsSafe'
  <2>1. Others(w)
    BY <1>0, <1>4 DEF Reject, TypeOK
  <2>2. pc'[w] = "done" /\ todo'[w] = todo[w] /\ result'[w].err /\ todo[w] = {}
    BY <1>0, <1>4 DEF Reject, TypeOK, NoResult, CallIsSafe
  <2> QED
    BY <1>2, <2>1, <2>2
<1>5. ASSUME NEW w \in Writers, Return(w)
      PROVE  CallIsSafe'
  <2>1. Others(w)
    BY <1>0, <1>5 DEF Return, TypeOK
  <2>2. /\ pc[w] = "file" /\ pc'[w] = "done" /\ todo'[w] = {} /\ todo[w] = {}
        /\ batch' = batch /\ file' = file
    BY <1>0, <1>5 DEF Return, TypeOK
  <2>3. Own1(w)
    BY <1>0, <2>2 DEF CallIsSafe
  <2> QED
    BY <1>2, <2>1, <2>3
<1>6. ASSUME NEW w \in Writers, NEW f \in DayFiles, Scan(w, f)
      PROVE  CallIsSafe'
  <2>1. Others(w)
    BY <1>0, <1>6 DEF Scan, TypeOK
  <2>2. /\ pc[w] = "file" /\ pc'[w] = "append" /\ todo' = todo
        /\ batch' = batch /\ file' = file
    BY <1>0, <1>6 DEF Scan, TypeOK
  <2>3. Own1(w)
    BY <1>0, <2>2 DEF CallIsSafe
  <2> QED
    BY <1>2, <2>1, <2>3
<1>7. ASSUME NEW w \in Writers, NEW f \in DayFiles, AppendEvents(w, f)
      PROVE  CallIsSafe'
  <2>1. Others(w)
    BY <1>0, <1>7 DEF AppendEvents, TypeOK
  <2>2. pc[w] = "append" /\ pc'[w] = "file" /\ todo'[w] = todo[w] \ {f} /\ batch' = batch
    BY <1>0, <1>7 DEF AppendEvents, TypeOK
  <2>3. \A i \in Own(batch[w], f) : SafeIn(file'[f], batch[w][i].id)
    BY <1>0, <1>7, AppendMakesSafe DEF SafeInv
  <2>4. ASSUME NEW i \in DOMAIN batch[w]
        PROVE  /\ EventFile(batch[w][i]) \in DayFiles
               /\ \/ EventFile(batch[w][i]) \in todo'[w]
                  \/ SafeIn(file'[EventFile(batch[w][i])], batch[w][i].id)
    <3>1. /\ EventFile(batch[w][i]) \in DayFiles
          /\ \/ EventFile(batch[w][i]) \in todo[w]
             \/ SafeIn(file[EventFile(batch[w][i])], batch[w][i].id)
      BY <1>0, <2>2 DEF CallIsSafe
    <3>2. CASE EventFile(batch[w][i]) = f
      <4>1. i \in Own(batch[w], f)
        BY <3>2 DEF Own
      <4> QED
        BY <2>3, <3>1, <3>2, <4>1
    <3>3. CASE EventFile(batch[w][i]) # f
      BY <1>1, <2>2, <3>1, <3>3
    <3> QED
      BY <3>2, <3>3
  <2>5. Own1(w)
    BY <2>2, <2>4
  <2> QED
    BY <1>2, <2>1, <2>5
<1>8. ASSUME NEW w \in Writers, NEW f \in DayFiles, FailAppend(w, f)
      PROVE  CallIsSafe'
  <2>1. Others(w)
    BY <1>0, <1>8 DEF FailAppend, TypeOK
  <2>2. todo'[w] = {} /\ pc'[w] = "done" /\ result'[w].err
    BY <1>0, <1>8 DEF FailAppend, TypeOK
  <2> QED
    BY <1>2, <2>1, <2>2
<1>9. ASSUME NEW w \in Writers, Stop(w) \/ Crash(w)
      PROVE  CallIsSafe'
  <2>1. Others(w)
    BY <1>0, <1>9 DEF Stop, Crash, TypeOK
  <2>2. /\ todo'[w] = {}
        /\ pc'[w] = "idle" \/ (pc'[w] = "done" /\ result'[w].err)
    BY <1>0, <1>9 DEF Stop, Crash, TypeOK
  <2> QED
    BY <1>2, <2>1, <2>2
<1>10. ASSUME NEW w \in Writers, Skip(w)
       PROVE  CallIsSafe'
  <2>1. Others(w)
    BY <1>0, <1>10 DEF Skip, TypeOK
  <2>2. batch'[w] = <<>> /\ todo'[w] = {}
    BY <1>0, <1>10 DEF Skip, TypeOK, CallIsSafe
  <2> QED
    BY <1>2, <2>1, <2>2
<1>11. CASE UNCHANGED vars
  BY <1>0, <1>11 DEF vars, CallIsSafe
<1> QED
  BY <1>3, <1>4, <1>5, <1>6, <1>7, <1>8, <1>9, <1>10, <1>11 DEF AnyNext, AnyCall, Step, Interrupt

-----------------------------------------------------------------------------
(* Writers that take turns never write an id twice.                        *)

DupFree(c) ==
  \A i, j \in DOMAIN c.lines :
    /\ c.lines[i] # Damaged /\ c.lines[j] # Damaged
    /\ c.lines[i].id = c.lines[j].id
    => i = j

\* A buffer of distinct ids that are new to a file leaves it free of duplicates,
\* however much of the buffer is written.
LEMMA PutKeepsDupFree ==
  ASSUME NEW c \in Contents, c.open => c.lines # <<>>, DupFree(c),
         NEW buf \in Seq(Events), NEW bytes \in Seq(Lines), NEW open \in BOOLEAN,
         Partial(buf, bytes, open),
         \A k \in 1 .. Len(buf) : buf[k].id \notin IntactIds(c),
         \A j, k \in 1 .. Len(buf) : buf[j].id = buf[k].id => j = k
  PROVE  DupFree(PutLines(c, bytes, open))
<1> DEFINE d == PutLines(c, bytes, open)
           n == Len(c.lines)
           s == Overlap(c)
<1>1. c.lines \in Seq(Lines) /\ n \in Nat /\ DOMAIN c.lines = 1 .. n /\ Len(bytes) \in Nat
  BY DEF Contents
<1>2. (c.open /\ s = 1) \/ (~c.open /\ s = 0)
  BY DEF Overlap, Contents
<1>3. open => bytes # <<>>
  BY DEF Partial
<1>4. CASE bytes = <<>>
  <2>1. d = c
    BY <1>3, <1>4, PutLinesFacts
  <2> QED
    BY <2>1
<1>5. CASE bytes # <<>>
  <2>1. d \in Contents /\ IsPut(c, bytes, open, d)
    BY <1>3, <1>5, PutLinesFacts
  <2>2. /\ Len(d.lines) = n + Len(bytes) - s
        /\ \A i \in 1 .. n : d.lines[i] = IF c.open /\ i = n THEN Damaged ELSE c.lines[i]
        /\ \A i \in n + 1 .. n + Len(bytes) - s : d.lines[i] = bytes[i - n + s]
    BY <2>1 DEF IsPut
  <2>3. DOMAIN d.lines = 1 .. n + Len(bytes) - s
    BY <2>1, <2>2 DEF Contents
  <2>4. \A k \in 1 .. Len(bytes) : bytes[k] # Damaged => k \in 1 .. Len(buf) /\ bytes[k] = buf[k]
    BY <1>1 DEF Partial
  <2> HIDE DEF d, s, n
  <2>5. ASSUME NEW i \in DOMAIN d.lines, d.lines[i] # Damaged
        PROVE  \/ i \in 1 .. n /\ d.lines[i] = c.lines[i]
               \/ /\ i \notin 1 .. n
                  /\ i - n + s \in 1 .. Len(buf)
                  /\ d.lines[i] = buf[i - n + s]
    <3>1. CASE i \in 1 .. n
      BY <2>2, <2>5, <3>1
    <3>2. CASE i \notin 1 .. n
      <4>1. i \in n + 1 .. n + Len(bytes) - s /\ i - n + s \in 1 .. Len(bytes)
        BY <1>1, <1>2, <2>3, <3>2
      <4>2. d.lines[i] = bytes[i - n + s]
        BY <2>2, <4>1
      <4> QED
        BY <2>4, <2>5, <3>2, <4>1, <4>2
    <3> QED
      BY <3>1, <3>2
  <2>6. \A i \in 1 .. n : c.lines[i] # Damaged => c.lines[i].id \in IntactIds(c)
    BY <1>1 DEF IntactIds
  <2>7. ASSUME NEW i \in DOMAIN d.lines, NEW j \in DOMAIN d.lines,
               d.lines[i] # Damaged, d.lines[j] # Damaged, d.lines[i].id = d.lines[j].id
        PROVE  i = j
    <3>1. CASE i \in 1 .. n /\ j \in 1 .. n
      BY <1>1, <2>5, <2>7, <3>1 DEF DupFree
    <3>2. CASE i \notin 1 .. n /\ j \notin 1 .. n
      <4>1. i - n + s = j - n + s
        BY <2>5, <2>7, <3>2
      <4>2. i \in Int /\ j \in Int
        BY <1>1, <1>2, <2>3
      <4> QED
        BY <1>1, <1>2, <4>1, <4>2
    <3>3. CASE (i \in 1 .. n) # (j \in 1 .. n)
      BY <2>5, <2>6, <2>7, <3>3
    <3> QED
      BY <3>1, <3>2, <3>3
  <2> QED
    BY <2>7 DEF DupFree, d
<1> QED
  BY <1>4, <1>5

\* What a writer has read from the file it is about to append to is all there is.
KnownIsAll ==
  \A w \in Writers, f \in DayFiles : pc[w] = "append" /\ IsNext(w, f) =>
    IntactIds(file[f]) \subseteq known[w]

ExactInv == TypeInv /\ NoDuplicateIds /\ KnownIsAll

LEMMA PutsKeepDupFree ==
  ASSUME ExactInv, NEW w \in Writers, NEW f \in DayFiles,
         pc[w] = "append", IsNext(w, f), Puts(w, f)
  PROVE  NoDuplicateIds'
<1>1. PICK buf \in Buffers(batch[w], f, known[w]), bytes \in Seq(Lines), open \in BOOLEAN :
        /\ Partial(buf, bytes, open)
        /\ file' = [file EXCEPT ![f] = PutLines(file[f], bytes, open)]
  BY DEF Puts
<1>2. file \in [DayFiles -> Contents] /\ file[f] \in Contents /\ batch[w] \in Seq(Events)
  BY DEF ExactInv, TypeInv, TypeOK, Contents
<1>3. file[f].open => file[f].lines # <<>>
  BY DEF ExactInv, TypeInv, OpenHasLine
<1>4. /\ buf \in Seq(Events)
      /\ \A k \in 1 .. Len(buf) : \E i \in Fresh(batch[w], f, known[w]) : buf[k] = batch[w][i]
      /\ \A j, k \in 1 .. Len(buf) : buf[j].id = buf[k].id => j = k
  BY <1>2, BufferFacts
<1>5. \A k \in 1 .. Len(buf) : buf[k].id \notin IntactIds(file[f])
  BY <1>4 DEF Fresh, ExactInv, KnownIsAll
<1>6. \A g \in DayFiles : DupFree(file[g])
  BY DEF ExactInv, NoDuplicateIds, DupFree
<1>7. DupFree(PutLines(file[f], bytes, open))
  BY <1>1, <1>2, <1>3, <1>4, <1>5, <1>6, PutKeepsDupFree
<1>8. \A g \in DayFiles : DupFree(file'[g])
  BY <1>1, <1>2, <1>6, <1>7
<1> QED
  BY <1>8 DEF NoDuplicateIds, DupFree

\* No two writers are about to append.
Alone == \A v, w \in Writers : pc[v] = "append" /\ pc[w] = "append" => v = w

\* A step of a writer that leaves its call behind no append, and that puts
\* something into a file only after having read it alone.
LEMMA ExactAfterStep ==
  ASSUME ExactInv, Alone, NEW w \in Writers, pc'[w] # "append",
         \A v \in Writers : v # w => pc'[v] = pc[v] /\ todo'[v] = todo[v] /\ known'[v] = known[v],
         \/ file' = file
         \/ \E f \in DayFiles : pc[w] = "append" /\ IsNext(w, f) /\ Puts(w, f)
  PROVE  NoDuplicateIds' /\ KnownIsAll'
<1>1. CASE file' = file
  <2>1. NoDuplicateIds'
    BY <1>1 DEF ExactInv, NoDuplicateIds
  <2>2. KnownIsAll'
    BY <1>1 DEF ExactInv, KnownIsAll, IsNext
  <2> QED
    BY <2>1, <2>2
<1>2. CASE \E f \in DayFiles : pc[w] = "append" /\ IsNext(w, f) /\ Puts(w, f)
  <2>1. NoDuplicateIds'
    BY <1>2, PutsKeepDupFree
  <2>2. \A v \in Writers : pc'[v] # "append"
    BY <1>2 DEF Alone
  <2> QED
    BY <2>1, <2>2 DEF KnownIsAll
<1> QED
  BY <1>1, <1>2

LEMMA ExactInvStep == ExactInv /\ Alone /\ [AnyNext]_vars => ExactInv'
<1> SUFFICES ASSUME ExactInv, Alone, [AnyNext]_vars PROVE ExactInv'
  OBVIOUS
<1>0. TypeInv /\ TypeInv' /\ TypeOK
  BY TypeInvStep DEF ExactInv, TypeInv
<1>1. ASSUME NEW w \in Writers, NEW b \in Seq(Events), Begin(w, b) \/ Reject(w, b)
      PROVE  NoDuplicateIds' /\ KnownIsAll'
  BY <1>0, <1>1, ExactAfterStep DEF Begin, Reject, TypeOK
<1>2. ASSUME NEW w \in Writers, Return(w) \/ Stop(w) \/ Skip(w)
      PROVE  NoDuplicateIds' /\ KnownIsAll'
  BY <1>0, <1>2, ExactAfterStep DEF Return, Stop, Skip, TypeOK
<1>3. ASSUME NEW w \in Writers, NEW f \in DayFiles, Scan(w, f)
      PROVE  NoDuplicateIds' /\ KnownIsAll'
  <2>1. /\ file' = file /\ todo' = todo /\ known'[w] = IntactIds(file[f])
        /\ \A v \in Writers : v # w => pc'[v] = pc[v] /\ known'[v] = known[v]
    BY <1>0, <1>3 DEF Scan, TypeOK
  <2>2. NoDuplicateIds'
    BY <2>1 DEF ExactInv, NoDuplicateIds
  <2>3. ASSUME NEW g \in DayFiles, IsNext(w, g)'
        PROVE  f = g
    BY <1>3, <2>1, <2>3, RankAssumption DEF Scan, IsNext
  <2>4. ASSUME NEW v \in Writers, NEW g \in DayFiles, pc'[v] = "append", IsNext(v, g)'
        PROVE  IntactIds(file'[g]) \subseteq known'[v]
    <3>1. CASE v = w
      BY <2>1, <2>3, <2>4, <3>1
    <3>2. CASE v # w
      <4>1. pc[v] = "append" /\ IsNext(v, g)
        BY <2>1, <2>4, <3>2 DEF IsNext
      <4> QED
        BY <2>1, <3>2, <4>1 DEF ExactInv, KnownIsAll
    <3> QED
      BY <3>1, <3>2
  <2> QED
    BY <2>2, <2>4 DEF KnownIsAll
<1>4. ASSUME NEW w \in Writers, NEW f \in DayFiles, AppendEvents(w, f) \/ FailAppend(w, f)
      PROVE  NoDuplicateIds' /\ KnownIsAll'
  <2>1. pc[w] = "append" /\ IsNext(w, f) /\ f \in DayFiles /\ Puts(w, f)
    BY <1>0, <1>4, AppendPuts, FailPuts DEF AppendEvents, FailAppend
  <2>2. /\ pc'[w] # "append"
        /\ \A v \in Writers : v # w => pc'[v] = pc[v] /\ todo'[v] = todo[v] /\ known'[v] = known[v]
    BY <1>0, <1>4 DEF AppendEvents, FailAppend, TypeOK
  <2> QED
    BY <2>1, <2>2, ExactAfterStep
<1>5. ASSUME NEW w \in Writers, Crash(w)
      PROVE  NoDuplicateIds' /\ KnownIsAll'
  <2>1. /\ pc'[w] # "append"
        /\ \A v \in Writers : v # w => pc'[v] = pc[v] /\ todo'[v] = todo[v] /\ known'[v] = known[v]
    BY <1>0, <1>5 DEF Crash, TypeOK
  <2>2. file' = file \/ \E f \in DayFiles : pc[w] = "append" /\ IsNext(w, f) /\ Puts(w, f)
    BY <1>0, <1>5, CrashPuts
  <2> QED
    BY <2>1, <2>2, ExactAfterStep
<1>6. CASE UNCHANGED vars
  <2>1. NoDuplicateIds'
    BY <1>6 DEF ExactInv, NoDuplicateIds, vars
  <2>2. KnownIsAll'
    BY <1>6 DEF ExactInv, KnownIsAll, IsNext, vars
  <2> QED
    BY <1>0, <2>1, <2>2 DEF ExactInv
<1> QED
  BY <1>0, <1>1, <1>2, <1>3, <1>4, <1>5, <1>6 DEF ExactInv, AnyNext, AnyCall, Step, Interrupt

LEMMA ExactInvInit == Init => ExactInv
<1> SUFFICES ASSUME Init PROVE ExactInv
  OBVIOUS
<1>1. NoDuplicateIds /\ KnownIsAll
  BY DEF Init, NoDuplicateIds, KnownIsAll, EmptyFile
<1> QED
  BY <1>1, TypeInvInit DEF ExactInv

\* "Writes are idempotent" of writers that take turns: with no two calls of Write
\* at a time no id is ever on two lines of a day file, through every error,
\* cancellation and crash (store.Write, appendEvents, existingIDs).
THEOREM TurnsAreIdempotent ==
  ASSUME \A v, w \in Writers : v = w
  PROVE  Spec => []NoDuplicateIds
<1>1. ExactInv => NoDuplicateIds
  BY DEF ExactInv
<1>2. ExactInv /\ [Next]_vars => ExactInv'
  BY ExactInvStep, NextIsAny DEF Alone
<1> QED
  BY <1>1, <1>2, ExactInvInit, PTL DEF Spec

-----------------------------------------------------------------------------
(* Lines stay.                                                             *)

\* A line of c is a line of d, unless it was an open last one.
KeepsLines(c, d) ==
  \A i \in DOMAIN c.lines :
    \/ i \in DOMAIN d.lines /\ d.lines[i] = c.lines[i]
    \/ c.open /\ i = Len(c.lines)

LEMMA PutKeepsLines ==
  ASSUME NEW c \in Contents, c.open => c.lines # <<>>,
         NEW bytes \in Seq(Lines), NEW open \in BOOLEAN, open => bytes # <<>>
  PROVE  KeepsLines(c, PutLines(c, bytes, open))
<1> DEFINE d == PutLines(c, bytes, open)
           n == Len(c.lines)
<1>1. d \in Contents /\ n \in Nat /\ DOMAIN c.lines = 1 .. n /\ DOMAIN d.lines = 1 .. Len(d.lines)
  BY PutLinesFacts DEF Contents
<1>2. CASE bytes = <<>>
  BY <1>2, PutLinesFacts DEF KeepsLines
<1>3. CASE bytes # <<>>
  <2>1. IsPut(c, bytes, open, d)
    BY <1>3, PutLinesFacts
  <2>2. /\ Len(d.lines) = n + Len(bytes) - (IF c.open THEN 1 ELSE 0)
        /\ \A i \in 1 .. n : d.lines[i] = IF c.open /\ i = n THEN Damaged ELSE c.lines[i]
    BY <2>1 DEF IsPut, Overlap
  <2>3. Len(bytes) \in Nat \ {0}
    BY <1>3, EmptySeq
  <2> HIDE DEF d, n
  <2>4. \A i \in 1 .. n : i \in 1 .. Len(d.lines)
    BY <1>1, <2>2, <2>3
  <2> QED
    BY <1>1, <2>2, <2>4 DEF KeepsLines, d, n
<1> QED
  BY <1>2, <1>3

LEMMA StepKeepsLines ==
  ASSUME TypeInv, [AnyNext]_vars, NEW g \in DayFiles
  PROVE  KeepsLines(file[g], file'[g])
<1>1. CASE file'[g] = file[g]
  BY <1>1 DEF KeepsLines
<1>2. CASE file'[g] # file[g]
  <2>1. PICK w \in Writers, f \in DayFiles : Puts(w, f)
    BY <1>2, StepPuts
  <2>2. PICK buf \in Buffers(batch[w], f, known[w]), bytes \in Seq(Lines), open \in BOOLEAN :
          /\ Partial(buf, bytes, open)
          /\ file' = [file EXCEPT ![f] = PutLines(file[f], bytes, open)]
    BY <2>1 DEF Puts
  <2>3. file \in [DayFiles -> Contents] /\ file[f] \in Contents
    BY DEF TypeInv, TypeOK, Contents
  <2>4. g = f /\ file'[f] = PutLines(file[f], bytes, open)
    BY <1>2, <2>2, <2>3
  <2>5. (file[f].open => file[f].lines # <<>>) /\ (open => bytes # <<>>)
    BY <2>2 DEF TypeInv, OpenHasLine, Partial
  <2> QED
    BY <2>3, <2>4, <2>5, PutKeepsLines
<1> QED
  BY <1>1, <1>2

\* Append-only day files: no step of any writer, complete, failed or cut off by
\* a crash, changes or removes a line that has its newline (appendEvents opens
\* with O_APPEND and truncates nothing).
THEOREM LinesAreKept == Spec => LinesStay
<1> DEFINE Stay == \A f \in DayFiles : \A i \in DOMAIN file[f].lines :
                     \/ i \in DOMAIN file'[f].lines /\ file'[f].lines[i] = file[f].lines[i]
                     \/ file[f].open /\ i = Len(file[f].lines)
<1>1. TypeInv /\ [Next]_vars => Stay
  BY StepKeepsLines, NextIsAny DEF KeepsLines
<1>2. TypeInv /\ [Next]_vars => [Stay]_vars
  BY <1>1
<1> QED
  BY <1>2, TypeInvInit, TypeInvStep, NextIsAny, PTL DEF Spec, LinesStay

-----------------------------------------------------------------------------
(* Damage goes back to interruptions.                                      *)

\* Lines to append that are events, but for a last one that is cut short.
WholeButLast(bytes, open) ==
  /\ bytes \in Seq(Lines) /\ open \in BOOLEAN
  /\ open => bytes # <<>>
  /\ \A k \in 1 .. Len(bytes) : bytes[k] \in Events \/ (open /\ k = Len(bytes))

LEMMA BufferIsWhole ==
  ASSUME NEW buf \in Seq(Events)
  PROVE  WholeButLast(buf, FALSE)
<1>1. Partial(buf, buf, FALSE)
  BY WholeIsPartial
<1> QED
  BY <1>1 DEF Partial, WholeButLast

LEMMA CutIsWholeButLast ==
  ASSUME NEW buf \in Seq(Events), NEW cut \in Cuts(buf)
  PROVE  WholeButLast(cut.bytes, cut.open)
<1>1. Partial(buf, cut.bytes, cut.open)
  BY CutIsPartial
<1>2. CASE \E k \in 0 .. Len(buf) : cut = [bytes |-> SubSeq(buf, 1, k), open |-> FALSE]
  <2>1. PICK k \in 0 .. Len(buf) : cut = [bytes |-> SubSeq(buf, 1, k), open |-> FALSE]
    BY <1>2
  <2>2. \A i \in 1 .. k : buf[i] \in Events
    OBVIOUS
  <2>3. SubSeq(buf, 1, k) \in Seq(Events)
    BY <2>2, SubSeqProperties
  <2>4. cut.bytes \in Seq(Events) /\ cut.open = FALSE
    BY <2>1, <2>3
  <2> QED
    BY <1>1, <2>4 DEF Partial, WholeButLast
<1>3. CASE \E k \in 1 .. Len(buf), whole \in BOOLEAN :
             cut = [bytes |-> Append(SubSeq(buf, 1, k - 1), IF whole THEN buf[k] ELSE Damaged),
                    open |-> TRUE]
  <2>1. PICK k \in 1 .. Len(buf), whole \in BOOLEAN :
             cut = [bytes |-> Append(SubSeq(buf, 1, k - 1), IF whole THEN buf[k] ELSE Damaged),
                    open |-> TRUE]
    BY <1>3
  <2> DEFINE front == SubSeq(buf, 1, k - 1)
             last == IF whole THEN buf[k] ELSE Damaged
  <2>2. front \in Seq(Events)
    <3>1. \A i \in 1 .. k - 1 : buf[i] \in Events
      OBVIOUS
    <3>2. k - 1 \in Int
      OBVIOUS
    <3> QED
      BY <3>1, <3>2, SubSeqProperties
  <2>3. cut.bytes = Append(front, last) /\ cut.open = TRUE
    BY <2>1
  <2> HIDE <2>1 DEF front, last
  <2>4. Len(Append(front, last)) = Len(front) + 1 /\ Len(front) \in Nat
        /\ \A i \in 1 .. Len(front) : Append(front, last)[i] = front[i]
    BY <2>2
  <2>5. \A i \in 1 .. Len(front) : front[i] \in Events
    BY <2>2
  <2>6. \A i \in 1 .. Len(cut.bytes) : cut.bytes[i] \in Events \/ i = Len(cut.bytes)
    BY <2>3, <2>4, <2>5
  <2> QED
    BY <1>1, <2>3, <2>6 DEF Partial, WholeButLast
<1> QED
  BY <1>2, <1>3 DEF Cuts

\* The places of one file that are damaged, or that an append would damage.
StakeIn(c) == {j \in DOMAIN c.lines : c.lines[j] = Damaged \/ (c.open /\ j = Len(c.lines))}

\* A whole append puts no place at stake, an interrupted one at most its last.
LEMMA PutStakes ==
  ASSUME NEW c \in Contents, c.open => c.lines # <<>>,
         NEW bytes, NEW open, WholeButLast(bytes, open),
         NEW j \in StakeIn(PutLines(c, bytes, open))
  PROVE  j \in StakeIn(c) \/ (open /\ j = Len(PutLines(c, bytes, open).lines))
<1> DEFINE d == PutLines(c, bytes, open)
           n == Len(c.lines)
           s == Overlap(c)
<1>1. /\ bytes \in Seq(Lines) /\ open \in BOOLEAN /\ (open => bytes # <<>>)
      /\ Len(bytes) \in Nat
  BY DEF WholeButLast
<1>2. CASE bytes = <<>>
  BY <1>1, <1>2, PutLinesFacts
<1>3. CASE bytes # <<>>
  <2>1. d \in Contents /\ IsPut(c, bytes, open, d)
    BY <1>1, <1>3, PutLinesFacts
  <2>2. /\ d.open = open
        /\ Len(d.lines) = n + Len(bytes) - s
        /\ \A i \in 1 .. n : d.lines[i] = IF c.open /\ i = n THEN Damaged ELSE c.lines[i]
        /\ \A i \in n + 1 .. n + Len(bytes) - s : d.lines[i] = bytes[i - n + s]
    BY <2>1 DEF IsPut
  <2>3. /\ n \in Nat /\ DOMAIN c.lines = 1 .. n
        /\ DOMAIN d.lines = 1 .. n + Len(bytes) - s
        /\ (c.open /\ s = 1) \/ (~c.open /\ s = 0)
    BY <2>1, <2>2 DEF Contents, Overlap
  <2>4. j \in 1 .. n + Len(bytes) - s /\ (d.lines[j] = Damaged \/ (open /\ j = Len(d.lines)))
    BY <2>2, <2>3 DEF StakeIn
  <2>5. \A k \in 1 .. Len(bytes) : bytes[k] = Damaged => open /\ k = Len(bytes)
    BY DamagedAssumption DEF WholeButLast
  <2> HIDE DEF d, n, s
  <2>6. CASE j \in 1 .. n
    <3>1. CASE d.lines[j] = Damaged
      <4>1. c.lines[j] = Damaged \/ (c.open /\ j = n)
        BY <2>2, <2>6, <3>1
      <4> QED
        BY <2>3, <2>6, <4>1 DEF StakeIn, n
    <3> QED
      BY <2>4, <3>1 DEF d
  <2>7. CASE j \notin 1 .. n
    <3>1. j \in n + 1 .. n + Len(bytes) - s /\ j - n + s \in 1 .. Len(bytes)
      BY <1>1, <2>3, <2>4, <2>7
    <3>2. d.lines[j] = bytes[j - n + s]
      BY <2>2, <3>1
    <3>3. CASE d.lines[j] = Damaged
      <4>1. open /\ j - n + s = Len(bytes)
        BY <2>5, <3>1, <3>2, <3>3
      <4>2. j = Len(d.lines)
        BY <1>1, <2>2, <2>3, <3>1, <4>1
      <4> QED
        BY <4>1, <4>2 DEF d
    <3> QED
      BY <2>4, <3>3 DEF d
  <2> QED
    BY <2>6, <2>7
<1> QED
  BY <1>2, <1>3

\* What an append to one file does to the places at stake in all of them.
LEMMA AtStakeAfterPut ==
  ASSUME TypeInv, NEW f \in DayFiles, NEW bytes, NEW open, WholeButLast(bytes, open),
         file' = [file EXCEPT ![f] = PutLines(file[f], bytes, open)]
  PROVE  /\ ~open => AtStake' \subseteq AtStake
         /\ \E x : AtStake' \subseteq AtStake \cup {x}
<1> DEFINE top == <<f, Len(file'[f].lines)>>
<1>1. file \in [DayFiles -> Contents] /\ file[f] \in Contents
  BY DEF TypeInv, TypeOK, Contents
<1>2. file[f].open => file[f].lines # <<>>
  BY DEF TypeInv, OpenHasLine
<1>3. file'[f] = PutLines(file[f], bytes, open) /\ \A g \in DayFiles : g # f => file'[g] = file[g]
  BY <1>1
<1>4. ASSUME NEW x \in AtStake'
      PROVE  x \in AtStake \/ (open /\ x = top)
  <2>1. PICK g \in DayFiles : \E j \in StakeIn(file'[g]) : x = <<g, j>>
    BY <1>4 DEF AtStake, StakeIn
  <2>2. PICK j \in StakeIn(file'[g]) : x = <<g, j>>
    BY <2>1
  <2>3. j \in StakeIn(file[g]) \/ (open /\ g = f /\ j = Len(file'[f].lines))
    <3>1. CASE g = f
      BY <1>1, <1>2, <1>3, <2>2, <3>1, PutStakes
    <3>2. CASE g # f
      BY <1>3, <2>2, <3>2
    <3> QED
      BY <3>1, <3>2
  <2>4. j \in StakeIn(file[g]) => x \in AtStake
    BY <2>2 DEF AtStake, StakeIn
  <2> QED
    BY <2>2, <2>3, <2>4
<1>5. ~open => AtStake' \subseteq AtStake
  BY <1>4
<1>6. AtStake' \subseteq AtStake \cup {top}
  BY <1>4
<1> QED
  BY <1>5, <1>6

DamageInv == TypeInv /\ IsFiniteSet(AtStake) /\ DamagePerFault

LEMMA DamageInvInit == Init => DamageInv
<1> SUFFICES ASSUME Init PROVE DamageInv
  OBVIOUS
<1>1. AtStake = {} /\ faults = 0
  BY DEF Init, AtStake, EmptyFile
<1> QED
  BY <1>1, TypeInvInit, FS_EmptySet DEF DamageInv, DamagePerFault

\* A step that puts nothing at stake, or one place and is an interruption.
LEMMA StakeStaysPaid ==
  ASSUME DamageInv, faults \in Nat, faults' \in Nat, TypeInv',
         \/ AtStake' \subseteq AtStake /\ faults' >= faults
         \/ (\E x : AtStake' \subseteq AtStake \cup {x}) /\ faults' = faults + 1
  PROVE  DamageInv'
<1>1. IsFiniteSet(AtStake) /\ Cardinality(AtStake) \in Nat /\ Cardinality(AtStake) <= faults
  BY FS_CardinalityType DEF DamageInv, DamagePerFault
<1>2. CASE AtStake' \subseteq AtStake /\ faults' >= faults
  <2>1. IsFiniteSet(AtStake') /\ Cardinality(AtStake') <= Cardinality(AtStake)
    BY <1>1, <1>2, FS_Subset
  <2>2. Cardinality(AtStake') \in Nat
    BY <2>1, FS_CardinalityType
  <2> QED
    BY <1>1, <1>2, <2>1, <2>2 DEF DamageInv, DamagePerFault
<1>3. CASE (\E x : AtStake' \subseteq AtStake \cup {x}) /\ faults' = faults + 1
  <2>1. PICK x : AtStake' \subseteq AtStake \cup {x}
    BY <1>3
  <2>2. IsFiniteSet(AtStake \cup {x}) /\ Cardinality(AtStake \cup {x}) <= Cardinality(AtStake) + 1
    BY <1>1, FS_AddElement
  <2>3. /\ IsFiniteSet(AtStake') /\ Cardinality(AtStake') <= Cardinality(AtStake \cup {x})
        /\ Cardinality(AtStake \cup {x}) \in Nat
    BY <2>1, <2>2, FS_Subset, FS_CardinalityType
  <2>4. Cardinality(AtStake') \in Nat
    BY <2>3, FS_CardinalityType
  <2> QED
    BY <1>1, <1>3, <2>2, <2>3, <2>4 DEF DamageInv, DamagePerFault
<1> QED
  BY <1>2, <1>3

LEMMA DamageInvStep == DamageInv /\ [Next]_vars => DamageInv'
<1> SUFFICES ASSUME DamageInv, [Next]_vars PROVE DamageInv'
  OBVIOUS
<1>0. TypeInv /\ TypeInv' /\ TypeOK /\ faults \in Nat /\ faults' \in Nat
  <2>1. TypeInv /\ TypeInv'
    BY TypeInvStep, NextIsAny DEF DamageInv
  <2> QED
    BY <2>1, FaultsAssumption DEF TypeInv, TypeOK
<1>1. CASE file' = file /\ faults' >= faults
  <2>1. AtStake' = AtStake
    BY <1>1 DEF AtStake
  <2> QED
    BY <1>0, <1>1, <2>1, StakeStaysPaid
<1>2. ASSUME NEW w \in Writers, NEW f \in DayFiles, AppendEvents(w, f)
      PROVE  DamageInv'
  <2>1. PICK buf \in Buffers(batch[w], f, known[w]) :
          file' = [file EXCEPT ![f] = PutLines(file[f], buf, FALSE)]
    BY <1>0, <1>2 DEF AppendEvents
  <2>2. batch[w] \in Seq(Events)
    BY <1>0 DEF TypeOK
  <2>3. WholeButLast(buf, FALSE)
    BY <2>2, BufferFacts, BufferIsWhole
  <2>4. AtStake' \subseteq AtStake
    BY <1>0, <2>1, <2>3, AtStakeAfterPut
  <2>5. faults' = faults
    BY <1>2 DEF AppendEvents
  <2> QED
    BY <1>0, <2>4, <2>5, StakeStaysPaid
<1> DEFINE CutsInto(w, f) ==
             \E buf \in Buffers(batch[w], f, known[w]) : \E cut \in Cuts(buf) :
               file' = [file EXCEPT ![f] = PutLines(file[f], cut.bytes, cut.open)]
<1>3. ASSUME NEW w \in Writers, NEW f \in DayFiles, CutsInto(w, f), faults' = faults + 1
      PROVE  DamageInv'
  <2>1. PICK buf \in Buffers(batch[w], f, known[w]) : \E cut \in Cuts(buf) :
          file' = [file EXCEPT ![f] = PutLines(file[f], cut.bytes, cut.open)]
    BY <1>3
  <2>2. PICK cut \in Cuts(buf) :
          file' = [file EXCEPT ![f] = PutLines(file[f], cut.bytes, cut.open)]
    BY <2>1
  <2>3. batch[w] \in Seq(Events)
    BY <1>0 DEF TypeOK
  <2>4. WholeButLast(cut.bytes, cut.open)
    BY <2>3, BufferFacts, CutIsWholeButLast
  <2>5. \E x : AtStake' \subseteq AtStake \cup {x}
    BY <1>0, <2>2, <2>4, AtStakeAfterPut
  <2> QED
    BY <1>0, <1>3, <2>5, StakeStaysPaid
<1>4. ASSUME NEW w \in Writers, NEW f \in DayFiles, FailAppend(w, f)
      PROVE  DamageInv'
  <2>1. CutsInto(w, f) /\ faults' = faults + 1
    BY <1>4 DEF FailAppend
  <2> HIDE DEF CutsInto
  <2> QED
    BY <1>3, <2>1
<1>5. ASSUME NEW w \in Writers, Crash(w)
      PROVE  DamageInv'
  <2>1. faults' = faults + 1 /\ todo[w] \subseteq DayFiles
    BY <1>0, <1>5 DEF Crash, TypeOK
  <2>2. CASE pc[w] = "file"
    BY <1>0, <1>1, <1>5, <2>1, <2>2 DEF Crash
  <2>3. CASE pc[w] # "file"
    <3>1. \E f \in todo[w] : CutsInto(w, f)
      BY <1>5, <2>3 DEF Crash
    <3> HIDE DEF CutsInto
    <3> QED
      BY <1>3, <2>1, <3>1
  <2> QED
    BY <2>2, <2>3
<1>6. ASSUME NEW w \in Writers, Stop(w) \/ Return(w) \/ Call(w) \/ \E f \in DayFiles : Scan(w, f)
      PROVE  DamageInv'
  <2>1. file' = file /\ (faults' = faults \/ faults' = faults + 1)
    BY <1>6 DEF Stop, Return, Call, Begin, Reject, Scan
  <2> QED
    BY <1>0, <1>1, <2>1
<1>7. CASE UNCHANGED vars
  BY <1>0, <1>1, <1>7 DEF vars
<1> QED
  BY <1>2, <1>4, <1>5, <1>6, <1>7 DEF Next, Step, Interrupt

\* Every line that does not decode, and every open last line that would stop
\* decoding if continued, goes back to an interruption of its own: however calls
\* of Write overlap, a complete append never adds damage to what a failed or
\* crashed one has put at stake (appendEvents).
THEOREM DamageIsPaidFor == Spec => []DamagePerFault
<1>1. DamageInv => DamagePerFault
  BY DEF DamageInv
<1> QED
  BY <1>1, DamageInvInit, DamageInvStep, PTL DEF Spec

-----------------------------------------------------------------------------
(* Write implements the contract.                                          *)

\* The contract has the layout of the day files from the same definitions.
LEMMA SameLayout ==
  ASSUME NEW e
  PROVE  Contract!Valid(e) = Valid(e) /\ Contract!EventFile(e) = EventFile(e)
BY DEF Contract!Valid, Contract!EventFile, Contract!DayOf, Contract!Sanitize,
       Contract!SanitizeChar, Contract!Kept, Contract!Lowered, Contract!ZeroTime,
       Valid, EventFile, DayOf, Sanitize, SanitizeChar, Kept, Lowered, ZeroTime

StoredIds == [f \in DayFiles |-> IntactIds(file[f])]
DamagedFiles == {f \in DayFiles : HasDamage(file[f])}
Status == [w \in Writers |-> StatusOf(w)]

IdsOf(buf) == {buf[k].id : k \in 1 .. Len(buf)}

\* What part of a buffer does to the ids that can be read back: those of the
\* buffer may come, and those that go do so with damage.
LEMMA PutIsStore ==
  ASSUME NEW c \in Contents, c.open => c.lines # <<>>,
         NEW buf \in Seq(Events), NEW bytes \in Seq(Lines), NEW open \in BOOLEAN,
         Partial(buf, bytes, open)
  PROVE  /\ IntactIds(PutLines(c, bytes, open)) \subseteq IntactIds(c) \cup IdsOf(buf)
         /\ HasDamage(c) => HasDamage(PutLines(c, bytes, open))
         /\ \/ IntactIds(c) \subseteq IntactIds(PutLines(c, bytes, open))
            \/ HasDamage(PutLines(c, bytes, open))
<1> DEFINE d == PutLines(c, bytes, open)
           n == Len(c.lines)
           s == Overlap(c)
<1>1. (open => bytes # <<>>) /\ Len(bytes) \in Nat
  BY DEF Partial
<1>2. CASE bytes = <<>>
  <2>1. d = c
    BY <1>1, <1>2, PutLinesFacts
  <2> QED
    BY <2>1
<1>3. CASE bytes # <<>>
  <2>1. d \in Contents /\ IsPut(c, bytes, open, d)
    BY <1>1, <1>3, PutLinesFacts
  <2>2. /\ Len(d.lines) = n + Len(bytes) - s
        /\ \A i \in 1 .. n : d.lines[i] = IF c.open /\ i = n THEN Damaged ELSE c.lines[i]
        /\ \A i \in n + 1 .. n + Len(bytes) - s : d.lines[i] = bytes[i - n + s]
    BY <2>1 DEF IsPut
  <2>3. /\ n \in Nat /\ DOMAIN c.lines = 1 .. n
        /\ DOMAIN d.lines = 1 .. n + Len(bytes) - s
        /\ (c.open /\ s = 1) \/ (~c.open /\ s = 0)
    BY <2>1, <2>2 DEF Contents, Overlap
  <2>4. Len(bytes) >= 1
    BY <1>3, EmptySeq
  <2>5. \A k \in 1 .. Len(bytes) : bytes[k] = Damaged \/ bytes[k].id \in IdsOf(buf)
    BY <1>1 DEF Partial, IdsOf
  <2> HIDE DEF d, n, s
  <2>6. \A i \in 1 .. n : i \in DOMAIN d.lines
    BY <1>1, <2>3, <2>4
  <2>7. ASSUME NEW i \in DOMAIN d.lines, d.lines[i] # Damaged
        PROVE  d.lines[i].id \in IntactIds(c) \cup IdsOf(buf)
    <3>1. CASE i \in 1 .. n
      <4>1. d.lines[i] = c.lines[i] /\ c.lines[i] # Damaged /\ i \in DOMAIN c.lines
        BY <2>2, <2>3, <2>7, <3>1
      <4> QED
        BY <4>1 DEF IntactIds
    <3>2. CASE i \notin 1 .. n
      <4>1. i \in n + 1 .. n + Len(bytes) - s /\ i - n + s \in 1 .. Len(bytes)
        BY <1>1, <2>3, <3>2
      <4>2. d.lines[i] = bytes[i - n + s]
        BY <2>2, <4>1
      <4> QED
        BY <2>5, <2>7, <4>1, <4>2
    <3> QED
      BY <3>1, <3>2
  <2>8. IntactIds(d) \subseteq IntactIds(c) \cup IdsOf(buf)
    BY <2>7 DEF IntactIds
  <2>9. HasDamage(c) => HasDamage(d)
    BY <2>2, <2>3, <2>6 DEF HasDamage
  <2>10. CASE HasDamage(d)
    BY <2>8, <2>10 DEF d
  <2>11. CASE ~HasDamage(d)
    <3>1. \A i \in 1 .. n : i \in DOMAIN d.lines /\ d.lines[i] = c.lines[i]
      BY <2>2, <2>6, <2>11 DEF HasDamage
    <3>2. IntactIds(c) \subseteq IntactIds(d)
      BY <2>3, <3>1 DEF IntactIds
    <3> QED
      BY <2>8, <2>9, <3>2 DEF d
  <2> QED
    BY <2>10, <2>11
<1> QED
  BY <1>2, <1>3

\* A writer that puts something into a file takes a step CStore, whatever the
\* outcome of its call.
LEMMA PutsStore ==
  ASSUME TypeInv, NEW w \in Writers, NEW f \in DayFiles, Puts(w, f), Status[w] = "busy",
         batch' = batch, NEW s \in {"busy", "err", "idle"}, Status' = [Status EXCEPT ![w] = s]
  PROVE  Contract!CStore(w, f)
<1>1. PICK buf \in Buffers(batch[w], f, known[w]), bytes \in Seq(Lines), open \in BOOLEAN :
        /\ Partial(buf, bytes, open)
        /\ file' = [file EXCEPT ![f] = PutLines(file[f], bytes, open)]
  BY DEF Puts
<1>2. /\ file \in [DayFiles -> Contents] /\ file[f] \in Contents /\ batch[w] \in Seq(Events)
      /\ file[f].open => file[f].lines # <<>>
  BY DEF TypeInv, TypeOK, OpenHasLine, Contents
<1> DEFINE asked == Contract!AskedIds(w, f)
           d == PutLines(file[f], bytes, open)
<1>3. buf \in Seq(Events) /\ \A k \in 1 .. Len(buf) : \E i \in Own(batch[w], f) : buf[k] = batch[w][i]
  BY <1>2, BufferFacts, OwnFinite
<1>4. IdsOf(buf) \subseteq asked
  BY <1>3, SameLayout DEF Contract!AskedIds, Own, IdsOf
<1> HIDE DEF asked
<1>5. /\ IntactIds(d) \subseteq IntactIds(file[f]) \cup asked
      /\ HasDamage(file[f]) => HasDamage(d)
      /\ IntactIds(file[f]) \subseteq IntactIds(d) \/ HasDamage(d)
  <2>1. /\ IntactIds(d) \subseteq IntactIds(file[f]) \cup IdsOf(buf)
        /\ HasDamage(file[f]) => HasDamage(d)
        /\ IntactIds(file[f]) \subseteq IntactIds(d) \/ HasDamage(d)
    BY <1>1, <1>2, <1>3, PutIsStore
  <2> QED
    BY <1>4, <2>1
<1>6. file'[f] = d /\ \A g \in DayFiles : g # f => file'[g] = file[g]
  BY <1>1, <1>2
<1> DEFINE gain == IntactIds(d) \ IntactIds(file[f])
           loss == IntactIds(file[f]) \ IntactIds(d)
           harm == IF HasDamage(d) THEN {f} ELSE {}
<1> HIDE DEF d
<1>7. gain \in SUBSET asked /\ loss \in SUBSET StoredIds[f] /\ harm \in SUBSET {f}
  BY <1>5 DEF StoredIds
<1>8. StoredIds' = [StoredIds EXCEPT ![f] = (StoredIds[f] \ loss) \cup gain]
  BY <1>6 DEF StoredIds
<1>9. DamagedFiles' = DamagedFiles \cup harm
  BY <1>5, <1>6 DEF DamagedFiles
<1>10. loss # {} => f \in DamagedFiles'
  BY <1>5, <1>6 DEF DamagedFiles
<1> HIDE DEF gain, loss, harm
<1> QED
  BY <1>7, <1>8, <1>9, <1>10 DEF Contract!CStore, StoredIds, DamagedFiles, Status, asked

LEMMA InitIsContract == Init => Contract!CInit
BY DEF Init, Contract!CInit, EmptyFile, IntactIds, HasDamage, StatusOf

\* A step that changes neither the files nor the batches.
LEMMA SameFiles ==
  ASSUME file' = file
  PROVE  StoredIds' = StoredIds /\ DamagedFiles' = DamagedFiles
BY DEF StoredIds, DamagedFiles

LEMMA StepIsContract == CallInv /\ [Next]_vars => [Contract!CNext]_(Contract!cvars)
<1> SUFFICES ASSUME CallInv, [Next]_vars
             PROVE  Contract!CNext \/ UNCHANGED Contract!cvars
  OBVIOUS
<1>0. TypeInv /\ TypeOK /\ CallIsSafe
  BY DEF CallInv, SafeInv, TypeInv
<1>1. ASSUME NEW w \in Writers, NEW b \in Batches, Begin(w, b) \/ Reject(w, b)
      PROVE  Contract!CCall(w, b)
  <2>1. file' = file /\ batch' = [batch EXCEPT ![w] = b] /\ Status[w] # "busy"
    BY <1>1 DEF Begin, Reject, Status, StatusOf
  <2>2. Status' = [Status EXCEPT ![w] = IF \A i \in DOMAIN b : Valid(b[i]) THEN "busy" ELSE "err"]
    <3>1. CASE Begin(w, b)
      BY <1>0, <3>1 DEF Begin, Status, StatusOf, TypeOK
    <3>2. CASE Reject(w, b)
      <4>1. /\ pc' = [pc EXCEPT ![w] = "done"] /\ ~(\A i \in DOMAIN b : Valid(b[i]))
            /\ result' = [result EXCEPT ![w] = [NoResult EXCEPT !.err = TRUE]]
        BY <3>2 DEF Reject
      <4>2. /\ pc'[w] = "done" /\ result'[w].err
            /\ \A v \in Writers : v # w => pc'[v] = pc[v] /\ result'[v] = result[v]
        BY <1>0, <4>1 DEF TypeOK, NoResult
      <4> QED
        BY <4>1, <4>2 DEF Status, StatusOf
    <3> QED
      BY <1>1, <3>1, <3>2
  <2> QED
    BY <2>1, <2>2, SameFiles, SameLayout DEF Contract!CCall, Status, StoredIds, DamagedFiles
<1>2. ASSUME NEW w \in Writers, Return(w)
      PROVE  Contract!COk(w) \/ Contract!CFail(w)
  <2>1. /\ file' = file /\ batch' = batch /\ result' = result
        /\ pc[w] = "file" /\ pc' = [pc EXCEPT ![w] = "done"] /\ todo[w] = {}
    BY <1>2 DEF Return
  <2>2. Status[w] = "busy"
    BY <2>1 DEF Status, StatusOf
  <2>3. CASE result[w].err
    <3>1. Status' = [Status EXCEPT ![w] = "err"]
      BY <1>0, <2>1, <2>3 DEF Status, StatusOf, TypeOK
    <3> QED
      BY <2>1, <2>2, <3>1, SameFiles DEF Contract!CFail, Status, StoredIds, DamagedFiles
  <2>4. CASE ~result[w].err
    <3>1. Status' = [Status EXCEPT ![w] = "ok"]
      BY <1>0, <2>1, <2>4 DEF Status, StatusOf, TypeOK
    <3>2. \A i \in DOMAIN batch[w] :
            \/ batch[w][i].id \in StoredIds[EventFile(batch[w][i])]
            \/ EventFile(batch[w][i]) \in DamagedFiles
      BY <1>0, <2>1 DEF CallIsSafe, SafeIn, StoredIds, DamagedFiles
    <3> QED
      BY <2>1, <2>2, <3>1, <3>2, SameFiles, SameLayout
         DEF Contract!COk, Status, StoredIds, DamagedFiles
  <2> QED
    BY <2>3, <2>4
<1>3. ASSUME NEW w \in Writers, NEW f \in DayFiles, Scan(w, f)
      PROVE  UNCHANGED Contract!cvars
  <2>1. file' = file /\ batch' = batch /\ Status' = Status
    BY <1>0, <1>3 DEF Scan, Status, StatusOf, TypeOK
  <2> QED
    BY <2>1, SameFiles DEF Contract!cvars, Status, StoredIds, DamagedFiles
<1>4. ASSUME NEW w \in Writers, NEW f \in DayFiles, AppendEvents(w, f)
      PROVE  Contract!CStore(w, f)
  <2>1. Puts(w, f) /\ batch' = batch /\ Status[w] = "busy"
    BY <1>0, <1>4, AppendPuts DEF AppendEvents, Status, StatusOf
  <2>2. Status' = [Status EXCEPT ![w] = "busy"]
    BY <1>0, <1>4 DEF AppendEvents, Status, StatusOf, TypeOK
  <2> QED
    BY <1>0, <2>1, <2>2, PutsStore
<1>5. ASSUME NEW w \in Writers, NEW f \in DayFiles, FailAppend(w, f)
      PROVE  Contract!CStore(w, f)
  <2>1. Puts(w, f) /\ batch' = batch /\ Status[w] = "busy"
    BY <1>0, <1>5, FailPuts DEF FailAppend, Status, StatusOf
  <2>2. Status' = [Status EXCEPT ![w] = "err"]
    BY <1>0, <1>5 DEF FailAppend, Status, StatusOf, TypeOK
  <2> QED
    BY <1>0, <2>1, <2>2, PutsStore
<1>6. ASSUME NEW w \in Writers, Stop(w)
      PROVE  Contract!CFail(w)
  <2>1. file' = file /\ batch' = batch /\ Status[w] = "busy"
    BY <1>6 DEF Stop, Status, StatusOf
  <2>2. Status' = [Status EXCEPT ![w] = "err"]
    BY <1>0, <1>6 DEF Stop, Status, StatusOf, TypeOK
  <2> QED
    BY <2>1, <2>2, SameFiles DEF Contract!CFail, Status, StoredIds, DamagedFiles
<1>7. ASSUME NEW w \in Writers, Crash(w)
      PROVE  Contract!CFail(w) \/ \E f \in DayFiles : Contract!CStore(w, f)
  <2>1. batch' = batch /\ Status[w] = "busy"
    BY <1>7 DEF Crash, Status, StatusOf
  <2>2. Status' = [Status EXCEPT ![w] = "idle"]
    BY <1>0, <1>7 DEF Crash, Status, StatusOf, TypeOK
  <2>3. CASE file' = file
    BY <2>1, <2>2, <2>3, SameFiles DEF Contract!CFail, Status, StoredIds, DamagedFiles
  <2>4. CASE file' # file
    <3>1. PICK f \in DayFiles : Puts(w, f)
      BY <1>0, <1>7, <2>4, CrashPuts
    <3>2. Contract!CStore(w, f)
      BY <1>0, <2>1, <2>2, <3>1, PutsStore
    <3> QED
      BY <3>2
  <2> QED
    BY <2>3, <2>4
<1>8. CASE UNCHANGED vars
  <2>1. file' = file /\ batch' = batch /\ Status' = Status
    BY <1>8 DEF vars, Status, StatusOf
  <2> QED
    BY <2>1, SameFiles DEF Contract!cvars, Status, StoredIds, DamagedFiles
<1> QED
  BY <1>1, <1>2, <1>3, <1>4, <1>5, <1>6, <1>7, <1>8
     DEF Next, Call, Step, Interrupt, Contract!CNext

\* Every step of Write, interrupted or not and whatever other writers do
\* meanwhile, is a step the contract allows or no step at all; in particular a
\* call returns without error only when each of its events can be read back or
\* its file reports damage (store.Write).
THEOREM StoreImplementsContract == Spec => ImplementsContract
BY InitIsContract, StepIsContract, CallInvInit, CallInvStep, NextIsAny, PTL
   DEF Spec, ImplementsContract, Contract!CSpec

-----------------------------------------------------------------------------
(* A query returns what its period holds.                                  *)

\* An instant lies in its day.
LEMMA DayHoldsInstant ==
  ASSUME NEW t \in Int
  PROVE  /\ DayOf(t) \in Int
         /\ DayOf(t) * DayTicks <= t
         /\ t < (DayOf(t) + 1) * DayTicks
<1>1. DayOf(t) \in Int /\ DayOf(t) * DayTicks <= t /\ t < DayOf(t) * DayTicks + DayTicks
  BY DayTicksAssumption DEF DayOf
<1>2. (DayOf(t) + 1) * DayTicks = DayOf(t) * DayTicks + DayTicks
  BY <1>1, DayTicksAssumption
<1> QED
  BY <1>1, <1>2

\* The day of an instant in the period is not pruned.
LEMMA SkippedDayIsOutside ==
  ASSUME NEW t \in Int, NEW p \in [start : Int, end : Int], Contains(p, t)
  PROVE  ~SkipDay(DayOf(t), p)
<1> DEFINE first == DayOf(t) * DayTicks
           next == (DayOf(t) + 1) * DayTicks
<1>1. first \in Int /\ next \in Int /\ first <= t /\ t < next
  BY DayHoldsInstant, DayTicksAssumption
<1>2. p.start \in Int /\ p.end \in Int
  OBVIOUS
<1> HIDE DEF first, next
<1>3. (p.start # ZeroTime => ~(next < p.start)) /\ (p.end # ZeroTime => ~(first >= p.end))
  BY <1>1, <1>2 DEF Contains
<1> QED
  BY <1>3 DEF SkipDay, first, next

LEMMA PlaceIsPruning == PlaceInv => PruningKeepsPeriod
<1> SUFFICES ASSUME PlaceInv, NEW p \in Periods, NEW name \in FileNames
             PROVE  ReadPlaces([period |-> p, product |-> name]) =
                    {y \in UNION {{f} \X DOMAIN file[f].lines : f \in DayFiles} :
                       /\ EventAt(y) # Damaged /\ Contains(p, EventAt(y).time)
                       /\ name # <<>> => Sanitize(EventAt(y).product) = name}
  BY DEF PruningKeepsPeriod
<1> DEFINE q == [period |-> p, product |-> name]
<1>1. p \in [start : Int, end : Int]
  BY TimesAssumption DEF Periods, Ticks, ZeroTime
<1>2. ASSUME NEW f \in DayFiles, NEW i \in DOMAIN file[f].lines, file[f].lines[i] # Damaged,
             Contains(p, file[f].lines[i].time)
      PROVE  ~SkipDay(f.day, p) /\ f.name = Sanitize(file[f].lines[i].product)
  <2> DEFINE e == file[f].lines[i]
  <2>1. e \in Events
    BY <1>2 DEF PlaceInv, TypeInv, TypeOK, Lines
  <2>2. EventFile(e) = f
    BY <1>2 DEF PlaceInv, InPlace
  <2>3. f.day = DayOf(e.time) /\ f.name = Sanitize(e.product)
    BY <2>2 DEF EventFile
  <2>4. e.time \in Int
    BY <2>1, TimesAssumption
  <2> QED
    BY <1>1, <1>2, <2>3, <2>4, SkippedDayIsOutside
<1>3. ASSUME NEW f \in DayFiles, NEW i
      PROVE  <<f, i>> \in ReadFile(f, q) <=>
               /\ i \in DOMAIN file[f].lines /\ file[f].lines[i] # Damaged
               /\ Contains(p, file[f].lines[i].time)
  BY DEF ReadFile
<1>4. \A f \in DayFiles : f \in Opened(q) <=> ~SkipDay(f.day, p) /\ (name # <<>> => f.name = name)
  BY DEF Opened
<1>5. ReadPlaces(q) = UNION {ReadFile(f, q) : f \in Opened(q)} /\ Opened(q) \subseteq DayFiles
  BY DEF ReadPlaces, Opened
<1>6. \A f \in DayFiles : \A y \in ReadFile(f, q) : \E i \in DOMAIN file[f].lines : y = <<f, i>>
  BY DEF ReadFile
<1>7. \A f, i : EventAt(<<f, i>>) = file[f].lines[i]
  BY DEF EventAt
<1> HIDE DEF q
<1>8. ASSUME NEW y \in ReadPlaces(q)
      PROVE  /\ y \in UNION {{f} \X DOMAIN file[f].lines : f \in DayFiles}
             /\ EventAt(y) # Damaged /\ Contains(p, EventAt(y).time)
             /\ name # <<>> => Sanitize(EventAt(y).product) = name
  <2>1. PICK f \in Opened(q) : y \in ReadFile(f, q)
    BY <1>5, <1>8
  <2>2. PICK i \in DOMAIN file[f].lines : y = <<f, i>>
    BY <1>5, <1>6, <2>1
  <2>3. /\ EventAt(y) = file[f].lines[i] /\ f \in DayFiles
        /\ file[f].lines[i] # Damaged /\ Contains(p, file[f].lines[i].time)
    BY <1>3, <1>5, <1>7, <2>1, <2>2
  <2>4. f.name = Sanitize(file[f].lines[i].product)
    BY <1>2, <2>2, <2>3
  <2>5. y \in {f} \X DOMAIN file[f].lines
    BY <2>2
  <2> QED
    BY <1>4, <2>1, <2>3, <2>4, <2>5
<1>9. ASSUME NEW f \in DayFiles, NEW y \in {f} \X DOMAIN file[f].lines,
             EventAt(y) # Damaged, Contains(p, EventAt(y).time),
             name # <<>> => Sanitize(EventAt(y).product) = name
      PROVE  y \in ReadPlaces(q)
  <2>1. PICK i \in DOMAIN file[f].lines : y = <<f, i>>
    BY <1>9
  <2>2. file[f].lines[i] # Damaged /\ Contains(p, file[f].lines[i].time)
    BY <1>7, <1>9, <2>1
  <2>3. y \in ReadFile(f, q)
    BY <1>3, <2>1, <2>2
  <2>4. f \in Opened(q)
    BY <1>2, <1>4, <1>7, <1>9, <2>1, <2>2
  <2> QED
    BY <1>5, <2>3, <2>4
<1> QED
  BY <1>8, <1>9 DEF q

\* "Day directories entirely outside the period are pruned", and only those: for
\* every period and every product that names a file, whatever writers have
\* interrupted or damaged, Read returns each event on disk that is of the product
\* and in the period, and no other (store.Read, skipDay).
THEOREM PruningIsExact == Spec => []PruningKeepsPeriod
BY PlaceInvInit, PlaceInvStep, NextIsAny, PlaceIsPruning, PTL DEF Spec

=============================================================================
