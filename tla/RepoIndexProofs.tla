--------------------------- MODULE RepoIndexProofs ---------------------------
(***************************************************************************)
(* Proofs about RepoIndex, for every tree of paths, every number of        *)
(* goroutines and every number of changes of the disk.                     *)
(***************************************************************************)
EXTENDS RepoIndex, SequenceTheorems, TLAPS

-----------------------------------------------------------------------------
(* Paths and their ancestors.                                              *)

\* A path is among its ancestors, which are paths.
LEMMA AncestorsOfPath ==
  ASSUME NEW p \in Paths
  PROVE  /\ Up[p] \in Seq(Paths)
         /\ 1 \in DOMAIN Up[p] /\ Up[p][1] = p
         /\ p \in Ancestors(p)
         /\ Ancestors(p) \subseteq Paths
<1>1. Up[p] \in Seq(Paths) /\ Up[p] # <<>> /\ Up[p][1] = p
  BY UpAssumption
<1>2. 1 \in DOMAIN Up[p]
  BY <1>1
<1>3. p \in Ancestors(p)
  BY <1>1, <1>2 DEF Ancestors
<1>4. Ancestors(p) \subseteq Paths
  BY <1>1 DEF Ancestors
<1> QED
  BY <1>1, <1>2, <1>3, <1>4

\* The ancestors of the i-th ancestor are those from the i-th on.
LEMMA AncestorsFrom ==
  ASSUME NEW p \in Paths, NEW i \in DOMAIN Up[p]
  PROVE  /\ Up[p][i] \in Paths
         /\ Ancestors(Up[p][i]) \subseteq Ancestors(p)
         /\ \A k \in DOMAIN Up[p] : i <= k => Up[p][k] \in Ancestors(Up[p][i])
<1>1. Up[p] \in Seq(Paths)
  BY UpAssumption
<1>2. Up[p][i] \in Paths
  BY <1>1
<1>3. Up[Up[p][i]] = SubSeq(Up[p], i, Len(Up[p]))
  BY UpAssumption
<1>4. /\ Len(Up[Up[p][i]]) = Len(Up[p]) - i + 1
      /\ DOMAIN Up[Up[p][i]] = 1 .. Len(Up[p]) - i + 1
      /\ \A k \in 1 .. Len(Up[p]) - i + 1 : Up[Up[p][i]][k] = Up[p][i + k - 1]
  BY <1>1, <1>3
<1>5. Ancestors(Up[p][i]) \subseteq Ancestors(p)
  <2> SUFFICES ASSUME NEW k \in 1 .. Len(Up[p]) - i + 1
               PROVE  Up[Up[p][i]][k] \in Ancestors(p)
    BY <1>4 DEF Ancestors
  <2>1. i + k - 1 \in DOMAIN Up[p]
    BY <1>1
  <2> QED
    BY <1>4, <2>1 DEF Ancestors
<1>6. ASSUME NEW k \in DOMAIN Up[p], i <= k
      PROVE  Up[p][k] \in Ancestors(Up[p][i])
  <2>1. k - i + 1 \in 1 .. Len(Up[p]) - i + 1
    BY <1>1, <1>6
  <2>2. Up[Up[p][i]][k - i + 1] = Up[p][k]
    BY <1>1, <1>4, <2>1
  <2> QED
    BY <1>4, <2>1, <2>2 DEF Ancestors
<1> QED
  BY <1>2, <1>5, <1>6

-----------------------------------------------------------------------------
(* Types.                                                                  *)

LEMMA TypeInit == Init => TypeOK
<1> SUFFICES ASSUME Init PROVE TypeOK
  OBVIOUS
<1>1. repos \in [Paths -> Ids \cup {NoId, None}]
  BY DEF Init
<1>2. scanned \in SUBSET Paths
  BY DEF Init, Known
<1>3. overlapped \in BOOLEAN
  BY DEF Init
<1> QED
  BY <1>1, <1>2, <1>3, ChangesAssumption DEF Init, TypeOK

LEMMA TypeStep == TypeOK /\ [Next]_vars => TypeOK'
<1> SUFFICES ASSUME TypeOK, [Next]_vars PROVE TypeOK'
  OBVIOUS
<1>1. ASSUME NEW t \in Threads, NEW p \in Paths, LookupKnown(t, p)
      PROVE  TypeOK'
  <2>1. Ancestors(p) \subseteq Paths /\ 1 \in DOMAIN Up[p]
    BY AncestorsOfPath
  <2> QED
    BY <1>1, <2>1 DEF TypeOK, LookupKnown, Overlap, disk, index, history
<1>2. ASSUME NEW t \in Threads, Walk(t)
      PROVE  TypeOK'
  <2>1. path[t] \in Paths /\ at[t] \in DOMAIN Up[path[t]]
    BY <1>2 DEF TypeOK, Walk
  <2>2. Up[path[t]] \in Seq(Paths)
    BY <2>1, AncestorsOfPath
  <2>3. at[t] < Len(Up[path[t]]) => at[t] + 1 \in DOMAIN Up[path[t]] /\ at[t] + 1 \in Nat
    BY <2>1, <2>2
  <2> QED
    BY <1>2, <2>1, <2>3 DEF TypeOK, Walk, disk, index, history
<1>3. ASSUME NEW t \in Threads, ReadOrigin(t) \/ Add(t) \/ Miss(t)
      PROVE  TypeOK'
  <2>1. path[t] \in Paths /\ at[t] \in DOMAIN Up[path[t]]
    BY <1>3 DEF TypeOK, ReadOrigin, Add, Miss
  <2>2. Here(t) \in Paths
    BY <2>1, AncestorsFrom DEF Here
  <2>3. CASE ReadOrigin(t)
    BY <2>1, <2>2, <2>3 DEF TypeOK, ReadOrigin, disk, index, history
  <2>4. CASE Add(t)
    BY <2>1, <2>2, <2>4 DEF TypeOK, Add, disk, history
  <2>5. CASE Miss(t)
    BY <2>1, <2>5 DEF TypeOK, Miss, disk, history
  <2> QED
    BY <1>3, <2>3, <2>4, <2>5
<1>4. CASE Change
  <2>1. changes' \in 0 .. MaxChanges
    BY <1>4, ChangesAssumption DEF TypeOK, Change
  <2> QED
    BY <1>4, <2>1 DEF TypeOK, Change, index, threads, history
<1>5. CASE UNCHANGED vars
  BY <1>5 DEF TypeOK, vars, disk, index, threads, history
<1> QED
  BY <1>1, <1>2, <1>3, <1>4, <1>5 DEF Next, ThreadStep

\* Every reachable state is well typed; in particular the walk of Lookup never
\* leaves the path it was given (repoindex.go, Lookup).
THEOREM TypeCorrect == Spec => []TypeOK
<1> QED
  BY TypeInit, TypeStep, PTL DEF Spec

-----------------------------------------------------------------------------
(* What Add does to the known roots.                                       *)

LEMMA AddKnows ==
  ASSUME TypeOK, NEW t \in Threads, Add(t)
  PROVE  /\ path[t] \in Paths /\ at[t] \in DOMAIN Up[path[t]] /\ Here(t) \in Paths
         /\ Known' \subseteq Known \cup {Here(t)}
         /\ Known \subseteq Known' \cup {Here(t)}
         /\ \A r \in Paths : r # Here(t) => repos'[r] = repos[r]
         /\ repos'[Here(t)] = url[t]
<1>1. path[t] \in Paths /\ at[t] \in DOMAIN Up[path[t]]
  BY DEF TypeOK, Add
<1>2. Here(t) \in Paths
  BY <1>1, AncestorsFrom DEF Here
<1>3. repos' = [repos EXCEPT ![Here(t)] = url[t]] /\ repos \in [Paths -> Ids \cup {NoId, None}]
  BY DEF TypeOK, Add
<1> QED
  BY <1>1, <1>2, <1>3 DEF Known

-----------------------------------------------------------------------------
(* Nested repositories stay hidden.  A lookup that gets as far as the disk *)
(* has no scanned root above its path; the scanned roots stay known; hence *)
(* what it finds lies below none of them.                                  *)

Outside == \A t \in Threads : pc[t] # "idle" => Ancestors(path[t]) \cap scanned = {}

HiddenInv == TypeOK /\ scanned \subseteq Known /\ Outside /\ NestedStayHidden

LEMMA HiddenInit == Init => HiddenInv
BY TypeInit DEF Init, HiddenInv, Outside, NestedStayHidden

LEMMA HiddenStep == HiddenInv /\ [Next]_vars => HiddenInv'
<1> SUFFICES ASSUME HiddenInv, [Next]_vars PROVE HiddenInv'
  OBVIOUS
<1>0. TypeOK /\ TypeOK'
  BY TypeStep DEF HiddenInv
<1>1. ASSUME NEW t \in Threads, NEW p \in Paths, LookupKnown(t, p)
      PROVE  HiddenInv'
  <2>1. repos' = repos /\ scanned' = scanned /\ Known' = Known
    BY <1>1 DEF LookupKnown, index, Known
  <2>2. pc'[t] # "idle" => path'[t] = p /\ Ancestors(p) \cap Known = {}
    BY <1>0, <1>1 DEF LookupKnown, TypeOK
  <2>3. \A u \in Threads : u # t => pc'[u] = pc[u] /\ path'[u] = path[u]
    BY <1>0, <1>1 DEF LookupKnown, TypeOK
  <2>4. Outside'
    BY <2>1, <2>2, <2>3 DEF HiddenInv, Outside, Ancestors
  <2> QED
    BY <1>0, <2>1, <2>4 DEF HiddenInv, NestedStayHidden, Ancestors
<1>2. ASSUME NEW t \in Threads, Walk(t) \/ ReadOrigin(t) \/ Miss(t)
      PROVE  HiddenInv'
  <2>1. repos' = repos /\ scanned' = scanned /\ Known' = Known /\ path' = path
    BY <1>2 DEF Walk, ReadOrigin, Miss, index, history, Known
  <2>2. \A u \in Threads : pc'[u] # "idle" => pc[u] # "idle"
    BY <1>0, <1>2 DEF Walk, ReadOrigin, Miss, TypeOK
  <2> QED
    BY <1>0, <2>1, <2>2 DEF HiddenInv, Outside, NestedStayHidden, Ancestors
<1>3. ASSUME NEW t \in Threads, Add(t)
      PROVE  HiddenInv'
  <2>1. scanned' = scanned /\ path' = path
    BY <1>3 DEF Add, history
  <2>2. \A u \in Threads : pc'[u] # "idle" => pc[u] # "idle"
    BY <1>0, <1>3 DEF Add, TypeOK
  <2>3. Ancestors(Here(t)) \cap scanned = {}
    <3>1. Ancestors(path[t]) \cap scanned = {}
      BY <1>3 DEF HiddenInv, Outside, Add
    <3>2. Ancestors(Here(t)) \subseteq Ancestors(path[t])
      BY <1>0, <1>3, AddKnows, AncestorsFrom DEF Here
    <3> QED
      BY <3>1, <3>2
  <2>4. Here(t) \in Ancestors(Here(t))
    BY <1>0, <1>3, AddKnows, AncestorsOfPath
  <2>5. scanned \subseteq Known'
    BY <1>0, <1>3, <2>3, <2>4, AddKnows DEF HiddenInv
  <2>6. NestedStayHidden'
    BY <1>0, <1>3, <2>1, <2>3, AddKnows DEF HiddenInv, NestedStayHidden, Ancestors
  <2>7. Outside'
    BY <2>1, <2>2 DEF HiddenInv, Outside, Ancestors
  <2> QED
    BY <1>0, <2>1, <2>5, <2>6, <2>7 DEF HiddenInv
<1>4. CASE Change \/ UNCHANGED vars
  <2>1. /\ repos' = repos /\ scanned' = scanned /\ path' = path /\ pc' = pc
        /\ Known' = Known
    BY <1>4 DEF Change, vars, index, threads, history, Known
  <2> QED
    BY <1>0, <2>1 DEF HiddenInv, Outside, NestedStayHidden, Ancestors
<1> QED
  BY <1>1, <1>2, <1>3, <1>4 DEF Next, ThreadStep

\* A checkout nested in a scanned repository never becomes a repository of its
\* own, whatever is looked up, by however many goroutines at once, and however
\* repositories come and go meanwhile (NewRepoIndex, scan, Lookup, add).
THEOREM NestedNeverAppear == Spec => []NestedStayHidden
<1>1. HiddenInv => NestedStayHidden
  BY DEF HiddenInv
<1> QED
  BY <1>1, HiddenInit, HiddenStep, PTL DEF Spec

-----------------------------------------------------------------------------
(* Lookups that have taken turns.  Between the moment a lookup finds no    *)
(* known root above its path and the moment it adds one no other lookup    *)
(* adds any, so the new root has no known root above it and comes between  *)
(* no path and its answer.                                                 *)

Unknown == \A t \in Threads : pc[t] # "idle" => Ancestors(path[t]) \cap Known = {}

Alone == \A t, u \in Threads : pc[t] # "idle" /\ pc[u] # "idle" => t = u

TurnInv == TypeOK /\ (~overlapped => Alone /\ Unknown)

LEMMA TurnStep == TurnInv /\ [Next]_vars => TurnInv'
<1> SUFFICES ASSUME TurnInv, [Next]_vars, ~overlapped'
             PROVE  Alone' /\ Unknown'
  BY TypeStep DEF TurnInv
<1>0. TypeOK /\ TypeOK' /\ Alone /\ Unknown
  <2>1. TypeOK /\ TypeOK'
    BY TypeStep DEF TurnInv
  <2>2. ~overlapped
    BY DEF Next, ThreadStep, LookupKnown, Overlap, Walk, ReadOrigin, Add, Miss, Change, vars, history
  <2> QED
    BY <2>1, <2>2 DEF TurnInv
<1>1. ASSUME NEW t \in Threads, NEW p \in Paths, LookupKnown(t, p)
      PROVE  Alone' /\ Unknown'
  <2>1. Known' = Known
    BY <1>1 DEF LookupKnown, index, Known
  <2>2. pc'[t] # "idle" => path'[t] = p /\ Ancestors(p) \cap Known = {}
    BY <1>0, <1>1 DEF LookupKnown, TypeOK
  <2>3. \A u \in Threads : u # t => pc'[u] = pc[u] /\ path'[u] = path[u]
    BY <1>0, <1>1 DEF LookupKnown, TypeOK
  <2>4. pc'[t] # "idle" => \A u \in Threads \ {t} : pc[u] = "idle"
    BY <1>1 DEF LookupKnown, Overlap
  <2> QED
    BY <1>0, <2>1, <2>2, <2>3, <2>4 DEF Alone, Unknown, Ancestors
<1>2. ASSUME NEW t \in Threads, Walk(t) \/ ReadOrigin(t) \/ Miss(t)
      PROVE  Alone' /\ Unknown'
  <2>1. Known' = Known /\ path' = path
    BY <1>2 DEF Walk, ReadOrigin, Miss, index, history, Known
  <2>2. \A u \in Threads : pc'[u] # "idle" => pc[u] # "idle"
    BY <1>0, <1>2 DEF Walk, ReadOrigin, Miss, TypeOK
  <2> QED
    BY <1>0, <2>1, <2>2 DEF Alone, Unknown, Ancestors
<1>3. ASSUME NEW t \in Threads, Add(t)
      PROVE  Alone' /\ Unknown'
  <2>1. pc'[t] = "idle" /\ \A u \in Threads : u # t => pc'[u] = pc[u]
    BY <1>0, <1>3 DEF Add, TypeOK
  <2>2. \A u \in Threads : u # t => pc[u] = "idle"
    BY <1>0, <1>3 DEF Add, Alone
  <2> QED
    BY <2>1, <2>2 DEF Alone, Unknown
<1>4. CASE Change \/ UNCHANGED vars
  <2>1. Known' = Known /\ path' = path /\ pc' = pc
    BY <1>4 DEF Change, vars, index, threads, history, Known
  <2> QED
    BY <1>0, <2>1 DEF Alone, Unknown, Ancestors
<1> QED
  BY <1>1, <1>2, <1>3, <1>4 DEF Next, ThreadStep

LEMMA TurnKeepsAnswers ==
  ASSUME TurnInv, [Next]_vars, ~overlapped, NEW p \in Paths, NEW r \in Paths, IsNearest(r, p, Known)
  PROVE  IsNearest(r, p, Known')
<1>0. TypeOK
  BY DEF TurnInv
<1>1. CASE Known' = Known
  BY <1>1
<1>2. ASSUME NEW t \in Threads, Add(t)
      PROVE  IsNearest(r, p, Known')
  <2>1. PICK i \in DOMAIN Up[p] : /\ r = Up[p][i] /\ r \in Known
                                  /\ \A j \in 1 .. i - 1 : Up[p][j] \notin Known
    BY DEF IsNearest
  <2>2. Ancestors(Here(t)) \cap Known = {}
    <3>1. Ancestors(path[t]) \cap Known = {}
      BY <1>2 DEF TurnInv, Unknown, Add
    <3>2. Ancestors(Here(t)) \subseteq Ancestors(path[t])
      BY <1>0, <1>2, AddKnows, AncestorsFrom DEF Here
    <3> QED
      BY <3>1, <3>2
  <2>3. r # Here(t)
    BY <1>0, <1>2, <2>1, <2>2, AddKnows, AncestorsOfPath
  <2>4. r \in Known'
    BY <1>0, <1>2, <2>1, <2>3, AddKnows
  <2>5. ASSUME NEW j \in 1 .. i - 1
        PROVE  Up[p][j] # Here(t)
    <3>1. Up[p] \in Seq(Paths)
      BY AncestorsOfPath
    <3>2. j \in DOMAIN Up[p] /\ j <= i
      BY <3>1
    <3>3. Up[p][i] \in Ancestors(Up[p][j])
      BY <3>2, AncestorsFrom
    <3> QED
      BY <2>1, <2>2, <3>3
  <2> QED
    BY <1>0, <1>2, <2>1, <2>4, <2>5, AddKnows DEF IsNearest
<1>3. Known' = Known \/ \E t \in Threads : Add(t)
  BY DEF Next, ThreadStep, LookupKnown, Walk, ReadOrigin, Miss, Change, vars, index, threads, Known
<1> QED
  BY <1>1, <1>2, <1>3

\* As long as no two lookups have overlapped, the answer to a path stays for good
\* once it has one: neither later lookups nor changes of the disk make it another
\* root (Lookup).
THEOREM TurnsAnswerAlike == Spec => AnswersStay
<1>1. Init => TurnInv
  BY TypeInit DEF Init, TurnInv, Alone, Unknown
<1>2. TurnInv /\ [Next]_vars => TurnInv'
  BY TurnStep
<1>3. TurnInv /\ [Next]_vars =>
        [~overlapped => \A p, r \in Paths : IsNearest(r, p, Known) => IsNearest(r, p, Known')]_vars
  BY TurnKeepsAnswers
<1> QED
  BY <1>1, <1>2, <1>3, PTL DEF Spec, AnswersStay

-----------------------------------------------------------------------------
(* A disk that stays as it is.  Every index entry is true of the disk, and *)
(* so is what a lookup has seen so far.                                    *)

IndexIsTrue ==
  /\ \A r \in Known : r \in git /\ repos[r] = origin[r]
  /\ \A p \in miss : Ancestors(p) \cap git = {}

SeenIsTrue == \A t \in Threads :
  /\ pc[t] = "walk" => \A j \in 1 .. at[t] - 1 : Up[path[t]][j] \notin git
  /\ pc[t] = "miss" => Ancestors(path[t]) \cap git = {}
  /\ pc[t] \in {"read", "add"} => Here(t) \in git
  /\ pc[t] = "add" => url[t] = origin[Here(t)]

DiskInv == TypeOK /\ (changes = 0 => IndexIsTrue /\ SeenIsTrue /\ AnswersHold)

LEMMA DiskInit == Init => DiskInv
<1> SUFFICES ASSUME Init PROVE DiskInv
  OBVIOUS
<1>1. \A r \in Roots : Found(r) \subseteq git
  BY DEF Found
<1>2. \A r \in Known : r \in git /\ repos[r] = origin[r]
  BY <1>1 DEF Init, Known
<1> QED
  BY <1>2, TypeInit DEF Init, DiskInv, IndexIsTrue, SeenIsTrue, AnswersHold

LEMMA DiskStep == DiskInv /\ [Next]_vars => DiskInv'
<1> SUFFICES ASSUME DiskInv, [Next]_vars, changes' = 0
             PROVE  IndexIsTrue' /\ SeenIsTrue' /\ AnswersHold'
  BY TypeStep DEF DiskInv
<1>a. TypeOK /\ TypeOK'
  BY TypeStep DEF DiskInv
<1>b. ~Change /\ changes = 0
  <2>1. ~Change
    BY <1>a DEF Change, TypeOK
  <2>2. changes' = changes
    BY <2>1 DEF Next, ThreadStep, LookupKnown, Walk, ReadOrigin, Add, Miss, vars, disk
  <2> QED
    BY <2>1, <2>2
<1>0. TypeOK /\ TypeOK' /\ IndexIsTrue /\ SeenIsTrue /\ AnswersHold
  BY <1>a, <1>b DEF DiskInv
<1>1. ASSUME NEW t \in Threads, NEW p \in Paths, LookupKnown(t, p)
      PROVE  IndexIsTrue' /\ SeenIsTrue' /\ AnswersHold'
  <2>1. git' = git /\ origin' = origin /\ repos' = repos /\ miss' = miss /\ Known' = Known
    BY <1>1 DEF LookupKnown, disk, index, Known
  <2>2. \A u \in Threads : u # t =>
          pc'[u] = pc[u] /\ path'[u] = path[u] /\ at'[u] = at[u] /\ url'[u] = url[u] /\ answer'[u] = answer[u]
    BY <1>0, <1>1 DEF LookupKnown, TypeOK
  <2>3. /\ path'[t] = p
        /\ \/ pc'[t] = "idle" /\ \E r \in Ancestors(p) : IsNearest(r, p, Known) /\ answer'[t] = r
           \/ pc'[t] = "idle" /\ p \in miss /\ answer'[t] = None
           \/ pc'[t] = "walk" /\ at'[t] = 1
    BY <1>0, <1>1 DEF LookupKnown, TypeOK
  <2>4. IndexIsTrue'
    BY <1>0, <2>1 DEF IndexIsTrue, Ancestors
  <2>5. SeenIsTrue'
    BY <1>0, <2>1, <2>2, <2>3 DEF SeenIsTrue, Here, Ancestors
  <2>6. \A r \in Ancestors(p) : r \in Paths
    BY AncestorsOfPath
  <2>7. AnswersHold'
    BY <1>0, <2>1, <2>2, <2>3, <2>6, NoneAssumption
       DEF AnswersHold, IndexIsTrue, IsNearest, Ancestors
  <2> QED
    BY <2>4, <2>5, <2>7
<1>2. ASSUME NEW t \in Threads, Walk(t)
      PROVE  IndexIsTrue' /\ SeenIsTrue' /\ AnswersHold'
  <2>1. /\ git' = git /\ origin' = origin /\ repos' = repos /\ miss' = miss /\ Known' = Known
        /\ path' = path /\ url' = url /\ answer' = answer
    BY <1>2 DEF Walk, disk, index, Known
  <2>2. \A u \in Threads : u # t => pc'[u] = pc[u] /\ at'[u] = at[u]
    BY <1>0, <1>2 DEF Walk, TypeOK
  <2>3. path[t] \in Paths /\ at[t] \in DOMAIN Up[path[t]] /\ Up[path[t]] \in Seq(Paths)
    BY <1>0, <1>2, AncestorsOfPath DEF Walk, TypeOK
  <2>4. \A j \in 1 .. at[t] - 1 : Up[path[t]][j] \notin git
    BY <1>0, <1>2 DEF Walk, SeenIsTrue
  <2>5. \/ pc'[t] = "read" /\ at'[t] = at[t] /\ Here(t) \in git
        \/ pc'[t] = "walk" /\ at'[t] = at[t] + 1 /\ Here(t) \notin git
        \/ pc'[t] = "miss" /\ at'[t] = at[t] /\ Here(t) \notin git /\ at[t] = Len(Up[path[t]])
    BY <1>0, <1>2 DEF Walk, TypeOK
  <2>6. pc'[t] = "walk" => \A j \in 1 .. at'[t] - 1 : Up[path[t]][j] \notin git
    BY <2>3, <2>4, <2>5 DEF Here
  <2>7. pc'[t] = "miss" => Ancestors(path[t]) \cap git = {}
    BY <2>3, <2>4, <2>5 DEF Here, Ancestors
  <2>8. IndexIsTrue'
    BY <1>0, <2>1 DEF IndexIsTrue, Ancestors
  <2>9. AnswersHold'
    <3>1. \A u \in Threads : pc'[u] = "idle" => pc[u] = "idle"
      BY <2>2, <2>5
    <3> QED
      BY <1>0, <2>1, <3>1 DEF AnswersHold, Ancestors
  <2>10. SeenIsTrue'
    <3>1. pc'[t] # "add" /\ (pc'[t] = "read" => Here(t)' \in git)
      BY <2>1, <2>5 DEF Here
    <3>2. Ancestors(path[t])' = Ancestors(path[t])
      BY <2>1 DEF Ancestors
    <3>3. \A u \in Threads : u # t => Here(u)' = Here(u)
      BY <2>1, <2>2 DEF Here
    <3> QED
      BY <1>0, <2>1, <2>2, <2>5, <2>6, <2>7, <3>1, <3>2, <3>3 DEF SeenIsTrue, Ancestors
  <2> QED
    BY <2>8, <2>9, <2>10
<1>3. ASSUME NEW t \in Threads, ReadOrigin(t)
      PROVE  IndexIsTrue' /\ SeenIsTrue' /\ AnswersHold'
  <2>1. /\ git' = git /\ origin' = origin /\ repos' = repos /\ miss' = miss /\ Known' = Known
        /\ path' = path /\ at' = at /\ answer' = answer
    BY <1>3 DEF ReadOrigin, disk, index, Known
  <2>2. \A u \in Threads : u # t => pc'[u] = pc[u] /\ url'[u] = url[u]
    BY <1>0, <1>3 DEF ReadOrigin, TypeOK
  <2>3. pc'[t] = "add" /\ url'[t] = origin[Here(t)] /\ Here(t) \in git
    BY <1>0, <1>3 DEF ReadOrigin, TypeOK, SeenIsTrue
  <2>4. IndexIsTrue'
    BY <1>0, <2>1 DEF IndexIsTrue, Ancestors
  <2>5. SeenIsTrue'
    BY <1>0, <2>1, <2>2, <2>3 DEF SeenIsTrue, Here, Ancestors
  <2>6. AnswersHold'
    BY <1>0, <2>1, <2>2, <2>3 DEF AnswersHold, Ancestors
  <2> QED
    BY <2>4, <2>5, <2>6
<1>4. ASSUME NEW t \in Threads, Add(t)
      PROVE  IndexIsTrue' /\ SeenIsTrue' /\ AnswersHold'
  <2>1. git' = git /\ origin' = origin /\ miss' = miss /\ path' = path
    BY <1>4 DEF Add, disk
  <2>2. \A u \in Threads : u # t =>
          pc'[u] = pc[u] /\ at'[u] = at[u] /\ url'[u] = url[u] /\ answer'[u] = answer[u]
    BY <1>0, <1>4 DEF Add, TypeOK
  <2>3. pc'[t] = "idle" /\ answer'[t] = Here(t) /\ Here(t) \in git /\ url[t] = origin[Here(t)]
    BY <1>0, <1>4 DEF Add, TypeOK, SeenIsTrue
  <2>4. Here(t) \in Ancestors(path[t]) /\ Here(t) # None
    BY <1>0, <1>4, AddKnows, NoneAssumption DEF Here, Ancestors
  <2>5. IndexIsTrue'
    BY <1>0, <1>4, <2>1, <2>3, AddKnows DEF IndexIsTrue, Ancestors, Known
  <2>6. SeenIsTrue'
    BY <1>0, <2>1, <2>2, <2>3 DEF SeenIsTrue, Here, Ancestors
  <2>7. \A r \in Paths : repos[r] = origin[r] => repos'[r] = origin[r]
    BY <1>0, <1>4, <2>3, AddKnows
  <2>8. AnswersHold'
    <3> SUFFICES ASSUME NEW u \in Threads, pc'[u] = "idle", path[u] # None
                 PROVE  IF answer'[u] = None THEN Ancestors(path[u]) \cap git = {}
                        ELSE /\ answer'[u] \in Ancestors(path[u]) \cap git
                             /\ repos'[answer'[u]] = origin[answer'[u]]
      BY <2>1 DEF AnswersHold, Ancestors
    <3>1. CASE u = t
      BY <1>0, <1>4, <2>3, <2>4, <3>1, AddKnows
    <3>2. CASE u # t
      <4>1. path[u] \in Paths
        BY <1>0 DEF TypeOK
      <4> QED
        BY <1>0, <2>2, <2>7, <3>2, <4>1, AncestorsOfPath DEF AnswersHold
    <3> QED
      BY <3>1, <3>2
  <2> QED
    BY <2>5, <2>6, <2>8
<1>5. ASSUME NEW t \in Threads, Miss(t)
      PROVE  IndexIsTrue' /\ SeenIsTrue' /\ AnswersHold'
  <2>1. /\ git' = git /\ origin' = origin /\ repos' = repos /\ path' = path /\ url' = url
        /\ Known' = Known /\ miss' = miss \cup {path[t]}
    BY <1>5 DEF Miss, disk, Known
  <2>2. \A u \in Threads : u # t => pc'[u] = pc[u] /\ at'[u] = at[u] /\ answer'[u] = answer[u]
    BY <1>0, <1>5 DEF Miss, TypeOK
  <2>3. pc'[t] = "idle" /\ answer'[t] = None /\ Ancestors(path[t]) \cap git = {}
    BY <1>0, <1>5 DEF Miss, TypeOK, SeenIsTrue
  <2>4. IndexIsTrue'
    BY <1>0, <2>1, <2>3 DEF IndexIsTrue, Ancestors
  <2>5. SeenIsTrue'
    BY <1>0, <2>1, <2>2, <2>3 DEF SeenIsTrue, Here, Ancestors
  <2>6. AnswersHold'
    BY <1>0, <2>1, <2>2, <2>3 DEF AnswersHold, Ancestors
  <2> QED
    BY <2>4, <2>5, <2>6
<1>6. CASE UNCHANGED vars
  BY <1>0, <1>6 DEF DiskInv, IndexIsTrue, SeenIsTrue, AnswersHold, Here, Ancestors, Known,
                    vars, disk, index, threads, history
<1> QED
  BY <1>0, <1>1, <1>2, <1>3, <1>4, <1>5, <1>6, <1>b DEF Next, ThreadStep

\* As long as no repository has come, gone or changed its remote since the scan,
\* any number of overlapping lookups answer what is on disk: the path lies in no
\* repository, or in the one returned, with the id its remote has (NewRepoIndex,
\* Lookup, add).
THEOREM AnswersAreTrue == Spec => []AnswersMatchDisk
<1>1. DiskInv => AnswersMatchDisk
  BY DEF DiskInv, AnswersMatchDisk
<1> QED
  BY <1>1, DiskInit, DiskStep, PTL DEF Spec

=============================================================================
