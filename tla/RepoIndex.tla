------------------------------ MODULE RepoIndex ------------------------------
(***************************************************************************)
(* The repository index: NewRepoIndex scans the workspace roots, then any  *)
(* number of goroutines look paths up.  The maps are guarded by a lock,    *)
(* but Lookup gives it up between reading the maps, walking the disk and   *)
(* writing what it found, and the disk changes meanwhile.                  *)
(*                                                                         *)
(* A path is given by Up: the path itself, its directory, and so on to the *)
(* root of the file system.                                                *)
(***************************************************************************)
EXTENDS Integers, Sequences, FiniteSets

CONSTANTS
  Paths,        \* absolute, clean paths
  Up,           \* each path followed by its ancestors, nearest first
  Skipped,      \* paths named node_modules, vendor or with a leading dot
  Roots,        \* the workspace roots that exist
  MaxDepth,     \* levels searched below each root
  Threads,
  Ids,          \* what an origin remote normalises to
  NoId,         \* no usable remote
  None,
  MaxChanges    \* bound on changes of the disk

ASSUME UpAssumption ==
  /\ Up \in [Paths -> Seq(Paths)]
  /\ \A p \in Paths : Up[p] # <<>> /\ Up[p][1] = p
  /\ \A p \in Paths : \A i \in DOMAIN Up[p] :
       Up[Up[p][i]] = SubSeq(Up[p], i, Len(Up[p]))
ASSUME ChangesAssumption == MaxChanges \in Nat
ASSUME NoneAssumption == None \notin Paths

VARIABLES
  git,          \* disk: the directories that hold a .git entry
  origin,       \* disk: the id of each one's origin remote
  repos,        \* index: root -> id, None when unknown
  miss,         \* index: paths found to lie outside every repository
  pc, path, at, \* of each thread: where it is, what it looks up, how far it walked
  url,          \* the id it read, not yet stored
  answer,       \* what its last call returned: a root or None
  changes,
  scanned,      \* history: the roots NewRepoIndex found
  overlapped    \* history: a lookup has begun to walk while another did

disk == <<git, origin, changes>>
index == <<repos, miss>>
threads == <<pc, path, at, url, answer>>
history == <<scanned, overlapped>>
vars == <<disk, index, threads, history>>

Ancestors(p) == {Up[p][i] : i \in DOMAIN Up[p]}
Known == {r \in Paths : repos[r] # None}

\* d is the first member of S on the way up from p.
IsNearest(d, p, S) ==
  \E i \in DOMAIN Up[p] : /\ d = Up[p][i] /\ d \in S
                          /\ \A j \in 1 .. i - 1 : Up[p][j] \notin S

-----------------------------------------------------------------------------
\* What scan(root) adds: the outermost repositories at most MaxDepth levels
\* below the root, on no way through a skipped directory.
Found(r) ==
  {d \in git : \E k \in DOMAIN Up[d] :
     /\ Up[d][k] = r /\ k - 1 <= MaxDepth
     /\ \A j \in 1 .. k - 1 : Up[d][j] \notin Skipped
     /\ \A j \in 2 .. k : Up[d][j] \notin git}

\* The index is complete before it is shared.
Init ==
  /\ git \in SUBSET Paths
  /\ origin \in [Paths -> Ids \cup {NoId}]
  /\ repos = [p \in Paths |-> IF p \in UNION {Found(r) : r \in Roots} THEN origin[p] ELSE None]
  /\ miss = {}
  /\ pc = [t \in Threads |-> "idle"]
  /\ path = [t \in Threads |-> None]
  /\ at = [t \in Threads |-> 0]
  /\ url = [t \in Threads |-> None]
  /\ answer = [t \in Threads |-> None]
  /\ changes = 0
  /\ scanned = Known
  /\ overlapped = FALSE

Overlap(t) == overlapped' = (overlapped \/ (pc'[t] # "idle" /\ \E u \in Threads \ {t} : pc[u] # "idle"))

\* Looks for the path itself among the known roots, not for its ancestors.
LookupKnownExact(t, p) ==
  /\ pc[t] = "idle"
  /\ path' = [path EXCEPT ![t] = p]
  /\ \/ /\ p \in Known \cup miss
        /\ answer' = [answer EXCEPT ![t] = IF p \in Known THEN p ELSE None]
        /\ UNCHANGED <<pc, at>>
     \/ /\ p \notin Known \cup miss
        /\ pc' = [pc EXCEPT ![t] = "walk"]
        /\ at' = [at EXCEPT ![t] = 1]
        /\ UNCHANGED answer
  /\ Overlap(t)
  /\ UNCHANGED <<disk, index, scanned, url>>

\* Lookup under the read lock: the deepest known root, a known miss, or neither.
LookupKnown(t, p) ==
  /\ pc[t] = "idle"
  /\ path' = [path EXCEPT ![t] = p]
  /\ \/ \E r \in Ancestors(p) :
          /\ IsNearest(r, p, Known)
          /\ answer' = [answer EXCEPT ![t] = r]
          /\ UNCHANGED <<pc, at>>
     \/ /\ Ancestors(p) \cap Known = {} /\ p \in miss
        /\ answer' = [answer EXCEPT ![t] = None]
        /\ UNCHANGED <<pc, at>>
     \/ /\ Ancestors(p) \cap Known = {} /\ p \notin miss
        /\ pc' = [pc EXCEPT ![t] = "walk"]
        /\ at' = [at EXCEPT ![t] = 1]
        /\ UNCHANGED answer
  /\ Overlap(t)
  /\ UNCHANGED <<disk, index, scanned, url>>

Here(t) == Up[path[t]][at[t]]

\* Goes on above the root of the file system.
WalkOn(t) ==
  /\ pc[t] = "walk"
  /\ \/ /\ Here(t) \in git
        /\ pc' = [pc EXCEPT ![t] = "read"] /\ UNCHANGED at
     \/ /\ Here(t) \notin git
        /\ at' = [at EXCEPT ![t] = @ + 1] /\ UNCHANGED pc
  /\ UNCHANGED <<disk, index, history, path, url, answer>>

\* hasGit of the next directory up.
Walk(t) ==
  /\ pc[t] = "walk"
  /\ \/ /\ Here(t) \in git
        /\ pc' = [pc EXCEPT ![t] = "read"] /\ UNCHANGED at
     \/ /\ Here(t) \notin git /\ at[t] < Len(Up[path[t]])
        /\ at' = [at EXCEPT ![t] = @ + 1] /\ UNCHANGED pc
     \/ /\ Here(t) \notin git /\ at[t] = Len(Up[path[t]])
        /\ pc' = [pc EXCEPT ![t] = "miss"] /\ UNCHANGED at
  /\ UNCHANGED <<disk, index, history, path, url, answer>>

\* add: the remote is read before the lock is taken; a repository that has gone
\* meanwhile has none.
ReadOrigin(t) ==
  /\ pc[t] = "read"
  /\ url' = [url EXCEPT ![t] = IF Here(t) \in git THEN origin[Here(t)] ELSE NoId]
  /\ pc' = [pc EXCEPT ![t] = "add"]
  /\ UNCHANGED <<disk, index, history, path, at, answer>>

\* Records the path looked up in place of the root found.
AddPath(t) ==
  /\ pc[t] = "add"
  /\ repos' = [repos EXCEPT ![path[t]] = url[t]]
  /\ answer' = [answer EXCEPT ![t] = Here(t)]
  /\ pc' = [pc EXCEPT ![t] = "idle"]
  /\ url' = [url EXCEPT ![t] = None]
  /\ at' = [at EXCEPT ![t] = 0]
  /\ UNCHANGED <<disk, miss, path, history>>

Add(t) ==
  /\ pc[t] = "add"
  /\ repos' = [repos EXCEPT ![Here(t)] = url[t]]
  /\ answer' = [answer EXCEPT ![t] = Here(t)]
  /\ pc' = [pc EXCEPT ![t] = "idle"]
  /\ url' = [url EXCEPT ![t] = None]
  /\ at' = [at EXCEPT ![t] = 0]
  /\ UNCHANGED <<disk, miss, path, history>>

Miss(t) ==
  /\ pc[t] = "miss"
  /\ miss' = miss \cup {path[t]}
  /\ answer' = [answer EXCEPT ![t] = None]
  /\ pc' = [pc EXCEPT ![t] = "idle"]
  /\ at' = [at EXCEPT ![t] = 0]
  /\ UNCHANGED <<disk, repos, path, url, history>>

\* A developer creates, clones, renames or deletes repositories.
Change ==
  /\ changes < MaxChanges
  /\ changes' = changes + 1
  /\ \/ \E p \in Paths : git' \in {git \cup {p}, git \ {p}} /\ UNCHANGED origin
     \/ \E p \in Paths, id \in Ids : origin' = [origin EXCEPT ![p] = id] /\ UNCHANGED git
  /\ UNCHANGED <<index, threads, history>>

ThreadStep(t) ==
  \/ \E p \in Paths : LookupKnown(t, p)
  \/ Walk(t) \/ ReadOrigin(t) \/ Add(t) \/ Miss(t)

Next == Change \/ \E t \in Threads : ThreadStep(t)

Spec == Init /\ [][Next]_vars

-----------------------------------------------------------------------------
TypeOK ==
  /\ git \in SUBSET Paths
  /\ origin \in [Paths -> Ids \cup {NoId}]
  /\ changes \in 0 .. MaxChanges
  /\ repos \in [Paths -> Ids \cup {NoId, None}]
  /\ miss \in SUBSET Paths
  /\ scanned \in SUBSET Paths /\ overlapped \in BOOLEAN
  /\ pc \in [Threads -> {"idle", "walk", "read", "add", "miss"}]
  /\ path \in [Threads -> Paths \cup {None}]
  /\ answer \in [Threads -> Paths \cup {None}]
  /\ url \in [Threads -> Ids \cup {NoId, None}]
  /\ at \in [Threads -> Nat]
  /\ \A t \in Threads : pc[t] # "idle" => path[t] \in Paths /\ at[t] \in DOMAIN Up[path[t]]

\* "nested checkouts such as vendored copies are not mistaken for separate
\* repositories": whatever is looked up, by however many goroutines and while
\* repositories come and go, nothing below a scanned root enters the index.
NestedStayHidden ==
  \A p \in Known : Ancestors(p) \cap scanned # {} => p \in scanned

\* As long as no two lookups have overlapped they give the same root for the same
\* path for good, whatever else they have found and whatever has happened on disk.
AnswersStay ==
  [][~overlapped => \A p, r \in Paths : IsNearest(r, p, Known) => IsNearest(r, p, Known')]_vars

AnswersHold ==
  \A t \in Threads : pc[t] = "idle" /\ path[t] # None =>
    IF answer[t] = None THEN Ancestors(path[t]) \cap git = {}
    ELSE answer[t] \in Ancestors(path[t]) \cap git /\ repos[answer[t]] = origin[answer[t]]

\* As long as the disk is as the scan saw it, overlapping lookups answer what is
\* there: no repository only when no ancestor is one, and a root only with the id
\* of its own remote.
AnswersMatchDisk == changes = 0 => AnswersHold

=============================================================================
