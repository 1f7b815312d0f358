----------------------------- MODULE GitHistory -----------------------------
(***************************************************************************)
(* Importing git history: Collector.Collect runs git in every clone below  *)
(* its roots, Store.Write stores an event per commit.  Meanwhile the owner *)
(* commits, fetches, rewrites history, switches branches and deletes       *)
(* clones, any git command may fail, and the context may end.              *)
(*                                                                         *)
(* A clone is a state of its HEAD: whether it can be opened, the commits   *)
(* reachable, and the branch, None when detached.  Several clones may hold *)
(* the same commit.  The store's day files are those of one writer         *)
(* (DayFile).                                                              *)
(***************************************************************************)
EXTENDS EventFiles, DayFile

CONSTANTS
  Commits,      \* the commits there are, by hash
  Heads,        \* the states each clone may be in, in the order of discovery
  None,         \* no branch, no number, no slug
  KnownAITools, \* signatures: the tool, and the parts of its email
  Spans,        \* the periods asked for
  NoMerges,     \* whether merges are left out
  MaxMoves,     \* bound on the changes of clones
  MaxFaults     \* bound on failed commands and ended contexts

Clones == DOMAIN Heads
CommitDays == {DayOf(Commits[h].time) : h \in DOMAIN Commits}

ASSUME CommitsAssumption ==
  \A h \in DOMAIN Commits : /\ Commits[h].time \in Nat \ {0}
                             /\ DOMAIN Commits[h].coAuthors = 1 .. Len(Commits[h].coAuthors)
                             /\ Len(Commits[h].coAuthors) \in Nat
ASSUME HeadsAssumption ==
  /\ Len(Heads) \in Nat /\ Clones = 1 .. Len(Heads)
  /\ \A c \in Clones : \A s \in Heads[c] : s.reach \subseteq DOMAIN Commits
ASSUME SpansAssumption == \A p \in Spans : p.start \in Nat /\ p.end \in Nat
ASSUME LimitsAssumption == MaxMoves \in Nat /\ MaxFaults \in Nat

VARIABLES
  clones,       \* disk: the state of each clone
  step,         \* the import: "idle", "next", "log", "branch", "origin" or "write"
  span,         \* what it asks for
  repos,        \* the clones it has yet to read, in the order of discovery
  log,          \* the commits the log gave for that one
  branch,       \* and its branch
  events,       \* the events collected of each clone, in the order of clones
  diags,        \* the diagnostics
  ended,        \* the context is done
  unwritten,    \* the days not yet written
  kept,         \* the day files
  moves, faults,
  met,          \* history: the clones the import has discovered
  found,        \* history: what each whose log was read held then
  due,          \* history: those of what was found that had to be stored in whole files
  owed          \* history: what complete imports had to store in whole files

import == <<step, span, repos, log, branch, events, diags, ended, unwritten>>
gvars == <<clones, import, kept, moves, faults, met, found, due, owed>>

Unbounded == [start |-> ZeroTime, end |-> ZeroTime]

-----------------------------------------------------------------------------
(* An email is a user before the "@", which may be "<number>+<slug>", and  *)
(* a host, with capitals or without.                                       *)

GitHubNoreply == "users.noreply.github.com"

Lower(email) == [email EXCEPT !.capitals = FALSE]

\* The number a GitHub noreply address begins with may be any.
IsSignature(sig, email) ==
  \/ sig.email = Lower(email)
  \/ /\ sig.email.number # None /\ sig.email.host = GitHubNoreply
     /\ email.number # None /\ email.slug = sig.email.slug /\ email.host = GitHubNoreply

AIToolByEmail(email) ==
  LET matches == {n \in DOMAIN KnownAITools : IsSignature(KnownAITools[n], email)}
  IN IF matches = {} THEN None ELSE KnownAITools[CHOOSE n \in matches : \A m \in matches : n <= m].tool

\* The tools of a commit's co-authors, each at its first trailer.
AITools(commit) ==
  LET tool(n) == AIToolByEmail(commit.coAuthors[n])
  IN [n \in {k \in DOMAIN commit.coAuthors : tool(k) # None /\ \A m \in 1 .. k - 1 : tool(m) # tool(k)} |-> tool(n)]

-----------------------------------------------------------------------------
(* What a log gives, and what becomes of it.                               *)

\* git's bounds are both inclusive.
Logged(clone, p) ==
  {h \in clone.reach : LET t == Commits[h].time
                       IN /\ p.start # ZeroTime => t >= p.start
                          /\ p.end # ZeroTime => t <= p.end
                          /\ ~(NoMerges /\ Commits[h].merge)}

\* What there is to report of a clone.
Wanted(clone, p) ==
  {h \in clone.reach : Contains(p, Commits[h].time) /\ (NoMerges => ~Commits[h].merge)}

\* Tells the copies in two clones apart.
EventIdOfClone(h, c) == <<"git:commit:", h, c>>

EventId(h, c) == <<"git:commit:", h>>

\* When the change was made, which may be long before it was committed.
EventWhenAuthored(h, c, b) ==
  [id |-> EventId(h, c), type |-> "commit", hash |-> h, time |-> Commits[h].authored,
   author |-> Commits[h].author, tools |-> AITools(Commits[h]), workspace |-> c, branch |-> b]

CommitEvent(h, c, b) ==
  [id |-> EventId(h, c), type |-> "commit", hash |-> h, time |-> Commits[h].time,
   author |-> Commits[h].author, tools |-> AITools(Commits[h]), workspace |-> c, branch |-> b]

\* Trusts git's bounds.
EventsAsLogged(hs, p, c, b) == {CommitEvent(h, c, b) : h \in hs}

\* The commits of a log that are in the period after all; their order does not
\* matter to the store, for their ids differ.
EventsOf(hs, p, c, b) == {CommitEvent(h, c, b) : h \in {g \in hs : Contains(p, Commits[g].time)}}

-----------------------------------------------------------------------------
GInit ==
  /\ clones \in [Clones -> UNION {Heads[c] : c \in Clones}]
  /\ \A c \in Clones : clones[c] \in Heads[c]
  /\ step = "idle" /\ span = Unbounded
  /\ repos = {} /\ log = {} /\ branch = None
  /\ events = <<>> /\ diags = {}
  /\ ended = FALSE
  /\ unwritten = {}
  /\ kept = [d \in CommitDays |-> EmptyDay]
  /\ moves = 0 /\ faults = 0
  /\ met = {} /\ found = <<>>
  /\ due = {} /\ owed = {}

\* The owner commits, fetches, amends, switches, breaks or deletes.
Move(c) ==
  /\ moves < MaxMoves
  /\ moves' = moves + 1
  /\ \E s \in Heads[c] \ {clones[c]} : clones' = [clones EXCEPT ![c] = s]
  /\ UNCHANGED <<import, kept, faults, met, found, due, owed>>

\* The context of the import ends.
EndContext ==
  /\ step \in {"next", "log", "branch", "origin"} /\ ~ended
  /\ faults < MaxFaults
  /\ faults' = faults + 1
  /\ ended' = TRUE
  /\ UNCHANGED <<clones, step, span, repos, log, branch, events, diags, unwritten, kept, moves, met, found, due, owed>>

\* Discover finds the clones that are there; the import ends when it cannot.
Discover(p) ==
  /\ step = "idle"
  /\ step' = "next"
  /\ span' = p
  /\ repos' = {c \in Clones : clones[c].there}
  /\ met' = repos'
  /\ UNCHANGED <<clones, log, branch, events, diags, ended, unwritten, kept, moves, faults, found, due, owed>>

\* The import returns, and what it held is gone.
Finished ==
  /\ step' = "idle" /\ span' = Unbounded
  /\ repos' = {} /\ log' = {} /\ branch' = None
  /\ events' = <<>> /\ diags' = {}
  /\ ended' = FALSE
  /\ unwritten' = {}
  /\ met' = {} /\ found' = <<>> /\ due' = {}

\* The context is looked at before every clone: nothing is returned.
GiveUp ==
  /\ step = "next" /\ repos # {} /\ ended
  /\ Finished
  /\ UNCHANGED <<clones, kept, moves, faults, owed>>

\* The clone being read.
Repo == CHOOSE c \in repos : \A d \in repos : c <= d

\* A command fails in a clone that is gone, when the context is done, or for
\* reasons of its own.
Fails ==
  /\ IF ended \/ ~clones[Repo].there THEN UNCHANGED faults
     ELSE faults < MaxFaults /\ faults' = faults + 1

Works == ~ended /\ clones[Repo].there /\ UNCHANGED faults

OnToNext ==
  /\ step' = "next"
  /\ repos' = repos \ {Repo}
  /\ log' = {} /\ branch' = None

Diagnosed(action) == diags' = diags \cup {<<Repo, action>>}

\* The context has been looked at; opening itself does not depend on it.
Open ==
  /\ step = "next" /\ repos # {} /\ ~ended
  /\ \/ /\ Works
        /\ step' = "log"
        /\ UNCHANGED <<repos, log, branch, diags>>
     \/ Fails /\ Diagnosed("open") /\ OnToNext
  /\ UNCHANGED <<clones, span, events, ended, unwritten, kept, moves, met, found, due, owed>>

ReadLog ==
  /\ step = "log"
  /\ \/ /\ Works
        /\ log' = Logged(clones[Repo], span)
        /\ found' = [c \in DOMAIN found \cup {Repo} |-> IF c = Repo THEN Wanted(clones[Repo], span) ELSE found[c]]
        /\ IF log' = {} THEN step' = "next" /\ repos' = repos \ {Repo}
           ELSE step' = "branch" /\ UNCHANGED repos
        /\ UNCHANGED <<branch, diags>>
     \/ Fails /\ Diagnosed("log") /\ OnToNext /\ UNCHANGED found
  /\ UNCHANGED <<clones, span, events, ended, unwritten, kept, moves, met, due, owed>>

\* The clone may have been switched since.
ReadBranch ==
  /\ step = "branch"
  /\ step' = "origin"
  /\ \/ Works /\ branch' = clones[Repo].branch /\ UNCHANGED diags
     \/ Fails /\ Diagnosed("branch") /\ UNCHANGED branch
  /\ UNCHANGED <<clones, span, repos, log, events, ended, unwritten, kept, moves, met, found, due, owed>>

\* Whether the origin can be read or not, the commits are reported.
ReadOrigin ==
  /\ step = "origin"
  /\ \/ Works /\ UNCHANGED diags
     \/ Fails /\ Diagnosed("origin")
  /\ events' = Append(events, EventsOf(log, span, Repo, branch))
  /\ OnToNext
  /\ UNCHANGED <<clones, span, ended, unwritten, kept, moves, met, found, due, owed>>

-----------------------------------------------------------------------------
(* The result is stored.                                                   *)

Collected == UNION {events[n] : n \in DOMAIN events}

Deliver ==
  /\ step = "next" /\ repos = {}
  /\ step' = "write"
  /\ unwritten' = {DayOf(e.time) : e \in Collected}
  /\ due' = UNION {found[c] : c \in DOMAIN found}
  /\ UNCHANGED <<clones, span, repos, log, branch, events, diags, ended, kept, moves, faults, met, found, owed>>

\* Takes only what is later than everything the day has.
LaterOnDay(d) ==
  {e \in Collected : DayOf(e.time) = d /\ \A x \in kept[d].events : x.time < e.time}

\* Of the events of a day the first of each id that is new to it.
FirstOnDay(d) ==
  {e \in Collected :
     /\ DayOf(e.time) = d
     /\ \A x \in kept[d].events : x.id # e.id
     /\ \E n \in DOMAIN events : e \in events[n] /\ \A m \in 1 .. n - 1 : \A x \in events[m] : x.id # e.id}

\* The next day to be written.
NextDay == CHOOSE d \in unwritten : \A c \in unwritten : d <= c

\* In the order of the log, which may be any.
Saved(c, N) == IF N = {} THEN {c} ELSE {Put(c, N, first) : first \in N}

\* Any of the new events may have been written, in any order.
SomeOf(N) ==
  {p \in [events : SUBSET N, first : N, last : N] :
     p.first \in p.events /\ p.last \in p.events /\ (p.first = p.last => p.events = {p.first})}

\* What meets an open line is due no longer: its first event may be lost.
StoreDay ==
  /\ step = "write" /\ unwritten # {}
  /\ \E c \in Saved(kept[NextDay], FirstOnDay(NextDay)) : kept' = [kept EXCEPT ![NextDay] = c]
  /\ unwritten' = unwritten \ {NextDay}
  /\ due' = {h \in due : ~(DayOf(Commits[h].time) = NextDay /\ kept[NextDay].open)}
  /\ UNCHANGED <<clones, step, span, repos, log, branch, events, diags, ended, moves, faults, met, found, owed>>

Stored ==
  /\ step = "write" /\ unwritten = {}
  /\ Finished
  /\ owed' = owed \cup due
  /\ UNCHANGED <<clones, kept, moves, faults>>

\* The process dies, or the store fails, be it in the middle of an append.
Die ==
  /\ step # "idle"
  /\ faults < MaxFaults
  /\ faults' = faults + 1
  /\ IF step = "write" /\ unwritten # {}
     THEN \E c \in Interrupted(kept[NextDay], SomeOf(FirstOnDay(NextDay))) : kept' = [kept EXCEPT ![NextDay] = c]
     ELSE UNCHANGED kept
  /\ Finished
  /\ UNCHANGED <<clones, moves, owed>>

GNext ==
  \/ \E c \in Clones : Move(c)
  \/ \E p \in Spans : Discover(p)
  \/ EndContext \/ GiveUp \/ Open \/ ReadLog \/ ReadBranch \/ ReadOrigin
  \/ Deliver \/ StoreDay \/ Stored \/ Die

GSpec == GInit /\ [][GNext]_gvars

-----------------------------------------------------------------------------
CommitsKept == UNION {kept[d].events : d \in CommitDays}

GitTypeOK ==
  /\ \A c \in Clones : clones[c] \in Heads[c]
  /\ step \in {"idle", "next", "log", "branch", "origin", "write"}
  /\ span \in Spans \cup {Unbounded}
  /\ repos \subseteq Clones
  /\ log \in SUBSET DOMAIN Commits
  /\ diags \subseteq Clones \X {"open", "log", "branch", "origin"}
  /\ ended \in BOOLEAN
  /\ \A e \in Collected \cup CommitsKept : e.hash \in DOMAIN Commits /\ e.time = Commits[e.hash].time
  /\ DOMAIN kept = CommitDays
  /\ \A d \in CommitDays : /\ kept[d].last \subseteq kept[d].events /\ kept[d].open \in BOOLEAN
                           /\ \A e \in kept[d].events : DayOf(e.time) = d
  /\ moves \in 0 .. MaxMoves /\ faults \in 0 .. MaxFaults
  /\ due \in SUBSET DOMAIN Commits /\ owed \in SUBSET DOMAIN Commits

BranchesOf(c) == {s.branch : s \in Heads[c]} \cup {None}

\* "Repositories that fail to read become diagnostics": a result has the commits
\* each clone held in the period when its log was read, no other, and says which
\* clones it could not read.  What it says of a commit it says of the clone the
\* commit was read in, also when that clone has since been switched or deleted, and
\* it credits a tool once, however its addresses are spelled.
GitResultIsExact ==
  step = "write" =>
    /\ \A c \in DOMAIN found : {e.hash : e \in {x \in Collected : x.workspace = c}} = found[c]
    /\ \A e \in Collected : e.workspace \in DOMAIN found
    /\ met \ DOMAIN found = {c \in Clones : <<c, "open">> \in diags \/ <<c, "log">> \in diags}
    /\ \A e \in Collected :
         /\ e.branch \in BranchesOf(e.workspace)
         /\ e.branch = None => <<e.workspace, "branch">> \in diags \/ \E s \in Heads[e.workspace] : s.branch = None
         /\ \A m, n \in DOMAIN e.tools : e.tools[m] = e.tools[n] => m = n

\* "Same commit in two clones dedups": however many clones hold a commit, whichever
\* of them can be read at each import, and whatever is rewritten, it is stored once.
OneEventPerCommit == \A e, x \in CommitsKept : e.hash = x.hash => e = x

\* A commit of a clone that an import could read is stored when the import is done,
\* also one that was fetched long after it was made, and it stays; but for days
\* whose file ended in a torn line, where it is the next import that makes up for what this
\* one loses.
CommitsAreKept == \A h \in owed : \E e \in kept[DayOf(Commits[h].time)].events : e.hash = h

=============================================================================
