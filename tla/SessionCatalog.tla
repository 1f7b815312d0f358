--------------------------- MODULE SessionCatalog ---------------------------
(***************************************************************************)
(* The catalog: List asks its readers one after another, SessionReader     *)
(* being one and any other harness's the other, and merges what they say;  *)
(* Resolve finds a session in the result by its id or the beginning of it. *)
(***************************************************************************)
EXTENDS SessionReader

CONSTANTS
  Claude, Other,  \* harnesses
  OtherLists,     \* what the other reader may find
  MinQuery        \* characters Resolve asks for

ASSUME HarnessAssumption ==
  Claude # Other /\ \A s \in Setups : s.orders \subseteq Seq({Claude, Other})

ASSUME OthersAssumption ==
  \A s \in OtherLists :
    /\ s \in Seq(ToSet(s))
    /\ \A n \in DOMAIN s : s[n].harness = Other /\ s[n].activity \in Nat

VARIABLES
  order, turn,    \* the readers of a call, and whose turn it is; 0 for no call
  all, errs,      \* what the call has gathered
  unread,         \* and the transcripts with a diagnostic
  result,         \* what it returned
  told            \* history: what the other reader said

calls == <<order, turn, all, errs, unread, result, told>>
cvars == <<vars, calls>>

CInit ==
  /\ Init
  /\ order = <<>> /\ turn = 0
  /\ all = <<>> /\ errs = {} /\ unread = {}
  /\ result = None
  /\ told = {}

-----------------------------------------------------------------------------
\* Every reader returns sessions, with an error or without.
GivenBy(h, s) == [n \in DOMAIN s |-> [harness |-> h, id |-> s[n].id, file |-> s[n].file,
                                      activity |-> s[n].said.activity, pid |-> s[n].pid]]

\* The newer of two is first, of two as new the one that was first.
Sooner(s, m, n) ==
  s[m].activity > s[n].activity \/ (s[m].activity = s[n].activity /\ m < n)

\* sort.SliceStable, newest first.
SortByActivity(s) ==
  LET places == CHOOSE p \in [DOMAIN s -> DOMAIN s] :
                  \A m, n \in DOMAIN s : m < n => Sooner(s, p[m], p[n])
  IN [n \in DOMAIN s |-> s[places[n]]]

Idle == turn = 0
Turn(h) == turn \in DOMAIN order /\ order[turn] = h

Call(o) ==
  /\ Idle
  /\ order' = o /\ turn' = 1
  /\ all' = <<>> /\ errs' = {} /\ unread' = {}
  /\ result' = None
  /\ told' = {}
  /\ Forget
  /\ UNCHANGED <<clock, disk, system, pc, opts, recs, held, files>>

\* The context is done, which the catalog sees before each reader.
Leave ==
  /\ turn \in DOMAIN order /\ pc = "idle"
  /\ turn' = 0
  /\ result' = [list |-> all, errs |-> {}, unread |-> unread, cancelled |-> TRUE]
  /\ UNCHANGED <<vars, order, all, errs, unread, told>>

\* Our reader is called; the projects directory may not be readable.
CallClaude(o) ==
  /\ Turn(Claude) /\ pc = "idle"
  /\ \/ Begin(o) /\ UNCHANGED calls
     \/ /\ errs' = errs \cup {Claude} /\ turn' = turn + 1
        /\ UNCHANGED <<vars, order, all, unread, result, told>>

ReadClaude == Turn(Claude) /\ ReaderStep /\ UNCHANGED calls

\* A reader that fails is passed over with what it has read.
GatherUnlessFailed ==
  /\ Turn(Claude) /\ pc \in {"cancelled", "complete"}
  /\ all' = IF pc = "complete" THEN all \o GivenBy(Claude, out) ELSE all
  /\ errs' = errs \cup {Claude : x \in {pc} \cap {"cancelled"}}
  /\ unread' = unread \cup diags
  /\ turn' = turn + 1
  /\ pc' = "idle"
  /\ UNCHANGED <<clock, disk, system, opts, recs, held, live, files, out, diags, history, order, result, told>>

\* It has returned.
Gather ==
  /\ Turn(Claude) /\ pc \in {"cancelled", "complete"}
  /\ all' = all \o GivenBy(Claude, out)
  /\ errs' = errs \cup {Claude : x \in {pc} \cap {"cancelled"}}
  /\ unread' = unread \cup diags
  /\ turn' = turn + 1
  /\ pc' = "idle"
  /\ UNCHANGED <<clock, disk, system, opts, recs, held, live, files, out, diags, history, order, result, told>>

\* Another harness's reader.
CallOther ==
  /\ Turn(Other)
  /\ \E s \in OtherLists : all' = all \o s /\ told' = ToSet(s)
  /\ errs' \in {errs, errs \cup {Other}}
  /\ turn' = turn + 1
  /\ UNCHANGED <<vars, order, unread, result>>

Return ==
  /\ turn = Len(order) + 1
  /\ turn' = 0
  /\ result' = [list |-> SortByActivity(all), errs |-> errs, unread |-> unread, cancelled |-> FALSE]
  /\ UNCHANGED <<vars, order, all, errs, unread, told>>

CNext ==
  \/ World /\ UNCHANGED calls
  \/ \E o \in setup.orders : Call(o)
  \/ \E o \in setup.options : CallClaude(o)
  \/ Leave \/ ReadClaude \/ Gather \/ CallOther \/ Return

CSpec == CInit /\ [][CNext]_cvars

-----------------------------------------------------------------------------
(* Resolve: ids and queries are sequences of characters; h is Other's or   *)
(* Claude's qualifier, or None.                                            *)

MatchesOf(s, h, q) == {n \in DOMAIN s : (h # None => s[n].harness = h) /\ IsPrefix(q, s[n].id)}

\* Takes the first of several.
ResolveFirst(s, h, q) ==
  LET found == MatchesOf(s, h, q)
  IN IF Len(q) < MinQuery THEN {} ELSE {n \in found : \A m \in found : n <= m}

\* The session with that very id, the first if there are several, or those that
\* begin so: Resolve fails unless it is one.
Resolve(s, h, q) ==
  LET found == MatchesOf(s, h, q)
      exact == {n \in found : s[n].id = q}
  IN IF Len(q) < MinQuery THEN {}
     ELSE IF exact # {} THEN {n \in exact : \A m \in exact : n <= m}
     ELSE found

-----------------------------------------------------------------------------
Queries == UNION {{SubSeq(i, 1, n) : n \in 1 .. Len(i)} : i \in Ids \cup {e.id : e \in told}}

\* What there was to find while the call ran: transcripts that stayed, but for those
\* with a diagnostic, and what the other reader said.
ToFind ==
  {[harness |-> Claude, id |-> setup.ids[f]] : f \in there \ result.unread}
  \cup {[harness |-> Other, id |-> e.id] : e \in told}

\* "One reader failing does not hide the others; the sessions that were read come
\* back together": every session a reader returned is in the result, newest first,
\* and every session that was there all the time is, or its transcript has a
\* diagnostic, or its reader failed.
ResultIsWhole ==
  result # None /\ ~result.cancelled =>
    LET list == result.list
        returned == {out[n].file : n \in DOMAIN out}
        lasting == IF Claude \in result.errs THEN {} ELSE there \ result.unread
    IN /\ told \subseteq ToSet(list)
       /\ Claude \in ToSet(order) =>
            \A f \in returned \cup lasting : \E n \in DOMAIN list : list[n].harness = Claude /\ list[n].file = f
       /\ \A m, n \in DOMAIN list : m < n => list[m].activity >= list[n].activity

\* A query answered from a result without errors names no other session that there
\* was to find, unless it is a full id.  A transcript that could not be read was not: it has a
\* diagnostic, which the answer does not say.
ResolveNeverGuesses ==
  result # None /\ ~result.cancelled /\ result.errs = {} =>
    \A h \in {None, Claude, Other}, q \in Queries :
      LET found == Resolve(result.list, h, q)
      IN (\E n \in DOMAIN result.list : found = {n} /\ result.list[n].id # q) =>
           Cardinality({x \in ToFind : (h # None => x.harness = h) /\ IsPrefix(q, x.id)}) <= 1

=============================================================================
