------------------------------ MODULE WorkRefs ------------------------------
(***************************************************************************)
(* Work references: rules find identifiers in the texts of a session, a    *)
(* set gathers where each was found, and a resolver, which may fail, knows *)
(* titles of some.                                                         *)
(*                                                                         *)
(* A rule is a name and a pattern, Bad if it does not compile.  A text is  *)
(* what each pattern finds in it: a pattern may find an identifier in one  *)
(* text and not in another, for what stands next to it.                    *)
(***************************************************************************)
EXTENDS Naturals, Sequences, FiniteSets

CONSTANTS
  RuleLists,    \* the rules that may be configured
  DefaultWorkRefRules,
  Bad,          \* a pattern that does not compile
  Texts,        \* functions from patterns to the identifiers found
  Ids,          \* identifiers, as numbers in the order they sort in
  Titled,       \* those the resolver has a title of
  MaxTexts      \* bound on the texts of a session

SourceOrder == <<"prompt", "branch", "commit", "path">>
Sources == {SourceOrder[n] : n \in DOMAIN SourceOrder}

ASSUME RulesAssumption ==
  \A rs \in RuleLists \cup {DefaultWorkRefRules} : rs \in Seq({rs[i] : i \in DOMAIN rs})
ASSUME TextsAssumption ==
  \A t \in Texts :
    /\ \A p \in DOMAIN t : t[p] \subseteq Ids /\ IsFiniteSet(t[p])
    /\ \A rs \in RuleLists \cup {DefaultWorkRefRules} : \A i \in DOMAIN rs :
         rs[i].pattern # Bad => rs[i].pattern \in DOMAIN t
ASSUME IdsAssumption == Ids \subseteq Nat /\ Titled \subseteq Ids /\ MaxTexts \in Nat

VARIABLES
  rules,        \* the rules of the extractor, <<>> for no extractor
  byId,         \* the entries of the set
  given,        \* the caller has the references,
  refs,         \* which are these
  texts         \* history: the texts added, each with its source

wvars == <<rules, byId, given, refs, texts>>

-----------------------------------------------------------------------------
\* The rules NewWorkRefExtractor takes.
Accepted(rs) ==
  /\ \A i \in DOMAIN rs : rs[i].name # "" /\ rs[i].pattern # Bad
  /\ \A i, j \in DOMAIN rs : rs[i].name = rs[j].name => i = j

Finds(i, text, id) == id \in text[rules[i].pattern]

Found(text) == {id \in Ids : \E i \in DOMAIN rules : Finds(i, text, id)}

\* The kind of an identifier the set has not had.
KindOf(id, text) ==
  rules[CHOOSE i \in DOMAIN rules : Finds(i, text, id) /\ \A j \in 1 .. i - 1 : ~Finds(j, text, id)].name

\* Begins an entry anew at each text.
EntryAnew(id, source, text) ==
  IF id \in Found(text) THEN [kind |-> KindOf(id, text), sources |-> {source}] ELSE byId[id]

EntryWith(id, source, text) ==
  IF id \notin DOMAIN byId THEN [kind |-> KindOf(id, text), sources |-> {source}]
  ELSE IF id \in Found(text) THEN [byId[id] EXCEPT !.sources = @ \cup {source}]
  ELSE byId[id]

-----------------------------------------------------------------------------
WInit ==
  /\ rules = <<>>
  /\ byId = <<>>
  /\ given = FALSE /\ refs = <<>>
  /\ texts = <<>>

\* A configuration whose rules are not accepted gives no extractor.
Extractor(rs) ==
  /\ rules = <<>>
  /\ LET chosen == IF rs = <<>> THEN DefaultWorkRefRules ELSE rs
     IN Accepted(chosen) /\ rules' = chosen
  /\ UNCHANGED <<byId, given, refs, texts>>

NewSet ==
  /\ texts # <<>>
  /\ byId' = <<>>
  /\ given' = FALSE /\ refs' = <<>>
  /\ texts' = <<>>
  /\ UNCHANGED rules

AddText(source, text) ==
  /\ rules # <<>> /\ Len(texts) < MaxTexts
  /\ byId' = [id \in DOMAIN byId \cup Found(text) |-> EntryWith(id, source, text)]
  /\ given' = FALSE /\ refs' = <<>>
  /\ texts' = Append(texts, [source |-> source, text |-> text])
  /\ UNCHANGED rules

InFixedOrder(sources) == SelectSeq(SourceOrder, LAMBDA s : s \in sources)

\* The sequences a set sorts to.
SortedSeqs(S) == {s \in [1 .. Cardinality(S) -> S] : \A m, n \in DOMAIN s : m < n => s[m] < s[n]}

\* By identifier, each with its sources in the fixed order.
Refs ==
  LET ids == CHOOSE s \in SortedSeqs(DOMAIN byId) : TRUE
  IN [n \in DOMAIN ids |->
        [id |-> ids[n], kind |-> byId[ids[n]].kind, titled |-> FALSE,
         sources |-> InFixedOrder(byId[ids[n]].sources)]]

GetRefs ==
  /\ rules # <<>> /\ ~given
  /\ given' = TRUE
  /\ refs' = Refs
  /\ UNCHANGED <<rules, byId, texts>>

\* ResolveTitles; when the resolver fails, the references stay as they are.
ResolveTitles ==
  /\ given /\ refs # <<>>
  /\ refs' \in {refs, [n \in DOMAIN refs |-> [refs[n] EXCEPT !.titled = @ \/ refs[n].id \in Titled]]}
  /\ UNCHANGED <<rules, byId, given, texts>>

WNext ==
  \/ \E rs \in RuleLists : Extractor(rs)
  \/ NewSet
  \/ \E s \in Sources, t \in Texts : AddText(s, t)
  \/ GetRefs \/ ResolveTitles

WSpec == WInit /\ [][WNext]_wvars

-----------------------------------------------------------------------------
\* The texts an identifier was found in.
Sightings(id) == {n \in DOMAIN texts : id \in Found(texts[n].text)}

\* "Repeated sightings merge: an identifier keeps one entry and gains each source
\* it appears in", and "a lookup failure never loses the references": whatever the
\* order of texts, and however titles were looked up, the caller has each identifier
\* seen in any text once, with all its sources, of the kind of the first rule that
\* found it in the first text it was seen in, and kinds tell rules apart.
RefsAreSightings ==
  given =>
    /\ \A n \in 1 .. Len(refs) - 1 : refs[n].id < refs[n + 1].id
    /\ {refs[n].id : n \in DOMAIN refs} = {id \in Ids : Sightings(id) # {}}
    /\ \A r \in {refs[n] : n \in DOMAIN refs} :
         LET ns == Sightings(r.id)
             first == CHOOSE n \in ns : \A m \in ns : n <= m
             finders == {i \in DOMAIN rules : Finds(i, texts[first].text, r.id)}
         IN /\ {i \in DOMAIN rules : rules[i].name = r.kind} = {i \in finders : \A j \in finders : i <= j}
            /\ r.sources = InFixedOrder({texts[n].source : n \in ns})
            /\ r.titled => r.id \in Titled

=============================================================================
