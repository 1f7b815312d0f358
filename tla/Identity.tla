------------------------------ MODULE Identity ------------------------------
(***************************************************************************)
(* The identity map: NewMap goes through a configuration of people, one    *)
(* identity after another, and gives a map or rejects the configuration;   *)
(* the Resolve methods look accounts up.                                   *)
(*                                                                         *)
(* A name is the sequence of its parts between slashes, <<"">> if empty.   *)
(* An email is an address and the way it is spelled; its hash is taken to  *)
(* tell addresses apart.                                                   *)
(***************************************************************************)
EXTENDS Naturals, Sequences

CONSTANTS
  Configs,      \* the configurations: sequences of people, each with identities
  Names,        \* devices and accounts that are looked up
  Emails        \* emails that are looked up

NoPerson == ""          \* a personId left empty; what an unknown account resolves to
Empty == <<"">>

ASSUME ConfigsAssumption ==
  \A c \in Configs :
    /\ Len(c) \in Nat /\ DOMAIN c = 1 .. Len(c)
    /\ \A i \in DOMAIN c : /\ Len(c[i].identities) \in Nat
                          /\ DOMAIN c[i].identities = 1 .. Len(c[i].identities)
                          /\ \A id \in {c[i].identities[n] : n \in DOMAIN c[i].identities} :
                               {id.value, id.device} \subseteq Seq(STRING) \ {<<>>}
ASSUME NamesAssumption == Names \subseteq Seq(STRING) \ {<<>>}

VARIABLES
  people,       \* the configuration
  status,       \* "none", "building", "ready" or "rejected"
  at,           \* NewMap: the person it has come to,
  entry,        \* and which of its identities, 0 before the first
  owner         \* the person of each key

ivars == <<people, status, at, entry, owner>>

-----------------------------------------------------------------------------
LocalKey(device, value) == device \o value

\* Hashes the email as it is spelled.
HashAsSpelled(email) == <<email.spelling, email.address>>

\* Lowered and trimmed first.
HashEmail(email) == <<email.address>>

Key(id) ==
  <<id.type, IF id.type = "local_account" THEN LocalKey(id.device, id.value) ELSE id.value>>

Complete(id) ==
  /\ id.type \in {"github", "git_email", "local_account"}
  /\ id.value # Empty
  /\ id.type = "local_account" => id.device # Empty

\* Only the last claim of a key counts.
InsertLast(key, p) == TRUE

\* A key may be claimed again, by the same person.
MayInsert(key, p) == key \in DOMAIN owner => owner[key] = p

-----------------------------------------------------------------------------
IInit ==
  /\ people \in Configs /\ status = "none"
  /\ at = 1 /\ entry = 0
  /\ owner = <<>>

NewMap ==
  /\ status # "building"
  /\ status' = "building"
  /\ at' = 1 /\ entry' = 0
  /\ owner' = <<>>
  /\ UNCHANGED people

Reject ==
  /\ status' = "rejected"
  /\ owner' = <<>>
  /\ UNCHANGED <<people, at, entry>>

Person == people[at]
Entry == Person.identities[entry]

BeginPerson ==
  /\ status = "building" /\ at <= Len(people) /\ entry = 0
  /\ \/ Person.personId = NoPerson /\ Reject
     \/ /\ Person.personId # NoPerson
        /\ entry' = 1
        /\ UNCHANGED <<people, status, at, owner>>

AtIdentity == status = "building" /\ at <= Len(people) /\ entry \in DOMAIN Person.identities

\* The map with the key of an identity in it.
With(id, p) == [k \in DOMAIN owner \cup {Key(id)} |-> IF k = Key(id) THEN p ELSE owner[k]]

Add ==
  /\ AtIdentity /\ Complete(Entry) /\ MayInsert(Key(Entry), Person.personId)
  /\ owner' = With(Entry, Person.personId)
  /\ entry' = entry + 1
  /\ UNCHANGED <<people, status, at>>

Refuse ==
  /\ AtIdentity /\ ~(Complete(Entry) /\ MayInsert(Key(Entry), Person.personId))
  /\ Reject

EndPerson ==
  /\ status = "building" /\ at <= Len(people) /\ entry > Len(Person.identities)
  /\ at' = at + 1 /\ entry' = 0
  /\ UNCHANGED <<people, status, owner>>

MapDone ==
  /\ status = "building" /\ at > Len(people)
  /\ status' = "ready"
  /\ UNCHANGED <<people, at, entry, owner>>

INext ==
  \/ NewMap
  \/ BeginPerson \/ Add \/ Refuse \/ EndPerson \/ MapDone

ISpec == IInit /\ [][INext]_ivars

Resolve(key) == IF key \in DOMAIN owner THEN owner[key] ELSE NoPerson

ResolveGitHub(name) == Resolve(<<"github", name>>)
ResolveGitEmail(email) == Resolve(<<"git_email", HashEmail(email)>>)
ResolveLocalAccount(device, account) == Resolve(<<"local_account", LocalKey(device, account)>>)

-----------------------------------------------------------------------------
Places(c) == UNION {{i} \X (DOMAIN c[i].identities) : i \in DOMAIN c}
IdentityAt(c, p) == c[p[1]].identities[p[2]]
ClaimantAt(c, p) == c[p[1]].personId

\* Everyone has a name, every identity its parts, and no key two people.
Sound(c) ==
  /\ \A i \in DOMAIN c : c[i].personId # NoPerson
  /\ \A p \in Places(c) : Complete(IdentityAt(c, p))
  /\ \A p, q \in Places(c) : Key(IdentityAt(c, p)) = Key(IdentityAt(c, q)) => ClaimantAt(c, p) = ClaimantAt(c, q)

\* "Ambiguous resolution is a configuration error, not a runtime fallback
\* decision": whatever the order of people and identities, a configuration is
\* accepted just if it is sound, and then each key has the person who claims it.
MapIsExact ==
  /\ status = "rejected" => ~Sound(people)
  /\ status = "ready" =>
       /\ Sound(people)
       /\ DOMAIN owner = {Key(IdentityAt(people, p)) : p \in Places(people)}
       /\ \A p \in Places(people) : owner[Key(IdentityAt(people, p))] = ClaimantAt(people, p)

\* The people who claim an identity at one of these places, or nobody.
Claiming(ps) ==
  IF ps = {} THEN {NoPerson} ELSE {ClaimantAt(people, p) : p \in ps}

\* Where an account is listed, on whatever device, and where one of a device is.
Account(type, name) ==
  {p \in Places(people) : IdentityAt(people, p).type = type /\ IdentityAt(people, p).value = name}
LocalAccount(device, name) ==
  {p \in Account("local_account", name) : IdentityAt(people, p).device = device}

SlashFree == {n \in Names : Len(n) = 1}

\* One developer's accounts resolve to that developer, "without conflating
\* people": an email however it is spelled; an account on the device it was listed
\* for and on no other.  Local names with slashes are left out: their keys meet.
ResolveIsExact ==
  status = "ready" =>
    /\ \A n \in Names : {ResolveGitHub(n)} = Claiming(Account("github", n))
    /\ \A e \in Emails : {ResolveGitEmail(e)} = Claiming(Account("git_email", <<e.address>>))
    /\ \A d, n \in SlashFree : {ResolveLocalAccount(d, n)} = Claiming(LocalAccount(d, n))

=============================================================================
