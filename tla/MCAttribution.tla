--------------------------- MODULE MCAttribution ----------------------------
(***************************************************************************)
(* Small instances of what attributes work: whose commits they are         *)
(* (GitHistory, Identity) and what they are for (WorkRefs).  The three     *)
(* share no state; scene says which of them a behaviour is about.          *)
(***************************************************************************)
EXTENDS GitHistory, Identity, WorkRefs

VARIABLE scene

-----------------------------------------------------------------------------
(* Days of four ticks, a commit at midnight, one that replaces it, and a   *)
(* merge; two clones that share commits.                                   *)

Email(number, slug, host, capitals) ==
  [number |-> number, slug |-> slug, host |-> host, capitals |-> capitals]

AClaude == Email(None, "noreply", "anthropic.com", FALSE)
AGemini == Email("218195315", "gemini-cli", GitHubNoreply, FALSE)
AHuman == Email(None, "noreply", "example.com", FALSE)

MCKnownAITools == <<[tool |-> "Claude Code", email |-> AClaude], [tool |-> "Gemini CLI", email |-> AGemini]>>

Made(time, merge, coAuthors) ==
  [time |-> time, authored |-> time - 1, author |-> AHuman, merge |-> merge, coAuthors |-> coAuthors]

MCCommits ==
  <<Made(2, FALSE, <<[AGemini EXCEPT !.number = "7"], AHuman, AClaude, [AGemini EXCEPT !.capitals = TRUE]>>),
    Made(4, FALSE, <<>>),
    Made(5, FALSE, <<[AClaude EXCEPT !.capitals = TRUE]>>),
    Made(6, TRUE, <<>>)>>

At(reach, name) == [there |-> TRUE, reach |-> reach, branch |-> name]
Deleted == [there |-> FALSE, reach |-> {}, branch |-> None]

MCHeads == <<{Deleted, At({}, "main"), At({1, 2}, "main"), At({1, 3}, "topic")},
             {At({1, 2, 3, 4}, "dev"), At({2}, None)}>>

\* How the clones may be to begin with; two moves lead anywhere.
MCStarts == {<<At({1, 2}, "main"), At({2}, None)>>, <<Deleted, At({1, 2, 3, 4}, "dev")>>}

MCSpans == {Unbounded, [start |-> 0, end |-> 4]}

-----------------------------------------------------------------------------
(* Two people with up to two identities each; a device counts for local    *)
(* accounts only.                                                          *)

Id(type, value, device) == [type |-> type, value |-> value, device |-> device]

Identities ==
  {Id("github", <<"gh">>, <<"mac">>), Id("git_email", <<"mail">>, Empty),
   Id("local_account", <<"john">>, <<"mac">>), Id("local_account", <<"john">>, <<"pc">>),
   Id("local_account", <<"b">>, <<"d", "a">>), Id("local_account", <<"a", "b">>, <<"d">>),
   Id("local_account", <<"john">>, Empty), Id("phone", <<"1">>, Empty)}

UpTo2(S) == {<<>>} \cup {<<x>> : x \in S} \cup (S \X S)
People(ids, names) == [personId : names, identities : ids]
MCConfigs == {<<>>} \cup {<<x, y>> : x \in People(UpTo2(Identities), {"p"}),
                                    y \in People({<<i>> : i \in Identities}, {"p", "q", NoPerson})}

MCNames == {<<"gh">>, <<"john">>, <<"mac">>, <<"pc">>, <<"a">>, <<"b">>, <<"d">>, <<"a", "b">>}
MCEmails == [spelling : {"as it is", "in capitals"}, address : {"mail", "other"}]

-----------------------------------------------------------------------------
(* Two rules that overlap, and what they find in four texts.               *)

Rule(name, pattern) == [name |-> name, pattern |-> pattern]
MCDefaults == <<Rule("initiative", "I"), Rule("rmi", "R")>>
MCRuleLists == {<<>>, <<Rule("rmi", "R"), Rule("rmi", "I")>>, <<Rule("", "R")>>, <<Rule("x", Bad)>>,
                <<Rule("any", "R"), Rule("initiative", "I")>>}
Finding(i, r) == [p \in {"I", "R"} |-> IF p = "I" THEN i ELSE r]
MCTexts == {Finding({}, {}), Finding({1, 2}, {1}), Finding({}, {1, 2}), Finding({1}, {})}

-----------------------------------------------------------------------------
\* The parts that are not on the scene are in one state.
Init ==
  /\ scene \in {"git", "identity", "workrefs"}
  /\ people \in IF scene = "identity" THEN Configs ELSE {<<>>}
  /\ clones \in IF scene = "git" THEN MCStarts ELSE {<<Deleted, At({2}, None)>>}
  /\ GInit /\ IInit /\ WInit

Next ==
  \/ scene = "git" /\ GNext /\ UNCHANGED <<ivars, wvars, scene>>
  \/ scene = "identity" /\ INext /\ UNCHANGED <<gvars, wvars, scene>>
  \/ scene = "workrefs" /\ WNext /\ UNCHANGED <<gvars, ivars, scene>>

Spec == Init /\ [][Next]_<<gvars, ivars, wvars, scene>>

=============================================================================
