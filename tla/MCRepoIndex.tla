---------------------------- MODULE MCRepoIndex ----------------------------
(***************************************************************************)
(* A small tree: a workspace w with a directory n in it (a nested checkout *)
(* when both hold .git), and a directory o outside of it.                  *)
(***************************************************************************)
EXTENDS RepoIndex, TLC

SmallPaths == {"/", "/w", "/w/n", "/o"}

SmallUp == [p \in SmallPaths |->
  CASE p = "/" -> <<"/">>
    [] p = "/w" -> <<"/w", "/">>
    [] p = "/w/n" -> <<"/w/n", "/w", "/">>
    [] p = "/o" -> <<"/o", "/">>]

Symmetry == Permutations(Threads)

=============================================================================
