-------------------------- MODULE MCArtifactHistory --------------------------
(* Pushes to a branch and two pull requests to it, of which one comes from *)
(* a fork: their branches have the same name, so they share a page.        *)
EXTENDS ArtifactHistory, TLC
CONSTANTS push, own, fork

MCStream == {push, own, fork}
MCReads == [s \in MCStream |-> IF s = push THEN <<push>> ELSE <<s, push>>]
MCScope == [s \in MCStream |-> s]
MCBranch == [s \in MCStream |-> IF s = push THEN "main" ELSE "patch"]

(* Nothing tells the pull requests apart.                                  *)
PullRequests == Permutations({own, fork})
==============================================================================
