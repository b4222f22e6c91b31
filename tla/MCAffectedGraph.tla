--------------------------- MODULE MCAffectedGraph ---------------------------
(***************************************************************************)
(* Every workspace of three projects: all graphs of declared dependencies, *)
(* cyclic ones included, with up to one that the registry serves, all ways *)
(* their directories nest, all sets of changed files.  Names are in another*)
(* order than paths.                                                       *)
(***************************************************************************)
EXTENDS AffectedGraph

MCNameRank == <<2, 3, 1>>
==============================================================================
