------------------------------- MODULE Orders -------------------------------
(***************************************************************************)
(* Sorting, filtering and sums, as the code has them with sort_by, retain  *)
(* and sum.  The order is given by ranks and what is added by a function:  *)
(* SortSeq, SelectSeq and FoldLeft take an operator, and the provers know  *)
(* nothing of what they return.                                            *)
(***************************************************************************)
EXTENDS Naturals, Sequences, FiniteSets

(* A set in order, given how many of its elements come before each. *)
Sorted(before) ==
    [k \in 1..Cardinality(DOMAIN before) |-> CHOOSE x \in DOMAIN before : before[x] = k - 1]

(* A set in the order of its ranks, of which no two are the same. *)
Ranked(rank) ==
    Sorted([x \in DOMAIN rank |->
              Cardinality({y \in DOMAIN rank : rank[y] < rank[x]})])

(* The elements of s that are in S, in the order they have in s. *)
OnlyOf(s, S) ==
    LET kept[n \in 0..Len(s)] ==
          IF n = 0 THEN << >>
          ELSE IF s[n] \in S THEN Append(kept[n - 1], s[n]) ELSE kept[n - 1]
    IN  kept[Len(s)]

(* The sum of f over a finite part of its domain. *)
SumOf(f, S) ==
    LET sum[T \in SUBSET DOMAIN f] ==
          IF T = {} THEN 0
          ELSE LET x == CHOOSE x \in T : TRUE IN f[x] + sum[T \ {x}]
    IN  sum[S]
==============================================================================
