------------------------------ MODULE Revision ------------------------------
(***************************************************************************)
(* Which commit the changes are counted from.  The affected Action starts  *)
(* from the event's base and head in a clone that may hold only the last   *)
(* commits; nanoom looks for a merge base in what the clone shows and      *)
(* fetches deeper, commits only, up to affected.maxFetchDepth.             *)
(*                                                                         *)
(* A commit's parents have smaller numbers.  A clone is the set `cut' of   *)
(* commits whose parents it does not have (.git/shallow): everything that  *)
(* head and base reach without passing one of them is there.               *)
(***************************************************************************)
EXTENDS Naturals, FiniteSets

CONSTANTS
    C,          \* bound: commits of the history
    Requests,   \* histories at origin, and the comparisons asked for
    FirstDepth, \* 32 in the code
    Factor,     \* 4 in the code
    Nil

Commit == 1..C

Comparison ==
    [parents : [Commit -> SUBSET Commit], base : Commit, head : Commit,
     mode : {"merge-base", "tip"}, max : Nat \ {0}]

ASSUME RevisionAssumption ==
    /\ C \in Nat \ {0}
    /\ Requests \subseteq Comparison
    /\ \A r \in Requests, c \in Commit : r.parents[c] \subseteq 1..(c - 1)
    /\ FirstDepth \in Nat \ {0}
    /\ Factor \in Nat \ {0, 1}
    /\ Nil \notin Requests /\ Nil \notin Commit

VARIABLES
    phase,   \* how far the affected Action is
    request, \* the history at origin and what is compared; Nil once answered
    cut,     \* the shallow boundary of the clone
    depth,   \* the depth of the next fetch
    from,    \* the commit that changes are counted from
    reason   \* why the Action failed

revisionVars == <<request, cut, depth, from, reason>>

(* The commits that c reaches in a clone with boundary `edge'.             *)
Reach(parents, edge, c) ==
    {x \in Commit :
        \A S \in SUBSET Commit :
           c \in S /\ (\A y \in S \ edge : parents[y] \subseteq S) => x \in S}

(* What git fetch --depth=d leaves: the commits at distance d of the       *)
(* nearest tip have no parents, nearer ones have all of theirs.            *)
Boundary(parents, tips, d) ==
    LET within[k \in 0..d] ==
            IF k = 0 THEN {}
            ELSE IF k = 1 THEN tips
            ELSE within[k - 1] \cup UNION {parents[c] : c \in within[k - 1]}
    IN  within[d] \ within[d - 1]

Common(edge) ==
    Reach(request.parents, edge, request.base) \cap Reach(request.parents, edge, request.head)

(* The merge bases that the clone shows: git and gix return one of them.   *)
MergeBases ==
    {c \in Common(cut) : \A d \in Common(cut) : c \in Reach(request.parents, cut, d) => c = d}

(* A checkout of the head, complete or with the workflow's fetch-depth;    *)
(* the Action fetches a base that is not in it with --depth=1.             *)
Checkouts(r) == {{}} \cup {Boundary(r.parents, {r.head}, d) : d \in Commit}

Init ==
    /\ phase = "open"
    /\ request \in Requests
    /\ cut \in Checkouts(request)
    /\ depth = 0 /\ from = Nil /\ reason = Nil

Refuse(why) ==
    /\ phase' = "refused"
    /\ reason' = why
    /\ UNCHANGED <<request, cut, depth, from>>

HasBase == cut = {} \/ request.base \in Reach(request.parents, cut, request.head)

FirstFetch == IF FirstDepth < request.max THEN FirstDepth ELSE request.max
(* Mutant: the last fetch is not limited to maxFetchDepth.                 *)
NextDepthUnlimited == depth * Factor
(* Mutant: a fetch that would pass maxFetchDepth is repeated instead.      *)
NextDepthAtMost == IF depth * Factor <= request.max THEN depth * Factor ELSE depth
NextDepth == IF depth * Factor < request.max THEN depth * Factor ELSE request.max

(* affected/run.sh before the CLI, and the CLI's choice of a mode.         *)
Open ==
    /\ phase = "open"
    /\ phase' = "compare"
    /\ cut' = IF HasBase THEN cut ELSE cut \cup {request.base}
    /\ depth' = FirstFetch
    /\ UNCHANGED <<request, from, reason>>

OpenFails == phase = "open" /\ ~HasBase /\ Refuse("fetch")

Resolved(c) ==
    /\ phase' = "resolved"
    /\ from' = c
    /\ UNCHANGED <<request, cut, depth, reason>>

CompareTip == phase = "compare" /\ request.mode = "tip" /\ Resolved(request.base)

CompareMergeBase ==
    /\ phase \in {"compare", "last"}
    /\ request.mode = "merge-base"
    /\ \E c \in MergeBases : Resolved(c)

Blind == phase = "compare" /\ request.mode = "merge-base" /\ MergeBases = {}

(* Mutant: the level before maxFetchDepth is taken for the last one.       *)
DeepenOnce ==
    /\ Blind /\ cut # {}
    /\ cut' = Boundary(request.parents, {request.base, request.head}, depth)
    /\ depth' = NextDepth
    /\ phase' = IF NextDepth = request.max THEN "last" ELSE "compare"
    /\ UNCHANGED <<request, from, reason>>

Deepen ==
    /\ Blind /\ cut # {}
    /\ cut' = Boundary(request.parents, {request.base, request.head}, depth)
    /\ depth' = NextDepth
    /\ phase' = IF depth = request.max THEN "last" ELSE "compare"
    /\ UNCHANGED <<request, from, reason>>

DeepenFails == Blind /\ cut # {} /\ Refuse("fetch")
Unrelated == Blind /\ cut = {} /\ Refuse("unrelated")
Exceeded == phase = "last" /\ MergeBases = {} /\ Refuse("exceeded")

Resolve ==
    \/ Open \/ OpenFails \/ CompareTip \/ CompareMergeBase
    \/ Deepen \/ DeepenFails \/ Unrelated \/ Exceeded

(***************************************************************************)
(* Properties.                                                             *)
(***************************************************************************)
(* A commit that changes are counted from is an ancestor of both sides in  *)
(* the complete history, however little of it the clone had: no commit of  *)
(* the branch is left out of the diff.                                     *)
NothingIsLeftOut ==
    phase = "resolved" /\ request.mode = "merge-base" => from \in Common({})

(* try_merge_base_with_deepen gives up only when a fetch to maxFetchDepth  *)
(* shows no common ancestor either.                                        *)
RefusalIsDue ==
    phase = "refused" /\ reason \in {"unrelated", "exceeded"} =>
       Common(Boundary(request.parents, {request.base, request.head}, request.max)) = {}
==============================================================================
