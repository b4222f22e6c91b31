--------------------------- MODULE Planning_proofs ---------------------------
(***************************************************************************)
(* Proofs about Revision, Scheduler and Planning: for any history, any     *)
(* shallow clone, any configuration and any prediction tables.  What the   *)
(* scheduler lays out is proved along its placements, one item at a time.  *)
(***************************************************************************)
EXTENDS Planning, Orders_proofs

Searching == {"open", "compare", "last", "resolved"}
Planned == {"server", "bundle", "warm", "written", "publishing", "published"}

------------------------------------------------------------------------------
(* Commits.                                                                *)

(* A clone shows less than there is.                                       *)
LEMMA ShallowShowsLess ==
    ASSUME NEW parents, NEW edge, NEW c
    PROVE  Reach(parents, edge, c) \subseteq Reach(parents, {}, c)
BY DEF Reach

(* What a commit reaches is not newer than it.                             *)
LEMMA ReachIsOlder ==
    ASSUME NEW r \in Requests, NEW edge, NEW c \in Commit
    PROVE  \A x \in Reach(r.parents, edge, c) : x \in Commit /\ x <= c
<1>1. Commit = 1..C /\ C \in Nat /\ c \in 1..C
  BY RevisionAssumption DEF Commit
<1> DEFINE S == 1..c
<1>2. S \in SUBSET Commit /\ c \in S
  BY <1>1
<1>3. \A y \in S : r.parents[y] \subseteq S
  <2> TAKE y \in S
  <2>1. y \in Commit /\ r.parents[y] \subseteq 1..(y - 1)
    BY <1>2, RevisionAssumption
  <2>2. 1..(y - 1) \subseteq S
    BY <1>1, <2>1
  <2> QED
    BY <2>1, <2>2
<1>4. ASSUME NEW x \in Reach(r.parents, edge, c) PROVE x \in Commit /\ x \in S
  <2>1. \A y \in S \ edge : r.parents[y] \subseteq S
    BY <1>3
  <2> HIDE DEF S
  <2> QED
    BY <1>2, <1>4, <2>1 DEF Reach
<1> QED
  BY <1>1, <1>4

LEMMA NewestCommit ==
    ASSUME NEW S, S \subseteq Commit, S # {}
    PROVE  \E c \in S : \A d \in S : d <= c
<1> DEFINE mirror == {C - q : q \in S}
<1>1. C \in Nat /\ \A q \in S : q \in Nat /\ q <= C
  BY RevisionAssumption DEF Commit
<1>2. mirror \subseteq Nat /\ mirror # {}
  <2>1. \A q \in S : C - q \in Nat
    BY <1>1
  <2> QED
    BY <2>1
<1>3. PICK x \in mirror : \A y \in mirror : ~(<<y, x>> \in OpToRel(<, Nat))
  BY <1>2, NatLessThanWellFounded, WFMin
<1>4. PICK q \in S : x = C - q
  BY <1>3
<1>5. ASSUME NEW p \in S PROVE p <= q
  <2> DEFINE y == C - p
  <2>1. y \in mirror /\ y \in Nat /\ x \in Nat
    BY <1>2, <1>3
  <2>2. <<y, x>> \in Nat \X Nat /\ <<y, x>>[1] = y /\ <<y, x>>[2] = x
    BY <2>1
  <2>3. ~(y < x)
    BY <1>3, <2>1, <2>2 DEF OpToRel
  <2> QED
    BY <1>1, <1>4, <2>3
<1> QED
  BY <1>5

(* Where the clone shows a common ancestor, it shows a merge base.         *)
LEMMA BlindMeansNothingShared ==
    ASSUME request \in Requests, MergeBases = {}
    PROVE  Common(cut) = {}
<1> SUFFICES ASSUME Common(cut) # {} PROVE FALSE
  OBVIOUS
<1>1. Common(cut) \subseteq Commit
  BY DEF Common, Reach
<1>2. PICK c \in Common(cut) : \A d \in Common(cut) : d <= c
  BY <1>1, NewestCommit
<1>3. ASSUME NEW d \in Common(cut), c \in Reach(request.parents, cut, d) PROVE c = d
  <2>1. c <= d /\ d <= c /\ c \in Nat /\ d \in Nat
    BY <1>1, <1>2, <1>3, ReachIsOlder DEF Commit
  <2> QED
    BY <2>1
<1> QED
  BY <1>2, <1>3 DEF MergeBases

LEMMA CommonShrinks ==
    ASSUME NEW edge
    PROVE  Common(edge) \subseteq Common({})
BY ShallowShowsLess DEF Common

------------------------------------------------------------------------------
(* The strengthening for the revision: the answer was seen in some clone,  *)
(* and the last clone is the one fetched to maxFetchDepth.                 *)
RevisionInv ==
    /\ phase \in Searching => request \in Requests
    /\ phase = "last" => cut = Boundary(request.parents, {request.base, request.head}, request.max)
    /\ NothingIsLeftOut
    /\ RefusalIsDue

LEMMA RevisionInit == InitPlanning => RevisionInv
BY DEF InitPlanning, Init, RevisionInv, Searching, NothingIsLeftOut, RefusalIsDue

LEMMA ResolveKeeps ==
    ASSUME RevisionInv, Resolve
    PROVE  RevisionInv'
<1> USE DEF RevisionInv, Searching
<1>1. CASE Open
  BY <1>1 DEF Open, NothingIsLeftOut, RefusalIsDue
<1>2. CASE OpenFails \/ DeepenFails
  BY <1>2 DEF OpenFails, DeepenFails, Blind, Refuse, NothingIsLeftOut, RefusalIsDue
<1>3. CASE CompareTip
  BY <1>3 DEF CompareTip, Resolved, NothingIsLeftOut, RefusalIsDue
<1>4. CASE CompareMergeBase
  <2>1. PICK c \in MergeBases : Resolved(c)
    BY <1>4 DEF CompareMergeBase
  <2>2. c \in Common({})
    BY CommonShrinks DEF MergeBases
  <2> QED
    BY <1>4, <2>1, <2>2 DEF CompareMergeBase, Resolved, NothingIsLeftOut, RefusalIsDue, Common
<1>5. CASE Deepen
  BY <1>5 DEF Deepen, Blind, NothingIsLeftOut, RefusalIsDue
<1>6. CASE Unrelated
  <2> DEFINE edge == Boundary(request.parents, {request.base, request.head}, request.max)
  <2>1. Common({}) = {}
    BY <1>6, BlindMeansNothingShared DEF Unrelated, Blind
  <2>2. Common(edge) = {}
    BY <2>1, CommonShrinks
  <2> QED
    BY <1>6, <2>2 DEF Unrelated, Refuse, NothingIsLeftOut, RefusalIsDue, Common
<1>7. CASE Exceeded
  <2>1. Common(Boundary(request.parents, {request.base, request.head}, request.max)) = {}
    BY <1>7, BlindMeansNothingShared DEF Exceeded
  <2> QED
    BY <1>7, <2>1 DEF Exceeded, Refuse, NothingIsLeftOut, RefusalIsDue, Common
<1> QED
  BY <1>1, <1>2, <1>3, <1>4, <1>5, <1>6, <1>7 DEF Resolve

(* The rest of the Action leaves the answer and the refusals alone.        *)
LEMMA RevisionStep == RevisionInv /\ [Next]_vars => RevisionInv'
<1> SUFFICES ASSUME RevisionInv, [Next]_vars PROVE RevisionInv'
  OBVIOUS
<1>1. CASE UNCHANGED vars \/ Done
  BY <1>1 DEF vars, Done, revisionVars, RevisionInv, NothingIsLeftOut, RefusalIsDue, Common
<1>2. CASE ResolveRevision
  BY <1>2, ResolveKeeps DEF ResolveRevision
<1>3. CASE \/ Calculate \/ WriteCold \/ ReadServer \/ ReadBundle \/ ReadFails \/ ReadCorrupt
           \/ WriteWarm \/ WarmFails \/ TakeWarm \/ Publish
  <2>1. phase' \notin Searching \cup {"refused"}
    BY <1>3 DEF Calculate, WriteCold, ReadServer, ReadBundle, ReadFails, ReadCorrupt, Read, KeepCold,
                WriteWarm, WarmFails, TakeWarm, Publish, Searching
  <2> QED
    BY <2>1 DEF RevisionInv, Searching, NothingIsLeftOut, RefusalIsDue
<1>4. CASE CalculateFails \/ ColdFails \/ PublishFails
  <2>1. phase' = "refused" /\ reason' \notin {"unrelated", "exceeded"}
    BY <1>4 DEF CalculateFails, ColdFails, PublishFails, RefusePlan, Refuse
  <2> QED
    BY <2>1 DEF RevisionInv, Searching, NothingIsLeftOut, RefusalIsDue
<1> QED
  BY <1>1, <1>2, <1>3, <1>4 DEF Next

------------------------------------------------------------------------------
(* The strengthening for the Plan.                                         *)
PlanInv ==
    /\ phase \in Searching \cup Planned \cup {"calculated", "refused"}
    /\ phase \in Searching \cup {"calculated", "refused"} /\ file # Nil =>
          phase = "refused" /\ lineage.ancestor
    /\ phase = "calculated" /\ lineage.same => lineage.ancestor
    /\ phase \in Planned =>
          lineage.ancestor /\ Valid(file) /\ compact = Printed(file)
    /\ phase = "written" => Valid(warm)
    /\ phase = "published" => outputs = compact

IInv == RevisionInv /\ PlanInv

LEMMA PlanInit == InitPlanning => PlanInv
BY DEF InitPlanning, Init, PlanInv, Searching, Planned

LEMMA PlanStep == IInv /\ [Next]_vars => PlanInv'
<1> SUFFICES ASSUME IInv, [Next]_vars PROVE PlanInv'
  OBVIOUS
<1> USE DEF Searching, Planned
<1>1. CASE UNCHANGED vars \/ Done
  BY <1>1 DEF vars, planVars, Done, IInv, PlanInv, Valid, Printed, Rows
<1>2. CASE ResolveRevision
  <2>1. phase \in Searching /\ phase' \in Searching \cup {"refused"} /\ UNCHANGED planVars
    BY <1>2 DEF ResolveRevision, Resolve, Open, OpenFails, CompareTip, CompareMergeBase, Resolved,
                Deepen, DeepenFails, Unrelated, Exceeded, Blind, Refuse
  <2> QED
    BY <2>1 DEF planVars, IInv, PlanInv
<1>3. CASE Calculate
  <2>1. /\ phase = "resolved" /\ phase' = "calculated" /\ file' = file
        /\ lineage' = [same |-> from = request.base,
                       ancestor |-> \/ request.mode = "tip"
                                    \/ request.base \in Reach(request.parents, {}, request.head)]
    BY <1>3 DEF Calculate
  <2>2. request \in Requests /\ request.mode \in {"merge-base", "tip"}
    BY <2>1, RevisionAssumption DEF IInv, RevisionInv, Comparison
  <2>3. from = request.base /\ request.mode = "merge-base"
           => request.base \in Reach(request.parents, {}, request.head)
    BY <2>1 DEF IInv, RevisionInv, NothingIsLeftOut, Common
  <2> QED
    BY <2>1, <2>2, <2>3 DEF IInv, PlanInv
<1>4. CASE WriteCold
  <2>1. PICK plan : Writable(plan) /\ file' = plan /\ compact' = Printed(plan)
    BY <1>4 DEF WriteCold
  <2>2. phase = "calculated" /\ phase' \in {"publishing", "server", "bundle"} /\ lineage' = lineage
    BY <1>4 DEF WriteCold
  <2>3. lineage.ancestor /\ Valid(file') /\ compact' = Printed(file')
    BY <2>1, <2>2 DEF Writable, IInv, PlanInv
  <2> QED
    BY <2>2, <2>3 DEF PlanInv, Valid, Printed, Rows
<1>5. CASE \/ CalculateFails \/ ColdFails \/ PublishFails
  BY <1>5 DEF CalculateFails, ColdFails, PublishFails, RefusePlan, Refuse, planVars, IInv, PlanInv
<1>6. CASE ReadServer \/ ReadBundle \/ ReadFails \/ ReadCorrupt \/ WarmFails
  <2>1. /\ phase \in Planned \ {"published"} /\ phase' \in {"publishing", "warm"}
        /\ UNCHANGED <<file, lineage, compact>>
    BY <1>6 DEF ReadServer, ReadBundle, ReadFails, ReadCorrupt, Read, KeepCold, WarmFails, planVars
  <2> QED
    BY <2>1 DEF IInv, PlanInv, Valid, Printed, Rows
<1>7. CASE WriteWarm
  <2>1. phase = "warm" /\ phase' = "written" /\ UNCHANGED <<file, lineage, compact>>
    BY <1>7 DEF WriteWarm
  <2>2. Valid(warm')
    BY <1>7 DEF WriteWarm, Writable
  <2> QED
    BY <2>1, <2>2 DEF IInv, PlanInv, Valid, Printed, Rows
<1>8. CASE TakeWarm
  BY <1>8 DEF TakeWarm, IInv, PlanInv, Valid, Printed, Rows
<1>9. CASE Publish
  BY <1>9 DEF Publish, IInv, PlanInv, Valid, Printed, Rows
<1> QED
  BY <1>1, <1>2, <1>3, <1>4, <1>5, <1>6, <1>7, <1>8, <1>9 DEF Next

LEMMA InvStep == IInv /\ [Next]_vars => IInv'
BY RevisionStep, PlanStep DEF IInv

LEMMA SpecInv == Spec => []IInv
BY RevisionInit, PlanInit, InvStep, PTL DEF Spec, IInv

(* However little history the clone has, changes are counted from a common *)
(* ancestor of both sides, and a Plan in merge-base mode is written only   *)
(* for a base that the head contains (git.rs, Plan::from_affected).        *)
THEOREM BaseAlwaysSound == Spec => []BaseIsSound
<1>1. IInv => BaseIsSound
  BY DEF IInv, RevisionInv, PlanInv, BaseIsSound, Searching, Planned
<1> QED
  BY <1>1, SpecInv, PTL

(* nanoom gives up the search for a merge base only when a fetch to        *)
(* maxFetchDepth shows no common ancestor either (git.rs).                 *)
THEOREM RefusalAlwaysDue == Spec => []RefusalIsDue
<1>1. IInv => RefusalIsDue
  BY DEF IInv, RevisionInv
<1> QED
  BY <1>1, SpecInv, PTL

(* Wherever the second nanoom is killed, reference, matrix and Plan file   *)
(* are of one Plan (affected/run.sh).                                      *)
THEOREM AlwaysPublishedTogether == Spec => []PublishedTogether
<1>1. IInv => PublishedTogether
  <2> SUFFICES ASSUME PlanInv, phase = "published"
               PROVE  /\ \A row \in outputs.rows : Selects(row)
                      /\ \A g \in Group : \A a \in file[g] : <<g, a.id>> \in outputs.rows
    BY DEF IInv, PublishedTogether
  <2>1. outputs.plan = file /\ outputs.rows = Rows(file) /\ Valid(file)
    BY DEF PlanInv, Planned, Printed
  <2>2. \A row \in Rows(file) : \E g \in Group : \E a \in file[g] : row = <<g, a.id>>
    BY DEF Rows
  <2>3. \A g \in Group : \A a \in file[g] : <<g, a.id>> \in Rows(file)
    BY DEF Rows
  <2>4. \A row \in Rows(file) : \E a \in file[row[1]] : a.id = row[2]
    BY <2>2
  <2> QED
    BY <2>1, <2>3, <2>4 DEF Selects
<1> QED
  BY <1>1, SpecInv, PTL

------------------------------------------------------------------------------
(* Progress: a fetch is never deeper than asked for, and each is deeper    *)
(* than the one before.                                                    *)
DepthInv == phase = "compare" => request \in Requests /\ depth \in 1..request.max

LEMMA RequestIsComparison ==
    ASSUME NEW r \in Requests
    PROVE  r.max \in Nat \ {0}
BY RevisionAssumption DEF Comparison

LEMMA NextIsDeeper ==
    ASSUME NEW max \in Nat, NEW d \in 1..max, d # max
    PROVE  d * Factor \in Nat /\ d < d * Factor
<1>1. Factor \in Nat /\ Factor >= 2
  BY RevisionAssumption
<1>2. d * Factor >= d * 2
  BY <1>1, SMT
<1> QED
  BY <1>1, <1>2, SMT

LEMMA DepthStep == RevisionInv /\ DepthInv /\ [Next]_vars => DepthInv'
<1> SUFFICES ASSUME RevisionInv, DepthInv, [Next]_vars, phase' = "compare" PROVE DepthInv'
  BY DEF DepthInv
<1>1. CASE UNCHANGED vars
  BY <1>1 DEF vars, revisionVars, DepthInv
<1>2. CASE Open
  <2>1. request \in Requests /\ request' = request /\ depth' = FirstFetch
    BY <1>2 DEF Open, RevisionInv, Searching
  <2> QED
    BY <2>1, RequestIsComparison, RevisionAssumption DEF FirstFetch, DepthInv
<1>3. CASE Deepen
  <2>1. request \in Requests /\ request' = request /\ depth \in 1..request.max
        /\ depth' = NextDepth /\ depth # request.max
    BY <1>3 DEF Deepen, Blind, DepthInv
  <2>2. request.max \in Nat \ {0}
    BY <2>1, RequestIsComparison
  <2>3. depth * Factor \in Nat /\ depth < depth * Factor
    BY <2>1, <2>2, NextIsDeeper
  <2> QED
    BY <2>1, <2>2, <2>3 DEF NextDepth, DepthInv
<1> QED
  BY <1>1, <1>2, <1>3
     DEF Next, ResolveRevision, Resolve, OpenFails, CompareTip, CompareMergeBase, Resolved, DeepenFails,
         Unrelated, Exceeded, Refuse, Calculate, CalculateFails, WriteCold, ColdFails, ReadServer,
         ReadBundle, ReadFails, ReadCorrupt, Read, KeepCold, WriteWarm, WarmFails, TakeWarm,
         Publish, PublishFails, RefusePlan, Done

(* The phases in their order.                                              *)
LEMMA Phases ==
    /\ DOMAIN Order = 1..12
    /\ Order[1] = "open" /\ Order[2] = "compare" /\ Order[3] = "last" /\ Order[4] = "resolved"
    /\ Order[5] = "calculated" /\ Order[6] = "server" /\ Order[7] = "bundle" /\ Order[8] = "warm"
    /\ Order[9] = "written" /\ Order[10] = "publishing" /\ Order[11] = "published"
    /\ Order[12] = "refused"
BY DEF Order

LEMMA Forward ==
    /\ Later("open", "compare") /\ Later("compare", "last")
    /\ Later("compare", "resolved") /\ Later("last", "resolved")
    /\ Later("resolved", "calculated")
    /\ \A q \in {"publishing", "server", "bundle"} : Later("calculated", q)
    /\ \A p \in {"server", "bundle"}, q \in {"warm", "publishing"} : Later(p, q)
    /\ Later("warm", "written") /\ Later("warm", "publishing") /\ Later("written", "publishing")
    /\ Later("publishing", "published")
    /\ \A p \in {"open", "compare", "last", "resolved", "calculated", "publishing"} :
          Later(p, "refused")
<1>1. \A i, j \in 1..12 : i < j => Later(Order[i], Order[j])
  BY Phases, Zenon DEF Later
<1>2. Later(Order[1], Order[2]) /\ Later(Order[2], Order[3]) /\ Later(Order[2], Order[4])
      /\ Later(Order[3], Order[4]) /\ Later(Order[4], Order[5])
  BY <1>1
<1>3. Later(Order[5], Order[6]) /\ Later(Order[5], Order[7]) /\ Later(Order[5], Order[10])
      /\ Later(Order[6], Order[8]) /\ Later(Order[6], Order[10])
      /\ Later(Order[7], Order[8]) /\ Later(Order[7], Order[10])
  BY <1>1
<1>4. Later(Order[8], Order[9]) /\ Later(Order[8], Order[10]) /\ Later(Order[9], Order[10])
      /\ Later(Order[10], Order[11])
  BY <1>1
<1>5. Later(Order[1], Order[12]) /\ Later(Order[2], Order[12]) /\ Later(Order[3], Order[12])
      /\ Later(Order[4], Order[12]) /\ Later(Order[5], Order[12]) /\ Later(Order[10], Order[12])
  BY <1>1
<1> QED
  BY <1>2, <1>3, <1>4, <1>5, Phases

(* try_merge_base_with_deepen and the Action around it: every step fetches *)
(* deeper, at most to maxFetchDepth, or leads to a later phase.            *)
THEOREM EveryStepLeadsOn == Spec => EveryStepAdvances
<1> DEFINE Advance == \/ Later(phase, phase')
                      \/ phase = "compare" /\ phase' = phase /\ depth < depth' /\ depth' <= request.max
<1>1. RevisionInv /\ DepthInv /\ [Next]_vars => [Advance]_vars
  <2> SUFFICES ASSUME RevisionInv, DepthInv, [Next]_vars PROVE [Advance]_vars
    OBVIOUS
  <2>1. CASE UNCHANGED vars \/ Done
    BY <2>1 DEF Done
  <2>2. CASE Deepen
    <3>1. request \in Requests /\ depth \in 1..request.max /\ phase = "compare"
          /\ depth' = NextDepth /\ phase' = IF depth = request.max THEN "last" ELSE "compare"
      BY <2>2 DEF Deepen, Blind, DepthInv
    <3>2. CASE depth = request.max
      BY <3>1, <3>2, Forward
    <3>3. CASE depth # request.max
      <4>1. request.max \in Nat \ {0}
        BY <3>1, RequestIsComparison
      <4>2. depth * Factor \in Nat /\ depth < depth * Factor
        BY <3>1, <3>3, <4>1, NextIsDeeper
      <4> QED
        BY <3>1, <3>3, <4>1, <4>2 DEF NextDepth
    <3> QED
      BY <3>2, <3>3
  <2>3. CASE Open \/ OpenFails \/ CompareTip \/ CompareMergeBase \/ DeepenFails \/ Unrelated \/ Exceeded
    BY <2>3, Forward DEF Open, OpenFails, CompareTip, CompareMergeBase, Resolved, DeepenFails,
                         Unrelated, Exceeded, Blind, Refuse
  <2>4. CASE Calculate \/ CalculateFails \/ WriteCold \/ ColdFails \/ Publish \/ PublishFails
    BY <2>4, Forward DEF Calculate, CalculateFails, WriteCold, ColdFails, Publish, PublishFails,
                         RefusePlan, Refuse
  <2>5. CASE ReadServer \/ ReadBundle \/ ReadFails \/ ReadCorrupt
    <3>1. phase \in {"server", "bundle"} /\ phase' \in {"warm", "publishing"}
      BY <2>5 DEF ReadServer, ReadBundle, ReadFails, ReadCorrupt, Read, KeepCold
    <3> QED
      BY <3>1, Forward
  <2>6. CASE WriteWarm \/ WarmFails \/ TakeWarm
    BY <2>6, Forward DEF WriteWarm, WarmFails, KeepCold, TakeWarm
  <2> QED
    BY <2>1, <2>2, <2>3, <2>4, <2>5, <2>6 DEF Next, ResolveRevision, Resolve
<1>2. InitPlanning => DepthInv
  BY DEF InitPlanning, Init, DepthInv
<1> QED
  BY <1>1, <1>2, RevisionInit, RevisionStep, DepthStep, PTL DEF Spec, EveryStepAdvances

------------------------------------------------------------------------------
(* Orders of the scheduler.                                                *)
(* Four numbers each, compared one after the other.                        *)
FirstLess(a1, a2, a3, a4, b1, b2, b3, b4) ==
    \/ a1 < b1
    \/ a1 = b1 /\ a2 < b2
    \/ a1 = b1 /\ a2 = b2 /\ a3 < b3
    \/ a1 = b1 /\ a2 = b2 /\ a3 = b3 /\ a4 < b4

LEMMA LexicallyFour ==
    ASSUME NEW a1 \in Nat, NEW a2 \in Nat, NEW a3 \in Nat, NEW a4 \in Nat,
           NEW b1 \in Nat, NEW b2 \in Nat, NEW b3 \in Nat, NEW b4 \in Nat
    PROVE  Lexically(<<a1, a2, a3, a4>>, <<b1, b2, b3, b4>>) <=> FirstLess(a1, a2, a3, a4, b1, b2, b3, b4)
<1> DEFINE a == <<a1, a2, a3, a4>>
           b == <<b1, b2, b3, b4>>
           At(k) == a[k] < b[k] /\ \A j \in 1..(k - 1) : a[j] = b[j]
<1>1. Lexically(a, b) <=> \E k \in 1..4 : At(k)
  BY DEF Lexically
<1>2. \A k \in 1..4 : k = 1 \/ k = 2 \/ k = 3 \/ k = 4
  OBVIOUS
<1>3. 1 \in 1..4 /\ 2 \in 1..4 /\ 3 \in 1..4 /\ 4 \in 1..4
  OBVIOUS
<1>4. At(1) <=> a1 < b1
  OBVIOUS
<1>5. At(2) <=> a1 = b1 /\ a2 < b2
  OBVIOUS
<1>6. At(3) <=> a1 = b1 /\ a2 = b2 /\ a3 < b3
  OBVIOUS
<1>7. At(4) <=> a1 = b1 /\ a2 = b2 /\ a3 = b3 /\ a4 < b4
  OBVIOUS
<1> HIDE DEF At, a, b
<1>8. (\E k \in 1..4 : At(k)) <=> At(1) \/ At(2) \/ At(3) \/ At(4)
  BY <1>2, <1>3
<1>9. Lexically(a, b) <=> \/ a1 < b1
                          \/ a1 = b1 /\ a2 < b2
                          \/ a1 = b1 /\ a2 = b2 /\ a3 < b3
                          \/ a1 = b1 /\ a2 = b2 /\ a3 = b3 /\ a4 < b4
  BY <1>1, <1>4, <1>5, <1>6, <1>7, <1>8, Zenon
<1> QED
  BY <1>9 DEF a, b, FirstLess

(* What is cheaper than everything else, by such costs; there is one       *)
(* when the last of them tells all apart.                                  *)
Cheapest(x, D, c1, c2, c3, c4) ==
    \A y \in D \ {x} : Lexically(<<c1[x], c2[x], c3[x], c4[x]>>, <<c1[y], c2[y], c3[y], c4[y]>>)

LEMMA LeastCost ==
    ASSUME NEW D, D # {}, NEW c1 \in [D -> Nat], NEW c2 \in [D -> Nat], NEW c3 \in [D -> Nat],
           NEW c4 \in [D -> Nat], \A x, y \in D : c4[x] = c4[y] => x = y
    PROVE  \E x \in D : Cheapest(x, D, c1, c2, c3, c4)
<1>1. ASSUME NEW E \in SUBSET D, E # {}, NEW c \in [D -> Nat]
      PROVE  \E x \in E : \A y \in E : c[x] <= c[y]
  <2> DEFINE V == {c[x] : x \in E}
  <2>1. V \subseteq Nat /\ V # {}
    BY <1>1
  <2>2. PICK v \in V : \A w \in V : v <= w
    BY <2>1, LeastNumber
  <2>3. PICK x \in E : v = c[x]
    BY <2>2
  <2>4. \A y \in E : c[y] \in V
    OBVIOUS
  <2> QED
    BY <2>2, <2>3, <2>4
<1> DEFINE First(E, c) == {x \in E : \A y \in E : c[x] <= c[y]}
<1> PICK D1, D2, D3 : D1 = First(D, c1) /\ D2 = First(D1, c2) /\ D3 = First(D2, c3)
  OBVIOUS
<1>2. D1 \in SUBSET D /\ D1 # {}
  BY <1>1
<1>3. D2 \in SUBSET D1 /\ D2 \in SUBSET D /\ D2 # {}
  BY <1>1, <1>2
<1>4. D3 \in SUBSET D2 /\ D3 \in SUBSET D /\ D3 # {}
  BY <1>1, <1>3
<1>5. PICK x \in D3 : \A y \in D3 : c4[x] <= c4[y]
  BY <1>1, <1>4
<1>6. x \in D3 /\ x \in D2 /\ x \in D1 /\ x \in D
  BY <1>2, <1>3, <1>4, <1>5
<1>7. ASSUME NEW y \in D \ {x}
      PROVE  Lexically(<<c1[x], c2[x], c3[x], c4[x]>>, <<c1[y], c2[y], c3[y], c4[y]>>)
  <2>1. PICK p1, p2, p3, p4, q1, q2, q3, q4 :
           /\ p1 = c1[x] /\ p2 = c2[x] /\ p3 = c3[x] /\ p4 = c4[x]
           /\ q1 = c1[y] /\ q2 = c2[y] /\ q3 = c3[y] /\ q4 = c4[y]
    OBVIOUS
  <2>2. /\ p1 \in Nat /\ p2 \in Nat /\ p3 \in Nat /\ p4 \in Nat
        /\ q1 \in Nat /\ q2 \in Nat /\ q3 \in Nat /\ q4 \in Nat /\ p4 # q4
    BY <1>6, <2>1
  <2>3. p1 <= q1 /\ (y \in D1 => p2 <= q2) /\ (y \in D2 => p3 <= q3) /\ (y \in D3 => p4 <= q4)
    BY <1>5, <1>6, <2>1
  <2>4. p1 = q1 => y \in D1
    <3>1. \A z \in D : c1[x] <= c1[z]
      BY <1>6
    <3> QED
      BY <2>1, <3>1
  <2>5. y \in D1 /\ p2 = q2 => y \in D2
    <3>1. \A z \in D1 : c2[x] <= c2[z]
      BY <1>6
    <3> QED
      BY <2>1, <3>1
  <2>6. y \in D2 /\ p3 = q3 => y \in D3
    <3>1. \A z \in D2 : c3[x] <= c3[z]
      BY <1>6
    <3> QED
      BY <2>1, <3>1
  <2>7. \/ p1 < q1
        \/ p1 = q1 /\ p2 < q2
        \/ p1 = q1 /\ p2 = q2 /\ p3 < q3
        \/ p1 = q1 /\ p2 = q2 /\ p3 = q3 /\ p4 < q4
    BY <2>2, <2>3, <2>4, <2>5, <2>6
  <2>8. Lexically(<<p1, p2, p3, p4>>, <<q1, q2, q3, q4>>)
    <3>1. FirstLess(p1, p2, p3, p4, q1, q2, q3, q4)
      BY <2>7 DEF FirstLess
    <3> QED
      BY <2>2, <3>1, LexicallyFour, Zenon
  <2> QED
    BY <2>1, <2>8, Zenon
<1>8. Cheapest(x, D, c1, c2, c3, c4)
  BY <1>7 DEF Cheapest
<1> QED
  BY <1>6, <1>8

(* Work items by their IDs, and longest first.                             *)
WorkItem == [name : Workspace, task : Nat, shard : Nat, total : Nat]

LEMMA ItemsDiffer ==
    ASSUME NEW i \in WorkItem, NEW j \in WorkItem,
           i.name = j.name, i.task = j.task, i.shard = j.shard, i.total = j.total
    PROVE  i = j
BY DEF WorkItem

LEMMA IdOrder ==
    ASSUME NEW i \in WorkItem, NEW j \in WorkItem
    PROVE  IdBefore(i, j) <=>
              \/ i.name < j.name
              \/ i.name = j.name /\ i.task < j.task
              \/ i.name = j.name /\ i.task = j.task /\ i.shard < j.shard
              \/ i.name = j.name /\ i.task = j.task /\ i.shard = j.shard /\ i.total < j.total
<1>1. /\ i.name \in Nat /\ i.task \in Nat /\ i.shard \in Nat /\ i.total \in Nat
      /\ j.name \in Nat /\ j.task \in Nat /\ j.shard \in Nat /\ j.total \in Nat
  BY SchedulerAssumption DEF WorkItem
<1>2. IdBefore(i, j) <=> FirstLess(i.name, i.task, i.shard, i.total, j.name, j.task, j.shard, j.total)
  BY <1>1, LexicallyFour, Zenon DEF IdBefore
<1> QED
  BY <1>2 DEF FirstLess

(* Each item has its place in the order.                                   *)
LEMMA EachItemOnce ==
    ASSUME NEW S \in SUBSET WorkItem, IsFiniteSet(S), NEW weight \in [S -> Nat]
    PROVE  Lists(LongestFirst(weight), S)
<1> DEFINE ahead(i, j) == weight[i] > weight[j] \/ (weight[i] = weight[j] /\ IdBefore(i, j))
<1> PICK less : less = [j \in S |-> {i \in S : ahead(i, j)}]
  OBVIOUS
<1>1. less \in [S -> SUBSET S] /\ \A i, j \in S : i \in less[j] <=> ahead(i, j)
  OBVIOUS
<1>2. \A i \in S : /\ i \in WorkItem /\ weight[i] \in Nat
                   /\ i.name \in Nat /\ i.task \in Nat /\ i.shard \in Nat /\ i.total \in Nat
  BY SchedulerAssumption DEF WorkItem
<1>3. \A i \in S : i \notin less[i]
  <2> TAKE i \in S
  <2>1. ~IdBefore(i, i)
    BY <1>2, IdOrder
  <2> QED
    BY <1>1, <1>2, <2>1
<1>4. ASSUME NEW i \in S, NEW j \in S, NEW k \in S, i \in less[j], j \in less[k]
      PROVE  i \in less[k]
  <2>1. IdBefore(i, j) /\ IdBefore(j, k) => IdBefore(i, k)
    <3>1. IdBefore(i, j) <=>
              \/ i.name < j.name
              \/ i.name = j.name /\ i.task < j.task
              \/ i.name = j.name /\ i.task = j.task /\ i.shard < j.shard
              \/ i.name = j.name /\ i.task = j.task /\ i.shard = j.shard /\ i.total < j.total
      BY <1>2, IdOrder
    <3>2. IdBefore(j, k) <=>
              \/ j.name < k.name
              \/ j.name = k.name /\ j.task < k.task
              \/ j.name = k.name /\ j.task = k.task /\ j.shard < k.shard
              \/ j.name = k.name /\ j.task = k.task /\ j.shard = k.shard /\ j.total < k.total
      BY <1>2, IdOrder
    <3>3. IdBefore(i, k) <=>
              \/ i.name < k.name
              \/ i.name = k.name /\ i.task < k.task
              \/ i.name = k.name /\ i.task = k.task /\ i.shard < k.shard
              \/ i.name = k.name /\ i.task = k.task /\ i.shard = k.shard /\ i.total < k.total
      BY <1>2, IdOrder
    <3> QED
      BY <1>2, <3>1, <3>2, <3>3
  <2>2. /\ weight[i] > weight[j] \/ (weight[i] = weight[j] /\ IdBefore(i, j))
        /\ weight[j] > weight[k] \/ (weight[j] = weight[k] /\ IdBefore(j, k))
    BY <1>1, <1>4
  <2>3. weight[i] > weight[k] \/ (weight[i] = weight[k] /\ IdBefore(i, k))
    BY <1>2, <2>1, <2>2
  <2> QED
    BY <1>1, <2>3
<1>5. ASSUME NEW i \in S, NEW j \in S, i # j PROVE i \in less[j] \/ j \in less[i]
  <2>1. ~(i.name = j.name /\ i.task = j.task /\ i.shard = j.shard /\ i.total = j.total)
    BY <1>2, <1>5, ItemsDiffer
  <2>2. IdBefore(i, j) \/ IdBefore(j, i)
    <3>1. IdBefore(i, j) <=>
              \/ i.name < j.name
              \/ i.name = j.name /\ i.task < j.task
              \/ i.name = j.name /\ i.task = j.task /\ i.shard < j.shard
              \/ i.name = j.name /\ i.task = j.task /\ i.shard = j.shard /\ i.total < j.total
      BY <1>2, IdOrder
    <3>2. IdBefore(j, i) <=>
              \/ j.name < i.name
              \/ j.name = i.name /\ j.task < i.task
              \/ j.name = i.name /\ j.task = i.task /\ j.shard < i.shard
              \/ j.name = i.name /\ j.task = i.task /\ j.shard = i.shard /\ j.total < i.total
      BY <1>2, IdOrder
    <3> QED
      BY <1>2, <2>1, <3>1, <3>2
  <2> QED
    BY <1>1, <1>2, <2>2
<1>6. PICK before : before = [i \in S |-> Cardinality(less[i])]
  OBVIOUS
<1>7. LongestFirst(weight) = Sorted(before)
  <2>1. \A i \in S : less[i] = {j \in S : ahead(j, i)}
    OBVIOUS
  <2>2. before = [i \in S |-> Cardinality({j \in S : ahead(j, i)})]
    BY <1>6, <2>1
  <2>3. DOMAIN weight = S
    OBVIOUS
  <2> QED
    BY <2>2, <2>3 DEF LongestFirst
<1> HIDE DEF ahead
<1>8. StrictOrder(less, S)
  BY <1>1, <1>3, <1>4, <1>5 DEF StrictOrder
<1>9. \A i \in S : IsFiniteSet(less[i]) /\ Cardinality(less[i]) \in Nat
  BY <1>1, FS_Subset, FS_CardinalityType
<1>10. before \in [S -> Nat] /\ \A i \in S : before[i] = Cardinality(less[i])
  BY <1>6, <1>9
<1>11. Lists(Sorted(before), S)
  BY <1>8, <1>10, SortedByOrder, Zenon
<1> QED
  BY <1>7, <1>11

------------------------------------------------------------------------------
(* Placement.                                                              *)
AllPaths == UNION {CheckoutPaths[w] : w \in Workspace}

Buckets(m) ==
    [1..m -> [id : Nat, items : SUBSET WorkItem, checkout : SUBSET AllPaths, load : Nat,
              cold : Nat, preparation : {Unknown}, mode : {Unknown}]]

LEMMA PathsAreFinite == IsFiniteSet(AllPaths)
<1> DEFINE parts == {CheckoutPaths[w] : w \in Workspace}
           f == [w \in Workspace |-> CheckoutPaths[w]]
<1>1. f \in [Workspace -> parts] /\ \A p \in parts : \E w \in Workspace : f[w] = p
  OBVIOUS
<1> HIDE DEF f
<1>2. IsFiniteSet(parts)
  <2> HIDE DEF parts
  <2> QED
    BY <1>1, SchedulerAssumption, ImageIsFinite
<1>3. \A p \in parts : IsFiniteSet(p)
  BY SchedulerAssumption
<1> QED
  BY <1>2, <1>3, FS_UNION DEF AllPaths

LEMMA MakespanIsLargest ==
    ASSUME NEW m \in Nat \ {0}, NEW b \in Buckets(m)
    PROVE  /\ Makespan(b) \in Nat
           /\ \A k \in 1..m : b[k].load <= Makespan(b)
           /\ \E k \in 1..m : b[k].load = Makespan(b)
<1> PICK S : S = {b[k].load : k \in 1..m}
  OBVIOUS
<1>1. DOMAIN b = 1..m /\ \A k \in 1..m : b[k].load \in Nat
  BY DEF Buckets
<1>2. S \subseteq Nat /\ S # {}
  <2>1. 1 \in 1..m
    OBVIOUS
  <2> QED
    BY <1>1, <2>1
<1>3. IsFiniteSet(S)
  <2>1. IsFiniteSet(1..m)
    BY FS_Interval
  <2> DEFINE f == [k \in 1..m |-> b[k].load]
  <2>2. f \in [1..m -> S] /\ \A y \in S : \E k \in 1..m : f[k] = y
    OBVIOUS
  <2> HIDE DEF f
  <2> QED
    BY <2>1, <2>2, ImageIsFinite
<1>4. PICK x \in S : \A y \in S : y <= x
  BY <1>2, <1>3, LargestNumber
<1>5. Largest(S) \in S /\ \A y \in S : y <= Largest(S)
  BY <1>4 DEF Largest
<1>6. Makespan(b) = Largest(S)
  BY <1>1 DEF Makespan
<1>7. \A k \in 1..m : b[k].load \in S
  OBVIOUS
<1>8. \E k \in 1..m : b[k].load = Largest(S)
  BY <1>5
<1> QED
  BY <1>2, <1>5, <1>6, <1>7, <1>8

LEMMA CheckoutsAreCounted ==
    ASSUME NEW m \in Nat \ {0}, NEW b \in Buckets(m)
    PROVE  CheckoutTotal(b) \in Nat
<1> DEFINE f == [k \in 1..m |-> Cardinality(b[k].checkout)]
<1>1. DOMAIN b = 1..m
  BY DEF Buckets
<1>2. \A k \in 1..m : Cardinality(b[k].checkout) \in Nat
  <2> TAKE k \in 1..m
  <2>1. b[k].checkout \in SUBSET AllPaths
    BY DEF Buckets
  <2> QED
    BY <2>1, PathsAreFinite, FS_Subset, FS_CardinalityType
<1>3. f \in [1..m -> Nat]
  BY <1>2
<1>4. IsFiniteSet(1..m) /\ 1..m \in SUBSET (1..m)
  BY FS_Interval
<1>5. CheckoutTotal(b) = SumOf(f, 1..m)
  BY <1>1 DEF CheckoutTotal
<1> HIDE DEF f
<1>6. \A S \in SUBSET (1..m) : SumOf(f, S) \in Nat
  BY <1>3, <1>4, SumWithout
<1> QED
  BY <1>4, <1>5, <1>6

Loaded(b, k, i, w, cold) == [b EXCEPT ![k] = With(@, i, w, cold)]

(* c is b after bucket k got item i.                                       *)
HasGot(c, b, m, k, i, w, cold) ==
    /\ c \in Buckets(m)
    /\ \A j \in 1..m \ {k} : c[j] = b[j]
    /\ c[k].id = b[k].id
    /\ c[k].load = b[k].load + w
    /\ c[k].items = b[k].items \cup {i}
    /\ c[k].checkout = b[k].checkout \cup CheckoutPaths[i.name]
    /\ c[k].cold = b[k].cold + IF cold THEN 1 ELSE 0

LEMMA LoadedIsBuckets ==
    ASSUME NEW m \in Nat \ {0}, NEW b \in Buckets(m), NEW i \in WorkItem, NEW w \in Nat, NEW cold,
           NEW k \in 1..m
    PROVE  HasGot(Loaded(b, k, i, w, cold), b, m, k, i, w, cold)
<1>1. CheckoutPaths[i.name] \in SUBSET AllPaths
  BY DEF AllPaths, WorkItem
<1>2. b[k] \in [id : Nat, items : SUBSET WorkItem, checkout : SUBSET AllPaths, load : Nat,
                cold : Nat, preparation : {Unknown}, mode : {Unknown}]
  BY DEF Buckets
<1>3. PICK r : r = With(b[k], i, w, cold)
  OBVIOUS
<1>4. PICK one : one = IF cold THEN 1 ELSE 0
  OBVIOUS
<1>5. one \in Nat
  BY <1>4
<1>6. PICK I, K, l, n : /\ I = b[k].items \cup {i} /\ K = b[k].checkout \cup CheckoutPaths[i.name]
                        /\ l = b[k].load + w /\ n = b[k].cold + one
  OBVIOUS
<1>7. I \in SUBSET WorkItem /\ K \in SUBSET AllPaths /\ l \in Nat /\ n \in Nat
  BY <1>1, <1>2, <1>5, <1>6
<1>8. r = [b[k] EXCEPT !.items = I, !.checkout = K, !.load = l, !.cold = n]
  BY <1>3, <1>4, <1>6, Zenon DEF With
<1>9. PICK A, B : A = SUBSET WorkItem /\ B = SUBSET AllPaths
  OBVIOUS
<1>10. b[k] \in [id : Nat, items : A, checkout : B, load : Nat, cold : Nat,
                  preparation : {Unknown}, mode : {Unknown}]
  BY <1>2, <1>9, Zenon
<1>11. I \in A /\ K \in B
  BY <1>7, <1>9, Zenon
<1>12. /\ r.id = b[k].id /\ r.load = l /\ r.items = I /\ r.checkout = K /\ r.cold = n
       /\ r \in [id : Nat, items : A, checkout : B, load : Nat, cold : Nat,
                 preparation : {Unknown}, mode : {Unknown}]
  BY <1>7, <1>8, <1>10, <1>11
<1>13. r \in [id : Nat, items : SUBSET WorkItem, checkout : SUBSET AllPaths, load : Nat,
               cold : Nat, preparation : {Unknown}, mode : {Unknown}]
  BY <1>9, <1>12, Zenon
<1>14. Loaded(b, k, i, w, cold) = [b EXCEPT ![k] = r]
  BY <1>3 DEF Loaded
<1> QED
  BY <1>4, <1>6, <1>12, <1>13, <1>14 DEF Buckets, HasGot

(* An item goes where the makespan stays smallest.                         *)
LEMMA PlaceIsBest ==
    ASSUME NEW m \in Nat \ {0}, NEW b \in Buckets(m), NEW i \in WorkItem, NEW w \in Nat, NEW cold
    PROVE  \E k \in 1..m :
              /\ Place(b, i, w, cold) = Loaded(b, k, i, w, cold)
              /\ \A j \in 1..m : Makespan(Loaded(b, k, i, w, cold)) <= Makespan(Loaded(b, j, i, w, cold))
<1> DEFINE D == 1..m
           placed(k) == Loaded(b, k, i, w, cold)
           c1 == [k \in D |-> Makespan(placed(k))]
           c2 == [k \in D |-> CheckoutTotal(placed(k))]
           c3 == [k \in D |-> placed(k)[k].load]
           c4 == [k \in D |-> k]
           Least(k) == Cheapest(k, D, c1, c2, c3, c4)
<1>1. DOMAIN b = D /\ D # {}
  <2>1. \A T : b \in [D -> T] => DOMAIN b = D
    OBVIOUS
  <2>2. 1 \in D
    OBVIOUS
  <2>3. DOMAIN b = D
    BY <2>1, Zenon DEF Buckets
  <2> QED
    BY <2>2, <2>3
<1>2. \A k \in D : placed(k) \in Buckets(m)
  BY LoadedIsBuckets DEF HasGot
<1>3. \A k \in D : Makespan(placed(k)) \in Nat /\ CheckoutTotal(placed(k)) \in Nat /\ placed(k)[k].load \in Nat
  <2> TAKE k \in D
  <2>1. placed(k) \in Buckets(m)
    BY <1>2
  <2> HIDE DEF placed
  <2>2. placed(k)[k].load \in Nat
    BY <2>1 DEF Buckets
  <2> QED
    BY <2>1, <2>2, MakespanIsLargest, CheckoutsAreCounted
<1>4. /\ c1 \in [D -> Nat] /\ c2 \in [D -> Nat] /\ c3 \in [D -> Nat] /\ c4 \in [D -> Nat]
      /\ \A x, y \in D : c4[x] = c4[y] => x = y
  <2> HIDE DEF placed
  <2> QED
    BY <1>3
<1>5. \E k \in D : Least(k)
  <2> HIDE DEF c1, c2, c3, c4, D
  <2> QED
    BY <1>1, <1>4, LeastCost
<1> DEFINE best == CHOOSE k \in D : Least(k)
<1>6. best \in D /\ Least(best)
  <2> HIDE DEF Least, D
  <2> QED
    BY <1>5
<1>7. Place(b, i, w, cold) = placed(best)
  <2> DEFINE cost == [k \in D |-> <<Makespan(placed(k)), CheckoutTotal(placed(k)), placed(k)[k].load, k>>]
             pick == CHOOSE k \in D : \A j \in D \ {k} : Lexically(cost[k], cost[j])
  <2>1. Place(b, i, w, cold) = placed(pick)
    BY <1>1 DEF Place, Loaded
  <2>2. \A k \in D : cost[k] = <<c1[k], c2[k], c3[k], c4[k]>>
    OBVIOUS
  <2>3. \A k \in D : Least(k) <=> \A j \in D \ {k} : Lexically(cost[k], cost[j])
    <3> HIDE DEF c1, c2, c3, c4, cost, D
    <3> QED
      BY <2>2, Zenon DEF Cheapest
  <2>4. pick = best
    <3> HIDE DEF Least, cost, D
    <3> QED
      BY <2>3
  <2> QED
    BY <2>1, <2>4
<1> HIDE DEF best, Least
<1>8. ASSUME NEW j \in D PROVE c1[best] <= c1[j]
  <2>1. CASE j = best
    BY <1>4, <1>6, <2>1
  <2>2. CASE j # best
    <3>1. PICK p1, p2, p3, p4, q1, q2, q3, q4 :
             /\ p1 = c1[best] /\ p2 = c2[best] /\ p3 = c3[best] /\ p4 = c4[best]
             /\ q1 = c1[j] /\ q2 = c2[j] /\ q3 = c3[j] /\ q4 = c4[j]
      OBVIOUS
    <3>2. /\ p1 \in Nat /\ p2 \in Nat /\ p3 \in Nat /\ p4 \in Nat
          /\ q1 \in Nat /\ q2 \in Nat /\ q3 \in Nat /\ q4 \in Nat
      <4> HIDE DEF c1, c2, c3, c4, D
      <4> QED
        BY <1>4, <1>6, <3>1
    <3>3. Lexically(<<c1[best], c2[best], c3[best], c4[best]>>, <<c1[j], c2[j], c3[j], c4[j]>>)
      <4> HIDE DEF c1, c2, c3, c4, D
      <4> QED
        BY <1>6, <2>2 DEF Least, Cheapest
    <3> HIDE DEF c1, c2, c3, c4
    <3>4. Lexically(<<p1, p2, p3, p4>>, <<q1, q2, q3, q4>>)
      BY <3>1, <3>3, Zenon
    <3>5. FirstLess(p1, p2, p3, p4, q1, q2, q3, q4)
      BY <3>2, <3>4, LexicallyFour, Zenon
    <3>6. p1 <= q1
      BY <3>2, <3>5 DEF FirstLess
    <3> QED
      BY <3>1, <3>6
  <2> QED
    BY <2>1, <2>2
<1>9. \A j \in D : Makespan(placed(best)) <= Makespan(placed(j))
  <2> HIDE DEF placed
  <2> QED
    BY <1>6, <1>8
<1> QED
  BY <1>6, <1>7, <1>9

(* So the bucket that gets it is then no fuller than any other would be,   *)
(* or than another one is.                                                 *)
LEMMA PlacesLow ==
    ASSUME NEW m \in Nat \ {0}, NEW b \in Buckets(m), NEW i \in WorkItem, NEW w \in Nat, NEW cold
    PROVE  \E k \in 1..m :
              /\ Place(b, i, w, cold) = Loaded(b, k, i, w, cold)
              /\ \A j \in 1..m : \/ b[k].load <= b[j].load
                                 \/ \E l \in 1..m \ {j} : b[k].load + w <= b[l].load
<1>1. PICK k \in 1..m :
         /\ Place(b, i, w, cold) = Loaded(b, k, i, w, cold)
         /\ \A j \in 1..m : Makespan(Loaded(b, k, i, w, cold)) <= Makespan(Loaded(b, j, i, w, cold))
  BY PlaceIsBest
<1>2. ASSUME NEW j \in 1..m
      PROVE  \/ b[k].load <= b[j].load
             \/ \E l \in 1..m \ {j} : b[k].load + w <= b[l].load
  <2>1. PICK x, y : x = Loaded(b, k, i, w, cold) /\ y = Loaded(b, j, i, w, cold)
    OBVIOUS
  <2>2. x \in Buckets(m) /\ x[k].load = b[k].load + w
    BY <2>1, LoadedIsBuckets DEF HasGot
  <2>3. y \in Buckets(m) /\ y[j].load = b[j].load + w /\ \A l \in 1..m \ {j} : y[l] = b[l]
    BY <2>1, LoadedIsBuckets DEF HasGot
  <2>4. Makespan(x) \in Nat /\ x[k].load <= Makespan(x)
    BY <2>2, MakespanIsLargest
  <2>5. PICK l \in 1..m : y[l].load = Makespan(y)
    BY <2>3, MakespanIsLargest
  <2>6. Makespan(x) <= Makespan(y) /\ Makespan(y) \in Nat
    BY <1>1, <2>1, <2>3, MakespanIsLargest
  <2>7. b[k].load \in Nat /\ b[j].load \in Nat /\ b[l].load \in Nat
    BY DEF Buckets
  <2>8. b[k].load + w <= y[l].load
    BY <2>2, <2>4, <2>5, <2>6, <2>7
  <2>9. CASE l = j
    BY <2>3, <2>7, <2>8, <2>9
  <2>10. CASE l # j
    BY <2>3, <2>8, <2>10
  <2> QED
    BY <2>9, <2>10
<1> QED
  BY <1>1, <1>2

Filling(m) == [k \in 1..m |-> Empty(k)]

LEMMA EmptyIsBuckets == \A m \in Nat : Filling(m) \in Buckets(m)
<1> SUFFICES ASSUME NEW m \in Nat PROVE Filling(m) \in Buckets(m)
  OBVIOUS
<1>1. \A k \in 1..m : Empty(k) \in [id : Nat, items : SUBSET WorkItem, checkout : SUBSET AllPaths, load : Nat,
                                    cold : Nat, preparation : {Unknown}, mode : {Unknown}]
  BY DEF Empty
<1> QED
  BY <1>1 DEF Buckets, Filling

LEMMA PlaceIsBuckets ==
    ASSUME NEW m \in Nat \ {0}, NEW b \in Buckets(m), NEW i \in WorkItem, NEW w \in Nat, NEW cold
    PROVE  Place(b, i, w, cold) \in Buckets(m)
<1>1. PICK k \in 1..m : Place(b, i, w, cold) = Loaded(b, k, i, w, cold)
  BY PlaceIsBest
<1>2. Loaded(b, k, i, w, cold) \in Buckets(m)
  BY LoadedIsBuckets DEF HasGot
<1> QED
  BY <1>1, <1>2

(* The buckets while the items of order are placed, one after the other.   *)
Placements(placed, order, n, weight, cold, m) ==
    /\ placed \in [0..n -> Buckets(m)]
    /\ placed[0] = Filling(m)
    /\ \A j \in 1..n :
          placed[j] = Place(placed[j - 1], order[j], weight[order[j]], order[j] \in cold)

LEMMA DistributeSteps ==
    ASSUME NEW S \in SUBSET WorkItem, IsFiniteSet(S), NEW weight \in [S -> Nat], NEW cold, NEW m \in Nat \ {0}
    PROVE  \E placed : /\ Placements(placed, LongestFirst(weight), Cardinality(S), weight, cold, m)
                       /\ Distribute(weight, cold, m) = placed[Cardinality(S)]
<1> PICK order, L : order = LongestFirst(weight) /\ L = Cardinality(S)
  OBVIOUS
<1>1. L \in Nat /\ order \in [1..L -> S]
  BY EachItemOnce, FS_CardinalityType DEF Lists
<1>2. \A j \in 1..L : order[j] \in WorkItem /\ weight[order[j]] \in Nat
  BY <1>1
<1> DEFINE D == Buckets(m)
           start == Filling(m)
           next(j, x) == Place(x, order[j], weight[order[j]], order[j] \in cold)
           step == [j \in 1..L |-> [x \in D |-> next(j, x)]]
           Is(h) == h = [n \in 0..L |-> IF n = 0 THEN start ELSE next(n, h[n - 1])]
<1>3. start \in D
  BY EmptyIsBuckets
<1>4. \A j \in 1..L, x \in D : next(j, x) \in D
  BY <1>2, PlaceIsBuckets
<1>5. step \in [1..L -> [D -> D]] /\ \A j \in 1..L, x \in D : step[j][x] = next(j, x)
  <2> HIDE DEF next, D
  <2> QED
    BY <1>4
<1>6. step \in [1..L -> [D -> D]]
  BY <1>5
<1>7. L \in Nat
  BY <1>1
<1>8. PICK f \in [0..L -> D] : f[0] = start /\ \A j \in 1..L : f[j] = step[j][f[j - 1]]
  <2> HIDE DEF step, D, start
  <2>1. Stepwise(D, start, L, step)
    BY <1>3, <1>6, <1>7 DEF Stepwise
  <2>2. PICK f : Follows(f, D, start, L, step)
    BY <2>1, StepsAreFollowed
  <2> QED
    BY <2>2 DEF Follows
<1>9. \A j \in 1..L : j - 1 \in 0..L /\ j \in 0..L /\ f[j] = next(j, f[j - 1])
  <2> TAKE j \in 1..L
  <2>1. j - 1 \in 0..L /\ j \in 0..L
    BY <1>1
  <2> HIDE DEF step, D, start, next
  <2>2. f[j - 1] \in D
    BY <2>1
  <2>3. f[j] = step[j][f[j - 1]]
    BY <1>8
  <2> QED
    BY <1>5, <2>1, <2>2, <2>3
<1>10. Is(f)
  <2> HIDE DEF step, D, start, next
  <2>1. \A n \in 0..L : f[n] = IF n = 0 THEN start ELSE next(n, f[n - 1])
    <3> TAKE n \in 0..L
    <3>1. n = 0 \/ n \in 1..L
      BY <1>1
    <3> QED
      BY <1>8, <1>9, <3>1
  <2> QED
    BY <2>1
<1>11. Distribute(weight, cold, m) = (CHOOSE h : Is(h))[L]
  <2>1. DOMAIN weight = S
    OBVIOUS
  <2> QED
    BY <2>1 DEF Distribute, Filling
<1>12. PICK placed : Is(placed) /\ Distribute(weight, cold, m) = placed[L]
  <2> HIDE DEF Is
  <2>1. Is(CHOOSE h : Is(h))
    BY <1>10
  <2> QED
    BY <1>11, <2>1
<1>13. placed[0] = start /\ \A j \in 1..L : placed[j] = next(j, placed[j - 1])
  <2> HIDE DEF start, next
  <2>1. ASSUME NEW n \in 0..L PROVE placed[n] = IF n = 0 THEN start ELSE next(n, placed[n - 1])
    <3>1. placed[n] = [i \in 0..L |-> IF i = 0 THEN start ELSE next(i, placed[i - 1])][n]
      BY <1>12, Zenon
    <3> QED
      BY <3>1
  <2>2. 0 \in 0..L
    BY <1>1
  <2>3. \A j \in 1..L : j \in 0..L /\ j # 0
    BY <1>1
  <2> QED
    BY <2>1, <2>2, <2>3
<1> DEFINE G == {n \in 0..L : placed[n] \in D}
<1>14. 0 \in G
  BY <1>1, <1>3, <1>13
<1>15. ASSUME NEW n \in 1..L, n - 1 \in G PROVE n \in G
  <2> HIDE DEF D, next, start
  <2>1. n \in 0..L /\ placed[n - 1] \in D
    BY <1>1, <1>15
  <2>2. placed[n] = next(n, placed[n - 1])
    BY <1>13
  <2>3. next(n, placed[n - 1]) \in D
    BY <1>4, <2>1
  <2> QED
    BY <2>1, <2>2, <2>3
<1> HIDE DEF G
<1>16. \A n \in 0..L : n \in G
  BY <1>1, <1>14, <1>15, SetInduction
<1>17. placed \in [0..L -> D]
  <2> HIDE DEF start, next, D
  <2>1. \A n \in 0..L : placed[n] \in D
    BY <1>16 DEF G
  <2>2. placed = [n \in 0..L |-> IF n = 0 THEN start ELSE next(n, placed[n - 1])]
    BY <1>12
  <2>3. DOMAIN placed = 0..L
    BY <2>2
  <2>4. placed = [n \in DOMAIN placed |-> placed[n]]
    BY <2>2
  <2> QED
    BY <2>1, <2>3, <2>4
<1>18. Placements(placed, order, L, weight, cold, m)
  BY <1>13, <1>17 DEF Placements
<1> QED
  BY <1>12, <1>18

Loads(b) == [k \in DOMAIN b |-> b[k].load]

(* Each item of T is in one bucket, with what it needs, and counted once.  *)
Spread(b, weight, cold, m, T) ==
    /\ b \in Buckets(m)
    /\ \A k \in 1..m : /\ b[k].id = k
                       /\ b[k].items \subseteq T
                       /\ b[k].items = {} => b[k].load = 0
    /\ \A i \in T : \E k \in 1..m : i \in b[k].items
    /\ \A k, l \in 1..m : \A i \in b[k].items : i \in b[l].items => k = l
    /\ \A k \in 1..m : \A i \in b[k].items :
          /\ CheckoutPaths[i.name] \subseteq b[k].checkout
          /\ i \in cold => b[k].cold >= 1
    /\ SumOf(Loads(b), 1..m) = SumOf(weight, T)

(* The bound of list scheduling, bucket by bucket.                         *)
Balanced(b, weight, m, longest, T) ==
    /\ \A k \in 1..m : m * b[k].load <= SumOf(weight, T) + (m - 1) * longest
    /\ (\E k \in 1..m : b[k].items = {}) => \A k \in 1..m : b[k].load <= longest

LEMMA LoadsAreNumbers ==
    ASSUME NEW m \in Nat, NEW b \in Buckets(m)
    PROVE  /\ DOMAIN b = 1..m
           /\ Loads(b) \in [1..m -> Nat]
           /\ \A k \in 1..m : Loads(b)[k] = b[k].load /\ b[k].load \in Nat
<1>1. \A T : b \in [1..m -> T] => DOMAIN b = 1..m
  OBVIOUS
<1>2. DOMAIN b = 1..m
  BY <1>1, Zenon DEF Buckets
<1>3. \A k \in 1..m : b[k].load \in Nat
  BY DEF Buckets
<1> QED
  BY <1>2, <1>3 DEF Loads

LEMMA SpreadStart ==
    ASSUME NEW S, IsFiniteSet(S), NEW weight \in [S -> Nat], NEW cold, NEW m \in Nat \ {0}, NEW longest \in Nat
    PROVE  Spread(Filling(m), weight, cold, m, {}) /\ Balanced(Filling(m), weight, m, longest, {})
<1> PICK b : b = Filling(m)
  OBVIOUS
<1>1. b \in Buckets(m)
  BY EmptyIsBuckets
<1>2. \A k \in 1..m : b[k].id = k /\ b[k].items = {} /\ b[k].load = 0
  BY DEF Filling, Empty
<1>3. SumOf(weight, {}) = 0
  BY SumWithout
<1>4. SumOf(Loads(b), 1..m) = 0
  <2>1. Loads(b) \in [1..m -> Nat] /\ \A k \in 1..m : Loads(b)[k] = b[k].load
    BY <1>1, LoadsAreNumbers
  <2>2. PICK f, D, none : f = Loads(b) /\ D = 1..m /\ none = {}
    OBVIOUS
  <2>3. f \in [D -> Nat] /\ \A k \in D \ none : f[k] = 0
    BY <1>2, <2>1, <2>2
  <2>4. IsFiniteSet(D)
    BY <2>2, FS_Interval
  <2>5. D \in SUBSET D /\ none \in SUBSET D
    BY <2>2
  <2>6. CountsOnly(f, D, D, none)
    BY <2>3, <2>5 DEF CountsOnly
  <2>7. SumOf(f, D) = SumOf(f, none)
    BY <2>4, <2>6, SumWhere
  <2>8. SumOf(f, {}) = 0
    BY <2>3, <2>4, SumWithout
  <2> QED
    BY <2>2, <2>7, <2>8, Zenon
<1>5. Spread(b, weight, cold, m, {})
  BY <1>1, <1>2, <1>3, <1>4 DEF Spread
<1>6. Balanced(b, weight, m, longest, {})
  <2>1. (m - 1) * longest \in Nat
    OBVIOUS
  <2>2. \A k \in 1..m : m * b[k].load <= 0 + (m - 1) * longest /\ b[k].load <= longest
    BY <1>2, <2>1
  <2> QED
    BY <1>3, <2>2 DEF Balanced
<1> QED
  BY <1>5, <1>6

LEMMA SpreadStep ==
    ASSUME NEW S \in SUBSET WorkItem, IsFiniteSet(S), NEW weight \in [S -> Nat], NEW cold, NEW m \in Nat \ {0},
           NEW T \in SUBSET S, NEW b, Spread(b, weight, cold, m, T),
           NEW i \in S \ T, NEW k \in 1..m
    PROVE  Spread(Loaded(b, k, i, weight[i], i \in cold), weight, cold, m, T \cup {i})
<1> PICK c, w, U : c = Loaded(b, k, i, weight[i], i \in cold) /\ w = weight[i] /\ U = T \cup {i}
  OBVIOUS
<1>1. b \in Buckets(m) /\ i \in WorkItem /\ w \in Nat /\ U \in SUBSET S /\ i \in U
  BY DEF Spread
<1>2. /\ c \in Buckets(m)
      /\ \A j \in 1..m \ {k} : c[j] = b[j]
      /\ c[k].id = b[k].id
      /\ c[k].load = b[k].load + w
      /\ c[k].items = b[k].items \cup {i}
      /\ c[k].checkout = b[k].checkout \cup CheckoutPaths[i.name]
      /\ c[k].cold = b[k].cold + IF i \in cold THEN 1 ELSE 0
  <2>1. HasGot(c, b, m, k, i, w, i \in cold)
    BY <1>1, LoadedIsBuckets
  <2> QED
    BY <2>1 DEF HasGot
<1>3. /\ \A j \in 1..m : b[j].id = j /\ b[j].items \subseteq T /\ (b[j].items = {} => b[j].load = 0)
      /\ \A x \in T : \E j \in 1..m : x \in b[j].items
      /\ \A j, l \in 1..m : \A x \in b[j].items : x \in b[l].items => j = l
      /\ \A j \in 1..m : \A x \in b[j].items :
            /\ CheckoutPaths[x.name] \subseteq b[j].checkout
            /\ x \in cold => b[j].cold >= 1
      /\ SumOf(Loads(b), 1..m) = SumOf(weight, T)
  BY DEF Spread
<1>4. \A j \in 1..m : /\ c[j].id = j /\ c[j].items \subseteq U
                      /\ c[j].items = {} => c[j].load = 0
                      /\ \A x \in c[j].items : x \in b[j].items \/ (x = i /\ j = k)
                      /\ b[j].items \subseteq c[j].items
  <2> TAKE j \in 1..m
  <2>1. CASE j = k
    <3>1. c[j].items = b[j].items \cup {i} /\ c[j].id = j
      BY <1>2, <1>3, <2>1
    <3> QED
      BY <1>1, <1>3, <2>1, <3>1
  <2>2. CASE j # k
    <3>1. c[j] = b[j]
      BY <1>2, <2>2
    <3> QED
      BY <1>1, <1>3, <3>1
  <2> QED
    BY <2>1, <2>2
<1>5. \A x \in U : \E j \in 1..m : x \in c[j].items
  <2> TAKE x \in U
  <2>1. CASE x = i
    BY <1>2, <2>1
  <2>2. CASE x # i
    <3>1. x \in T
      BY <1>1, <2>2
    <3> QED
      BY <1>3, <1>4, <3>1
  <2> QED
    BY <2>1, <2>2
<1>6. \A j \in 1..m : i \notin b[j].items
  BY <1>3
<1>7. \A j, l \in 1..m : \A x \in c[j].items : x \in c[l].items => j = l
  <2> SUFFICES ASSUME NEW j \in 1..m, NEW l \in 1..m, NEW x \in c[j].items, x \in c[l].items PROVE j = l
    OBVIOUS
  <2>1. CASE x = i
    BY <1>4, <1>6, <2>1
  <2>2. CASE x # i
    BY <1>3, <1>4, <2>2
  <2> QED
    BY <2>1, <2>2
<1>8. \A j \in 1..m : b[j].cold \in Nat /\ b[j].load \in Nat
  BY <1>1 DEF Buckets
<1>9. \A j \in 1..m : \A x \in c[j].items :
         /\ CheckoutPaths[x.name] \subseteq c[j].checkout
         /\ x \in cold => c[j].cold >= 1
  <2> TAKE j \in 1..m
  <2> TAKE x \in c[j].items
  <2>1. CASE j # k
    <3>1. c[j] = b[j] /\ x \in b[j].items
      BY <1>2, <1>4, <2>1
    <3> QED
      BY <1>3, <3>1
  <2>2. CASE j = k /\ x = i
    BY <1>2, <1>8, <2>2
  <2>3. CASE j = k /\ x # i
    <3>1. x \in b[k].items
      BY <1>4, <2>3
    <3>2. CheckoutPaths[x.name] \subseteq b[k].checkout /\ (x \in cold => b[k].cold >= 1)
      BY <1>3, <3>1
    <3>3. x \in cold => c[k].cold >= 1
      BY <1>2, <1>8, <3>2
    <3> QED
      BY <1>2, <2>3, <3>2, <3>3
  <2> QED
    BY <2>1, <2>2, <2>3
<1>10. SumOf(Loads(c), 1..m) = SumOf(weight, U)
  <2>1. PICK f, g, D : f = Loads(b) /\ g = Loads(c) /\ D = 1..m
    OBVIOUS
  <2>2. IsFiniteSet(D) /\ f \in [D -> Nat] /\ g \in [D -> Nat] /\ k \in D
    <3>1. IsFiniteSet(D) /\ k \in D
      BY <2>1, FS_Interval
    <3>2. m \in Nat /\ b \in Buckets(m) /\ c \in Buckets(m)
      BY <1>1, <1>2
    <3>3. Loads(b) \in [1..m -> Nat] /\ Loads(c) \in [1..m -> Nat]
      BY <3>2, LoadsAreNumbers, Zenon
    <3> QED
      BY <2>1, <3>1, <3>3, Zenon
  <2>3. \A j \in D : f[j] = b[j].load /\ g[j] = c[j].load
    BY <1>1, <1>2, <2>1, LoadsAreNumbers
  <2>4. g[k] = f[k] + w /\ \A j \in D \ {k} : g[j] = f[j]
    BY <1>2, <2>1, <2>3
  <2>5. SumOf(g, D) = SumOf(f, D) + w
    <3>1. CountsMore(g, f, D, k, w)
      BY <1>1, <2>2, <2>4 DEF CountsMore
    <3> QED
      BY <2>2, <3>1, SumUpdated
  <2>6. U \ {i} = T /\ T \in SUBSET S
    OBVIOUS
  <2>7. /\ \A A \in SUBSET S : SumOf(weight, A) \in Nat
        /\ \A A \in SUBSET S : \A x \in A : SumOf(weight, A) = weight[x] + SumOf(weight, A \ {x})
    BY SumWithout
  <2>8. SumOf(weight, U) = w + SumOf(weight, T)
    <3>1. U \in SUBSET S /\ i \in U
      OBVIOUS
    <3>2. SumOf(weight, U) = weight[i] + SumOf(weight, U \ {i})
      BY <2>7, <3>1, Zenon
    <3> QED
      BY <1>1, <2>6, <3>2
  <2>9. PICK s, t, u : s = SumOf(g, D) /\ t = SumOf(weight, T) /\ u = SumOf(weight, U)
    OBVIOUS
  <2>10. s = t + w /\ u = w + t /\ t \in Nat /\ w \in Nat
    BY <1>1, <1>3, <2>1, <2>5, <2>6, <2>7, <2>8, <2>9, Zenon
  <2>11. s = u
    BY <2>10
  <2> QED
    BY <2>1, <2>9, <2>11, Zenon
<1> QED
  <2>1. Spread(c, weight, cold, m, U)
    BY <1>2, <1>4, <1>5, <1>7, <1>9, <1>10 DEF Spread
  <2> QED
    BY <2>1, Zenon

(* Some bucket holds at most an even share.                                *)
LEMMA SomeBucketIsLow ==
    ASSUME NEW m \in Nat \ {0}, NEW b \in Buckets(m)
    PROVE  \E k \in 1..m : m * b[k].load <= SumOf(Loads(b), 1..m)
<1> PICK f, D : f = Loads(b) /\ D = 1..m
  OBVIOUS
<1>1. f \in [D -> Nat] /\ IsFiniteSet(D) /\ Cardinality(D) = m /\ D \in SUBSET D /\ D # {}
  <2>1. f \in [D -> Nat] /\ IsFiniteSet(D) /\ Cardinality(D) = m
    <3>1. IsFiniteSet(D) /\ Cardinality(D) = m
      BY FS_Interval
    <3>2. Loads(b) \in [1..m -> Nat]
      BY LoadsAreNumbers
    <3> QED
      BY <3>1, <3>2, Zenon
  <2>2. 1 \in D
    OBVIOUS
  <2> QED
    BY <2>1, <2>2
<1> DEFINE V == {f[k] : k \in D}
<1>2. V \subseteq Nat /\ V # {}
  BY <1>1
<1>3. PICK v \in V : \A u \in V : v <= u
  BY <1>2, LeastNumber
<1>4. PICK k \in D : v = f[k]
  BY <1>3
<1>5. v \in Nat /\ \A j \in D : f[j] >= v
  <2>1. \A j \in D : f[j] \in V /\ f[j] \in Nat
    BY <1>1
  <2> QED
    BY <1>2, <1>3, <2>1
<1>6. SumOf(f, D) >= v * Cardinality(D)
  <2> HIDE DEF V
  <2> QED
    BY <1>1, <1>5, SumAtLeast
<1>7. b[k].load = v /\ k \in 1..m
  BY <1>4, LoadsAreNumbers
<1>8. PICK s : s = SumOf(f, D)
  OBVIOUS
<1>9. s \in Nat
  <2>1. \A T \in SUBSET D : SumOf(f, T) \in Nat
    BY <1>1, SumWithout
  <2> QED
    BY <1>1, <1>8, <2>1, Zenon
<1>10. m * v <= s
  <2>1. s >= v * m
    BY <1>1, <1>6, <1>8, Zenon
  <2> QED
    BY <1>5, <1>9, <2>1
<1> QED
  BY <1>7, <1>8, <1>10

LEMMA TimesGrows ==
    ASSUME NEW m \in Nat, NEW a \in Nat, NEW b \in Nat, a <= b
    PROVE  m * a \in Nat /\ m * b \in Nat /\ m * a <= m * b
<1>1. PICK d \in Nat : b = a + d
  <2> WITNESS b - a \in Nat
  <2> QED
    OBVIOUS
<1>2. m * b = m * a + m * d
  BY <1>1
<1>3. m * d \in Nat /\ m * a \in Nat
  OBVIOUS
<1> QED
  BY <1>2, <1>3

LEMMA EvenShare ==
    ASSUME NEW m \in Nat \ {0}, NEW a \in Nat, NEW b \in Nat, NEW w \in Nat, NEW t \in Nat, NEW longest \in Nat,
           a <= b, m * b <= t, w <= longest
    PROVE  m * (a + w) <= (t + w) + (m - 1) * longest
<1>1. m * a \in Nat /\ m * b \in Nat /\ m * a <= m * b
  BY TimesGrows
<1>2. m - 1 \in Nat
  OBVIOUS
<1>3. (m - 1) * w \in Nat /\ (m - 1) * longest \in Nat /\ (m - 1) * w <= (m - 1) * longest
  BY <1>2, TimesGrows
<1>4. m * (a + w) = m * a + m * w /\ m * w = (m - 1) * w + w
  OBVIOUS
<1>5. PICK p, q, r, s, u : p = m * a /\ q = m * b /\ r = (m - 1) * w /\ s = (m - 1) * longest /\ u = m * (a + w)
  OBVIOUS
<1>6. u = p + (r + w) /\ p <= q /\ q <= t /\ r <= s /\ p \in Nat /\ q \in Nat /\ r \in Nat /\ s \in Nat
  BY <1>1, <1>3, <1>4, <1>5
<1>7. u <= (t + w) + s
  BY <1>6
<1> QED
  BY <1>5, <1>7

LEMMA BalancedStep ==
    ASSUME NEW S \in SUBSET WorkItem, IsFiniteSet(S), NEW weight \in [S -> Nat], NEW cold, NEW m \in Nat \ {0},
           NEW longest \in Nat, \A i \in S : weight[i] <= longest,
           NEW T \in SUBSET S, NEW b, Spread(b, weight, cold, m, T), Balanced(b, weight, m, longest, T),
           NEW i \in S \ T
    PROVE  LET c == Place(b, i, weight[i], i \in cold)
           IN  Spread(c, weight, cold, m, T \cup {i}) /\ Balanced(c, weight, m, longest, T \cup {i})
<1> PICK w, U, t : w = weight[i] /\ U = T \cup {i} /\ t = SumOf(weight, T)
  OBVIOUS
<1>1. b \in Buckets(m) /\ i \in WorkItem /\ w \in Nat /\ w <= longest
  BY DEF Spread
<1>2. PICK k \in 1..m :
         /\ Place(b, i, w, i \in cold) = Loaded(b, k, i, w, i \in cold)
         /\ \A j \in 1..m : \/ b[k].load <= b[j].load
                            \/ \E l \in 1..m \ {j} : b[k].load + w <= b[l].load
  BY <1>1, PlacesLow
<1> PICK c : c = Loaded(b, k, i, w, i \in cold)
  OBVIOUS
<1>3. Spread(c, weight, cold, m, U)
  <2>1. Spread(Loaded(b, k, i, weight[i], i \in cold), weight, cold, m, T \cup {i})
    BY SpreadStep
  <2> QED
    BY <2>1, Zenon
<1>4. /\ \A j \in 1..m \ {k} : c[j] = b[j]
      /\ c[k].load = b[k].load + w /\ c[k].items = b[k].items \cup {i}
  <2>1. HasGot(c, b, m, k, i, w, i \in cold)
    BY <1>1, LoadedIsBuckets
  <2> QED
    BY <2>1 DEF HasGot
<1>5. t \in Nat /\ SumOf(weight, U) = t + w
  <2>1. U \ {i} = T /\ T \in SUBSET S /\ U \in SUBSET S /\ i \in U
    OBVIOUS
  <2>2. /\ \A A \in SUBSET S : SumOf(weight, A) \in Nat
        /\ \A A \in SUBSET S : \A x \in A : SumOf(weight, A) = weight[x] + SumOf(weight, A \ {x})
    BY SumWithout
  <2>3. SumOf(weight, U) = w + t
    <3>1. SumOf(weight, U) = weight[i] + SumOf(weight, U \ {i})
      BY <2>1, <2>2, Zenon
    <3> QED
      BY <2>1, <3>1
  <2>4. t \in Nat
    BY <2>1, <2>2, Zenon
  <2> QED
    BY <1>1, <2>3, <2>4
<1>6. \A j \in 1..m : b[j].load \in Nat
  BY <1>1, LoadsAreNumbers
<1>7. PICK h : h = (m - 1) * longest
  OBVIOUS
<1>8. h \in Nat
  BY <1>7
<1>9. \A j \in 1..m : m * b[j].load <= t + h
  BY <1>7 DEF Balanced
<1>10. m * c[k].load <= (t + w) + h
  <2>1. PICK j \in 1..m : m * b[j].load <= t
    <3>1. \E j \in 1..m : m * b[j].load <= SumOf(Loads(b), 1..m)
      BY <1>1, SomeBucketIsLow
    <3>2. SumOf(Loads(b), 1..m) = t
      BY DEF Spread
    <3> QED
      BY <3>1, <3>2
  <2>2. CASE b[k].load <= b[j].load
    <3>1. m * (b[k].load + w) <= (t + w) + (m - 1) * longest
      BY <1>1, <1>5, <1>6, <2>1, <2>2, EvenShare
    <3> QED
      BY <1>4, <1>7, <3>1
  <2>3. CASE \E l \in 1..m \ {j} : b[k].load + w <= b[l].load
    <3>1. PICK l \in 1..m : b[k].load + w <= b[l].load
      BY <2>3
    <3>2. PICK x, y : x = c[k].load /\ y = b[l].load
      OBVIOUS
    <3>3. x \in Nat /\ y \in Nat /\ x <= y
      BY <1>1, <1>4, <1>6, <3>1, <3>2
    <3>4. m * x \in Nat /\ m * y \in Nat /\ m * x <= m * y
      BY <3>3, TimesGrows
    <3>5. m * y <= t + h
      BY <1>9, <3>2
    <3>6. m * x <= (t + w) + h
      <4>1. PICK p, q : p = m * x /\ q = m * y
        OBVIOUS
      <4>2. p \in Nat /\ q \in Nat /\ p <= q /\ q <= t + h
        BY <3>4, <3>5, <4>1
      <4>3. p <= (t + w) + h
        BY <1>1, <1>5, <1>8, <4>2
      <4> QED
        BY <4>1, <4>3
    <3> QED
      BY <3>2, <3>6
  <2> QED
    BY <1>2, <2>2, <2>3
<1>11. ASSUME NEW j \in 1..m PROVE m * c[j].load <= (t + w) + h
  <2>1. CASE j = k
    BY <1>10, <2>1
  <2>2. CASE j # k
    <3>1. PICK p : p = m * b[j].load
      OBVIOUS
    <3>2. p \in Nat /\ p <= t + h
      BY <1>6, <1>9, <3>1
    <3>3. p <= (t + w) + h
      BY <1>1, <1>5, <1>8, <3>2
    <3>4. c[j] = b[j]
      BY <1>4, <2>2
    <3> QED
      BY <3>1, <3>3, <3>4
  <2> QED
    BY <2>1, <2>2
<1>12. ASSUME NEW e \in 1..m, c[e].items = {}, NEW j \in 1..m PROVE c[j].load <= longest
  <2>1. e # k /\ c[e] = b[e]
    BY <1>4, <1>12
  <2>2. b[e].items = {}
    BY <1>12, <2>1
  <2>3. b[e].load = 0
    BY <2>2 DEF Spread
  <2>4. \A l \in 1..m : b[l].load <= longest
    BY <2>2 DEF Balanced
  <2>5. CASE j # k
    BY <1>4, <2>4, <2>5
  <2>6. CASE j = k
    <3>1. \/ b[k].load <= b[e].load
          \/ \E l \in 1..m \ {e} : b[k].load + w <= b[l].load
      BY <1>2
    <3>2. b[k].load + w <= longest
      BY <1>1, <1>6, <2>3, <2>4, <3>1
    <3> QED
      BY <1>4, <2>6, <3>2
  <2> QED
    BY <2>5, <2>6
<1>13. Balanced(c, weight, m, longest, U)
  BY <1>5, <1>7, <1>11, <1>12 DEF Balanced
<1>14. c = Place(b, i, weight[i], i \in cold)
  BY <1>2, Zenon
<1> QED
  BY <1>3, <1>13, <1>14, Zenon

(* Whatever the weights, assign_with_predictor loses no item, places none  *)
(* twice, and keeps the bound of list scheduling: no bucket is loaded      *)
(* beyond an even share and the longest item, the last one placed in it.   *)
THEOREM DistributeSpreads ==
    ASSUME NEW S \in SUBSET WorkItem, IsFiniteSet(S), NEW weight \in [S -> Nat], NEW cold, NEW m \in Nat \ {0},
           NEW longest \in Nat, \A i \in S : weight[i] <= longest
    PROVE  /\ Spread(Distribute(weight, cold, m), weight, cold, m, S)
           /\ Balanced(Distribute(weight, cold, m), weight, m, longest, S)
<1> PICK order, L : order = LongestFirst(weight) /\ L = Cardinality(S)
  OBVIOUS
<1>1. /\ L \in Nat /\ order \in [1..L -> S]
      /\ \A j, k \in 1..L : order[j] = order[k] => j = k
      /\ \A i \in S : \E k \in 1..L : order[k] = i
  BY EachItemOnce, FS_CardinalityType DEF Lists
<1>2. PICK placed : /\ Placements(placed, LongestFirst(weight), Cardinality(S), weight, cold, m)
                    /\ Distribute(weight, cold, m) = placed[Cardinality(S)]
  BY DistributeSteps
<1>3. /\ placed[0] = Filling(m)
      /\ \A j \in 1..L : placed[j] = Place(placed[j - 1], order[j], weight[order[j]], order[j] \in cold)
  BY <1>2 DEF Placements
<1> DEFINE first(n) == {order[j] : j \in 1..n}
           Good(n) == Spread(placed[n], weight, cold, m, first(n)) /\ Balanced(placed[n], weight, m, longest, first(n))
           G == {n \in 0..L : Good(n)}
<1>4. 0 \in G
  <2>1. Spread(Filling(m), weight, cold, m, {}) /\ Balanced(Filling(m), weight, m, longest, {})
    BY SpreadStart
  <2>2. first(0) = {}
    OBVIOUS
  <2>3. Good(0)
    <3> HIDE DEF first
    <3> QED
      BY <1>3, <2>1, <2>2, Zenon
  <2>4. 0 \in 0..L
    BY <1>1
  <2> HIDE DEF Good
  <2> QED
    BY <2>3, <2>4
<1>5. ASSUME NEW n \in 1..L, n - 1 \in G PROVE n \in G
  <2>1. Good(n - 1)
    <3> HIDE DEF Good
    <3> QED
      BY <1>5
  <2>2. PICK i, T, b : i = order[n] /\ T = first(n - 1) /\ b = placed[n - 1]
    OBVIOUS
  <2>3. T \in SUBSET S /\ i \in S /\ \A j \in 1..(n - 1) : j \in 1..L /\ j # n
    BY <1>1, <2>2
  <2>4. i \notin T
    BY <1>1, <2>2, <2>3
  <2>5. first(n) = T \cup {i}
    <3>1. \A j \in 1..n : j = n \/ j \in 1..(n - 1)
      OBVIOUS
    <3>2. n \in 1..n /\ \A j \in 1..(n - 1) : j \in 1..n
      OBVIOUS
    <3> QED
      BY <2>2, <3>1, <3>2
  <2>6. Spread(b, weight, cold, m, T) /\ Balanced(b, weight, m, longest, T)
    <3> HIDE DEF first
    <3> QED
      BY <2>1, <2>2, Zenon
  <2>7. i \in S \ T
    BY <2>3, <2>4
  <2>8. /\ Spread(Place(b, i, weight[i], i \in cold), weight, cold, m, T \cup {i})
        /\ Balanced(Place(b, i, weight[i], i \in cold), weight, m, longest, T \cup {i})
    BY <2>3, <2>6, <2>7, BalancedStep
  <2>9. placed[n] = Place(b, i, weight[i], i \in cold)
    BY <1>3, <2>2, Zenon
  <2>10. Good(n)
    <3> HIDE DEF first
    <3> QED
      BY <2>5, <2>8, <2>9, Zenon
  <2>11. n \in 0..L
    BY <1>1
  <2> HIDE DEF Good
  <2> QED
    BY <2>10, <2>11
<1> HIDE DEF G
<1>6. \A n \in 0..L : n \in G
  BY <1>1, <1>4, <1>5, SetInduction
<1>7. Good(L)
  <2>1. L \in 0..L
    BY <1>1
  <2> HIDE DEF Good
  <2> QED
    BY <1>6, <2>1 DEF G
<1>8. first(L) = S
  BY <1>1
<1>9. Distribute(weight, cold, m) = placed[L]
  BY <1>2
<1> HIDE DEF first
<1> QED
  BY <1>7, <1>8, <1>9, Zenon

------------------------------------------------------------------------------
(* Predictions.                                                            *)
Timed(tables) == \A s \in DOMAIN tables : \A key \in DOMAIN tables[s] : tables[s][key] \in Nat

LEMMA EstimateIsTimed ==
    ASSUME NEW tables, Timed(tables), NEW g, NEW environment, NEW key
    PROVE  /\ Estimate(tables, g, environment, key) # Unknown => Estimate(tables, g, environment, key) \in Nat
           /\ tables = << >> => Estimate(tables, g, environment, key) = Unknown
<1> DEFINE scope(i) == <<Refs[i], g, environment>>
           known == {i \in DOMAIN Refs : scope(i) \in DOMAIN tables /\ key \in DOMAIN tables[scope(i)]}
           e == Estimate(tables, g, environment, key)
<1>1. e = IF known = {} THEN Unknown
          ELSE tables[scope(CHOOSE i \in known : \A j \in known : i <= j)][key]
  BY DEF Estimate
<1>2. ASSUME known # {} PROVE e \in Nat
  <2>1. known \subseteq Nat
    <3>1. DOMAIN Refs \subseteq Nat
      BY SchedulerAssumption
    <3> QED
      BY <3>1
  <2>2. PICK i \in known : \A j \in known : i <= j
    <3> HIDE DEF known
    <3> QED
      BY <1>2, <2>1, LeastNumber
  <2>3. PICK i0 : i0 = CHOOSE i1 \in known : \A j \in known : i1 <= j
    OBVIOUS
  <2>4. i0 \in known
    <3> HIDE DEF known
    <3> QED
      BY <2>2, <2>3
  <2>5. tables[scope(i0)][key] \in Nat
    BY <2>4 DEF Timed
  <2> HIDE DEF known, scope
  <2>6. e = tables[scope(i0)][key]
    BY <1>1, <1>2, <2>3, Zenon
  <2> QED
    BY <2>5, <2>6
<1>3. ASSUME tables = << >> PROVE known = {}
  <2>1. DOMAIN tables = {}
    BY <1>3
  <2> QED
    BY <2>1
<1> HIDE DEF known
<1>4. known = {} => e = Unknown
  BY <1>1
<1>5. e # Unknown => e \in Nat
  BY <1>2, <1>4
<1> QED
  BY <1>3, <1>4, <1>5

LEMMA WeightIsTimed ==
    ASSUME NEW tables, Timed(tables), NEW g, NEW c, NEW i
    PROVE  /\ Weight(tables, g, c, i) \in Nat
           /\ tables = << >> => Predict(tables, g, c, i) = Unknown /\ Weight(tables, g, c, i) = 1
<1> DEFINE one == Estimate(tables, g, Environment(c), ExactKey(i))
           two == Estimate(tables, g, Environment(c), FallbackKey(i))
<1>1. (one # Unknown => one \in Nat) /\ (two # Unknown => two \in Nat)
      /\ (tables = << >> => one = Unknown /\ two = Unknown)
  BY EstimateIsTimed
<1>2. Predict(tables, g, c, i) = FirstKnown(one, two)
  BY DEF Predict
<1>3. Weight(tables, g, c, i) = FirstKnown(FirstKnown(one, two), 1)
  BY <1>2 DEF Weight
<1> HIDE DEF one, two
<1> QED
  BY <1>1, <1>2, <1>3 DEF FirstKnown

LEMMA NothingPrepared ==
    ASSUME NEW tables, Timed(tables), tables = << >>, NEW g, NEW c, NEW a
    PROVE  Preparation(tables, g, c, a) = Unknown
<1>1. Estimate(tables, g, Environment(c), PreparationKey(a)) = Unknown
  BY EstimateIsTimed
<1>2. Estimate(tables, g, Environment(c), AnyPreparation) = Unknown
  BY EstimateIsTimed
<1> QED
  BY <1>1, <1>2 DEF Preparation, FirstKnown

------------------------------------------------------------------------------
(* Work items.                                                             *)
LEMMA ItemsAreWork ==
    ASSUME NEW c \in GroupConfigs, NEW A \in SUBSET Workspace
    PROVE  Items(c, A) \in SUBSET WorkItem /\ IsFiniteSet(Items(c, A))
<1>1. /\ c.tasks \subseteq Nat /\ IsFiniteSet(c.tasks)
      /\ \A s \in DOMAIN c.shards : c.shards[s] \in Nat
  BY PlanningAssumption
<1> DEFINE F == Filtered(c, A)
           part(w, t, s) == [name |-> w, task |-> t, shard |-> s, total |-> ShardsOf(c, w, t)]
           block(w, t) == {part(w, t, s) : s \in Shards(ShardsOf(c, w, t))}
           blocks == {block(w, t) : w \in F, t \in c.tasks}
<1>2. F \in SUBSET Workspace /\ IsFiniteSet(F)
  <2>1. F \in SUBSET Workspace
    BY DEF Filtered
  <2> QED
    BY <2>1, SchedulerAssumption, FS_Subset
<1>3. \A w, t : ShardsOf(c, w, t) \in Nat
  BY <1>1 DEF ShardsOf
<1>4. \A n \in Nat : IsFiniteSet(Shards(n)) /\ Shards(n) \subseteq Nat
  <2> TAKE n \in Nat
  <2>1. CASE n = 0
    <3> PICK z : z = {0}
      OBVIOUS
    <3>1. Shards(n) = z /\ z \subseteq Nat
      BY <2>1 DEF Shards
    <3>2. IsFiniteSet(z)
      BY FS_Singleton, Zenon
    <3> QED
      BY <3>1, <3>2, Zenon
  <2>2. CASE n # 0
    <3>1. Shards(n) = 1..n
      BY <2>2 DEF Shards
    <3> QED
      BY <3>1, FS_Interval
  <2> QED
    BY <2>1, <2>2
<1>5. \A w \in F, t \in c.tasks : block(w, t) \in SUBSET WorkItem /\ IsFiniteSet(block(w, t))
  <2> TAKE w \in F, t \in c.tasks
  <2> PICK n, S : n = ShardsOf(c, w, t) /\ S = Shards(n)
    OBVIOUS
  <2>1. n \in Nat /\ S \subseteq Nat /\ IsFiniteSet(S) /\ w \in Workspace /\ t \in Nat
    BY <1>1, <1>2, <1>3, <1>4
  <2>2. block(w, t) = {[name |-> w, task |-> t, shard |-> s, total |-> n] : s \in S}
    OBVIOUS
  <2>3. block(w, t) \in SUBSET WorkItem
    BY <2>1, <2>2 DEF WorkItem
  <2> PICK B : B = block(w, t)
    OBVIOUS
  <2> DEFINE f == [s \in S |-> [name |-> w, task |-> t, shard |-> s, total |-> n]]
  <2>4. f \in [S -> B] /\ \A y \in B : \E s \in S : f[s] = y
    BY <2>2
  <2>5. IsFiniteSet(B)
    <3> HIDE DEF f
    <3> QED
      BY <2>1, <2>4, ImageIsFinite
  <2> QED
    BY <2>3, <2>5
<1>6. IsFiniteSet(blocks)
  <2> PICK P : P = F \X c.tasks
    OBVIOUS
  <2> PICK Bs : Bs = blocks
    <3> HIDE DEF blocks
    <3> QED
      OBVIOUS
  <2>1. IsFiniteSet(P)
    BY <1>1, <1>2, FS_Product
  <2> DEFINE f == [p \in P |-> block(p[1], p[2])]
  <2>2. \A p \in P : f[p] \in Bs
    <3> HIDE DEF block
    <3> QED
      OBVIOUS
  <2>3. \A y \in Bs : \E p \in P : f[p] = y
    <3> HIDE DEF block
    <3> TAKE y \in Bs
    <3>1. PICK w \in F, t \in c.tasks : y = block(w, t)
      OBVIOUS
    <3>2. <<w, t>> \in P /\ <<w, t>>[1] = w /\ <<w, t>>[2] = t
      OBVIOUS
    <3> QED
      BY <3>1, <3>2
  <2>4. f \in [P -> Bs]
    BY <2>2
  <2> HIDE DEF f, blocks
  <2>5. IsFiniteSet(Bs)
    BY <2>1, <2>3, <2>4, ImageIsFinite
  <2> QED
    BY <2>5, Zenon
<1>7. Items(c, A) = UNION blocks
  BY DEF Items
<1>8. \A B \in blocks : B \in SUBSET WorkItem /\ IsFiniteSet(B)
  <2> TAKE B \in blocks
  <2> HIDE DEF block
  <2>1. PICK w \in F, t \in c.tasks : B = block(w, t)
    OBVIOUS
  <2> HIDE DEF blocks
  <2> QED
    BY <1>5, <2>1, Zenon
<1> HIDE DEF block, blocks
<1> PICK Bs : Bs = blocks
  OBVIOUS
<1>9. IsFiniteSet(UNION Bs) /\ UNION Bs \subseteq WorkItem
  <2>1. \A B \in Bs : IsFiniteSet(B)
    BY <1>8, Zenon
  <2>2. IsFiniteSet(UNION Bs)
    BY <1>6, <2>1, FS_UNION, Zenon
  <2>3. \A B \in Bs : B \subseteq WorkItem
    BY <1>8, Zenon
  <2> QED
    BY <2>2, <2>3
<1>10. Items(c, A) = UNION Bs
  BY <1>7, Zenon
<1> QED
  BY <1>9, <1>10, Zenon

LEMMA TierIsPositive ==
    ASSUME NEW c \in GroupConfigs, NEW A, c.tiers # << >>
    PROVE  Tier(c, A).concurrency \in Nat \ {0}
<1>1. \A t \in 1..3 : c.tiers[t].concurrency \in Nat \ {0}
  BY PlanningAssumption
<1>2. \E t \in 1..3 : Tier(c, A) = c.tiers[t]
  <2> DEFINE within(tier) ==
                 Cardinality(Filtered(c, A)) * 100 <= tier.percent * Cardinality(Workspace)
  <2>1. Tier(c, A) = CASE within(c.tiers[1]) -> c.tiers[1]
                       [] ~within(c.tiers[1]) /\ within(c.tiers[2]) -> c.tiers[2]
                       [] OTHER -> c.tiers[3]
    BY DEF Tier
  <2> HIDE DEF within
  <2> QED
    BY <2>1
<1> QED
  BY <1>1, <1>2

Weights(tables, g, c, items) == [i \in items |-> Weight(tables, g, c, i)]
Colds(tables, g, c, items) == {i \in items : Predict(tables, g, c, i) = Unknown}

Fair(b, weight, cold, m, S) ==
    /\ Spread(b, weight, cold, m, S)
    /\ \A longest \in Nat : (\A i \in S : weight[i] <= longest) => Balanced(b, weight, m, longest, S)

LEMMA DistributeIsFair ==
    ASSUME NEW S \in SUBSET WorkItem, IsFiniteSet(S), NEW weight \in [S -> Nat], NEW cold, NEW m \in Nat \ {0}
    PROVE  Fair(Distribute(weight, cold, m), weight, cold, m, S)
<1>1. \A longest \in Nat : (\A i \in S : weight[i] <= longest)
         => Balanced(Distribute(weight, cold, m), weight, m, longest, S)
  BY DistributeSpreads
<1>2. SumOf(weight, S) \in Nat /\ \A i \in S : weight[i] <= SumOf(weight, S)
  <2>1. CASE S = {}
    BY <2>1, SumWithout
  <2>2. CASE S # {}
    BY <2>2, SumHolds
  <2> QED
    BY <2>1, <2>2
<1>3. Spread(Distribute(weight, cold, m), weight, cold, m, S)
  BY <1>2, DistributeSpreads
<1> QED
  BY <1>1, <1>3 DEF Fair

LEMMA AssignIsFair ==
    ASSUME NEW tables, Timed(tables), NEW g, NEW c, NEW items \in SUBSET WorkItem, IsFiniteSet(items),
           items # {}, NEW n \in Nat \ {0}
    PROVE  /\ Min2(n, Cardinality(items)) \in Nat \ {0}
           /\ Min2(n, Cardinality(items)) <= n /\ Min2(n, Cardinality(items)) <= Cardinality(items)
           /\ Fair(Assign(tables, g, c, items, n), Weights(tables, g, c, items),
                   Colds(tables, g, c, items), Min2(n, Cardinality(items)), items)
<1> PICK m, N : m = Min2(n, N) /\ N = Cardinality(items)
  OBVIOUS
<1>1. N \in Nat \ {0}
  BY FS_CardinalityType, FS_EmptySet
<1>2. m \in Nat \ {0} /\ m <= n /\ m <= N
  BY <1>1 DEF Min2
<1>3. Weights(tables, g, c, items) \in [items -> Nat]
  BY WeightIsTimed DEF Weights
<1>4. Fair(Distribute(Weights(tables, g, c, items), Colds(tables, g, c, items), m),
           Weights(tables, g, c, items), Colds(tables, g, c, items), m, items)
  BY <1>2, <1>3, DistributeIsFair
<1>5. Assign(tables, g, c, items, n) = Distribute(Weights(tables, g, c, items), Colds(tables, g, c, items), m)
  BY Zenon DEF Assign, Weights, Colds
<1> QED
  BY <1>2, <1>4, <1>5

------------------------------------------------------------------------------
(* A layout: the buckets that got an item, with their preparations.        *)
FilledOf(b, m) == {k \in 1..m : b[k].items # {}}

Drawn(plan, h, b, m, tables, g, c, mode) ==
    /\ h \in [FilledOf(b, m) -> plan]
    /\ \A a \in plan : \E k \in FilledOf(b, m) : a = h[k]
    /\ \A k \in FilledOf(b, m) :
          /\ h[k].id = b[k].id /\ h[k].items = b[k].items /\ h[k].checkout = b[k].checkout
          /\ h[k].load = b[k].load /\ h[k].cold = b[k].cold /\ h[k].mode = mode
          /\ h[k].preparation = Preparation(tables, g, c, h[k])

Marked(assignments, mode) == {[a EXCEPT !.mode = mode] : a \in assignments}

LEMMA Redrawn ==
    ASSUME NEW A, NEW B, NEW r \in [id : Nat, items : A, checkout : B, load : Nat,
                                    cold : Nat, preparation : {Unknown}, mode : {Unknown}],
           NEW p, NEW mode, NEW q, q = [r EXCEPT !.preparation = p]
    PROVE  /\ [q EXCEPT !.mode = mode].id = r.id
           /\ [q EXCEPT !.mode = mode].items = r.items
           /\ [q EXCEPT !.mode = mode].checkout = r.checkout
           /\ [q EXCEPT !.mode = mode].load = r.load
           /\ [q EXCEPT !.mode = mode].cold = r.cold
           /\ [q EXCEPT !.mode = mode].mode = mode
           /\ [q EXCEPT !.mode = mode].preparation = p
           /\ q.cold = r.cold /\ q.preparation = p
OBVIOUS

LEMMA LayoutIsDrawn ==
    ASSUME NEW tables, NEW g, NEW c, NEW m \in Nat \ {0}, NEW b \in Buckets(m), NEW mode
    PROVE  LET layout == Prepared(tables, g, c, Filled(b))
           IN  /\ \E h : Drawn(Marked(layout, mode), h, b, m, tables, g, c, mode)
               /\ Learned(layout) => Learned(Marked(layout, mode))
<1> DEFINE P(a) == Preparation(tables, g, c, a)
           q == [k \in 1..m |-> [b[k] EXCEPT !.preparation = P(b[k])]]
           d == [k \in 1..m |-> [q[k] EXCEPT !.mode = mode]]
           layout == Prepared(tables, g, c, Filled(b))
           F == FilledOf(b, m)
<1>1. DOMAIN b = 1..m
  BY LoadsAreNumbers
<1>2. layout = {q[k] : k \in F}
  <2>1. Filled(b) = {b[k] : k \in F}
    BY <1>1 DEF Filled, FilledOf
  <2>2. F \subseteq 1..m
    BY DEF FilledOf
  <2> DEFINE ready(a) == [a EXCEPT !.preparation = P(a)]
  <2> HIDE DEF F
  <2>3. \A k \in F : q[k] = ready(b[k])
    BY <2>2
  <2>4. layout = {ready(a) : a \in Filled(b)}
    BY Zenon DEF Prepared
  <2> HIDE DEF q, P, layout, ready
  <2> QED
    BY <2>1, <2>3, <2>4
<1>3. Marked(layout, mode) = {d[k] : k \in F}
  <2>1. F \subseteq 1..m
    BY DEF FilledOf
  <2> DEFINE mark(a) == [a EXCEPT !.mode = mode]
  <2> HIDE DEF F, q, layout
  <2>2. \A k \in F : d[k] = mark(q[k])
    BY <2>1
  <2>3. Marked(layout, mode) = {mark(a) : a \in layout}
    BY DEF Marked
  <2> HIDE DEF d, mark
  <2> QED
    BY <1>2, <2>2, <2>3
<1>4. ASSUME NEW k \in F
      PROVE  /\ d[k].id = b[k].id /\ d[k].items = b[k].items /\ d[k].checkout = b[k].checkout
             /\ d[k].load = b[k].load /\ d[k].cold = b[k].cold /\ d[k].mode = mode
             /\ d[k].preparation = P(d[k])
             /\ q[k].cold = d[k].cold /\ q[k].preparation = d[k].preparation
  <2>1. k \in 1..m
    BY DEF FilledOf
  <2> PICK A, B : A = SUBSET WorkItem /\ B = SUBSET AllPaths
    OBVIOUS
  <2>2. b[k] \in [id : Nat, items : A, checkout : B, load : Nat,
                  cold : Nat, preparation : {Unknown}, mode : {Unknown}]
    BY <2>1 DEF Buckets
  <2> PICK r, p : r = b[k] /\ p = P(b[k])
    OBVIOUS
  <2>3. q[k] = [r EXCEPT !.preparation = p] /\ d[k] = [q[k] EXCEPT !.mode = mode]
    <3> HIDE DEF P
    <3> QED
      BY <2>1, Zenon
  <2> PICK s, z : s = q[k] /\ z = d[k]
    OBVIOUS
  <2>4. s = [r EXCEPT !.preparation = p] /\ z = [s EXCEPT !.mode = mode]
    BY <2>3, Zenon
  <2> HIDE DEF d, q, P
  <2>5. /\ z.id = r.id /\ z.items = r.items /\ z.checkout = r.checkout
        /\ z.load = r.load /\ z.cold = r.cold /\ z.mode = mode
        /\ z.preparation = p /\ s.cold = r.cold /\ s.preparation = p
    BY <2>2, <2>4, Redrawn
  <2>6. P(z) = P(r)
    BY <2>5, Zenon DEF P, Preparation, PreparationKey
  <2> QED
    BY <2>5, <2>6, Zenon
<1> DEFINE h == [k \in F |-> d[k]]
<1>5. Drawn(Marked(layout, mode), h, b, m, tables, g, c, mode)
  <2> HIDE DEF F, d, q, layout
  <2>1. h \in [F -> Marked(layout, mode)] /\ \A a \in Marked(layout, mode) : \E k \in F : a = h[k]
    BY <1>3
  <2>2. \A k \in F : h[k] = d[k]
    OBVIOUS
  <2> HIDE DEF h
  <2>3. ASSUME NEW k \in F
        PROVE  /\ h[k].id = b[k].id /\ h[k].items = b[k].items /\ h[k].checkout = b[k].checkout
               /\ h[k].load = b[k].load /\ h[k].cold = b[k].cold /\ h[k].mode = mode
               /\ h[k].preparation = P(h[k])
    <3>1. h[k] = d[k]
      BY <2>2
    <3> HIDE DEF P
    <3> QED
      BY <1>4, <3>1, Zenon
  <2> QED
    BY <2>1, <2>3, Zenon DEF Drawn, F
<1>6. Learned(layout) => Learned(Marked(layout, mode))
  <2> HIDE DEF F, d, q, layout
  <2> SUFFICES ASSUME Learned(layout), NEW a \in Marked(layout, mode)
               PROVE  a.cold = 0 /\ a.preparation # Unknown
    BY Zenon DEF Learned
  <2>1. PICK k \in F : a = d[k]
    BY <1>3
  <2>2. q[k] \in layout
    BY <1>2
  <2>3. q[k].cold = 0 /\ q[k].preparation # Unknown
    BY <2>2, Zenon DEF Learned
  <2> QED
    BY <1>4, <2>1, <2>3, Zenon
<1> QED
  BY <1>5, <1>6, Zenon

(* A layout of the items: fair buckets, all learned or as many as allowed. *)
Outcome(plan, tables, g, c, items, cap) ==
    \E m \in 1..cap : \E b, h, mode :
       /\ Fair(b, Weights(tables, g, c, items), Colds(tables, g, c, items), m, items)
       /\ Drawn(plan, h, b, m, tables, g, c, mode)
       /\ \/ mode = "automatic" /\ Learned(plan)
          \/ mode = "cold-cap" /\ m = cap

LEMMA SchedulesAreOutcomes ==
    ASSUME NEW tables, Timed(tables), NEW g, NEW c, NEW items \in SUBSET WorkItem, IsFiniteSet(items),
           items # {}, NEW concurrency \in Nat \ {0},
           NEW plan \in Schedules(tables, g, c, items, concurrency)
    PROVE  /\ Min2(concurrency, Cardinality(items)) \in Nat \ {0}
           /\ Outcome(plan, tables, g, c, items, Min2(concurrency, Cardinality(items)))
<1> DEFINE N == Cardinality(items)
           cap == Min2(concurrency, N)
           CC == Candidates(c, cap)
           bkt(n) == Assign(tables, g, c, items, n)
           lay(n) == Prepared(tables, g, c, Filled(bkt(n)))
           layout == [n \in CC |-> lay(n)]
           best == {n \in DOMAIN layout :
                      \A m \in DOMAIN layout : ~Lexically(Score(layout[m]), Score(layout[n]))}
           marked(n, mode) == Marked(layout[n], mode)
           all == \A n \in DOMAIN layout : Learned(layout[n])
<1>1. cap \in Nat \ {0} /\ N \in Nat \ {0} /\ cap <= N
  <2>1. N \in Nat \ {0}
    BY FS_CardinalityType, FS_EmptySet
  <2> QED
    BY <2>1 DEF Min2
<1>2. CC \subseteq 1..cap /\ cap \in CC
  <2> HIDE DEF cap
  <2>1. 1 \in 1..cap /\ cap \in 1..cap
    BY <1>1
  <2> PICK D : D = 1..cap
    OBVIOUS
  <2> QED
    BY <2>1 DEF Candidates
<1>3. \A n \in 1..cap : Fair(bkt(n), Weights(tables, g, c, items), Colds(tables, g, c, items), n, items)
  <2> TAKE n \in 1..cap
  <2>1. n \in Nat \ {0} /\ Min2(n, N) = n
    BY <1>1 DEF Min2
  <2> QED
    BY <2>1, AssignIsFair
<1>4. Schedules(tables, g, c, items, concurrency) =
         IF all THEN {marked(n, "automatic") : n \in best} ELSE {marked(cap, "cold-cap")}
  BY DEF Schedules, Marked
<1>5. ASSUME NEW n \in CC, NEW mode,
             \/ mode = "automatic" /\ Learned(lay(n))
             \/ mode = "cold-cap" /\ n = cap
      PROVE  Outcome(marked(n, mode), tables, g, c, items, cap)
  <2>1. n \in 1..cap /\ n \in Nat \ {0}
    BY <1>1, <1>2
  <2>2. layout[n] = lay(n)
    OBVIOUS
  <2>3. Fair(bkt(n), Weights(tables, g, c, items), Colds(tables, g, c, items), n, items)
    BY <1>3, <2>1
  <2>4. bkt(n) \in Buckets(n)
    BY <2>3 DEF Fair, Spread
  <2> HIDE DEF bkt, layout, cap, CC
  <2>5. /\ \E h : Drawn(Marked(lay(n), mode), h, bkt(n), n, tables, g, c, mode)
        /\ Learned(lay(n)) => Learned(Marked(lay(n), mode))
    BY <2>1, <2>4, LayoutIsDrawn
  <2>6. marked(n, mode) = Marked(lay(n), mode)
    BY <2>2, Zenon
  <2> HIDE DEF lay, marked
  <2> QED
    BY <1>5, <2>1, <2>3, <2>5, <2>6, Zenon DEF Outcome
<1>6. DOMAIN layout = CC
  OBVIOUS
<1>7. CASE all
  <2>1. PICK n \in best : plan = marked(n, "automatic")
    <3> HIDE DEF all, best, marked
    <3> QED
      BY <1>4, <1>7
  <2>2. n \in CC /\ Learned(lay(n))
    <3>1. n \in DOMAIN layout
      <4> HIDE DEF layout
      <4> QED
        OBVIOUS
    <3>2. n \in CC
      BY <1>6, <3>1, Zenon
    <3>3. layout[n] = lay(n)
      BY <3>2
    <3> HIDE DEF layout, CC, lay
    <3> QED
      BY <1>7, <3>1, <3>2, <3>3, Zenon
  <2>3. Outcome(marked(n, "automatic"), tables, g, c, items, cap)
    BY <1>5, <2>2
  <2> QED
    BY <1>1, <2>1, <2>3, Zenon
<1>8. CASE ~all
  <2>1. plan = marked(cap, "cold-cap")
    <3> HIDE DEF all, best, marked
    <3> QED
      BY <1>4, <1>8
  <2>2. Outcome(marked(cap, "cold-cap"), tables, g, c, items, cap)
    BY <1>2, <1>5
  <2> QED
    BY <1>1, <2>1, <2>2, Zenon
<1> QED
  BY <1>7, <1>8

(* Each item in one assignment, which checks out what it needs.            *)
Covers(plan, items) ==
    /\ \A a \in plan : /\ a.items \subseteq items
                       /\ \A i \in a.items : CheckoutPaths[i.name] \subseteq a.checkout
    /\ \A i \in items : \E a \in plan : i \in a.items
    /\ \A a1, a2 \in plan : a1.items \cap a2.items # {} => a1 = a2

(* What the assignments of a plan consist of.                              *)
Assignments(plan) ==
    \A a \in plan : a.id \in Nat /\ a.load \in Nat /\ a.cold \in Nat /\ {i.name : i \in a.items} \subseteq Workspace

LEMMA DrawnCovers ==
    ASSUME NEW m \in Nat \ {0}, NEW items, NEW weight, NEW cold, NEW b, Spread(b, weight, cold, m, items),
           NEW plan, NEW h, NEW tables, NEW g, NEW c, NEW mode, Drawn(plan, h, b, m, tables, g, c, mode)
    PROVE  Covers(plan, items) /\ Assignments(plan)
<1> PICK F : F = FilledOf(b, m)
  OBVIOUS
<1>1. F \subseteq 1..m /\ \A k \in 1..m : k \in F <=> b[k].items # {}
  BY DEF FilledOf
<1>2. /\ \A k \in 1..m : b[k].items \subseteq items
      /\ \A i \in items : \E k \in 1..m : i \in b[k].items
      /\ \A k, l \in 1..m : \A i \in b[k].items : i \in b[l].items => k = l
      /\ \A k \in 1..m : \A i \in b[k].items : CheckoutPaths[i.name] \subseteq b[k].checkout
  BY DEF Spread
<1>3. /\ \A k \in F : h[k] \in plan
      /\ \A a \in plan : \E k \in F : a = h[k]
      /\ \A k \in F : h[k].id = b[k].id /\ h[k].items = b[k].items /\ h[k].checkout = b[k].checkout
                      /\ h[k].load = b[k].load /\ h[k].cold = b[k].cold
  <2>1. h \in [F -> plan]
    BY Zenon DEF Drawn
  <2> QED
    BY <2>1, Zenon DEF Drawn
<1>4. \A a \in plan : /\ a.items \subseteq items
                      /\ \A i \in a.items : CheckoutPaths[i.name] \subseteq a.checkout
  <2> TAKE a \in plan
  <2>1. PICK k \in F : a = h[k]
    BY <1>3
  <2>2. k \in 1..m /\ a.items = b[k].items /\ a.checkout = b[k].checkout
    BY <1>1, <1>3, <2>1
  <2> QED
    BY <1>2, <2>2
<1>5. ASSUME NEW i \in items PROVE \E a \in plan : i \in a.items
  <2>1. PICK k \in 1..m : i \in b[k].items
    BY <1>2
  <2>2. k \in F
    BY <1>1, <2>1
  <2> QED
    BY <1>3, <2>1, <2>2
<1>6. ASSUME NEW a1 \in plan, NEW a2 \in plan, a1.items \cap a2.items # {} PROVE a1 = a2
  <2>1. PICK k \in F : a1 = h[k]
    BY <1>3
  <2>2. PICK l \in F : a2 = h[l]
    BY <1>3
  <2>3. PICK i : i \in a1.items /\ i \in a2.items
    BY <1>6
  <2>4. i \in b[k].items /\ i \in b[l].items /\ k \in 1..m /\ l \in 1..m
    BY <1>1, <1>3, <2>1, <2>2, <2>3
  <2> QED
    BY <1>2, <2>1, <2>2, <2>4
<1>7. Assignments(plan)
  <2> SUFFICES ASSUME NEW a \in plan
               PROVE  /\ a.id \in Nat /\ a.load \in Nat /\ a.cold \in Nat
                      /\ {i.name : i \in a.items} \subseteq Workspace
    BY DEF Assignments
  <2>1. PICK k \in F : a = h[k]
    BY <1>3
  <2>2. b[k].id \in Nat /\ b[k].load \in Nat /\ b[k].cold \in Nat /\ b[k].items \subseteq WorkItem
    <3>1. b \in Buckets(m)
      BY DEF Spread
    <3> QED
      BY <1>1, <3>1 DEF Buckets
  <2> PICK I : I = b[k].items
    OBVIOUS
  <2>3. a.id = b[k].id /\ a.load = b[k].load /\ a.cold = b[k].cold /\ a.items = I
    BY <1>3, <2>1
  <2>4. \A i \in I : i.name \in Workspace
    BY <2>2 DEF WorkItem
  <2> QED
    BY <2>2, <2>3, <2>4
<1> QED
  BY <1>4, <1>5, <1>6, <1>7 DEF Covers

LEMMA DrawnSize ==
    ASSUME NEW m \in Nat \ {0}, NEW items, NEW weight, NEW cold, NEW b, Spread(b, weight, cold, m, items),
           NEW plan, NEW h, NEW tables, NEW g, NEW c, NEW mode, Drawn(plan, h, b, m, tables, g, c, mode)
    PROVE  /\ IsFiniteSet(plan) /\ Cardinality(plan) = Cardinality(FilledOf(b, m))
           /\ IsFiniteSet(FilledOf(b, m)) /\ Cardinality(FilledOf(b, m)) <= m
           /\ \A k, l \in FilledOf(b, m) : h[k] = h[l] => k = l
<1> PICK F : F = FilledOf(b, m)
  OBVIOUS
<1>1. F \subseteq 1..m
  BY DEF FilledOf
<1>2. IsFiniteSet(1..m) /\ Cardinality(1..m) = m
  BY FS_Interval
<1>3. IsFiniteSet(F) /\ Cardinality(F) <= m
  <2> PICK D : D = 1..m
    OBVIOUS
  <2> QED
    BY <1>1, <1>2, FS_Subset
<1>4. h \in [F -> plan] /\ \A a \in plan : \E k \in F : a = h[k]
  BY Zenon DEF Drawn
<1>5. \A k, l \in F : h[k] = h[l] => k = l
  <2>1. \A k \in F : h[k].id = b[k].id
    BY Zenon DEF Drawn
  <2>2. \A k \in F : b[k].id = k
    BY <1>1 DEF Spread
  <2> QED
    BY <2>1, <2>2
<1>6. h \in Bijection(F, plan)
  BY <1>4, <1>5, Fun_IsBij, Zenon DEF Bijection, Injection, Surjection, IsInjective
<1>7. IsFiniteSet(plan) /\ Cardinality(F) = Cardinality(plan)
  BY <1>3, <1>6, FS_Bijection DEF ExistsBijection
<1> QED
  BY <1>3, <1>5, <1>7

(* Without predictions every item counts the same, and no bucket is empty. *)
LEMMA EqualItemsFillAll ==
    ASSUME NEW S \in SUBSET WorkItem, IsFiniteSet(S), NEW weight \in [S -> Nat], \A i \in S : weight[i] = 1,
           NEW cold, NEW m \in Nat \ {0}, m <= Cardinality(S), NEW b, Fair(b, weight, cold, m, S)
    PROVE  FilledOf(b, m) = 1..m
<1> SUFFICES ASSUME NEW k \in 1..m, b[k].items = {} PROVE FALSE
  BY DEF FilledOf
<1>1. b \in Buckets(m) /\ SumOf(Loads(b), 1..m) = SumOf(weight, S) /\ b[k].load = 0
  BY DEF Fair, Spread
<1>2. \A l \in 1..m : b[l].load <= 1
  <2>1. Balanced(b, weight, m, 1, S)
    BY DEF Fair
  <2> QED
    BY <2>1 DEF Balanced
<1> PICK D, L : D = 1..m /\ L = Loads(b)
  OBVIOUS
<1>3. /\ IsFiniteSet(D) /\ Cardinality(D) = m /\ k \in D
      /\ L \in [D -> Nat] /\ \A l \in D : L[l] = b[l].load
  <2>1. IsFiniteSet(1..m) /\ Cardinality(1..m) = m
    BY FS_Interval
  <2>2. Loads(b) \in [1..m -> Nat] /\ \A l \in 1..m : Loads(b)[l] = b[l].load
    BY <1>1, LoadsAreNumbers
  <2> QED
    BY <2>1, <2>2, Zenon
<1>4. SumOf(L, D) \in Nat /\ SumOf(L, D) <= m - 1
  <2>1. L[k] = 0 /\ \A l \in D : L[l] <= 1
    BY <1>1, <1>2, <1>3
  <2> QED
    BY <1>3, <2>1, SumWithoutOne
<1>5. SumOf(weight, S) >= 1 * Cardinality(S)
  <2>1. S \in SUBSET S /\ \A i \in S : weight[i] >= 1
    OBVIOUS
  <2> QED
    BY <2>1, SumAtLeast
<1>6. Cardinality(S) \in Nat
  BY FS_CardinalityType
<1> PICK x, n : x = SumOf(L, D) /\ n = Cardinality(S)
  OBVIOUS
<1>7. x = SumOf(weight, S)
  BY <1>1, <1>3, Zenon
<1> QED
  BY <1>4, <1>5, <1>6, <1>7

LEMMA ShareOfFew ==
    ASSUME NEW p \in Nat \ {0}, NEW x \in Nat, NEW t \in Nat, NEW longest \in Nat, x <= t, x <= longest
    PROVE  p * x <= t + (p - 1) * longest
<1> PICK q \in Nat : q = p - 1
  OBVIOUS
<1>1. q * x \in Nat /\ q * longest \in Nat /\ q * x <= q * longest
  BY TimesGrows
<1>2. p * x = x + q * x
  OBVIOUS
<1> QED
  BY <1>1, <1>2

LEMMA DrawnTotal ==
    ASSUME NEW m \in Nat \ {0}, NEW items, NEW weight, NEW cold, NEW b, Spread(b, weight, cold, m, items),
           NEW plan, NEW h, NEW tables, NEW g, NEW c, NEW mode, Drawn(plan, h, b, m, tables, g, c, mode)
    PROVE  /\ \A a \in plan : a.load \in Nat
           /\ SumOf([a \in plan |-> a.load], plan) = SumOf(weight, items)
<1> PICK F, D, L, l : F = FilledOf(b, m) /\ D = 1..m /\ L = Loads(b) /\ l = [a \in plan |-> a.load]
  OBVIOUS
<1>1. /\ IsFiniteSet(plan) /\ IsFiniteSet(F)
      /\ \A k, j \in F : h[k] = h[j] => k = j
  BY DrawnSize
<1>2. /\ L \in [D -> Nat] /\ \A k \in D : L[k] = b[k].load
      /\ IsFiniteSet(D) /\ SumOf(L, D) = SumOf(weight, items)
      /\ \A k \in D : b[k].items = {} => b[k].load = 0
  <2>1. b \in Buckets(m) /\ SumOf(Loads(b), 1..m) = SumOf(weight, items)
        /\ \A k \in 1..m : b[k].items = {} => b[k].load = 0
    BY DEF Spread
  <2>2. Loads(b) \in [1..m -> Nat] /\ \A k \in 1..m : Loads(b)[k] = b[k].load
    BY <2>1, LoadsAreNumbers
  <2>3. IsFiniteSet(1..m)
    BY FS_Interval
  <2> QED
    BY <2>1, <2>2, <2>3, Zenon
<1>3. F \in SUBSET D /\ \A k \in D : k \in F <=> b[k].items # {}
  BY DEF FilledOf
<1>4. h \in [F -> plan] /\ (\A a \in plan : \E k \in F : a = h[k]) /\ \A k \in F : h[k].load = b[k].load
  BY Zenon DEF Drawn
<1>5. \A a \in plan : a.load \in Nat
  <2> TAKE a \in plan
  <2>1. PICK k \in F : a = h[k]
    BY <1>4
  <2>2. k \in D /\ a.load = b[k].load
    BY <1>3, <1>4, <2>1
  <2> QED
    BY <1>2, <2>2
<1>6. SumOf(L, D) = SumOf(L, F)
  <2>1. D \in SUBSET D /\ \A k \in D \ F : L[k] = 0
    BY <1>2, <1>3
  <2>2. CountsOnly(L, D, D, F)
    BY <1>2, <1>3, <2>1, Zenon DEF CountsOnly
  <2> QED
    BY <1>2, <2>2, SumWhere
<1>7. SumOf(L, F) = SumOf(l, plan)
  <2>1. l \in [plan -> Nat] /\ \A a \in plan : l[a] = a.load
    BY <1>5
  <2>2. \A k \in F : l[h[k]] = L[k]
    BY <1>2, <1>3, <1>4, <2>1
  <2>3. Renames(L, D, F, l, plan, h)
    BY <1>1, <1>2, <1>3, <1>4, <2>1, <2>2, Zenon DEF Renames
  <2> QED
    BY <1>1, <1>2, <2>3, SumOfAll
<1> QED
  BY <1>2, <1>5, <1>6, <1>7, Zenon

LEMMA DrawnIsBalanced ==
    ASSUME NEW m \in Nat \ {0}, NEW items \in SUBSET WorkItem, NEW weight, NEW cold, NEW b,
           Fair(b, weight, cold, m, items),
           NEW plan, NEW h, NEW tables, NEW g, NEW c, NEW mode, Drawn(plan, h, b, m, tables, g, c, mode),
           NEW longest \in Nat, \A i \in items : weight[i] <= longest, NEW a \in plan
    PROVE  Cardinality(plan) * a.load <= SumOf([x \in plan |-> x.load], plan) + (Cardinality(plan) - 1) * longest
<1>1. Spread(b, weight, cold, m, items) /\ Balanced(b, weight, m, longest, items)
  BY DEF Fair
<1> PICK F, l, p, t, s : /\ F = FilledOf(b, m) /\ l = [x \in plan |-> x.load]
                         /\ p = Cardinality(plan) /\ t = SumOf(l, plan) /\ s = SumOf(weight, items)
  OBVIOUS
<1>2. /\ IsFiniteSet(plan) /\ p = Cardinality(F) /\ IsFiniteSet(F)
  BY <1>1, DrawnSize
<1>3. t = s /\ \A x \in plan : x.load \in Nat
  BY <1>1, DrawnTotal
<1>4. l \in [plan -> Nat] /\ l[a] = a.load
  BY <1>3
<1>5. t \in Nat /\ a.load <= t /\ a.load \in Nat
  BY <1>2, <1>3, <1>4, SumHolds
<1>6. p \in Nat \ {0}
  BY <1>2, FS_CardinalityType, FS_EmptySet
<1>7. PICK k \in F : a = h[k] /\ a.load = b[k].load /\ k \in 1..m
  <2>1. PICK k \in F : a = h[k]
    BY Zenon DEF Drawn
  <2>2. k \in 1..m
    BY DEF FilledOf
  <2> QED
    BY <2>1, <2>2, Zenon DEF Drawn
<1>8. CASE F = 1..m
  <2>1. p = m
    BY <1>2, <1>8, FS_Interval
  <2>2. m * b[k].load <= s + (m - 1) * longest
    BY <1>1, <1>7 DEF Balanced
  <2> QED
    BY <1>3, <1>7, <2>1, <2>2
<1>9. CASE F # 1..m
  <2>1. F \subseteq 1..m /\ \E j \in 1..m : b[j].items = {}
    BY <1>9 DEF FilledOf
  <2>2. b[k].load <= longest
    BY <1>1, <1>7, <2>1 DEF Balanced
  <2> PICK v \in Nat : v = a.load
    BY <1>5
  <2>3. v <= t /\ v <= longest
    BY <1>5, <1>7, <2>2
  <2> QED
    BY <1>5, <1>6, <2>3, ShareOfFew
<1> QED
  BY <1>8, <1>9

(* What the properties need to know of the layout of a group.              *)
Laid(plan, tables, g, c, A) ==
    /\ Covers(plan, Items(c, A)) /\ Assignments(plan)
    /\ c.tiers # << >> =>
          IF Items(c, A) = {} THEN plan = {}
          ELSE /\ Min2(Tier(c, A).concurrency, Cardinality(Items(c, A))) \in Nat \ {0}
               /\ Outcome(plan, tables, g, c, Items(c, A),
                          Min2(Tier(c, A).concurrency, Cardinality(Items(c, A))))

LEMMA OutcomeCovers ==
    ASSUME NEW plan, NEW tables, NEW g, NEW c, NEW items, NEW cap \in Nat,
           Outcome(plan, tables, g, c, items, cap)
    PROVE  Covers(plan, items) /\ Assignments(plan)
<1>1. PICK m \in 1..cap : \E b, h, mode :
         /\ Fair(b, Weights(tables, g, c, items), Colds(tables, g, c, items), m, items)
         /\ Drawn(plan, h, b, m, tables, g, c, mode)
  BY Zenon DEF Outcome
<1>2. PICK b, h, mode :
         /\ Fair(b, Weights(tables, g, c, items), Colds(tables, g, c, items), m, items)
         /\ Drawn(plan, h, b, m, tables, g, c, mode)
  BY <1>1, Zenon
<1>3. Spread(b, Weights(tables, g, c, items), Colds(tables, g, c, items), m, items)
  BY <1>2 DEF Fair
<1>4. m \in Nat \ {0}
  OBVIOUS
<1> QED
  BY <1>2, <1>3, <1>4, DrawnCovers

Holds(r, id, one, paths) ==
    r.id = id /\ r.items = one /\ r.checkout = paths /\ r.load = 0 /\ r.cold = 0

LEMMA RecordWith ==
    ASSUME NEW id, NEW none, NEW one, NEW paths, NEW e, NEW r,
           e = [id |-> id, items |-> none, checkout |-> none, load |-> 0, cold |-> 0,
                preparation |-> Unknown, mode |-> Unknown],
           r = [e EXCEPT !.items = one, !.checkout = paths, !.load = 0, !.cold = 0]
    PROVE  Holds(r, id, one, paths)
BY DEF Holds

LEMMA NumberedCovers ==
    ASSUME NEW g \in Group, ItemsOf(g) \in SUBSET WorkItem, IsFiniteSet(ItemsOf(g))
    PROVE  Covers(Numbered(g), ItemsOf(g)) /\ Assignments(Numbered(g))
<1> PICK items : items = ItemsOf(g)
  OBVIOUS
<1> DEFINE before(i, j) == Lexically(<<i.task, i.name, i.shard>>, <<j.task, j.name, j.shard>>)
           place(i) == Cardinality({j \in items : before(j, i)}) + 1
           alone(i) == With(Empty(place(i)), i, 0, FALSE)
<1>1. Numbered(g) = {alone(i) : i \in items}
  BY DEF Numbered
<1> HIDE DEF before
<1>2. ASSUME NEW i \in items
      PROVE  /\ alone(i).id \in Nat /\ alone(i).load = 0 /\ alone(i).cold = 0
             /\ alone(i).items = {i} /\ alone(i).checkout = CheckoutPaths[i.name]
  <2>1. place(i) \in Nat
    <3> PICK S : S = {j \in items : before(j, i)}
      OBVIOUS
    <3>1. IsFiniteSet(S)
      BY FS_Subset
    <3> QED
      BY <3>1, FS_CardinalityType
  <2> PICK p, none, one, paths : p = place(i) /\ none = {} /\ one = none \cup {i}
                                 /\ paths = none \cup CheckoutPaths[i.name]
    OBVIOUS
  <2> HIDE DEF place
  <2>2. Empty(p) = [id |-> p, items |-> none, checkout |-> none, load |-> 0, cold |-> 0,
                    preparation |-> Unknown, mode |-> Unknown]
    BY Zenon DEF Empty
  <2> PICK e : e = Empty(p)
    OBVIOUS
  <2>3. e.items = none /\ e.checkout = none /\ e.load = 0 /\ e.cold = 0 /\ e.id = p
    BY <2>2
  <2>4. With(e, i, 0, FALSE) = [e EXCEPT !.items = one, !.checkout = paths, !.load = 0, !.cold = 0]
    <3>1. With(e, i, 0, FALSE) = [e EXCEPT !.items = e.items \cup {i},
                                           !.checkout = e.checkout \cup CheckoutPaths[i.name],
                                           !.load = e.load + 0, !.cold = e.cold + 0]
      BY DEF With
    <3>2. e.load + 0 = 0 /\ e.cold + 0 = 0
      BY <2>3
    <3> QED
      BY <2>3, <3>1, <3>2, Zenon
  <2> PICK r : r = With(e, i, 0, FALSE)
    OBVIOUS
  <2>5. r.id = p /\ r.items = one /\ r.checkout = paths /\ r.load = 0 /\ r.cold = 0
    <3>1. e = [id |-> p, items |-> none, checkout |-> none, load |-> 0, cold |-> 0,
               preparation |-> Unknown, mode |-> Unknown]
      BY <2>2, Zenon
    <3>2. r = [e EXCEPT !.items = one, !.checkout = paths, !.load = 0, !.cold = 0]
      BY <2>4, Zenon
    <3> QED
      <4>1. Holds(r, p, one, paths)
        BY <3>1, <3>2, RecordWith
      <4> QED
        BY <4>1, Zenon DEF Holds
  <2>6. one = {i} /\ paths = CheckoutPaths[i.name]
    OBVIOUS
  <2>7. alone(i) = r
    BY Zenon
  <2> HIDE DEF alone
  <2> QED
    BY <2>1, <2>5, <2>6, <2>7, Zenon
<1> HIDE DEF alone
<1>3. \A i \in items : i.name \in Workspace
  BY DEF WorkItem
<1>4. Covers(Numbered(g), items)
  <2>1. \A a \in Numbered(g) : /\ a.items \subseteq items
                               /\ \A i \in a.items : CheckoutPaths[i.name] \subseteq a.checkout
    <3> TAKE a \in Numbered(g)
    <3>1. PICK i \in items : a = alone(i)
      BY <1>1
    <3> QED
      BY <1>2, <3>1
  <2>2. \A i \in items : \E a \in Numbered(g) : i \in a.items
    <3> TAKE i \in items
    <3>1. alone(i) \in Numbered(g) /\ i \in alone(i).items
      BY <1>1, <1>2
    <3> QED
      BY <3>1
  <2>3. ASSUME NEW a1 \in Numbered(g), NEW a2 \in Numbered(g), a1.items \cap a2.items # {}
        PROVE  a1 = a2
    <3>1. PICK i \in items : a1 = alone(i)
      BY <1>1
    <3>2. PICK j \in items : a2 = alone(j)
      BY <1>1
    <3>3. i = j
      BY <1>2, <2>3, <3>1, <3>2
    <3> QED
      BY <3>1, <3>2, <3>3
  <2> QED
    BY <2>1, <2>2, <2>3 DEF Covers
<1>5. Assignments(Numbered(g))
  <2> SUFFICES ASSUME NEW a \in Numbered(g)
               PROVE  /\ a.id \in Nat /\ a.load \in Nat /\ a.cold \in Nat
                      /\ {x.name : x \in a.items} \subseteq Workspace
    BY DEF Assignments
  <2>1. PICK i \in items : a = alone(i)
    BY <1>1
  <2>2. a.id \in Nat /\ a.load = 0 /\ a.cold = 0 /\ a.items = {i}
    BY <1>2, <2>1
  <2> QED
    BY <1>3, <2>2
<1> QED
  BY <1>4, <1>5

LEMMA LayoutsAreLaid ==
    ASSUME config \in Configs, affected \in SUBSET Workspace, NEW tables, Timed(tables), NEW g \in Group,
           NEW plan \in Layouts(g, tables)
    PROVE  Laid(plan, tables, g, config[g], affected)
<1> PICK c, items : c = config[g] /\ items = Items(c, affected)
  OBVIOUS
<1>1. c \in GroupConfigs
  <2>1. DOMAIN config = Group
    BY PlanningAssumption
  <2> QED
    BY <2>1 DEF GroupConfigs, Range
<1>2. items \in SUBSET WorkItem /\ IsFiniteSet(items) /\ items = ItemsOf(g)
  BY <1>1, ItemsAreWork DEF ItemsOf
<1>3. CASE c.tiers = << >>
  <2>1. plan = Numbered(g)
    BY <1>3 DEF Layouts
  <2>2. Covers(plan, items) /\ Assignments(plan)
    BY <1>2, <2>1, NumberedCovers, Zenon
  <2> QED
    BY <1>3, <2>2 DEF Laid
<1>4. CASE c.tiers # << >>
  <2>1. Tier(c, affected).concurrency \in Nat \ {0}
    BY <1>1, <1>4, TierIsPositive
  <2> PICK n : n = Tier(c, affected).concurrency
    OBVIOUS
  <2>2. plan \in Schedules(tables, g, c, items, n)
    BY <1>2, <1>4, Zenon DEF Layouts
  <2>3. CASE items = {}
    <3>1. plan = {}
      BY <2>2, <2>3 DEF Schedules
    <3>2. Covers(plan, items) /\ Assignments(plan)
      BY <2>3, <3>1 DEF Covers, Assignments
    <3> QED
      BY <2>3, <3>1, <3>2 DEF Laid
  <2>4. CASE items # {}
    <3>1. /\ Min2(n, Cardinality(items)) \in Nat \ {0}
          /\ Outcome(plan, tables, g, c, items, Min2(n, Cardinality(items)))
      BY <1>2, <2>1, <2>2, <2>4, SchedulesAreOutcomes
    <3>2. Covers(plan, items) /\ Assignments(plan)
      BY <3>1, OutcomeCovers
    <3> QED
      BY <2>4, <3>1, <3>2, Zenon DEF Laid
  <2> QED
    BY <2>3, <2>4
<1> QED
  BY <1>3, <1>4

(* What EveryItemOnce says of one group.                                   *)
ItemsOnce(plan, c, A) ==
    LET placed == UNION {{<<a, i>> : i \in a.items} : a \in plan}
        shards(w, t) == {p \in placed : p[2].name = w /\ p[2].task = t}
        rule(w, t) == ShardsOf(c, w, t)
    IN  /\ \A p \in placed : CheckoutPaths[p[2].name] \subseteq p[1].checkout
        /\ \A w \in Workspace, t \in c.tasks :
              IF w \in A \ c.ignored
              THEN /\ {p[2].shard : p \in shards(w, t)} = IF rule(w, t) = 0 THEN {0} ELSE 1..rule(w, t)
                   /\ \A p, q \in shards(w, t) : p[2].shard = q[2].shard => p = q
              ELSE shards(w, t) = {}

LEMMA ItemFields ==
    ASSUME NEW c, NEW A
    PROVE  /\ \A i \in Items(c, A) :
                 /\ i.name \in A \ c.ignored /\ i.task \in c.tasks
                 /\ i.shard \in Shards(ShardsOf(c, i.name, i.task))
                 /\ i = [name |-> i.name, task |-> i.task, shard |-> i.shard,
                         total |-> ShardsOf(c, i.name, i.task)]
           /\ \A w \in A \ c.ignored, t \in c.tasks : \A s \in Shards(ShardsOf(c, w, t)) :
                 [name |-> w, task |-> t, shard |-> s, total |-> ShardsOf(c, w, t)] \in Items(c, A)
<1> DEFINE part(w, t, s) == [name |-> w, task |-> t, shard |-> s, total |-> ShardsOf(c, w, t)]
           F == A \ c.ignored
<1>1. \A i : i \in Items(c, A)
         <=> \E w \in F, t \in c.tasks : \E s \in Shards(ShardsOf(c, w, t)) : i = part(w, t, s)
  <2> DEFINE block(w, t) == {part(w, t, s) : s \in Shards(ShardsOf(c, w, t))}
  <2>1. Items(c, A) = UNION {block(w, t) : w \in F, t \in c.tasks}
    BY DEF Items, Filtered
  <2>2. \A w, t, i : i \in block(w, t) <=> \E s \in Shards(ShardsOf(c, w, t)) : i = part(w, t, s)
    <3> HIDE DEF part
    <3> QED
      OBVIOUS
  <2> HIDE DEF block, F, part
  <2>3. \A i : i \in Items(c, A) <=> \E w \in F, t \in c.tasks : i \in block(w, t)
    BY <2>1
  <2> QED
    BY <2>2, <2>3
<1>2. ASSUME NEW w, NEW t, NEW s
      PROVE  LET i == part(w, t, s) IN i.name = w /\ i.task = t /\ i.shard = s
  OBVIOUS
<1> HIDE DEF F
<1>3. ASSUME NEW i \in Items(c, A)
      PROVE  /\ i.name \in F /\ i.task \in c.tasks
             /\ i.shard \in Shards(ShardsOf(c, i.name, i.task))
             /\ i = part(i.name, i.task, i.shard)
  <2> HIDE DEF part
  <2>1. PICK w \in F, t \in c.tasks : \E s \in Shards(ShardsOf(c, w, t)) : i = part(w, t, s)
    BY <1>1
  <2>2. PICK s \in Shards(ShardsOf(c, w, t)) : i = part(w, t, s)
    BY <2>1
  <2>3. i.name = w /\ i.task = t /\ i.shard = s
    BY <1>2, <2>2
  <2> QED
    BY <2>2, <2>3
<1>4. \A w \in F, t \in c.tasks : \A s \in Shards(ShardsOf(c, w, t)) : part(w, t, s) \in Items(c, A)
  <2> HIDE DEF part
  <2> QED
    BY <1>1
<1> QED
  BY <1>3, <1>4 DEF F

LEMMA CoversIsOnce ==
    ASSUME NEW plan, NEW c, NEW A, Covers(plan, Items(c, A))
    PROVE  ItemsOnce(plan, c, A)
<1> DEFINE placed == UNION {{<<a, i>> : i \in a.items} : a \in plan}
           shards(w, t) == {p \in placed : p[2].name = w /\ p[2].task = t}
           rule(w, t) == ShardsOf(c, w, t)
           F == A \ c.ignored
           part(w, t, s) == [name |-> w, task |-> t, shard |-> s, total |-> ShardsOf(c, w, t)]
           K == Items(c, A)
<1>1. /\ \A i \in K : /\ i.name \in F /\ i.task \in c.tasks
                      /\ i.shard \in Shards(rule(i.name, i.task))
                      /\ i = part(i.name, i.task, i.shard)
      /\ \A w \in F, t \in c.tasks : \A s \in Shards(rule(w, t)) : part(w, t, s) \in K
  BY ItemFields
<1>2. \A p : p \in placed <=> \E a \in plan : \E i \in a.items : p = <<a, i>>
  OBVIOUS
<1> HIDE DEF placed, F, K
<1>3. /\ \A a \in plan : /\ a.items \subseteq K
                         /\ \A i \in a.items : CheckoutPaths[i.name] \subseteq a.checkout
      /\ \A i \in K : \E a \in plan : i \in a.items
      /\ \A a1, a2 \in plan : a1.items \cap a2.items # {} => a1 = a2
  BY Zenon DEF Covers, K
<1>4. ASSUME NEW p \in placed
      PROVE  /\ p = <<p[1], p[2]>> /\ p[1] \in plan /\ p[2] \in p[1].items /\ p[2] \in K
             /\ CheckoutPaths[p[2].name] \subseteq p[1].checkout
  <2>1. PICK a \in plan : \E i \in a.items : p = <<a, i>>
    BY <1>2
  <2>2. PICK i \in a.items : p = <<a, i>>
    BY <2>1
  <2>3. p[1] = a /\ p[2] = i
    BY <2>2
  <2> QED
    BY <1>3, <2>2, <2>3
<1>5. ASSUME NEW i \in K PROVE \E p \in placed : p[2] = i
  <2>1. PICK a \in plan : i \in a.items
    BY <1>3
  <2>2. <<a, i>> \in placed /\ <<a, i>>[2] = i
    BY <1>2, <2>1
  <2> QED
    BY <2>2
<1>6. ASSUME NEW p \in placed, NEW q \in placed, p[2] = q[2] PROVE p = q
  <2>1. p[1] = q[1]
    BY <1>3, <1>4, <1>6
  <2> QED
    BY <1>4, <1>6, <2>1
<1>7. ASSUME NEW w \in Workspace, NEW t \in c.tasks, w \in F
      PROVE  /\ {p[2].shard : p \in shards(w, t)} = Shards(rule(w, t))
             /\ \A p, q \in shards(w, t) : p[2].shard = q[2].shard => p = q
  <2>1. \A p \in shards(w, t) : p \in placed /\ p[2] \in K /\ p[2] = part(w, t, p[2].shard)
                                /\ p[2].shard \in Shards(rule(w, t))
    <3> TAKE p \in shards(w, t)
    <3>1. p \in placed /\ p[2].name = w /\ p[2].task = t
      OBVIOUS
    <3> HIDE DEF shards, part
    <3> QED
      BY <1>1, <1>4, <3>1
  <2>2. ASSUME NEW s \in Shards(rule(w, t)) PROVE \E p \in shards(w, t) : p[2].shard = s
    <3>1. part(w, t, s) \in K
      BY <1>1, <1>7
    <3>2. PICK p \in placed : p[2] = part(w, t, s)
      BY <1>5, <3>1
    <3>3. p[2].name = w /\ p[2].task = t /\ p[2].shard = s
      BY <3>2
    <3> QED
      BY <3>3
  <2>3. ASSUME NEW p \in shards(w, t), NEW q \in shards(w, t), p[2].shard = q[2].shard PROVE p = q
    <3> HIDE DEF part, shards
    <3> QED
      BY <1>6, <2>1, <2>3
  <2> HIDE DEF shards
  <2>4. {p[2].shard : p \in shards(w, t)} = Shards(rule(w, t))
    BY <2>1, <2>2
  <2> QED
    BY <2>3, <2>4
<1>8. ASSUME NEW w \in Workspace, NEW t \in c.tasks, w \notin F PROVE shards(w, t) = {}
  <2> SUFFICES ASSUME NEW p \in placed, p[2].name = w PROVE FALSE
    OBVIOUS
  <2> QED
    BY <1>1, <1>4, <1>8
<1> DEFINE One(w, t) ==
              IF w \in F
              THEN /\ {p[2].shard : p \in shards(w, t)} = IF rule(w, t) = 0 THEN {0} ELSE 1..rule(w, t)
                   /\ \A p, q \in shards(w, t) : p[2].shard = q[2].shard => p = q
              ELSE shards(w, t) = {}
<1>9. ASSUME NEW w \in Workspace, NEW t \in c.tasks PROVE One(w, t)
  <2>1. Shards(rule(w, t)) = IF rule(w, t) = 0 THEN {0} ELSE 1..rule(w, t)
    BY DEF Shards
  <2>2. CASE w \in F
    <3>1. /\ {p[2].shard : p \in shards(w, t)} = Shards(rule(w, t))
          /\ \A p, q \in shards(w, t) : p[2].shard = q[2].shard => p = q
      BY <1>7, <2>2
    <3> HIDE DEF shards
    <3>2. {p[2].shard : p \in shards(w, t)} = IF rule(w, t) = 0 THEN {0} ELSE 1..rule(w, t)
      BY <2>1, <3>1, Zenon
    <3> QED
      BY <2>2, <3>1, <3>2, Zenon
  <2>3. CASE w \notin F
    <3>1. shards(w, t) = {}
      BY <1>8, <2>3
    <3> HIDE DEF shards
    <3> QED
      BY <2>3, <3>1, Zenon
  <2> QED
    BY <2>2, <2>3
<1>10. ItemsOnce(plan, c, A)
           <=> /\ \A p \in placed : CheckoutPaths[p[2].name] \subseteq p[1].checkout
               /\ \A w \in Workspace, t \in c.tasks : One(w, t)
  BY Zenon DEF ItemsOnce, F, placed
<1> QED
  BY <1>4, <1>9, <1>10, Zenon

LEMMA LargestIs ==
    ASSUME NEW S, S \subseteq Nat, IsFiniteSet(S), S # {}
    PROVE  Largest(S) \in S /\ \A x \in S : x <= Largest(S)
<1>1. \E x \in S : \A y \in S : y <= x
  BY LargestNumber
<1> QED
  BY <1>1 DEF Largest

LEMMA ValuesAreFinite ==
    ASSUME NEW S, IsFiniteSet(S), S # {}, NEW f \in [S -> Nat]
    PROVE  LET V == {f[x] : x \in S} IN V \subseteq Nat /\ V # {} /\ IsFiniteSet(V)
<1> PICK V : V = {f[x] : x \in S}
  OBVIOUS
<1>1. V \subseteq Nat /\ V # {} /\ f \in [S -> V] /\ \A y \in V : \E x \in S : f[x] = y
  OBVIOUS
<1>2. IsFiniteSet(V)
  BY <1>1, ImageIsFinite
<1> QED
  BY <1>1, <1>2, Zenon

(* What MakespanIsBounded says of one group.                               *)
MakespanWithin(plan, tables, g, c, items) ==
    LET weight(i) == Weight(tables, g, c, i)
        m == Cardinality(plan)
        longest == Largest({weight(i) : i \in items})
        load == SumOf([a \in plan |-> a.load], plan)
    IN  /\ load = SumOf([i \in items |-> weight(i)], items)
        /\ m * Largest({a.load : a \in plan}) <= load + (m - 1) * longest

(* A plan of fair buckets.                                                 *)
FairPlan(plan, tables, g, c, items, m, b, h, mode) ==
    /\ Fair(b, Weights(tables, g, c, items), Colds(tables, g, c, items), m, items)
    /\ Drawn(plan, h, b, m, tables, g, c, mode)
    /\ mode = "automatic" => Learned(plan)
    /\ mode # "automatic" => mode = "cold-cap"

LEMMA OutcomeIsFair ==
    ASSUME NEW plan, NEW tables, NEW g, NEW c, NEW items, NEW cap \in Nat,
           Outcome(plan, tables, g, c, items, cap)
    PROVE  \E m \in 1..cap : \E b, h, mode :
              /\ FairPlan(plan, tables, g, c, items, m, b, h, mode)
              /\ mode = "cold-cap" => m = cap
BY Zenon DEF Outcome, FairPlan

LEMMA FairIsWithin ==
    ASSUME NEW tables, Timed(tables), NEW g, NEW c, NEW items \in SUBSET WorkItem, IsFiniteSet(items), items # {},
           NEW m \in Nat \ {0}, NEW plan, NEW b, NEW h, NEW mode, plan # {},
           FairPlan(plan, tables, g, c, items, m, b, h, mode)
    PROVE  MakespanWithin(plan, tables, g, c, items)
<1> PICK weight, cold : weight = Weights(tables, g, c, items) /\ cold = Colds(tables, g, c, items)
  OBVIOUS
<1>1. weight \in [items -> Nat] /\ \A i \in items : weight[i] = Weight(tables, g, c, i)
  BY WeightIsTimed DEF Weights
<1>2. Fair(b, weight, cold, m, items) /\ Spread(b, weight, cold, m, items)
      /\ Drawn(plan, h, b, m, tables, g, c, mode)
  BY DEF FairPlan, Fair
<1>3. IsFiniteSet(plan)
  BY <1>2, DrawnSize
<1>4. (\A a \in plan : a.load \in Nat) /\ SumOf([a \in plan |-> a.load], plan) = SumOf(weight, items)
  BY <1>2, DrawnTotal
<1> PICK V, W : V = {a.load : a \in plan} /\ W = {Weight(tables, g, c, i) : i \in items}
  OBVIOUS
<1>5. Largest(V) \in V
  <2> DEFINE l == [a \in plan |-> a.load]
  <2>1. l \in [plan -> Nat] /\ \A a \in plan : l[a] = a.load
    BY <1>4
  <2> HIDE DEF l
  <2>2. V = {l[a] : a \in plan}
    BY <2>1
  <2>3. V \subseteq Nat /\ V # {} /\ IsFiniteSet(V)
    BY <1>3, <2>1, <2>2, ValuesAreFinite
  <2> QED
    BY <2>3, LargestIs
<1>6. Largest(W) \in Nat /\ \A i \in items : weight[i] <= Largest(W)
  <2>1. W = {weight[i] : i \in items}
    BY <1>1
  <2>2. W \subseteq Nat /\ W # {} /\ IsFiniteSet(W)
    BY <1>1, <2>1, ValuesAreFinite
  <2>3. Largest(W) \in W /\ \A x \in W : x <= Largest(W)
    BY <2>2, LargestIs
  <2> QED
    BY <2>1, <2>2, <2>3
<1>7. PICK a \in plan : Largest(V) = a.load
  BY <1>5
<1>8. Cardinality(plan) * a.load
         <= SumOf([x \in plan |-> x.load], plan) + (Cardinality(plan) - 1) * Largest(W)
  BY <1>2, <1>6, DrawnIsBalanced
<1>9. weight = [i \in items |-> Weight(tables, g, c, i)]
  BY DEF Weights
<1> QED
  BY <1>4, <1>7, <1>8, <1>9, Zenon DEF MakespanWithin

(* What a plan without predictions and one with them have in common.       *)
LEMMA NoMoreThanCold ==
    ASSUME NEW tables, Timed(tables), NEW g, NEW c, NEW items \in SUBSET WorkItem, IsFiniteSet(items), items # {},
           NEW cap \in Nat \ {0}, cap <= Cardinality(items),
           NEW cold, Outcome(cold, << >>, g, c, items, cap),
           NEW plan, Outcome(plan, tables, g, c, items, cap)
    PROVE  Cardinality(plan) <= Cardinality(cold)
<1>1. Timed(<< >>)
  BY DEF Timed
<1>2. Cardinality(plan) <= cap
  <2>1. PICK m \in 1..cap : \E b, h, mode : FairPlan(plan, tables, g, c, items, m, b, h, mode)
    BY OutcomeIsFair, Zenon
  <2>2. PICK b, h, mode : FairPlan(plan, tables, g, c, items, m, b, h, mode)
    BY <2>1, Zenon
  <2> PICK W, D : W = Weights(tables, g, c, items) /\ D = Colds(tables, g, c, items)
    OBVIOUS
  <2>3. Spread(b, W, D, m, items) /\ Drawn(plan, h, b, m, tables, g, c, mode)
    BY <2>2 DEF FairPlan, Fair
  <2>4. m \in Nat \ {0} /\ m <= cap
    OBVIOUS
  <2>5. /\ IsFiniteSet(plan) /\ Cardinality(plan) = Cardinality(FilledOf(b, m))
        /\ Cardinality(FilledOf(b, m)) <= m
    BY <2>3, <2>4, DrawnSize
  <2>6. Cardinality(plan) \in Nat
    BY <2>5, FS_CardinalityType
  <2> QED
    BY <2>4, <2>5, <2>6
<1>3. Cardinality(cold) = cap
  <2>1. PICK m \in 1..cap : \E b, h, mode :
              /\ FairPlan(cold, << >>, g, c, items, m, b, h, mode)
              /\ mode = "cold-cap" => m = cap
    BY OutcomeIsFair
  <2>2. PICK b, h, mode : /\ FairPlan(cold, << >>, g, c, items, m, b, h, mode)
                          /\ mode = "cold-cap" => m = cap
    BY <2>1, Zenon
  <2> PICK W, D : W = Weights(<< >>, g, c, items) /\ D = Colds(<< >>, g, c, items)
    OBVIOUS
  <2>3. Fair(b, W, D, m, items) /\ Spread(b, W, D, m, items) /\ Drawn(cold, h, b, m, << >>, g, c, mode)
    BY <2>2, Zenon DEF FairPlan, Fair
  <2>4. m \in Nat \ {0} /\ m <= cap
    OBVIOUS
  <2>5. W \in [items -> Nat] /\ \A i \in items : W[i] = 1
    BY <1>1, WeightIsTimed DEF Weights
  <2>6. FilledOf(b, m) = 1..m
    <3>1. m <= Cardinality(items)
      BY <2>4, FS_CardinalityType
    <3> QED
      BY <2>3, <2>4, <2>5, <3>1, EqualItemsFillAll
  <2>7. /\ IsFiniteSet(cold) /\ Cardinality(cold) = m
    BY <2>3, <2>4, <2>6, DrawnSize, FS_Interval
  <2>8. mode # "automatic"
    <3> SUFFICES ASSUME mode = "automatic" PROVE FALSE
      OBVIOUS
    <3>1. PICK a \in cold : TRUE
      BY <2>4, <2>7, FS_EmptySet
    <3>2. PICK k \in FilledOf(b, m) : a = h[k]
      BY <2>3, Zenon DEF Drawn
    <3>3. a.preparation = Preparation(<< >>, g, c, a)
      BY <2>3, <3>2, Zenon DEF Drawn
    <3>4. a.preparation = Unknown
      BY <1>1, <3>3, NothingPrepared
    <3>5. a.preparation # Unknown
      BY <2>2 DEF FairPlan, Learned
    <3> QED
      BY <3>4, <3>5
  <2> QED
    BY <2>2, <2>7, <2>8 DEF FairPlan
<1>4. cap \in Nat
  OBVIOUS
<1> QED
  BY <1>2, <1>3, <1>4

LEMMA FairIsLearned ==
    ASSUME NEW tables, NEW g, NEW c, NEW items, NEW m \in Nat \ {0},
           NEW plan, NEW b, NEW h, NEW mode, FairPlan(plan, tables, g, c, items, m, b, h, mode),
           NEW a \in plan, a.mode = "automatic"
    PROVE  /\ \A i \in a.items : Predict(tables, g, c, i) # Unknown
           /\ a.preparation # Unknown
<1> PICK W, D : W = Weights(tables, g, c, items) /\ D = Colds(tables, g, c, items)
  OBVIOUS
<1>1. Spread(b, W, D, m, items) /\ Drawn(plan, h, b, m, tables, g, c, mode)
  BY DEF FairPlan, Fair
<1>2. PICK k \in FilledOf(b, m) : a = h[k]
  BY <1>1, Zenon DEF Drawn
<1>3. a.items = b[k].items /\ a.cold = b[k].cold /\ a.mode = mode
  BY <1>1, <1>2, Zenon DEF Drawn
<1>4. Learned(plan)
  BY <1>3 DEF FairPlan
<1>5. a.cold = 0 /\ a.preparation # Unknown
  BY <1>4, Zenon DEF Learned
<1>6. ASSUME NEW i \in a.items PROVE Predict(tables, g, c, i) # Unknown
  <2>1. k \in 1..m
    BY DEF FilledOf
  <2>2. i \in D => b[k].cold >= 1
    BY <1>1, <1>3, <2>1 DEF Spread
  <2>3. i \in items
    BY <1>1, <1>3, <2>1 DEF Spread
  <2>4. i \notin D
    BY <1>3, <1>5, <2>2
  <2> QED
    BY <2>3, <2>4 DEF Colds
<1> QED
  BY <1>5, <1>6

(* What a shallow fetch leaves.                                            *)
LEMMA BoundaryIsCommits ==
    ASSUME NEW parents \in [Commit -> SUBSET Commit], NEW tips \in SUBSET Commit, NEW d \in Nat \ {0}
    PROVE  Boundary(parents, tips, d) \subseteq Commit
<1> PICK D : D = SUBSET Commit
  OBVIOUS
<1> DEFINE grown(X) == X \cup UNION {parents[q] : q \in X}
           next(n, X) == IF n = 1 THEN tips ELSE grown(X)
           step == [n \in 1..d |-> [X \in D |-> next(n, X)]]
           Is(w) == w = [k \in 0..d |-> IF k = 0 THEN {}
                                        ELSE IF k = 1 THEN tips
                                        ELSE w[k - 1] \cup UNION {parents[q] : q \in w[k - 1]}]
<1>1. {} \in D /\ tips \in D /\ \A X \in D : grown(X) \in D
  OBVIOUS
<1>2. \A n \in 1..d : \A X \in D : next(n, X) \in D
  <2> HIDE DEF grown
  <2> QED
    BY <1>1
<1>3. step \in [1..d -> [D -> D]] /\ \A n \in 1..d : \A X \in D : step[n][X] = next(n, X)
  <2> HIDE DEF next
  <2> QED
    BY <1>2
<1> HIDE DEF step
<1> PICK none : none = {}
  OBVIOUS
<1>4. PICK f \in [0..d -> D] : f[0] = none /\ \A n \in 1..d : f[n] = step[n][f[n - 1]]
  <2>1. Stepwise(D, none, d, step)
    BY <1>1, <1>3, Zenon DEF Stepwise
  <2>2. PICK f : Follows(f, D, none, d, step)
    BY <2>1, StepsAreFollowed
  <2> QED
    BY <2>2, Zenon DEF Follows
<1>5. ASSUME NEW n \in 1..d PROVE f[n] = next(n, f[n - 1])
  <2>1. n - 1 \in 0..d
    OBVIOUS
  <2>2. f[n - 1] \in D
    BY <1>4, <2>1
  <2> HIDE DEF next
  <2> QED
    BY <1>3, <1>4, <2>2
<1>6. Is(f)
  <2> DEFINE val(k) == IF k = 0 THEN {}
                       ELSE IF k = 1 THEN tips
                       ELSE f[k - 1] \cup UNION {parents[q] : q \in f[k - 1]}
  <2>1. \A k \in 0..d : f[k] = val(k)
    <3> TAKE k \in 0..d
    <3>1. CASE k = 0
      BY <1>4, <3>1
    <3>2. CASE k # 0
      <4>1. f[k] = next(k, f[k - 1])
        <5>1. k \in 1..d
          BY <3>2
        <5> QED
          BY <1>5, <5>1, Zenon
      <4>2. next(k, f[k - 1]) = val(k)
        BY <3>2, Zenon
      <4> QED
        BY <4>1, <4>2, Zenon
    <3> QED
      BY <3>1, <3>2
  <2> HIDE DEF val
  <2>2. f = [k \in 0..d |-> val(k)]
    BY <1>4, <2>1
  <2> QED
    BY <2>2, Zenon DEF val
<1> DEFINE W == CHOOSE w : Is(w)
<1>7. Is(W)
  <2> HIDE DEF Is
  <2> QED
    BY <1>6
<1>8. Boundary(parents, tips, d) = W[d] \ W[d - 1]
  BY DEF Boundary
<1>9. \A k \in 0..d : W[k] = IF k = 0 THEN {}
                             ELSE IF k = 1 THEN tips
                             ELSE W[k - 1] \cup UNION {parents[q] : q \in W[k - 1]}
  BY <1>7, Zenon
<1> HIDE DEF W, Is
<1> DEFINE G == {k \in 0..d : W[k] \subseteq Commit}
<1>10. 0 \in G
  <2>1. 0 \in 0..d
    OBVIOUS
  <2>2. W[0] = {}
    BY <1>9, <2>1, Zenon
  <2> QED
    BY <2>1, <2>2
<1>11. ASSUME NEW k \in 1..d, k - 1 \in G PROVE k \in G
  <2>1. k \in 0..d /\ k # 0
    OBVIOUS
  <2> PICK X : X = W[k - 1]
    OBVIOUS
  <2>2. X \subseteq Commit
    BY <1>11
  <2>3. W[k] = IF k = 1 THEN tips ELSE grown(X)
    BY <1>9, <2>1, Zenon
  <2>4. grown(X) \subseteq Commit
    BY <2>2
  <2> HIDE DEF grown
  <2> QED
    BY <2>1, <2>3, <2>4
<1>12. d \in G
  <2> HIDE DEF G
  <2>1. \A k \in 0..d : k \in G
    BY <1>10, <1>11, SetInduction
  <2> QED
    BY <2>1
<1> QED
  BY <1>8, <1>12

(* The strengthening for the layouts: until the second nanoom is done, the *)
(* Plan file is the one laid out without history.                          *)
LayoutInv ==
    /\ Timed(index)
    /\ phase \in Planned \cup {"calculated"} => config \in Configs /\ affected \in SUBSET Workspace
    /\ phase \in {"server", "bundle", "warm", "written"} =>
          \A g \in Group : Laid(file[g], << >>, g, config[g], affected)
    /\ phase = "written" => \A g \in Group : Laid(warm[g], index, g, config[g], affected)
    /\ phase = "publishing" => \A g \in Group : Covers(file[g], ItemsOf(g))

LEMMA TimedTables ==
    /\ Timed(<< >>)
    /\ \A stored \in [NeedsHistory -> Stored] : \A environment : Timed(IndexOf(stored, environment))
<1>1. Timed(<< >>)
  BY DEF Timed
<1>2. ASSUME NEW stored \in [NeedsHistory -> Stored], NEW environment
      PROVE  Timed(IndexOf(stored, environment))
  <2> DEFINE slots == {s \in (DOMAIN stored) \X (DOMAIN Refs) : stored[s[1]][s[2]] # Nil}
             scope(s) == <<Refs[s[2]], s[1], environment[s[1]]>>
             scopes == {scope(s) : s \in slots}
             slot(x) == CHOOSE s \in slots : scope(s) = x
             t == IndexOf(stored, environment)
  <2>1. t = [x \in scopes |-> stored[slot(x)[1]][slot(x)[2]]]
    BY DEF IndexOf
  <2>2. ASSUME NEW x \in scopes PROVE slot(x) \in slots
    <3> HIDE DEF slots, scope
    <3>1. \E s \in slots : scope(s) = x
      OBVIOUS
    <3> QED
      BY <3>1
  <2>3. ASSUME NEW s \in slots
        PROVE  \A key \in DOMAIN stored[s[1]][s[2]] : stored[s[1]][s[2]][key] \in Nat
    <3>1. stored[s[1]] \in Stored /\ s[2] \in DOMAIN Refs /\ stored[s[1]][s[2]] # Nil
      OBVIOUS
    <3> QED
      BY <3>1, PlanningAssumption
  <2> HIDE DEF slots, scopes, slot
  <2>4. DOMAIN t = scopes /\ \A x \in scopes : t[x] = stored[slot(x)[1]][slot(x)[2]]
    BY <2>1
  <2> HIDE DEF t
  <2>5. Timed(t)
    <3> SUFFICES ASSUME NEW x \in DOMAIN t, NEW key \in DOMAIN t[x] PROVE t[x][key] \in Nat
      BY DEF Timed
    <3>1. x \in scopes /\ t[x] = stored[slot(x)[1]][slot(x)[2]]
      BY <2>4
    <3> PICK s : s = slot(x)
      OBVIOUS
    <3>2. s \in slots /\ t[x] = stored[s[1]][s[2]]
      BY <2>2, <3>1
    <3> QED
      BY <2>3, <3>2, Zenon
  <2> QED
    BY <2>5 DEF t
<1> QED
  BY <1>1, <1>2

LEMMA PlansAreLaid ==
    ASSUME config \in Configs, affected \in SUBSET Workspace, NEW tables, Timed(tables),
           NEW plan \in Plans(tables)
    PROVE  /\ \A g \in Group : Laid(plan[g], tables, g, config[g], affected)
           /\ \A g \in Group : Covers(plan[g], ItemsOf(g))
           /\ PlanOf(plan)
<1>1. DOMAIN plan = Group /\ \A g \in Group : plan[g] \in Layouts(g, tables)
  <2> DEFINE layouts == [g \in Group |-> Layouts(g, tables)]
  <2>1. plan \in [Group -> UNION Range(layouts)] /\ \A g \in Group : plan[g] \in layouts[g]
    BY Zenon DEF Plans
  <2> QED
    BY <2>1
<1>2. \A g \in Group : Laid(plan[g], tables, g, config[g], affected)
  BY <1>1, LayoutsAreLaid
<1>3. \A g \in Group : Covers(plan[g], ItemsOf(g)) /\ Assignments(plan[g])
  BY <1>2, Zenon DEF Laid, ItemsOf
<1>4. PlanOf(plan)
  BY <1>1, <1>3, Zenon DEF PlanOf, Assignments
<1> QED
  BY <1>2, <1>3, <1>4

LEMMA LayoutInit == InitPlanning => LayoutInv
BY TimedTables DEF InitPlanning, Init, LayoutInv, Planned

LEMMA LayoutStep == LayoutInv /\ PlanInv /\ [Next]_vars => LayoutInv'
<1> SUFFICES ASSUME LayoutInv, PlanInv, [Next]_vars PROVE LayoutInv'
  OBVIOUS
<1> DEFINE Old(f) == \A g \in Group : Laid(f[g], << >>, g, config[g], affected)
           New(f) == \A g \in Group : Laid(f[g], index, g, config[g], affected)
           Whole(f) == \A g \in Group : Covers(f[g], ItemsOf(g))
<1>1. /\ Timed(index)
      /\ phase \in Planned \cup {"calculated"} => config \in Configs /\ affected \in SUBSET Workspace
      /\ phase \in {"server", "bundle", "warm", "written"} => Old(file)
      /\ phase = "written" => New(warm)
      /\ phase = "publishing" => Whole(file)
  BY DEF LayoutInv
<1>2. SUFFICES
         /\ Timed(index')
         /\ phase' \in Planned \cup {"calculated"} => config' \in Configs /\ affected' \in SUBSET Workspace
         /\ phase' \in {"server", "bundle", "warm", "written"} =>
               \A g \in Group : Laid(file'[g], << >>, g, config'[g], affected')
         /\ phase' = "written" => \A g \in Group : Laid(warm'[g], index', g, config'[g], affected')
         /\ phase' = "publishing" => \A g \in Group : Covers(file'[g], Items(config'[g], affected'))
  BY Zenon DEF LayoutInv, ItemsOf
<1> HIDE DEF Old, New, Whole
<1>3. ASSUME UNCHANGED <<config, affected>>
      PROVE  \A f : /\ Old(f) => \A g \in Group : Laid(f[g], << >>, g, config'[g], affected')
                    /\ New(f) => \A g \in Group : Laid(f[g], index, g, config'[g], affected')
                    /\ Whole(f) => \A g \in Group : Covers(f[g], Items(config'[g], affected'))
                    /\ Old(f) => Whole(f)
                    /\ New(f) => Whole(f)
  <2>1. config' = config /\ affected' = affected
    BY <1>3
  <2> SUFFICES ASSUME NEW f
               PROVE  /\ Old(f) => \A g \in Group : Laid(f[g], << >>, g, config'[g], affected')
                      /\ New(f) => \A g \in Group : Laid(f[g], index, g, config'[g], affected')
                      /\ Whole(f) => \A g \in Group : Covers(f[g], Items(config'[g], affected'))
                      /\ Old(f) => Whole(f)
                      /\ New(f) => Whole(f)
    OBVIOUS
  <2>2. Old(f) => \A g \in Group : Laid(f[g], << >>, g, config'[g], affected')
    BY <2>1, Zenon DEF Old
  <2>3. New(f) => \A g \in Group : Laid(f[g], index, g, config'[g], affected')
    BY <2>1, Zenon DEF New
  <2>4. Whole(f) => \A g \in Group : Covers(f[g], Items(config'[g], affected'))
    BY <2>1, Zenon DEF Whole, ItemsOf
  <2>5. \A i : \A g \in Group : Laid(f[g], i, g, config[g], affected) => Covers(f[g], ItemsOf(g))
    BY Zenon DEF Laid, ItemsOf
  <2>6. Old(f) => Whole(f)
    BY <2>5, Zenon DEF Old, Whole
  <2>7. New(f) => Whole(f)
    BY <2>5, Zenon DEF New, Whole
  <2> QED
    BY <2>2, <2>3, <2>4, <2>6, <2>7
<1> USE DEF Planned, Searching
<1>4. CASE UNCHANGED vars \/ Done
  <2>1. UNCHANGED <<phase, config, affected, index, file, warm>>
    BY <1>4 DEF vars, planVars, Done
  <2> QED
    BY <1>1, <1>3, <2>1
<1>5. CASE ResolveRevision \/ CalculateFails \/ ColdFails \/ PublishFails
  <2>1. /\ phase' \in {"open", "compare", "last", "resolved", "refused"}
        /\ index' = index
    BY <1>5 DEF ResolveRevision, Resolve, Open, OpenFails, CompareTip, CompareMergeBase, Resolved, Deepen,
                DeepenFails, Unrelated, Exceeded, Refuse, CalculateFails, ColdFails, PublishFails,
                RefusePlan, planVars
  <2> QED
    BY <1>1, <2>1
<1>6. CASE Calculate
  BY <1>1, <1>6 DEF Calculate
<1>7. CASE WriteCold
  <2>1. PICK plan \in Plans(<< >>) : file' = plan
    BY <1>7 DEF WriteCold
  <2>2. phase = "calculated" /\ phase' \in {"publishing", "server", "bundle"}
        /\ UNCHANGED <<config, affected, index>>
    BY <1>7 DEF WriteCold
  <2>3. \A g \in Group : Laid(plan[g], << >>, g, config[g], affected)
    BY <1>1, <2>2, PlansAreLaid, TimedTables
  <2>4. Old(plan)
    BY <2>3, Zenon DEF Old
  <2> QED
    BY <1>1, <1>3, <2>1, <2>2, <2>4
<1>8. CASE ReadServer \/ ReadBundle
  <2>1. PICK stored \in [NeedsHistory -> Stored] : \E environment : Read(IndexOf(stored, environment))
    BY <1>8 DEF ReadServer, ReadBundle
  <2>2. PICK environment : Read(IndexOf(stored, environment))
    BY <2>1
  <2> PICK t : t = IndexOf(stored, environment)
    OBVIOUS
  <2>3. Timed(t)
    BY TimedTables
  <2>4. phase \in {"server", "bundle"} /\ phase' \in {"publishing", "warm"} /\ index' = t
        /\ UNCHANGED <<config, affected, file>>
    <3>1. Read(t) /\ phase \in {"server", "bundle"}
      BY <1>8, <2>2 DEF ReadServer, ReadBundle
    <3> QED
      BY <3>1 DEF Read
  <2> QED
    BY <1>1, <1>3, <2>3, <2>4
<1>9. CASE ReadFails \/ WarmFails
  <2>1. phase \in {"server", "bundle", "warm", "written"} /\ phase' = "publishing" /\ index' = << >>
        /\ UNCHANGED <<config, affected, file>>
    BY <1>9 DEF ReadFails, WarmFails, KeepCold
  <2> QED
    BY <1>1, <1>3, <2>1, TimedTables
<1>10. CASE ReadCorrupt
  <2>1. phase \in {"server", "bundle"} /\ phase' = "warm" /\ UNCHANGED <<config, affected, file, index>>
    BY <1>10 DEF ReadCorrupt, planVars
  <2> QED
    BY <1>1, <1>3, <2>1
<1>11. CASE WriteWarm
  <2>1. PICK plan \in Plans(index) : warm' = plan
    BY <1>11 DEF WriteWarm
  <2>2. phase = "warm" /\ phase' = "written" /\ UNCHANGED <<config, affected, file, index>>
    BY <1>11 DEF WriteWarm
  <2>3. \A g \in Group : Laid(plan[g], index, g, config[g], affected)
    BY <1>1, <2>2, PlansAreLaid
  <2>4. New(plan)
    BY <2>3, Zenon DEF New
  <2> QED
    BY <1>1, <1>3, <2>1, <2>2, <2>4
<1>12. CASE TakeWarm
  <2>1. phase = "written" /\ phase' = "publishing" /\ file' = warm /\ index' = << >>
        /\ UNCHANGED <<config, affected>>
    BY <1>12 DEF TakeWarm
  <2> QED
    BY <1>1, <1>3, <2>1, TimedTables
<1>13. CASE Publish
  <2>1. phase = "publishing" /\ phase' = "published" /\ UNCHANGED <<config, affected, index>>
    BY <1>13 DEF Publish
  <2> QED
    BY <1>1, <2>1
<1> QED
  BY <1>4, <1>5, <1>6, <1>7, <1>8, <1>9, <1>10, <1>11, <1>12, <1>13 DEF Next

LEMMA SpecLayoutInv == Spec => [](IInv /\ LayoutInv)
<1>1. IInv /\ LayoutInv /\ [Next]_vars => LayoutInv'
  BY LayoutStep DEF IInv
<1>2. InitPlanning => IInv
  BY RevisionInit, PlanInit DEF IInv
<1> QED
  BY <1>1, <1>2, InvStep, LayoutInit, PTL DEF Spec

------------------------------------------------------------------------------
(* Every task, every shard, once (plan.rs).                                *)
THEOREM EveryItemAlwaysOnce == Spec => []EveryItemOnce
<1>1. LayoutInv => EveryItemOnce
  <2> SUFFICES ASSUME phase = "publishing", \A g \in Group : Covers(file[g], ItemsOf(g))
               PROVE  EveryItemOnce
    BY Zenon DEF LayoutInv, EveryItemOnce
  <2>1. \A g \in Group : ItemsOnce(file[g], config[g], affected)
    BY CoversIsOnce DEF ItemsOf
  <2> QED
    BY <2>1, Zenon DEF EveryItemOnce, ItemsOnce
<1> QED
  BY <1>1, SpecLayoutInv, PTL

(* A group of the learned Plan that the scheduler laid out has items.      *)
LEMMA LaidOutItems ==
    ASSUME LayoutInv, phase = "written", NEW g \in LaidOut
    PROVE  /\ config[g] \in GroupConfigs /\ affected \in SUBSET Workspace /\ Timed(index) /\ g \in Group
           /\ ItemsOf(g) \in SUBSET WorkItem /\ IsFiniteSet(ItemsOf(g)) /\ ItemsOf(g) # {}
           /\ warm[g] # {}
           /\ \E cap \in Nat \ {0} : /\ cap <= Cardinality(ItemsOf(g))
                                     /\ Outcome(warm[g], index, g, config[g], ItemsOf(g), cap)
                                     /\ Outcome(file[g], << >>, g, config[g], ItemsOf(g), cap)
<1>1. g \in Group /\ config[g].tiers # << >> /\ warm[g] # {}
  BY DEF LaidOut
<1>2. /\ config \in Configs /\ affected \in SUBSET Workspace /\ Timed(index)
      /\ Laid(file[g], << >>, g, config[g], affected)
      /\ Laid(warm[g], index, g, config[g], affected)
  BY <1>1 DEF LayoutInv, Planned
<1> PICK c, items : c = config[g] /\ items = ItemsOf(g)
  OBVIOUS
<1>3. c \in GroupConfigs
  <2>1. DOMAIN config = Group
    BY <1>2, PlanningAssumption
  <2> QED
    BY <1>1, <1>2, <2>1 DEF GroupConfigs, Range
<1>4. items = Items(c, affected)
  BY Zenon DEF ItemsOf
<1>5. items \in SUBSET WorkItem /\ IsFiniteSet(items)
  BY <1>2, <1>3, <1>4, ItemsAreWork
<1>6. items # {}
  BY <1>1, <1>2, <1>4, Zenon DEF Laid
<1> PICK cap, n : cap = Min2(n, Cardinality(items)) /\ n = Tier(c, affected).concurrency
  OBVIOUS
<1>7. /\ cap \in Nat \ {0}
      /\ Outcome(warm[g], index, g, c, items, cap)
      /\ Outcome(file[g], << >>, g, c, items, cap)
  BY <1>1, <1>2, <1>4, <1>6, Zenon DEF Laid
<1>8. cap <= Cardinality(items)
  <2>1. n \in Nat \ {0}
    BY <1>1, <1>3, TierIsPositive
  <2>2. Cardinality(items) \in Nat
    BY <1>5, FS_CardinalityType
  <2> QED
    BY <2>1, <2>2 DEF Min2
<1> QED
  BY <1>1, <1>2, <1>3, <1>5, <1>6, <1>7, <1>8, Zenon

(* The bound of list scheduling (Go: distribute, scheduler.rs).            *)
THEOREM MakespanAlwaysBounded == Spec => []MakespanIsBounded
<1>1. LayoutInv => MakespanIsBounded
  <2> SUFFICES ASSUME LayoutInv, phase = "written"
               PROVE  \A g \in LaidOut : MakespanWithin(warm[g], index, g, config[g], ItemsOf(g))
    BY Zenon DEF MakespanIsBounded, MakespanWithin
  <2> TAKE g \in LaidOut
  <2> PICK plan, c, items : plan = warm[g] /\ c = config[g] /\ items = ItemsOf(g)
    OBVIOUS
  <2>1. PICK cap \in Nat \ {0} : Outcome(plan, index, g, c, items, cap)
    BY LaidOutItems
  <2>2. PICK m \in 1..cap : \E b, h, mode : FairPlan(plan, index, g, c, items, m, b, h, mode)
    BY <2>1, OutcomeIsFair, Zenon
  <2>3. PICK b, h, mode : FairPlan(plan, index, g, c, items, m, b, h, mode)
    BY <2>2, Zenon
  <2>4. m \in Nat \ {0}
    OBVIOUS
  <2>5. Timed(index) /\ items \in SUBSET WorkItem /\ IsFiniteSet(items) /\ items # {} /\ plan # {}
    BY LaidOutItems
  <2> QED
    BY <2>3, <2>4, <2>5, FairIsWithin
<1> QED
  BY <1>1, SpecLayoutInv, PTL

(* No fewer run jobs on a guess, and never more for history.               *)
THEOREM AutomaticAlwaysLearned == Spec => []AutomaticIsLearned
<1>1. LayoutInv => AutomaticIsLearned
  <2> SUFFICES ASSUME LayoutInv, phase = "written", NEW g \in LaidOut
               PROVE  /\ Cardinality(warm[g]) <= Cardinality(file[g])
                      /\ \A a \in warm[g] :
                            a.mode = "automatic" =>
                               /\ \A i \in a.items : Predict(index, g, config[g], i) # Unknown
                               /\ a.preparation # Unknown
    BY Zenon DEF AutomaticIsLearned
  <2> PICK plan, cold, c, items : plan = warm[g] /\ cold = file[g] /\ c = config[g] /\ items = ItemsOf(g)
    OBVIOUS
  <2>1. PICK cap \in Nat \ {0} : /\ cap <= Cardinality(items)
                                 /\ Outcome(plan, index, g, c, items, cap)
                                 /\ Outcome(cold, << >>, g, c, items, cap)
    BY LaidOutItems
  <2>2. Timed(index) /\ items \in SUBSET WorkItem /\ IsFiniteSet(items) /\ items # {}
    BY LaidOutItems
  <2>3. Cardinality(plan) <= Cardinality(cold)
    BY <2>1, <2>2, NoMoreThanCold
  <2>4. PICK m \in 1..cap : \E b, h, mode : FairPlan(plan, index, g, c, items, m, b, h, mode)
    BY <2>1, OutcomeIsFair, Zenon
  <2>5. PICK b, h, mode : FairPlan(plan, index, g, c, items, m, b, h, mode)
    BY <2>4, Zenon
  <2>6. m \in Nat \ {0}
    OBVIOUS
  <2>7. \A a \in plan : a.mode = "automatic" => /\ \A i \in a.items : Predict(index, g, c, i) # Unknown
                                                /\ a.preparation # Unknown
    BY <2>5, <2>6, FairIsLearned
  <2> QED
    BY <2>3, <2>7, Zenon
<1> QED
  BY <1>1, SpecLayoutInv, PTL

(* The clone that the Action starts from or fetches holds commits.         *)
LEMMA ClonesAreCommits ==
    ASSUME NEW r \in Requests
    PROVE  /\ \A edge \in Checkouts(r) : edge \subseteq Commit
           /\ \A d \in Nat \ {0} : Boundary(r.parents, {r.base, r.head}, d) \subseteq Commit
           /\ r.base \in Commit
<1>1. r.parents \in [Commit -> SUBSET Commit] /\ r.base \in Commit /\ r.head \in Commit
  BY RevisionAssumption DEF Comparison
<1>2. \A d \in Nat \ {0} : \A tips \in SUBSET Commit : Boundary(r.parents, tips, d) \subseteq Commit
  BY <1>1, BoundaryIsCommits
<1>3. \A d \in Commit : d \in Nat \ {0}
  BY RevisionAssumption DEF Commit
<1>4. {r.head} \in SUBSET Commit /\ {r.base, r.head} \in SUBSET Commit
  BY <1>1
<1>5. ASSUME NEW edge \in Checkouts(r) PROVE edge \subseteq Commit
  <2>1. edge = {} \/ \E d \in Commit : edge = Boundary(r.parents, {r.head}, d)
    BY DEF Checkouts
  <2> QED
    BY <1>2, <1>3, <1>4, <2>1
<1> QED
  BY <1>1, <1>2, <1>4, <1>5

LEMMA PhaseTyped == PlanInv => phase \in Range(Order)
<1>1. \A i \in 1..12 : Order[i] \in Range(Order)
  BY Phases DEF Range
<1> QED
  BY <1>1, Phases DEF PlanInv, Searching, Planned

(* How deep a request may be fetched.                                      *)
Depths(r) == 0..(IF r = Nil THEN 0 ELSE r.max)

RequestTyped == request \in Requests \cup {Nil} /\ depth \in Depths(request)
CloneTyped == cut \subseteq Commit /\ from \in Commit \cup {Nil}
InputTyped == affected \subseteq Workspace /\ config \in Configs \cup {Nil}
PlanTyped ==
    /\ PlanOf(file) /\ PlanOf(warm)
    /\ compact = Nil \/ compact = Printed(file)
    /\ outputs = IF phase = "published" THEN compact ELSE Nil

LEMMA TypeParts == TypeOK <=> phase \in Range(Order) /\ RequestTyped /\ CloneTyped /\ InputTyped /\ PlanTyped
BY DEF TypeOK, RequestTyped, CloneTyped, InputTyped, PlanTyped, Depths

LEMMA TypeInit == InitPlanning => RequestTyped /\ CloneTyped /\ InputTyped /\ PlanTyped
<1> SUFFICES ASSUME InitPlanning PROVE RequestTyped /\ CloneTyped /\ InputTyped /\ PlanTyped
  OBVIOUS
<1>1. request \in Requests /\ cut \in Checkouts(request) /\ depth = 0 /\ from = Nil
      /\ phase = "open" /\ file = Nil /\ warm = Nil /\ compact = Nil /\ outputs = Nil
      /\ affected = {} /\ config = Nil
  BY DEF InitPlanning, Init
<1>2. RequestTyped
  BY <1>1, RequestIsComparison DEF RequestTyped, Depths
<1>3. CloneTyped
  BY <1>1, ClonesAreCommits DEF CloneTyped
<1>4. InputTyped /\ PlanTyped
  BY <1>1 DEF InputTyped, PlanTyped, PlanOf
<1> QED
  BY <1>2, <1>3, <1>4

LEMMA ResolveKeepsTypes ==
    ASSUME RevisionInv, DepthInv, RequestTyped, CloneTyped, Resolve
    PROVE  RequestTyped' /\ CloneTyped'
<1> USE DEF RequestTyped, CloneTyped
<1>1. request \in Requests /\ Nil \notin Requests
  BY RevisionAssumption DEF Resolve, Open, OpenFails, CompareTip, CompareMergeBase, Resolved, Deepen,
     DeepenFails, Unrelated, Exceeded, Blind, RevisionInv, Searching
<1>2. request.max \in Nat \ {0} /\ Depths(request) = 0..request.max
  BY <1>1, RequestIsComparison DEF Depths
<1>3. CASE Open
  <2>1. request' = request /\ from' = from /\ depth' = FirstFetch
        /\ cut' = IF HasBase THEN cut ELSE cut \cup {request.base}
    BY <1>3 DEF Open
  <2>2. depth' \in 0..request.max
    BY <1>2, <2>1, RevisionAssumption DEF FirstFetch
  <2>3. cut' \subseteq Commit
    BY <1>1, <2>1, ClonesAreCommits
  <2> QED
    BY <1>2, <2>1, <2>2, <2>3
<1>4. CASE CompareTip \/ CompareMergeBase
  <2>1. PICK q \in Commit : Resolved(q)
    BY <1>1, <1>4, ClonesAreCommits DEF CompareTip, CompareMergeBase, MergeBases, Common, Reach
  <2> QED
    BY <2>1 DEF Resolved
<1>5. CASE Deepen
  <2>1. /\ request' = request /\ from' = from /\ depth' = NextDepth /\ phase = "compare"
        /\ cut' = Boundary(request.parents, {request.base, request.head}, depth)
    BY <1>5 DEF Deepen, Blind
  <2>2. depth \in 1..request.max
    BY <2>1 DEF DepthInv
  <2>3. depth \in Nat \ {0} /\ depth * Factor \in Nat
    BY <1>2, <2>2, RevisionAssumption
  <2>4. depth' \in 0..request.max
    BY <1>2, <2>1, <2>3 DEF NextDepth
  <2>5. cut' \subseteq Commit
    BY <1>1, <2>1, <2>3, ClonesAreCommits
  <2> QED
    BY <1>2, <2>1, <2>4, <2>5
<1>6. CASE OpenFails \/ DeepenFails \/ Unrelated \/ Exceeded
  BY <1>6 DEF OpenFails, DeepenFails, Unrelated, Exceeded, Refuse
<1> QED
  BY <1>3, <1>4, <1>5, <1>6 DEF Resolve

LEMMA TypeStep ==
    IInv /\ DepthInv /\ LayoutInv /\ RequestTyped /\ CloneTyped /\ InputTyped /\ PlanTyped /\ [Next]_vars
       => (RequestTyped /\ CloneTyped /\ InputTyped /\ PlanTyped)'
<1> SUFFICES ASSUME IInv, DepthInv, LayoutInv, RequestTyped, CloneTyped, InputTyped, PlanTyped, [Next]_vars
             PROVE  RequestTyped' /\ CloneTyped' /\ InputTyped' /\ PlanTyped'
  OBVIOUS
<1>1. /\ UNCHANGED <<request, depth>> => RequestTyped'
      /\ UNCHANGED <<cut, from>> => CloneTyped'
      /\ UNCHANGED <<affected, config>> => InputTyped'
  BY DEF RequestTyped, CloneTyped, InputTyped
<1>2. ASSUME UNCHANGED <<file, compact, outputs>>, phase # "published", phase' # "published", PlanOf(warm)'
      PROVE  PlanTyped'
  BY <1>2 DEF PlanTyped, PlanOf, Printed, Rows
<1>3. /\ UNCHANGED revisionVars => UNCHANGED <<request, depth>> /\ UNCHANGED <<cut, from>>
      /\ UNCHANGED planVars => /\ UNCHANGED <<affected, config>> /\ UNCHANGED <<file, compact, outputs>>
                               /\ UNCHANGED warm
      /\ UNCHANGED warm => PlanOf(warm)'
  BY DEF revisionVars, planVars, PlanTyped, PlanOf
<1>4. CASE UNCHANGED vars \/ Done
  <2>1. UNCHANGED <<phase, revisionVars, planVars>>
    BY <1>4 DEF vars, Done
  <2>2. PlanTyped'
    BY <1>3, <2>1 DEF PlanTyped, PlanOf, Printed, Rows
  <2> QED
    BY <1>1, <1>3, <2>1, <2>2
<1>5. CASE ResolveRevision
  <2>1. phase # "published" /\ phase' # "published" /\ UNCHANGED planVars
    BY <1>5 DEF ResolveRevision, Resolve, Open, OpenFails, CompareTip, CompareMergeBase, Resolved, Deepen,
                DeepenFails, Unrelated, Exceeded, Blind, Refuse
  <2> QED
    BY <1>1, <1>2, <1>3, <1>5, <2>1, ResolveKeepsTypes DEF ResolveRevision, IInv
<1>6. CASE Calculate
  <2>1. /\ request' = Nil /\ cut' = {} /\ depth' = 0 /\ from' = Nil
        /\ config' \in Configs /\ affected' \in SUBSET Workspace
        /\ UNCHANGED <<file, warm, compact, outputs>> /\ phase # "published" /\ phase' # "published"
    BY <1>6 DEF Calculate
  <2> QED
    BY <1>2, <1>3, <2>1 DEF RequestTyped, CloneTyped, InputTyped, Depths
<1>7. CASE CalculateFails \/ ColdFails \/ PublishFails
  <2>1. phase # "published" /\ phase' # "published" /\ UNCHANGED planVars
        /\ UNCHANGED <<request, cut, depth, from>>
    BY <1>7 DEF CalculateFails, ColdFails, PublishFails, RefusePlan, Refuse
  <2> QED
    BY <1>1, <1>2, <1>3, <2>1
<1>8. CASE WriteCold
  <2>1. PICK plan \in Plans(<< >>) : file' = plan /\ compact' = Printed(plan)
    BY <1>8 DEF WriteCold
  <2>2. phase = "calculated" /\ phase' \in {"publishing", "server", "bundle"}
        /\ UNCHANGED <<revisionVars, config, affected, warm, outputs>>
    BY <1>8 DEF WriteCold
  <2>3. config \in Configs /\ affected \in SUBSET Workspace
    BY <2>2 DEF LayoutInv
  <2>4. PlanOf(plan)
    BY <2>3, PlansAreLaid, TimedTables
  <2>5. PlanOf(file') /\ compact' = Printed(file')
    BY <2>1, <2>4, Zenon
  <2>6. PlanTyped'
    BY <1>3, <2>2, <2>5 DEF PlanTyped, PlanOf, Printed, Rows
  <2> QED
    BY <1>1, <1>3, <2>2, <2>6
<1>9. CASE ReadServer \/ ReadBundle \/ ReadFails \/ ReadCorrupt \/ WarmFails
  <2>1. /\ phase # "published" /\ phase' # "published" /\ UNCHANGED revisionVars
        /\ UNCHANGED <<config, affected, file, compact, outputs>>
        /\ UNCHANGED warm \/ warm' = Nil
    BY <1>9 DEF ReadServer, ReadBundle, Read, ReadFails, ReadCorrupt, WarmFails, KeepCold, planVars
  <2>2. warm' = Nil => PlanOf(warm)'
    BY DEF PlanOf
  <2> QED
    BY <1>1, <1>2, <1>3, <2>1, <2>2
<1>10. CASE WriteWarm
  <2>1. PICK plan \in Plans(index) : warm' = plan
    BY <1>10 DEF WriteWarm
  <2>2. phase = "warm" /\ phase' = "written" /\ UNCHANGED <<revisionVars, config, affected, file, compact, outputs>>
    BY <1>10 DEF WriteWarm
  <2>3. config \in Configs /\ affected \in SUBSET Workspace /\ Timed(index)
    BY <2>2 DEF LayoutInv, Planned
  <2>4. PlanOf(plan)
    BY <2>3, PlansAreLaid
  <2>5. PlanOf(warm')
    BY <2>1, <2>4, Zenon
  <2>6. PlanOf(warm)'
    BY <2>5 DEF PlanOf
  <2> QED
    BY <1>1, <1>2, <1>3, <2>2, <2>6
<1>11. CASE TakeWarm
  <2>1. /\ phase = "written" /\ phase' = "publishing" /\ file' = warm /\ warm' = Nil /\ compact' = Printed(warm)
        /\ UNCHANGED <<revisionVars, config, affected, outputs>>
    BY <1>11 DEF TakeWarm
  <2>2. PlanTyped'
    BY <2>1 DEF PlanTyped, PlanOf, Printed, Rows
  <2> QED
    BY <1>1, <1>3, <2>1, <2>2
<1>12. CASE Publish
  <2>1. phase' = "published" /\ outputs' = compact
        /\ UNCHANGED <<revisionVars, config, affected, file, warm, compact>>
    BY <1>12 DEF Publish
  <2>2. PlanTyped'
    BY <2>1 DEF PlanTyped, PlanOf, Printed, Rows
  <2> QED
    BY <1>1, <1>3, <2>1, <2>2
<1> QED
  BY <1>4, <1>5, <1>6, <1>7, <1>8, <1>9, <1>10, <1>11, <1>12 DEF Next

(* What is planned, written and printed stays well formed, whatever the    *)
(* tables say: every layout is one of assignments, and what the Action     *)
(* publishes is the compact form of a Plan file (affected/run.sh).         *)
THEOREM TypesHold == Spec => []TypeOK
<1> DEFINE Types == RequestTyped /\ CloneTyped /\ InputTyped /\ PlanTyped
<1>1. InitPlanning => DepthInv /\ Types
  BY TypeInit DEF InitPlanning, Init, DepthInv
<1>2. IInv /\ LayoutInv /\ DepthInv /\ Types /\ [Next]_vars => DepthInv' /\ Types'
  BY DepthStep, TypeStep DEF IInv
<1>3. IInv /\ Types => TypeOK
  BY PhaseTyped, TypeParts DEF IInv
<1> HIDE DEF Types
<1> QED
  BY <1>1, <1>2, <1>3, SpecLayoutInv, PTL DEF Spec
==============================================================================
