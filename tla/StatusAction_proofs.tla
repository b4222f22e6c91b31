------------------------- MODULE StatusAction_proofs -------------------------
(***************************************************************************)
(* What a green run means, for any items, assignments, layouts and number  *)
(* of attempts; and what the batch means that its measurement files        *)
(* compile to, for any files in any order.                                 *)
(***************************************************************************)
EXTENDS WorkflowRun, Compilation, PredictionModel_proofs

USE DEF PlanReference, SelectAssignment

(* The reference is of this attempt or an earlier one, and of a Plan of    *)
(* the affected items; the status job has seen every job end.              *)
PlanSound ==
    /\ needs \in {{"affected", "run"}, {"affected", "gate", "run"}}
    /\ affected = "success" => plan # NoPlan
    /\ plan # NoPlan => plan.producer <= attempt /\ Plans(plan.layout)
    /\ status # "queued" => JobsEnded

(* A run job exists exactly for the assignments with items.  While it runs *)
(* it has executed what it counts in this attempt; if it succeeded, it has *)
(* executed its assignment since the Plan was made.                        *)
LegSound(a) ==
    /\ leg[a].pc # "absent" => affected = "success"
    /\ affected = "success" /\ plan.layout[a] # << >> => leg[a].pc # "absent"
    /\ leg[a].pc = "running" =>
          /\ RunStarts
          /\ leg[a].items = plan.layout[a]
          /\ leg[a].done <= Len(leg[a].items)
          /\ \A k \in 1..leg[a].done : Execution(leg[a].items[k], a) \in executed
    /\ leg[a].pc = "success" =>
          \A i \in Range(plan.layout[a]) :
             \E e \in executed : e.item = i /\ e.attempt \in plan.producer..attempt

(* What was executed in this attempt is of the assignment of its job in    *)
(* the one Plan of the attempt.                                            *)
ExecutedSound ==
    \A e \in executed :
       /\ e.attempt <= attempt
       /\ e.attempt = attempt =>
             affected = "success" /\ e.item \in Range(plan.layout[e.leg])

(* A batch of this attempt exists only once the attempt has published.     *)
LearnedSound ==
    /\ \A s \in samples : \A e \in s.executions : e.attempt = s.attempt
    /\ \A b \in learned :
          /\ b.attempt <= attempt
          /\ b.attempt = attempt => status = "success"

IInv ==
    /\ TypeOK
    /\ PlanSound
    /\ \A a \in Assignment : LegSound(a)
    /\ ExecutedSound
    /\ LearnedSound
    /\ GreenMeansExecuted
    /\ OneJobPerItem
    /\ LearnedOnce

------------------------------------------------------------------------------
(* The result "success" of the run jobs: they started, and none failed.    *)
LEMMA RunSucceeded ==
    ASSUME RunResult = "success"
    PROVE  RunStarts /\ \A a \in Legs : leg[a].pc \notin {"failure", "cancelled"}
BY DEF RunResult

LegType == [pc : {"absent", "queued", "running"} \cup Ended, items : Seq(Item), done : Nat]

LEMMA NewLegs ==
    /\ NoLeg \in LegType /\ NoLeg.pc = "absent"
    /\ Queued \in LegType /\ Queued.pc = "queued"
<1>1. << >> \in Seq(Item)
  OBVIOUS
<1>2. NoLeg \in LegType /\ NoLeg.pc = "absent"
  BY <1>1 DEF LegType, NoLeg
<1>3. Queued = [pc |-> "queued", items |-> << >>, done |-> 0]
  BY DEF Queued, NoLeg
<1>4. Queued \in LegType /\ Queued.pc = "queued"
  BY <1>1, <1>3 DEF LegType
<1> QED
  BY <1>2, <1>4

(* A job whose record changes in one field is still one.                   *)
LEMMA LegStep ==
    ASSUME TypeOK, NEW a \in Assignment,
           NEW pc \in {"queued", "running"} \cup Ended, NEW done \in Nat
    PROVE  /\ [leg EXCEPT ![a].pc = pc] \in [Assignment -> LegType]
           /\ [leg EXCEPT ![a].done = done] \in [Assignment -> LegType]
<1>1. leg \in [Assignment -> LegType]
  BY DEF TypeOK, LegType
<1>2. [leg[a] EXCEPT !.pc = pc] \in LegType
  BY <1>1 DEF LegType
<1>3. [leg[a] EXCEPT !.done = done] \in LegType
  BY <1>1 DEF LegType
<1> QED
  BY <1>1, <1>2, <1>3

(* The state is well formed.                                               *)
LEMMA TypesKept == IInv /\ [Next]_vars => TypeOK'
<1> SUFFICES ASSUME IInv, [Next]_vars PROVE TypeOK'
  OBVIOUS
<1> USE DEF Ended
<1>0. TypeOK
  BY DEF IInv
<1>1. CASE UNCHANGED vars
  BY <1>0, <1>1 DEF vars, jobs, TypeOK
<1>2. ASSUME NEW l \in Layout, Plan(l) PROVE TypeOK'
  BY <1>0, <1>2, NewLegs DEF Plan, PlanOf, LegType, TypeOK
<1>3. CASE PlanFails
  BY <1>0, <1>3 DEF PlanFails, PlanOf, TypeOK
<1>4. CASE GateEnds
  BY <1>0, <1>4 DEF GateEnds, TypeOK
<1>5. CASE Evaluate
  BY <1>0, <1>5 DEF Evaluate, TypeOK
<1>6. CASE Publish
  <2>1. PICK got \in SUBSET CurrentSamples :
           learned' = IF got = {} THEN learned
                      ELSE learned \cup {[attempt |-> attempt,
                                          executions |-> UNION {s.executions : s \in got}]}
    BY <1>6 DEF Publish
  <2>2. \A s \in got : s.executions \in SUBSET executed
    BY <1>0 DEF CurrentSamples, TypeOK
  <2>3. UNION {s.executions : s \in got} \in SUBSET executed
    BY <2>2
  <2>4. learned' \subseteq [attempt : Nat, executions : SUBSET executed]
    BY <1>0, <2>1, <2>3 DEF TypeOK
  <2> QED
    BY <1>0, <1>6, <2>4 DEF Publish, TypeOK
<1>7. ASSUME NEW a \in Assignment, Prepare(a) PROVE TypeOK'
  <2>1. PICK p \in stored :
           leg' = [leg EXCEPT ![a] = [pc |-> "running", items |-> p.layout[a], done |-> 0]]
    BY <1>7 DEF Prepare
  <2>2. p.layout[a] \in Seq(Item)
    BY <1>0, WorkflowAssumption DEF TypeOK
  <2> QED
    BY <1>0, <1>7, <2>1, <2>2 DEF Prepare, TypeOK
<1>8. ASSUME NEW a \in Assignment, PrepareFails(a) \/ Cancel(a) PROVE TypeOK'
  <2>1. /\ [leg EXCEPT ![a].pc = "failure"] \in [Assignment -> LegType]
        /\ [leg EXCEPT ![a].pc = "cancelled"] \in [Assignment -> LegType]
    <3>1. "failure" \in Ended /\ "cancelled" \in Ended
      OBVIOUS
    <3> HIDE DEF Ended
    <3> QED
      BY <1>0, <3>1, LegStep, Zenon
  <2>2. leg' \in [Assignment -> LegType]
    BY <1>8, <2>1 DEF PrepareFails, Cancel
  <2> QED
    BY <1>0, <1>8, <2>2 DEF PrepareFails, Cancel, LegType, TypeOK
<1>9. ASSUME NEW a \in Assignment, Finish(a) PROVE TypeOK'
  <2>1. leg[a].items \in Seq(Item) /\ leg[a].done = Len(leg[a].items)
    BY <1>0, <1>9 DEF Finish, TypeOK
  <2>2. \A k \in 1..Len(leg[a].items) : Execution(leg[a].items[k], a) \in executed
    BY <1>9, <2>1 DEF Finish, IInv, LegSound
  <2>3. {Execution(i, a) : i \in Range(leg[a].items)} \in SUBSET executed
    BY <2>1, <2>2 DEF Range
  <2>4. Sample(a) \in [attempt : Nat, leg : Assignment, executions : SUBSET executed]
    BY <1>0, <2>3 DEF Sample, TypeOK
  <2>5. leg' \in [Assignment -> LegType]
    BY <1>0, <1>9, LegStep, Zenon DEF Finish
  <2>6. samples' \subseteq [attempt : Nat, leg : Assignment, executions : SUBSET executed]
    <3>1. samples \subseteq [attempt : Nat, leg : Assignment, executions : SUBSET executed]
      BY <1>0 DEF TypeOK
    <3>2. samples' = samples \/ samples' = samples \cup {Sample(a)}
      BY <1>9 DEF Finish
    <3> QED
      BY <2>4, <3>1, <3>2
  <2>7. UNCHANGED <<work, needs, attempt, affected, gate, plan, stored, status, executed, learned>>
    BY <1>9 DEF Finish
  <2> QED
    BY <1>0, <2>5, <2>6, <2>7 DEF LegType, TypeOK
<1>10. ASSUME NEW a \in Assignment, NEW outcome, RunItem(a, outcome) PROVE TypeOK'
  <2>1. leg[a].items \in Seq(Item) /\ leg[a].done + 1 \in 1..Len(leg[a].items)
    BY <1>0, <1>10 DEF RunItem, TypeOK
  <2>2. Execution(leg[a].items[leg[a].done + 1], a) \in
           [item : Item, attempt : Nat, leg : Assignment]
    BY <1>0, <2>1 DEF Execution, TypeOK
  <2>3. executed \subseteq executed' /\ executed' \subseteq [item : Item, attempt : Nat, leg : Assignment]
    BY <1>0, <1>10, <2>2 DEF RunItem, TypeOK
  <2>4. leg' \in [Assignment -> LegType]
    <3>1. leg[a].done + 1 \in Nat /\ "failure" \in Ended
      BY <1>0 DEF TypeOK
    <3>2. /\ [leg EXCEPT ![a].done = leg[a].done + 1] \in [Assignment -> LegType]
          /\ [leg EXCEPT ![a].pc = "failure"] \in [Assignment -> LegType]
      <4> HIDE DEF Ended
      <4> QED
        BY <1>0, <3>1, LegStep, Zenon
    <3> QED
      BY <1>10, <3>2 DEF RunItem
  <2>5. samples' \subseteq [attempt : Nat, leg : Assignment, executions : SUBSET executed']
    BY <1>0, <1>10, <2>3 DEF RunItem, TypeOK
  <2>6. learned' \subseteq [attempt : Nat, executions : SUBSET executed']
    BY <1>0, <1>10, <2>3 DEF RunItem, TypeOK
  <2> QED
    BY <1>0, <1>10, <2>3, <2>4, <2>5, <2>6 DEF RunItem, TypeOK, LegType
<1>11. CASE RerunFailed
  <2>1. leg' \in [Assignment -> LegType]
    BY <1>0, <1>11, NewLegs DEF RerunFailed, LegType, TypeOK
  <2> QED
    BY <1>0, <1>11, <2>1 DEF RerunFailed, LegType, TypeOK
<1>12. CASE RerunAll
  BY <1>0, <1>12, NewLegs DEF RerunAll, LegType, TypeOK
<1>13. CASE PlanExpires
  BY <1>0, <1>13 DEF PlanExpires, jobs, TypeOK
<1> QED
  BY <1>1, <1>2, <1>3, <1>4, <1>5, <1>6, <1>7, <1>8, <1>9, <1>10, <1>11, <1>12, <1>13
     DEF Next, JobStep, RunJob

------------------------------------------------------------------------------
(* A step of a run job: after the status job has seen every job end, there *)
(* is none.                                                                *)
LEMMA JobsEndOnce ==
    ASSUME IInv, NEW a \in Assignment, NEW outcome,
           Prepare(a) \/ PrepareFails(a) \/ Cancel(a) \/ Finish(a) \/ RunItem(a, outcome)
    PROVE  status = "queued" /\ affected = "success" /\ RunStarts
<1>1. leg[a].pc \in {"queued", "running"} /\ RunStarts
  BY DEF Prepare, PrepareFails, Cancel, Finish, RunItem, IInv, LegSound
<1> QED
  BY <1>1 DEF IInv, PlanSound, JobsEnded, RunStarts, Legs, Ended

LEMMA PlanKept == IInv /\ [Next]_vars => PlanSound'
<1> SUFFICES ASSUME IInv, [Next]_vars PROVE PlanSound'
  OBVIOUS
<1>0. TypeOK /\ PlanSound
  BY DEF IInv
<1>1. CASE UNCHANGED vars
  BY <1>0, <1>1 DEF vars, jobs, PlanSound, JobsEnded, RunStarts, HasChange, Legs, Plans
<1>2. ASSUME NEW l \in Layout, Plan(l) PROVE PlanSound'
  <2>1. status' = "queued"
    BY <1>0, <1>2 DEF Plan, PlanSound, JobsEnded, TypeOK
  <2>2. PlanOf(l) \in PlanReference /\ PlanOf(l).producer = attempt /\ PlanOf(l).layout = l
    BY <1>0 DEF PlanOf, PlanReference, TypeOK
  <2>3. plan' = PlanOf(l) /\ PlanOf(l) # NoPlan
    BY <1>2, <2>2, WorkflowAssumption DEF Plan, PlanReference
  <2> QED
    BY <1>0, <1>2, <2>1, <2>2, <2>3 DEF Plan, Plans, PlanSound, TypeOK
<1>3. CASE PlanFails
  <2>1. status' = "queued"
    BY <1>0, <1>3 DEF PlanFails, PlanSound, JobsEnded, TypeOK
  <2>2. plan' = NoPlan \/ \E l \in Layout : Plans(l) /\ plan' = PlanOf(l)
    BY <1>3 DEF PlanFails
  <2>3. plan' # NoPlan => plan'.producer <= attempt /\ Plans(plan'.layout)
    BY <1>0, <2>2 DEF PlanOf, TypeOK
  <2> QED
    BY <1>0, <1>3, <2>1, <2>3 DEF PlanFails, Plans, PlanSound
<1>4. CASE GateEnds
  BY <1>0, <1>4 DEF GateEnds, PlanSound, JobsEnded, Plans, TypeOK
<1>5. CASE Evaluate \/ Publish
  BY <1>0, <1>5 DEF Evaluate, Publish, PlanSound, JobsEnded, RunStarts, HasChange, Legs, Plans
<1>6. ASSUME NEW a \in Assignment, NEW outcome,
             Prepare(a) \/ PrepareFails(a) \/ Cancel(a) \/ Finish(a) \/ RunItem(a, outcome)
      PROVE  PlanSound'
  <2>1. status = "queued"
    BY <1>6, JobsEndOnce
  <2>2. UNCHANGED <<work, needs, attempt, affected, plan, status>>
    BY <1>6 DEF Prepare, PrepareFails, Cancel, Finish, RunItem
  <2> QED
    BY <1>0, <2>1, <2>2 DEF PlanSound, Plans
<1>7. CASE RerunFailed \/ RerunAll
  BY <1>0, <1>7 DEF RerunFailed, RerunAll, PlanSound, Plans, TypeOK
<1>8. CASE PlanExpires
  BY <1>0, <1>8 DEF PlanExpires, jobs, PlanSound, JobsEnded, RunStarts, HasChange, Legs, Plans
<1> QED
  BY <1>1, <1>2, <1>3, <1>4, <1>5, <1>6, <1>7, <1>8 DEF Next, JobStep, RunJob

------------------------------------------------------------------------------
(* A run job is not touched by what leaves its record, the Plan and the    *)
(* other jobs alone.                                                       *)
LEMMA LegStays ==
    ASSUME NEW a \in Assignment, LegSound(a), TypeOK,
           UNCHANGED <<attempt, affected, gate, plan>>,
           leg'[a] = leg[a], executed \subseteq executed'
    PROVE  LegSound(a)'
BY DEF LegSound, RunStarts, HasChange, Execution

LEMMA LegsKept == IInv /\ [Next]_vars => \A a \in Assignment : LegSound(a)'
<1> SUFFICES ASSUME IInv, [Next]_vars, NEW a \in Assignment PROVE LegSound(a)'
  OBVIOUS
<1>0. TypeOK /\ LegSound(a)
  BY DEF IInv
<1>1. CASE UNCHANGED vars \/ Evaluate \/ Publish \/ PlanExpires
  BY <1>0, <1>1, LegStays DEF vars, jobs, Evaluate, Publish, PlanExpires
<1>2. ASSUME NEW l \in Layout, Plan(l) PROVE LegSound(a)'
  <2>1. leg'[a] = IF l[a] = << >> THEN NoLeg ELSE Queued
    BY <1>2 DEF Plan
  <2>2. affected' = "success" /\ plan'.layout = l
    BY <1>2 DEF Plan, PlanOf
  <2> QED
    BY <2>1, <2>2, NewLegs DEF LegSound
<1>3. CASE PlanFails
  BY <1>0, <1>3 DEF PlanFails, LegSound, RunStarts, TypeOK
<1>4. CASE GateEnds
  BY <1>0, <1>4 DEF GateEnds, LegSound, RunStarts
<1>5. ASSUME NEW b \in Assignment, NEW outcome,
             Prepare(b) \/ PrepareFails(b) \/ Cancel(b) \/ Finish(b) \/ RunItem(b, outcome)
      PROVE  LegSound(a)'
  <2>1. /\ UNCHANGED <<attempt, affected, gate, plan>> /\ executed \subseteq executed'
        /\ a # b => leg'[a] = leg[a]
    BY <1>0, <1>5 DEF Prepare, PrepareFails, Cancel, Finish, RunItem, TypeOK
  <2>2. CASE a # b
    BY <1>0, <2>1, <2>2, LegStays
  <2>3. CASE a = b /\ Prepare(b)
    <3>1. leg'[a].pc = "running" /\ leg'[a].items = plan.layout[a] /\ leg'[a].done = 0
      BY <1>0, <2>3 DEF Prepare, Selectable, TypeOK
    <3>2. plan.layout[a] \in Seq(Item) /\ RunStarts /\ affected = "success"
      BY <1>0, <2>3, WorkflowAssumption DEF Prepare, RunStarts, HasChange, TypeOK
    <3> QED
      BY <2>1, <3>1, <3>2 DEF LegSound, RunStarts, HasChange
  <2>4. CASE a = b /\ (PrepareFails(b) \/ Cancel(b))
    <3>1. leg'[a].pc \in {"failure", "cancelled"}
      BY <1>0, <2>4 DEF PrepareFails, Cancel, TypeOK
    <3>2. affected = "success"
      BY <1>5, JobsEndOnce
    <3> QED
      BY <2>1, <3>1, <3>2 DEF LegSound
  <2>5. CASE a = b /\ Finish(b)
    <3>1. leg'[a].pc = "success" /\ affected = "success"
      BY <1>0, <2>5, <1>5, JobsEndOnce DEF Finish, TypeOK
    <3>2. plan \in PlanReference /\ plan.producer \in Nat /\ plan.producer <= attempt /\ attempt \in Nat
      BY <1>0, <3>1 DEF IInv, PlanSound, TypeOK, PlanReference
    <3>3. ASSUME NEW i \in Range(plan.layout[a])
          PROVE  \E e \in executed : e.item = i /\ e.attempt \in plan.producer..attempt
      <4>1. /\ leg[a].items = plan.layout[a] /\ leg[a].items \in Seq(Item)
            /\ \A k \in 1..Len(leg[a].items) : Execution(leg[a].items[k], a) \in executed
        BY <1>0, <2>5 DEF Finish, LegSound, TypeOK
      <4>2. PICK k \in 1..Len(leg[a].items) : i = leg[a].items[k]
        BY <4>1 DEF Range
      <4>3. Execution(i, a) \in executed
        BY <4>1, <4>2
      <4> QED
        BY <3>2, <4>3 DEF Execution
    <3> QED
      BY <2>1, <3>1, <3>3 DEF LegSound
  <2>6. CASE a = b /\ RunItem(b, outcome)
    <3>1. affected = "success" /\ RunStarts
      BY <1>5, JobsEndOnce
    <3>2. /\ leg[a].items \in Seq(Item) /\ leg[a].done \in Nat
          /\ leg[a].pc = "running" /\ leg[a].done < Len(leg[a].items)
      BY <1>0, <2>6 DEF RunItem, TypeOK
    <3>3. CASE Succeeds(outcome)
      <4>1. /\ leg'[a].pc = "running" /\ leg'[a].items = leg[a].items
            /\ leg'[a].done = leg[a].done + 1
        BY <1>0, <2>6, <3>3 DEF RunItem, TypeOK
      <4>2. executed' = executed \cup {Execution(leg[a].items[leg[a].done + 1], a)}
        BY <2>6, <3>3 DEF RunItem, Succeeds
      <4>3. \A k \in 1..leg[a].done : Execution(leg[a].items[k], a) \in executed
        BY <1>0, <3>2 DEF LegSound
      <4>4. ASSUME NEW k \in 1..leg'[a].done
            PROVE  Execution(leg[a].items[k], a)' \in executed'
        <5>1. k \in 1..leg[a].done \/ k = leg[a].done + 1
          BY <3>2, <4>1
        <5> QED
          BY <2>1, <4>1, <4>2, <4>3, <5>1 DEF Execution
      <4> QED
        BY <1>0, <2>1, <3>1, <3>2, <4>1, <4>4 DEF LegSound, RunStarts, HasChange
    <3>4. CASE ~Succeeds(outcome)
      <4>1. leg'[a].pc = "failure"
        BY <1>0, <2>6, <3>4 DEF RunItem, TypeOK
      <4> QED
        BY <2>1, <3>1, <4>1 DEF LegSound
    <3> QED
      BY <3>3, <3>4
  <2> QED
    BY <1>5, <2>2, <2>3, <2>4, <2>5, <2>6
<1>6. CASE RerunFailed
  <2>1. CASE affected = "success"
    <3>1. /\ affected' = affected /\ plan' = plan /\ executed' = executed
          /\ attempt \in Nat /\ attempt' = attempt + 1
          /\ leg'[a] = IF leg[a].pc \in {"failure", "cancelled"} THEN Queued ELSE leg[a]
      BY <1>0, <1>6, <2>1 DEF RerunFailed, TypeOK
    <3>2. leg[a].pc # "running"
      BY <1>0, <1>6 DEF RerunFailed, IInv, PlanSound, JobsEnded, LegSound, Legs, Ended
    <3>3. plan.producer \in Nat
      BY <1>0, <2>1 DEF IInv, PlanSound, TypeOK
    <3> QED
      BY <1>0, <2>1, <3>1, <3>2, <3>3, NewLegs DEF LegSound
  <2>2. CASE affected # "success"
    BY <1>6, <2>2, NewLegs DEF RerunFailed, LegSound
  <2> QED
    BY <2>1, <2>2
<1>7. CASE RerunAll
  BY <1>7, NewLegs DEF RerunAll, LegSound
<1> QED
  BY <1>1, <1>2, <1>3, <1>4, <1>5, <1>6, <1>7 DEF Next, JobStep, RunJob

------------------------------------------------------------------------------
(* An execution stays sound in a step that leaves attempt and Plan alone.  *)
LEMMA ExecutedKept == IInv /\ [Next]_vars => ExecutedSound' /\ OneJobPerItem'
<1> SUFFICES ASSUME IInv, [Next]_vars PROVE ExecutedSound' /\ OneJobPerItem'
  OBVIOUS
<1>0. TypeOK /\ ExecutedSound /\ OneJobPerItem
  BY DEF IInv
<1>1. CASE UNCHANGED <<attempt, affected, plan, executed>>
  BY <1>0, <1>1 DEF ExecutedSound, OneJobPerItem
<1>2. CASE /\ affected = "queued"
           /\ UNCHANGED <<attempt, executed>>
  BY <1>0, <1>2 DEF ExecutedSound, OneJobPerItem
<1>3. CASE RerunFailed \/ RerunAll
  <2>1. attempt \in Nat /\ attempt' = attempt + 1 /\ executed' = executed
    BY <1>0, <1>3 DEF RerunFailed, RerunAll, TypeOK
  <2>2. \A e \in executed : e.attempt \in Nat /\ e.attempt <= attempt
    BY <1>0 DEF ExecutedSound, TypeOK
  <2> QED
    BY <1>0, <2>1, <2>2 DEF ExecutedSound, OneJobPerItem
<1>4. ASSUME NEW a \in Assignment, NEW outcome, RunItem(a, outcome)
      PROVE  ExecutedSound' /\ OneJobPerItem'
  <2>1. UNCHANGED <<attempt, affected, plan>> /\ affected = "success" /\ attempt \in Nat
    BY <1>0, <1>4, JobsEndOnce DEF RunItem, TypeOK
  <2>2. CASE executed' = executed
    BY <1>0, <2>1, <2>2 DEF ExecutedSound, OneJobPerItem
  <2>3. CASE outcome = "executed"
    <3> DEFINE i == leg[a].items[leg[a].done + 1]
               new == Execution(i, a)
    <3>1. executed' = executed \cup {new} /\ new.item = i /\ new.attempt = attempt /\ new.leg = a
      BY <1>4, <2>3 DEF RunItem, Execution
    <3>2. i \in Range(plan.layout[a])
      <4>1. /\ leg[a].items \in Seq(Item) /\ leg[a].done \in Nat
            /\ leg[a].done < Len(leg[a].items) /\ leg[a].items = plan.layout[a]
        BY <1>0, <1>4 DEF RunItem, IInv, LegSound, TypeOK
      <4>2. leg[a].done + 1 \in DOMAIN leg[a].items
        BY <4>1
      <4> QED
        BY <4>1, <4>2 DEF Range
    <3>3. ExecutedSound'
      BY <1>0, <2>1, <3>1, <3>2 DEF ExecutedSound
    <3>4. ASSUME NEW e \in executed, e.item = i, e.attempt = attempt
          PROVE  e = new
      <4>1. e.leg \in Assignment /\ i \in Range(plan.layout[e.leg])
            /\ e = [item |-> i, attempt |-> attempt, leg |-> e.leg]
        BY <1>0, <3>4 DEF ExecutedSound, TypeOK
      <4>2. Plans(plan.layout)
        BY <2>1 DEF IInv, PlanSound
      <4>3. PICK j \in DOMAIN plan.layout[a] : plan.layout[a][j] = i
        BY <3>2 DEF Range
      <4>4. PICK k \in DOMAIN plan.layout[e.leg] : plan.layout[e.leg][k] = i
        BY <4>1 DEF Range
      <4>5. e.leg = a
        BY <4>1, <4>2, <4>3, <4>4 DEF Plans
      <4> QED
        BY <4>1, <4>5 DEF Execution
    <3> HIDE DEF i, new
    <3> QED
      BY <1>0, <3>1, <3>3, <3>4 DEF OneJobPerItem
  <2> QED
    BY <1>4, <2>2, <2>3 DEF RunItem
<1> QED
  BY <1>1, <1>2, <1>3, <1>4
     DEF Next, JobStep, RunJob, vars, jobs, Plan, PlanFails, GateEnds, Evaluate, Publish, Prepare,
         PrepareFails, Cancel, Finish, PlanExpires

------------------------------------------------------------------------------
LEMMA LearnedKept == IInv /\ [Next]_vars => LearnedSound' /\ LearnedOnce'
<1> SUFFICES ASSUME IInv, [Next]_vars PROVE LearnedSound' /\ LearnedOnce'
  OBVIOUS
<1>0. TypeOK /\ LearnedSound /\ LearnedOnce
  BY DEF IInv
<1>1. CASE UNCHANGED <<attempt, samples, learned>> /\ (status = "success" => status' = "success")
  BY <1>0, <1>1 DEF LearnedSound, LearnedOnce
<1>2. CASE RerunFailed \/ RerunAll
  <2>1. attempt \in Nat /\ attempt' = attempt + 1 /\ UNCHANGED <<samples, learned>>
    BY <1>0, <1>2 DEF RerunFailed, RerunAll, TypeOK
  <2>2. \A b \in learned : b.attempt \in Nat /\ b.attempt <= attempt
    BY <1>0 DEF LearnedSound, TypeOK
  <2> QED
    BY <1>0, <2>1, <2>2 DEF LearnedSound, LearnedOnce
<1>3. ASSUME NEW a \in Assignment, Finish(a)
      PROVE  LearnedSound' /\ LearnedOnce'
  <2>1. UNCHANGED <<attempt, learned, status>> /\ samples' \subseteq samples \cup {Sample(a)}
    BY <1>3 DEF Finish
  <2>2. \A e \in Sample(a).executions : e.attempt = Sample(a).attempt
    BY DEF Sample, Execution
  <2> QED
    BY <1>0, <2>1, <2>2 DEF LearnedSound, LearnedOnce
<1>4. CASE Publish
  <2>1. PICK got \in SUBSET CurrentSamples :
           learned' = IF got = {} THEN learned
                      ELSE learned \cup {[attempt |-> attempt,
                                          executions |-> UNION {s.executions : s \in got}]}
    BY <1>4 DEF Publish
  <2>2. UNCHANGED <<attempt, samples>> /\ status = "publishing" /\ status' = "success"
        /\ attempt \in Nat
    BY <1>0, <1>4 DEF Publish, TypeOK
  <2>3. CASE learned' = learned
    BY <1>0, <2>2, <2>3 DEF LearnedSound, LearnedOnce
  <2>4. CASE got # {}
    <3> DEFINE executions == UNION {s.executions : s \in got}
               added == [attempt |-> attempt, executions |-> executions]
    <3>1. learned' = learned \cup {added} /\ added.attempt = attempt /\ added.executions = executions
      BY <2>1, <2>4
    <3>2. \A e \in executions : e.attempt = attempt
      BY <1>0 DEF LearnedSound, CurrentSamples
    <3>3. \A b \in learned : b.attempt \in Nat /\ b.attempt <= attempt /\ b.attempt # attempt
      BY <1>0, <2>2 DEF LearnedSound, TypeOK
    <3> HIDE DEF executions, added
    <3>4. \A b \in learned : b.executions \cap added.executions = {}
      BY <1>0, <3>1, <3>2, <3>3 DEF LearnedOnce
    <3>5. LearnedOnce'
      BY <1>0, <3>1, <3>2, <3>4 DEF LearnedOnce
    <3> QED
      BY <1>0, <2>2, <3>1, <3>5 DEF LearnedSound
  <2> QED
    BY <2>1, <2>3, <2>4
<1> QED
  BY <1>1, <1>2, <1>3, <1>4
     DEF Next, JobStep, RunJob, vars, jobs, Plan, PlanFails, GateEnds, Evaluate, Prepare,
         PrepareFails, Cancel, RunItem, PlanExpires

------------------------------------------------------------------------------
(* The status job turns green only on a Plan whose assignments have all    *)
(* been executed.                                                          *)
LEMMA GreenIsExecuted ==
    ASSUME IInv, JobsEnded, Green
    PROVE  /\ affected = "success" /\ plan # NoPlan
           /\ \A i \in work : \E e \in executed :
                 e.item = i /\ e.attempt \in plan.producer..attempt
<1>0. TypeOK /\ PlanSound
  BY DEF IInv
<1>1. affected = "success"
  <2>1. "affected" \in needs /\ Result["affected"] = affected
    BY <1>0 DEF PlanSound, Result
  <2> QED
    BY <1>0, <2>1 DEF Green, TypeOK
<1>2. plan # NoPlan /\ ItemsOf(plan.layout) = work /\ plan.layout \in Layout
  BY <1>0, <1>1 DEF PlanSound, Plans, TypeOK
<1>3. ASSUME NEW i \in work
      PROVE  \E e \in executed : e.item = i /\ e.attempt \in plan.producer..attempt
  <2>1. HasChange
    BY <1>2 DEF HasChange
  <2>2. "run" \in RequiredJobs
    BY <1>0, <2>1 DEF RequiredJobs, PlanSound
  <2>3. RunResult = "success"
    BY <2>2 DEF Green, Result
  <2>4. PICK a \in Assignment : i \in Range(plan.layout[a])
    BY <1>2 DEF ItemsOf
  <2>5. plan.layout[a] # << >>
    BY <2>4 DEF Range
  <2>6. a \in Legs /\ LegSound(a)
    BY <1>1, <2>5 DEF Legs, IInv, LegSound
  <2>7. leg[a].pc = "success"
    BY <2>3, <2>6, RunSucceeded DEF JobsEnded, Ended
  <2> QED
    BY <2>4, <2>6, <2>7 DEF LegSound
<1> QED
  BY <1>1, <1>2, <1>3

LEMMA GreenKept == IInv /\ [Next]_vars => GreenMeansExecuted'
<1> SUFFICES ASSUME IInv, [Next]_vars PROVE GreenMeansExecuted'
  OBVIOUS
<1>0. GreenMeansExecuted
  BY DEF IInv
<1>1. CASE UNCHANGED <<work, attempt, plan, executed>>
           /\ (status' \in {"publishing", "success"} => status \in {"publishing", "success"})
  BY <1>0, <1>1 DEF GreenMeansExecuted
<1>2. CASE affected = "queued" /\ status' = status
  BY <1>2 DEF GreenMeansExecuted, IInv, PlanSound, JobsEnded, TypeOK
<1>3. CASE Evaluate
  BY <1>3, GreenIsExecuted DEF Evaluate, GreenMeansExecuted
<1>4. ASSUME NEW a \in Assignment, NEW outcome,
             Prepare(a) \/ PrepareFails(a) \/ Cancel(a) \/ Finish(a) \/ RunItem(a, outcome)
      PROVE  GreenMeansExecuted'
  <2>1. status = "queued" /\ status' = status
    BY <1>4, JobsEndOnce DEF Prepare, PrepareFails, Cancel, Finish, RunItem
  <2> QED
    BY <2>1 DEF GreenMeansExecuted
<1>5. CASE RerunFailed \/ RerunAll
  BY <1>5 DEF RerunFailed, RerunAll, GreenMeansExecuted
<1> QED
  BY <1>1, <1>2, <1>3, <1>4, <1>5
     DEF Next, JobStep, RunJob, vars, jobs, Plan, PlanFails, GateEnds, Publish, PlanExpires

------------------------------------------------------------------------------
LEMMA InitSound == Init => IInv
<1> SUFFICES ASSUME Init PROVE IInv
  OBVIOUS
<1>1. work \subseteq Item
  <2>1. PICK l \in Layout : work = ItemsOf(l)
    BY DEF Init
  <2>2. \A a \in Assignment : l[a] \in Seq(Item)
    BY <2>1, WorkflowAssumption
  <2>3. \A a \in Assignment : Range(l[a]) \subseteq Item
    BY <2>2 DEF Range
  <2> QED
    BY <2>1, <2>3 DEF ItemsOf
<1>2. leg \in [Assignment -> LegType] /\ \A a \in Assignment : leg[a].pc = "absent"
  BY NewLegs DEF Init
<1>3. TypeOK
  BY <1>1, <1>2 DEF Init, TypeOK, LegType
<1>4. PlanSound
  BY DEF Init, PlanSound
<1>5. \A a \in Assignment : LegSound(a)
  BY <1>2 DEF Init, LegSound
<1>6. ExecutedSound /\ LearnedSound /\ GreenMeansExecuted /\ OneJobPerItem /\ LearnedOnce
  BY DEF Init, ExecutedSound, LearnedSound, GreenMeansExecuted, OneJobPerItem, LearnedOnce
<1> QED
  BY <1>3, <1>4, <1>5, <1>6 DEF IInv

LEMMA InvStep == IInv /\ [Next]_vars => IInv'
<1> SUFFICES ASSUME IInv, [Next]_vars PROVE IInv'
  OBVIOUS
<1>1. TypeOK' /\ PlanSound' /\ \A a \in Assignment : LegSound(a)'
  BY TypesKept, PlanKept, LegsKept
<1>2. /\ ExecutedSound' /\ LearnedSound' /\ GreenMeansExecuted'
      /\ OneJobPerItem' /\ LearnedOnce'
  BY ExecutedKept, LearnedKept, GreenKept
<1> QED
  BY <1>1, <1>2 DEF IInv

LEMMA SpecInv == Spec => []IInv
BY InitSound, InvStep, PTL DEF Spec

(* The state of a run is well formed: in particular, what a sample or a    *)
(* learned batch speaks of has been executed.                              *)
THEOREM WorkflowTypes == Spec => []TypeOK
<1>1. IInv => TypeOK
  BY DEF IInv
<1> QED
  BY SpecInv, <1>1, PTL

(* status/run.sh: whatever was skipped, cancelled, failed or repeated, a   *)
(* green run has executed every affected item since its Plan was made.     *)
THEOREM GreenAlwaysExecuted == Spec => []GreenMeansExecuted
<1>1. IInv => GreenMeansExecuted
  BY DEF IInv
<1> QED
  BY SpecInv, <1>1, PTL

(* prepare/select.sh: within an attempt, no two run jobs execute the same  *)
(* item, whichever Plan of the run they find.                              *)
THEOREM OneJobExecutes == Spec => []OneJobPerItem
<1>1. IInv => OneJobPerItem
  BY DEF IInv
<1> QED
  BY SpecInv, <1>1, PTL

(* download-measurements.sh: no execution is in the batches of two         *)
(* attempts, and each is in the batch of its own.                          *)
THEOREM LearnedAtMostOnce == Spec => []LearnedOnce
<1>1. IInv => LearnedOnce
  BY DEF IInv
<1> QED
  BY SpecInv, <1>1, PTL

------------------------------------------------------------------------------
(***************************************************************************)
(* compile_measurements: a cell does not depend on the order of the rows,  *)
(* and nothing an execution is repeated in counts twice.                   *)
(***************************************************************************)
(* The rows of one list after those of another.                            *)
LEMMA RangeOfJoined ==
    ASSUME NEW T, NEW s \in Seq(T), NEW t \in Seq(T)
    PROVE  s \o t \in Seq(T) /\ Range(s \o t) = Range(s) \cup Range(t)
<1>1. /\ Len(s) \in Nat /\ Len(t) \in Nat /\ DOMAIN s = 1..Len(s) /\ DOMAIN t = 1..Len(t)
      /\ s \o t \in Seq(T) /\ DOMAIN (s \o t) = 1..(Len(s) + Len(t))
      /\ \A i \in 1..(Len(s) + Len(t)) : (s \o t)[i] = IF i <= Len(s) THEN s[i] ELSE t[i - Len(s)]
  OBVIOUS
<1>2. PICK u : u = s \o t
  OBVIOUS
<1>3. ASSUME NEW i \in DOMAIN u PROVE u[i] \in Range(s) \cup Range(t)
  <2>1. CASE i <= Len(s)
    BY <1>1, <1>2, <2>1 DEF Range
  <2>2. CASE ~(i <= Len(s))
    <3>1. i - Len(s) \in DOMAIN t /\ u[i] = t[i - Len(s)]
      BY <1>1, <1>2, <2>2
    <3> QED
      BY <3>1 DEF Range
  <2> QED
    BY <2>1, <2>2
<1>4. ASSUME NEW i \in DOMAIN s PROVE s[i] \in Range(u)
  <2>1. i \in DOMAIN u /\ u[i] = s[i]
    BY <1>1, <1>2
  <2> QED
    BY <2>1 DEF Range
<1>5. ASSUME NEW i \in DOMAIN t PROVE t[i] \in Range(u)
  <2>1. i + Len(s) \in DOMAIN u /\ u[i + Len(s)] = t[i]
    BY <1>1, <1>2
  <2> QED
    BY <2>1 DEF Range
<1>6. \A x : x \in Range(u) <=> x \in Range(s) \cup Range(t)
  BY <1>3, <1>4, <1>5, Zenon DEF Range
<1> QED
  BY <1>1, <1>2, <1>6

(* Every execution has a first report.                                     *)
LEMMA FirstReport ==
    ASSUME NEW rows \in Seq(Observation), NEW i \in DOMAIN rows
    PROVE  \E j \in Unique(rows) : rows[j].id = rows[i].id
<1> DEFINE same == {j \in DOMAIN rows : rows[j].id = rows[i].id}
<1>1. DOMAIN rows \subseteq Nat /\ DOMAIN rows = 1..Len(rows) /\ Len(rows) \in Nat
  OBVIOUS
<1>2. same \subseteq Nat /\ same # {}
  BY <1>1
<1>3. PICK j \in same : \A k \in same : j <= k
  <2> HIDE DEF same
  <2> QED
    BY <1>2, LeastNumber
<1>4. ASSUME NEW k \in 1..(j - 1) PROVE rows[k].id # rows[j].id
  <2>1. k \in DOMAIN rows /\ ~(j <= k)
    BY <1>1, <1>3
  <2> QED
    BY <1>3, <2>1
<1> QED
  BY <1>3, <1>4 DEF Unique

LEMMA UniqueOnce ==
    ASSUME NEW rows \in Seq(Observation), NEW i \in Unique(rows), NEW j \in Unique(rows),
           rows[i].id = rows[j].id
    PROVE  i = j
<1>1. DOMAIN rows = 1..Len(rows) /\ Len(rows) \in Nat /\ i \in 1..Len(rows) /\ j \in 1..Len(rows)
  BY DEF Unique
<1>2. ~(i < j)
  <2> SUFFICES ASSUME i < j PROVE FALSE
    OBVIOUS
  <2>1. i \in 1..(j - 1)
    BY <1>1
  <2> QED
    BY <2>1 DEF Unique
<1>3. ~(j < i)
  <2> SUFFICES ASSUME j < i PROVE FALSE
    OBVIOUS
  <2>1. j \in 1..(i - 1)
    BY <1>1
  <2> QED
    BY <2>1 DEF Unique
<1> QED
  BY <1>1, <1>2, <1>3

(* No execution is told in two ways.                                       *)
ToldOnce(S) == \A o, p \in S : o.id = p.id => o = p

Own(rows, key, day) == {i \in Unique(rows) : InCell(rows[i], key, day)}

On(S, key, day) == {o \in S : InCell(o, key, day)}

(* The first reports in a cell are the observations of the cell.           *)
LEMMA OwnAreOn ==
    ASSUME NEW rows \in Seq(Observation), ToldOnce(Range(rows)), NEW key, NEW day
    PROVE  /\ IsFiniteSet(Own(rows, key, day))
           /\ \A i \in Own(rows, key, day) : rows[i] \in On(Range(rows), key, day)
           /\ \A o \in On(Range(rows), key, day) : \E i \in Own(rows, key, day) : rows[i] = o
           /\ \A i, j \in Own(rows, key, day) : rows[i].id = rows[j].id => i = j
<1>1. DOMAIN rows = 1..Len(rows) /\ Len(rows) \in Nat
  OBVIOUS
<1>2. IsFiniteSet(Own(rows, key, day))
  <2>1. Own(rows, key, day) \in SUBSET (1..Len(rows))
    BY <1>1 DEF Own, Unique
  <2> QED
    <3>1. IsFiniteSet(1..Len(rows))
      BY <1>1, FS_Interval
    <3> QED
      BY <2>1, <3>1, FS_Subset
<1>3. \A i \in Own(rows, key, day) : rows[i] \in On(Range(rows), key, day)
  BY DEF Own, On, Unique, Range
<1>4. ASSUME NEW o \in On(Range(rows), key, day)
      PROVE  \E i \in Own(rows, key, day) : rows[i] = o
  <2>1. PICK k \in DOMAIN rows : rows[k] = o
    BY DEF On, Range
  <2>2. PICK i \in Unique(rows) : rows[i].id = o.id
    BY <2>1, FirstReport
  <2>3. rows[i] \in Range(rows) /\ o \in Range(rows)
    BY DEF Unique, Range, On
  <2>4. rows[i] = o
    BY <2>2, <2>3 DEF ToldOnce
  <2> QED
    BY <2>4 DEF Own, On
<1>5. \A i, j \in Own(rows, key, day) : rows[i].id = rows[j].id => i = j
  BY UniqueOnce DEF Own
<1> QED
  BY <1>2, <1>3, <1>4, <1>5

(* A sum over a finite set does not depend on how what is summed is named.  *)
LEMMA SumOfNamed ==
    ASSUME NEW own, IsFiniteSet(own), NEW on, NEW f, NEW g, NEW h, Renames(f, own, own, g, on, h)
    PROVE  SumOf(f, own) = SumOf(g, on)
<1>1. IsFiniteSet(on)
  BY ImageIsFinite DEF Renames
<1> QED
  BY <1>1, SumOfAll

(* So a cell is what the reference says, whatever the order of the rows.   *)
LEMMA CellIsReference ==
    ASSUME NEW rows \in Seq(Observation), ToldOnce(Range(rows)), NEW key, NEW day
    PROVE  Cell(rows, key, day) =
             LET on == On(Range(rows), key, day)
             IN  [ key |-> key, last |-> Max({o.at : o \in on}),
                   count |-> Cardinality({o.id : o \in on}),
                   total |-> Plus(on, LAMBDA o : o.duration) ]
<1> PICK own, on : own = Own(rows, key, day) /\ on = On(Range(rows), key, day)
  OBVIOUS
<1>1. /\ IsFiniteSet(own) /\ \A i \in own : rows[i] \in on
      /\ \A o \in on : \E i \in own : rows[i] = o
      /\ \A i, j \in own : rows[i].id = rows[j].id => i = j
  BY OwnAreOn
<1>2. {rows[i].at : i \in own} = {o.at : o \in on}
  BY <1>1
<1>3. \A o \in on : o.duration \in Nat
  BY DEF On, Range, Observation
<1>4. Cardinality(own) = Cardinality({o.id : o \in on})
  <2> DEFINE ids == {o.id : o \in on}
             h == [i \in own |-> rows[i].id]
  <2>1. h \in [own -> ids] /\ (\A i, j \in own : h[i] = h[j] => i = j) /\ \A x \in ids : \E i \in own : h[i] = x
    BY <1>1
  <2> HIDE DEF h, ids
  <2>2. h \in Bijection(own, ids)
    BY <2>1 DEF Bijection, Injection, Surjection, IsInjective
  <2>3. Cardinality(own) = Cardinality(ids)
    BY <1>1, <2>2, FS_Bijection DEF ExistsBijection
  <2> QED
    BY <2>3 DEF ids
<1>5. Plus(own, LAMBDA i : rows[i].duration) = Plus(on, LAMBDA o : o.duration)
  <2> DEFINE f == [i \in own |-> rows[i].duration]
             g == [o \in on |-> o.duration]
             h == [i \in own |-> rows[i]]
  <2>1. Plus(own, LAMBDA i : rows[i].duration) = SumOf(f, own)
    BY Zenon DEF Plus
  <2>2. Plus(on, LAMBDA o : o.duration) = SumOf(g, on)
    BY Zenon DEF Plus
  <2>3. f \in [own -> Nat] /\ g \in [on -> Nat] /\ h \in [own -> on]
    BY <1>1, <1>3
  <2>4. Renames(f, own, own, g, on, h)
    BY <1>1, <2>3 DEF Renames
  <2> HIDE DEF f, g, h
  <2>5. SumOf(f, own) = SumOf(g, on)
    BY <1>1, <2>4, SumOfNamed
  <2> QED
    BY <2>1, <2>2, <2>5
<1>6. Cell(rows, key, day) =
        [ key |-> key, last |-> Max({rows[i].at : i \in own}), count |-> Cardinality(own),
          total |-> Plus(own, LAMBDA i : rows[i].duration) ]
  BY DEF Cell, Own
<1> QED
  BY <1>2, <1>4, <1>5, <1>6

LEMMA CompiledCells ==
    ASSUME NEW rows \in Seq(Observation), ToldOnce(Range(rows))
    PROVE  Aggregates(rows) = ReferenceCells(Range(rows))
<1> PICK S : S = Range(rows)
  OBVIOUS
<1> DEFINE cells == {<<o.exact, DayOf(o.at)>> : o \in S} \cup {<<o.fallback, DayOf(o.at)>> : o \in S}
           Ref(c) == [ key |-> c[1], last |-> Max({o.at : o \in On(S, c[1], c[2])}),
                       count |-> Cardinality({o.id : o \in On(S, c[1], c[2])}),
                       total |-> Plus(On(S, c[1], c[2]), LAMBDA o : o.duration) ]
           Both(o) == {Cell(rows, o.exact, DayOf(o.at)), Cell(rows, o.fallback, DayOf(o.at))}
<1>1. \A c : Ref(c) = Cell(rows, c[1], c[2])
  <2> TAKE c
  <2>1. Cell(rows, c[1], c[2]) =
          [ key |-> c[1], last |-> Max({o.at : o \in On(Range(rows), c[1], c[2])}),
            count |-> Cardinality({o.id : o \in On(Range(rows), c[1], c[2])}),
            total |-> Plus(On(Range(rows), c[1], c[2]), LAMBDA o : o.duration) ]
    BY CellIsReference, Zenon
  <2> QED
    BY <2>1, Zenon
<1>2. ReferenceCells(S) = {Ref(c) : c \in cells}
  BY Zenon DEF ReferenceCells, On, Plus
<1>3. Aggregates(rows) = UNION {Both(o) : o \in S}
  BY Zenon DEF Aggregates
<1> HIDE DEF Ref
<1>4. ASSUME NEW o \in S
      PROVE  /\ Cell(rows, o.exact, DayOf(o.at)) = Ref(<<o.exact, DayOf(o.at)>>)
             /\ Cell(rows, o.fallback, DayOf(o.at)) = Ref(<<o.fallback, DayOf(o.at)>>)
  BY <1>1
<1>5. UNION {Both(o) : o \in S} = {Ref(c) : c \in cells}
  <2>1. ASSUME NEW o \in S, NEW a \in Both(o) PROVE \E c \in cells : a = Ref(c)
    <3>1. <<o.exact, DayOf(o.at)>> \in cells /\ <<o.fallback, DayOf(o.at)>> \in cells
      OBVIOUS
    <3> HIDE DEF cells
    <3> QED
      BY <1>4, <2>1, <3>1
  <2>2. ASSUME NEW c \in cells PROVE \E o \in S : Ref(c) \in Both(o)
    <3>1. CASE c \in {<<o.exact, DayOf(o.at)>> : o \in S}
      <4>1. PICK o \in S : c = <<o.exact, DayOf(o.at)>>
        BY <3>1
      <4> QED
        BY <1>4, <4>1
    <3>2. CASE c \in {<<o.fallback, DayOf(o.at)>> : o \in S}
      <4>1. PICK o \in S : c = <<o.fallback, DayOf(o.at)>>
        BY <3>2
      <4> QED
        BY <1>4, <4>1
    <3> QED
      BY <3>1, <3>2
  <2> HIDE DEF Both, cells
  <2>3. \A a \in UNION {Both(o) : o \in S} : a \in {Ref(c) : c \in cells}
    BY <2>1
  <2>4. ASSUME NEW c \in cells PROVE Ref(c) \in UNION {Both(o) : o \in S}
    BY <2>2
  <2> QED
    BY <2>3, <2>4
<1> HIDE DEF Both, cells
<1> QED
  BY <1>2, <1>3, <1>5

------------------------------------------------------------------------------
(* What a reachable state is like.                                         *)
Usable(f) == f.run = RunId /\ ValidMeasurement(f)

CompTypes ==
    /\ inputs \in Seq(MeasurementArtifact) /\ read \in 0..Len(inputs)
    /\ artifacts \in Seq(MeasurementArtifact) /\ grouped \in 0..Len(artifacts)
    /\ groups \in [Places -> Seq(Observation)]

(* The files that are used are the usable ones of those looked at.         *)
ReadSound ==
    /\ \A k \in DOMAIN artifacts : Usable(artifacts[k]) /\ \E i \in 1..read : artifacts[k] = inputs[i]
    /\ \A i \in 1..read : Usable(inputs[i]) => \E k \in DOMAIN artifacts : artifacts[k] = inputs[i]
    /\ phase = "load" => grouped = 0
    /\ phase # "load" => read = Len(inputs)

(* A group holds what the sorted files of its environment report, and the  *)
(* environment of each execution they report is known.                     *)
GroupSound ==
    /\ \A e \in Places, o \in Observation :
          o \in Range(groups[e])
            <=> \E k \in 1..grouped : artifacts[k].environment = e /\ o \in Range(artifacts[k].rows)
    /\ \A k \in 1..grouped : \A o \in Range(artifacts[k].rows) :
          o.id \in DOMAIN identities /\ identities[o.id] = artifacts[k].environment

(* A batch is what all files compile to.                                   *)
BatchSound ==
    phase = "compiled" =>
      /\ grouped = Len(artifacts)
      /\ Compilable(Rows, Produced(Rows))
      /\ \A e \in Places : groups[e] # << >> => Compilable(groups[e], Produced(Rows))
      /\ ValidBatch(batch, Produced(Rows)) /\ batch = Assembled(Produced(Rows))

CompInv == CompTypes /\ ReadSound /\ GroupSound /\ BatchSound

LEMMA CompStart == InitCompilation => CompInv
<1> SUFFICES ASSUME InitCompilation PROVE CompInv
  OBVIOUS
<1>1. /\ inputs \in Seq(MeasurementArtifact) /\ read = 0 /\ grouped = 0 /\ artifacts = << >>
      /\ groups = [e \in Places |-> << >>] /\ phase = "load"
  BY CompilationAssumption DEF InitCompilation
<1>2. artifacts \in Seq(MeasurementArtifact) /\ Len(artifacts) = 0 /\ DOMAIN artifacts = {}
  BY <1>1
<1>3. \A e \in Places : groups[e] = << >> /\ Range(groups[e]) = {}
  BY <1>1 DEF Range
<1>4. CompTypes
  <2>1. groups \in [Places -> Seq(Observation)] /\ Len(inputs) \in Nat
    BY <1>1
  <2> QED
    BY <1>1, <1>2, <2>1 DEF CompTypes
<1>5. ReadSound
  BY <1>1, <1>2 DEF ReadSound
<1>6. GroupSound
  BY <1>1, <1>3 DEF GroupSound
<1>7. BatchSound
  BY <1>1 DEF BatchSound
<1> QED
  BY <1>4, <1>5, <1>6, <1>7 DEF CompInv

LEMMA LoadKeeps ==
    ASSUME CompInv, Load
    PROVE  CompInv'
<1> PICK f : f = inputs[read + 1]
  OBVIOUS
<1>1. /\ inputs \in Seq(MeasurementArtifact) /\ artifacts \in Seq(MeasurementArtifact)
      /\ read \in Nat /\ Len(inputs) \in Nat /\ Len(artifacts) \in Nat /\ read < Len(inputs)
      /\ DOMAIN artifacts = 1..Len(artifacts) /\ grouped = 0
      /\ groups \in [Places -> Seq(Observation)]
  BY DEF CompInv, CompTypes, ReadSound, Load
<1>2. /\ read' = read + 1 /\ inputs' = inputs /\ grouped' = 0 /\ groups' = groups
      /\ phase = "load" /\ phase' = "load"
      /\ artifacts' = IF Usable(f) THEN Append(artifacts, f) ELSE artifacts
  BY <1>1 DEF Load, Usable
<1>3. f \in MeasurementArtifact /\ read + 1 \in 1..read' /\ read' \in 0..Len(inputs)
  BY <1>1, <1>2
<1>4. \A i \in 1..read' : i = read + 1 \/ i \in 1..read
  BY <1>1, <1>2
<1>5. /\ \A k \in DOMAIN artifacts : Usable(artifacts[k]) /\ \E i \in 1..read : artifacts[k] = inputs[i]
      /\ \A i \in 1..read : Usable(inputs[i]) => \E k \in DOMAIN artifacts : artifacts[k] = inputs[i]
  BY DEF CompInv, ReadSound
<1>6. \A i \in 1..read : i \in 1..read'
  BY <1>1, <1>2
<1>7. CompTypes'
  <2>1. artifacts' \in Seq(MeasurementArtifact)
    BY <1>1, <1>2, <1>3
  <2>2. 0 \in 0..Len(artifacts')
    BY <2>1
  <2> QED
    BY <1>1, <1>2, <1>3, <2>1, <2>2 DEF CompTypes
<1>8. ReadSound'
  <2>1. /\ \A k \in DOMAIN artifacts' :
              Usable(artifacts'[k]) /\ \E i \in 1..read' : artifacts'[k] = inputs[i]
        /\ \A i \in 1..read' : Usable(inputs[i]) => \E k \in DOMAIN artifacts' : artifacts'[k] = inputs[i]
    <3>1. CASE Usable(f)
      <4> PICK n, a : n = Len(artifacts) + 1 /\ a = artifacts'
        OBVIOUS
      <4>1. DOMAIN a = 1..n /\ a[n] = f /\ \A k \in DOMAIN artifacts : a[k] = artifacts[k]
        BY <1>1, <1>2, <3>1
      <4>2. \A k \in DOMAIN a : k = n \/ k \in DOMAIN artifacts
        BY <1>1, <4>1
      <4>3. n \in DOMAIN a /\ \A k \in DOMAIN artifacts : k \in DOMAIN a
        BY <1>1, <4>1
      <4>4. ASSUME NEW k \in DOMAIN a PROVE Usable(a[k]) /\ \E i \in 1..read' : a[k] = inputs[i]
        BY <1>3, <1>5, <1>6, <3>1, <4>1, <4>2
      <4>5. ASSUME NEW i \in 1..read', Usable(inputs[i]) PROVE \E k \in DOMAIN a : a[k] = inputs[i]
        <5>1. CASE i = read + 1
          BY <4>1, <4>3, <5>1
        <5>2. CASE i \in 1..read
          BY <1>5, <4>1, <4>3, <4>5, <5>2
        <5> QED
          BY <1>4, <5>1, <5>2
      <4> QED
        BY <4>4, <4>5
    <3>2. CASE ~Usable(f)
      <4>1. artifacts' = artifacts
        BY <1>2, <3>2
      <4>2. \A k \in DOMAIN artifacts : Usable(artifacts[k]) /\ \E i \in 1..read' : artifacts[k] = inputs[i]
        BY <1>5, <1>6
      <4>3. \A i \in 1..read' : Usable(inputs[i]) => \E k \in DOMAIN artifacts : artifacts[k] = inputs[i]
        BY <1>4, <1>5, <3>2
      <4> QED
        BY <4>1, <4>2, <4>3
    <3> QED
      BY <3>1, <3>2
  <2> QED
    BY <1>2, <2>1 DEF ReadSound, Usable
<1>9. GroupSound'
  <2>1. \A e \in Places, o \in Observation : o \notin Range(groups[e])
    BY <1>1 DEF CompInv, GroupSound
  <2>2. \A k : k \notin 1..0
    OBVIOUS
  <2> QED
    BY <1>2, <2>1, <2>2 DEF GroupSound
<1>10. BatchSound'
  BY <1>2 DEF BatchSound
<1> QED
  BY <1>7, <1>8, <1>9, <1>10 DEF CompInv

LEMMA LoadedKeeps ==
    ASSUME CompInv, Loaded
    PROVE  CompInv'
<1>1. /\ inputs' = inputs /\ read' = read /\ artifacts' = artifacts /\ grouped' = grouped
      /\ identities' = identities /\ groups' = groups
      /\ phase = "load" /\ phase' \in {"empty", "group"} /\ read = Len(inputs)
  BY DEF Loaded
<1>2. CompTypes'
  BY <1>1 DEF CompInv, CompTypes
<1>3. ReadSound'
  BY <1>1 DEF CompInv, ReadSound, Usable
<1>4. GroupSound'
  BY <1>1 DEF CompInv, GroupSound
<1>5. BatchSound'
  BY <1>1 DEF BatchSound
<1> QED
  BY <1>2, <1>3, <1>4, <1>5 DEF CompInv

LEMMA CompileKeeps ==
    ASSUME CompInv, Compile
    PROVE  CompInv'
<1>1. /\ inputs' = inputs /\ read' = read /\ artifacts' = artifacts /\ grouped' = grouped
      /\ identities' = identities /\ groups' = groups
      /\ phase = "group" /\ phase' \in {"compiled", "degraded"} /\ grouped = Len(artifacts)
  BY DEF Compile
<1>2. CompTypes'
  BY <1>1 DEF CompInv, CompTypes
<1>3. ReadSound'
  BY <1>1 DEF CompInv, ReadSound, Usable
<1>4. GroupSound'
  BY <1>1 DEF CompInv, GroupSound
<1>5. BatchSound'
  <2> SUFFICES ASSUME phase' = "compiled" PROVE BatchSound'
    BY DEF BatchSound
  <2>1. /\ Compilable(Rows, Produced(Rows))
        /\ \A e \in Places : groups[e] # << >> => Compilable(groups[e], Produced(Rows))
        /\ ValidBatch(Assembled(Produced(Rows)), Produced(Rows)) /\ batch' = Assembled(Produced(Rows))
    BY Zenon DEF Compile
  <2>2. Rows' = Rows
    BY <1>1 DEF Rows
  <2>3. (Assembled(Produced(Rows)))' = Assembled(Produced(Rows))
    BY <1>1, <2>2 DEF Assembled
  <2> QED
    BY <1>1, <2>1, <2>2, <2>3, Zenon DEF BatchSound
<1> QED
  BY <1>2, <1>3, <1>4, <1>5 DEF CompInv

LEMMA GroupKeeps ==
    ASSUME CompInv, Group
    PROVE  CompInv'
<1> PICK n, f : n = grouped + 1 /\ f = artifacts[grouped + 1]
  OBVIOUS
<1>1. /\ inputs' = inputs /\ read' = read /\ artifacts' = artifacts
      /\ phase = "group" /\ phase' \in {"group", "degraded"} /\ grouped < Len(artifacts)
  BY DEF Group
<1>2. /\ artifacts \in Seq(MeasurementArtifact) /\ grouped \in Nat /\ Len(artifacts) \in Nat
      /\ groups \in [Places -> Seq(Observation)] /\ grouped \in 0..Len(artifacts)
      /\ inputs \in Seq(MeasurementArtifact) /\ read \in 0..Len(inputs)
  BY DEF CompInv, CompTypes
<1>3. /\ f \in MeasurementArtifact /\ f.environment \in Places /\ f.rows \in Seq(Observation)
      /\ n \in 1..Len(artifacts)
  <2>1. n \in 1..Len(artifacts)
    BY <1>1, <1>2
  <2>2. f \in MeasurementArtifact
    BY <1>2, <2>1
  <2>3. f.environment \in Places /\ f.rows \in Seq(Observation)
    BY <2>2 DEF MeasurementArtifact
  <2> QED
    BY <2>1, <2>2, <2>3
<1>4. /\ \A e \in Places, o \in Observation :
            o \in Range(groups[e])
              <=> \E k \in 1..grouped : artifacts[k].environment = e /\ o \in Range(artifacts[k].rows)
      /\ \A k \in 1..grouped : \A o \in Range(artifacts[k].rows) :
            o.id \in DOMAIN identities /\ identities[o.id] = artifacts[k].environment
  BY DEF CompInv, GroupSound
<1>5. ReadSound'
  BY <1>1 DEF CompInv, ReadSound, Usable
<1>6. BatchSound'
  BY <1>1 DEF BatchSound
<1>7. CASE grouped' = grouped /\ identities' = identities /\ groups' = groups
  <2>1. CompTypes' /\ GroupSound'
    BY <1>1, <1>7 DEF CompInv, CompTypes, GroupSound
  <2> QED
    BY <1>5, <1>6, <2>1 DEF CompInv
<1>8. CASE /\ ~\E x \in Ids(f) \cap DOMAIN identities : identities[x] # f.environment
           /\ identities' = [x \in Ids(f) \cup DOMAIN identities |->
                               IF x \in Ids(f) THEN f.environment ELSE identities[x]]
           /\ groups' = [groups EXCEPT ![f.environment] = @ \o f.rows]
           /\ grouped' = n
  <2>1. /\ groups[f.environment] \o f.rows \in Seq(Observation)
        /\ Range(groups[f.environment] \o f.rows) = Range(groups[f.environment]) \cup Range(f.rows)
    BY <1>2, <1>3, RangeOfJoined
  <2>2. CompTypes'
    BY <1>1, <1>2, <1>3, <1>8, <2>1 DEF CompTypes
  <2>3. \A k \in 1..n : k = n \/ k \in 1..grouped
    BY <1>2
  <2>4. n \in 1..n /\ \A k \in 1..grouped : k \in 1..n
    BY <1>2
  <2>5. ASSUME NEW e \in Places, NEW o \in Observation
        PROVE  o \in Range(groups'[e])
                 <=> \E k \in 1..n : artifacts[k].environment = e /\ o \in Range(artifacts[k].rows)
    <3>1. CASE e = f.environment
      <4>1. Range(groups'[e]) = Range(groups[e]) \cup Range(f.rows)
        BY <1>2, <1>8, <2>1, <3>1
      <4> QED
        BY <1>4, <2>3, <2>4, <3>1, <4>1
    <3>2. CASE e # f.environment
      <4>1. groups'[e] = groups[e]
        BY <1>2, <1>8, <3>2
      <4> QED
        BY <1>4, <2>3, <2>4, <3>2, <4>1
    <3> QED
      BY <3>1, <3>2
  <2>6. ASSUME NEW k \in 1..n, NEW o \in Range(artifacts[k].rows)
        PROVE  o.id \in DOMAIN identities' /\ identities'[o.id] = artifacts[k].environment
    <3>1. CASE k = n
      <4>1. o.id \in Ids(f)
        BY <3>1 DEF Ids
      <4> QED
        BY <1>8, <3>1, <4>1
    <3>2. CASE k \in 1..grouped
      <4>1. o.id \in DOMAIN identities /\ identities[o.id] = artifacts[k].environment
        BY <1>4, <3>2
      <4> QED
        BY <1>8, <4>1
    <3> QED
      BY <2>3, <3>1, <3>2
  <2>7. GroupSound'
    <3> PICK g, i, a, w : g = groups' /\ i = identities' /\ a = artifacts' /\ w = grouped'
      OBVIOUS
    <3>1. a = artifacts /\ w = n
      BY <1>1, <1>8
    <3>2. \A e \in Places, o \in Observation :
            o \in Range(g[e]) <=> \E k \in 1..w : a[k].environment = e /\ o \in Range(a[k].rows)
      BY <2>5, <3>1
    <3>3. \A k \in 1..w : \A o \in Range(a[k].rows) : o.id \in DOMAIN i /\ i[o.id] = a[k].environment
      BY <2>6, <3>1
    <3> QED
      BY <3>2, <3>3, Zenon DEF GroupSound
  <2> QED
    BY <1>5, <1>6, <2>2, <2>7 DEF CompInv
<1> QED
  BY <1>7, <1>8, Zenon DEF Group

LEMMA CompiledInductive == SpecCompilation => []CompInv
<1>1. CompInv /\ [NextCompilation]_varsCompilation => CompInv'
  <2> SUFFICES ASSUME CompInv, [NextCompilation]_varsCompilation PROVE CompInv'
    OBVIOUS
  <2>1. CASE Load
    BY <2>1, LoadKeeps
  <2>2. CASE Loaded
    BY <2>2, LoadedKeeps
  <2>3. CASE Group
    BY <2>3, GroupKeeps
  <2>4. CASE Compile
    BY <2>4, CompileKeeps
  <2>5. CASE UNCHANGED varsCompilation
    <3>1. /\ inputs' = inputs /\ read' = read /\ artifacts' = artifacts /\ grouped' = grouped
          /\ identities' = identities /\ groups' = groups /\ phase' = phase /\ batch' = batch
      BY <2>5 DEF varsCompilation
    <3>2. CompTypes' /\ ReadSound' /\ GroupSound'
      BY <3>1 DEF CompInv, CompTypes, ReadSound, GroupSound, Usable
    <3>3. Rows' = Rows
      BY <3>1 DEF Rows
    <3>4. (Assembled(Produced(Rows)))' = Assembled(Produced(Rows))
      BY <3>1, <3>3 DEF Assembled
    <3>5. BatchSound'
      BY <3>1, <3>3, <3>4, Zenon DEF CompInv, BatchSound
    <3> QED
      BY <3>2, <3>5 DEF CompInv
  <2> QED
    BY <2>1, <2>2, <2>3, <2>4, <2>5 DEF NextCompilation
<1> QED
  BY <1>1, CompStart, PTL DEF SpecCompilation

------------------------------------------------------------------------------
(* All observations together are those of the files, in some order.        *)
LEMMA RowsHoldAll ==
    ASSUME artifacts \in Seq(MeasurementArtifact)
    PROVE  /\ Rows \in Seq(Observation)
           /\ \A o : o \in Range(Rows)
                <=> \E k \in DOMAIN artifacts : o \in Range(artifacts[k].rows)
<1> PICK D, L : D = Seq(Observation) /\ L = Len(artifacts)
  OBVIOUS
<1> PICK none : none = << >>
  OBVIOUS
<1>1. L \in Nat /\ DOMAIN artifacts = 1..L /\ none \in D
  OBVIOUS
<1>2. \A n \in 1..L : artifacts[n].rows \in D
  <2> TAKE n \in 1..L
  <2>1. artifacts[n] \in MeasurementArtifact
    BY <1>1
  <2> QED
    BY <2>1 DEF MeasurementArtifact
<1> DEFINE next(n, x) == x \o artifacts[n].rows
           step == [n \in 1..L |-> [x \in D |-> next(n, x)]]
           Is(h) == h = [n \in 0..Len(artifacts) |->
                           IF n = 0 THEN << >> ELSE h[n - 1] \o artifacts[n].rows]
<1>3. \A n \in 1..L, x \in D : next(n, x) \in D /\ Range(next(n, x)) = Range(x) \cup Range(artifacts[n].rows)
  BY <1>2, RangeOfJoined
<1>4. step \in [1..L -> [D -> D]] /\ \A n \in 1..L, x \in D : step[n][x] = next(n, x)
  <2> HIDE DEF next
  <2> QED
    BY <1>3
<1> HIDE DEF step
<1>5. PICK f \in [0..L -> D] : f[0] = none /\ \A n \in 1..L : f[n] = step[n][f[n - 1]]
  <2>1. Stepwise(D, none, L, step)
    BY <1>1, <1>4, Zenon DEF Stepwise
  <2>2. PICK f : Follows(f, D, none, L, step)
    BY <2>1, StepsAreFollowed
  <2> QED
    BY <2>2, Zenon DEF Follows
<1>6. ASSUME NEW n \in 1..L PROVE n - 1 \in 0..L /\ n \in 0..L /\ f[n] = next(n, f[n - 1])
  <2>1. n - 1 \in 0..L /\ n \in 0..L
    BY <1>1
  <2>2. f[n - 1] \in D
    BY <1>5, <2>1
  <2> HIDE DEF next
  <2> QED
    BY <1>4, <1>5, <2>1, <2>2
<1>7. Is(f)
  <2> DEFINE val(n) == IF n = 0 THEN << >> ELSE f[n - 1] \o artifacts[n].rows
  <2>1. ASSUME NEW n \in 0..L PROVE f[n] = val(n)
    <3>1. CASE n = 0
      BY <1>5, <3>1
    <3>2. CASE n # 0
      <4>1. n \in 1..L
        BY <1>1, <3>2
      <4> QED
        BY <1>6, <3>2, <4>1, Zenon
    <3> QED
      BY <3>1, <3>2
  <2> HIDE DEF val
  <2>2. f = [n \in 0..L |-> val(n)]
    BY <1>5, <2>1
  <2> QED
    BY <2>2, Zenon DEF val
<1> DEFINE all == CHOOSE h : Is(h)
<1>8. Is(all)
  <2> HIDE DEF Is
  <2> QED
    BY <1>7
<1>9. Rows = all[L]
  BY Zenon DEF Rows
<1>10. \A n \in 0..L : all[n] = IF n = 0 THEN << >> ELSE all[n - 1] \o artifacts[n].rows
  BY <1>8, Zenon
<1> HIDE DEF all, Is
<1> DEFINE Told(n) == {o \in UNION {Range(artifacts[k].rows) : k \in 1..L} :
                         \E k \in 1..n : o \in Range(artifacts[k].rows)}
           G == {n \in 0..L : all[n] \in D /\ Range(all[n]) = Told(n)}
<1>11. 0 \in G
  <2>1. 0 \in 0..L
    BY <1>1
  <2>2. all[0] = << >>
    BY <1>10, <2>1, Zenon
  <2>3. Told(0) = {}
    OBVIOUS
  <2>4. Range(all[0]) = {}
    BY <2>2 DEF Range
  <2> QED
    BY <1>1, <2>1, <2>2, <2>3, <2>4
<1>12. ASSUME NEW n \in 1..L, n - 1 \in G PROVE n \in G
  <2>1. n \in 0..L /\ n # 0 /\ n \in Nat
    BY <1>1
  <2> PICK x : x = all[n - 1]
    OBVIOUS
  <2>2. x \in D /\ Range(x) = Told(n - 1)
    BY <1>12
  <2>3. all[n] = next(n, x)
    BY <1>10, <2>1, Zenon
  <2>4. Told(n) = Told(n - 1) \cup Range(artifacts[n].rows)
    <3>1. \A k \in 1..n : k = n \/ k \in 1..n - 1
      BY <2>1
    <3>2. n \in 1..n /\ \A k \in 1..n - 1 : k \in 1..n
      BY <2>1
    <3> QED
      BY <3>1, <3>2
  <2> HIDE DEF next, Told
  <2>5. all[n] \in D /\ Range(all[n]) = Range(x) \cup Range(artifacts[n].rows)
    BY <1>3, <2>2, <2>3
  <2>6. Range(all[n]) = Told(n)
    BY <2>2, <2>4, <2>5
  <2> QED
    BY <2>1, <2>5, <2>6
<1>13. L \in G
  <2> HIDE DEF G
  <2>1. \A n \in 0..L : n \in G
    BY <1>1, <1>11, <1>12, SetInduction
  <2> QED
    BY <1>1, <2>1
<1> QED
  BY <1>1, <1>9, <1>13

Numbers(f, S, F) ==
    /\ f \in [S -> Nat] /\ IsFiniteSet(S) /\ S # {}
    /\ \A x \in S : f[x] \in F
    /\ \A y \in F : \E x \in S : f[x] = y

LEMMA LatestIsIn ==
    ASSUME NEW S, NEW f, NEW F, Numbers(f, S, F)
    PROVE  Max(F) \in F /\ F \subseteq Nat /\ \A y \in F : y <= Max(F)
<1>0. f \in [S -> Nat] /\ IsFiniteSet(S) /\ S # {} /\ (\A x \in S : f[x] \in F) /\ \A y \in F : \E x \in S : f[x] = y
  BY DEF Numbers
<1>1. F \subseteq Nat /\ F # {}
  BY <1>0
<1>2. f \in [S -> F]
  BY <1>0
<1>3. IsFiniteSet(F)
  BY <1>0, <1>2, ImageIsFinite
<1> QED
  BY <1>1, <1>3, ExtremesAreIn

(* A cell that some observation falls into.                                *)
LEMMA CellIsARow ==
    ASSUME NEW rows \in Seq(Observation), ToldOnce(Range(rows)), NEW latest \in Nat,
           \A o \in Range(rows) : o.at <= latest,
           NEW key \in Keys, NEW day, NEW p \in Range(rows), InCell(p, key, day)
    PROVE  Cell(rows, key, day) \in Aggregate /\ Cell(rows, key, day).last <= latest
<1> PICK own : own = Own(rows, key, day)
  OBVIOUS
<1>1. IsFiniteSet(own) /\ own # {} /\ own \subseteq DOMAIN rows
  <2>1. p \in On(Range(rows), key, day)
    BY DEF On
  <2> QED
    BY <2>1, OwnAreOn DEF Own, Unique
<1>2. \A i \in own : rows[i] \in Range(rows) /\ rows[i].at \in Nat /\ rows[i].duration \in Nat
  <2> TAKE i \in own
  <2>1. rows[i] \in Observation
    BY <1>1
  <2> QED
    BY <1>1, <2>1 DEF Range, Observation
<1> PICK ats : ats = {rows[i].at : i \in own}
  OBVIOUS
<1>3. Max(ats) \in ats
  <2> DEFINE f == [i \in own |-> rows[i].at]
  <2>1. /\ f \in [own -> Nat] /\ \A i \in own : f[i] \in ats
        /\ \A y \in ats : \E i \in own : f[i] = y
    BY <1>2
  <2> HIDE DEF f
  <2>2. Numbers(f, own, ats)
    BY <1>1, <2>1 DEF Numbers
  <2> QED
    BY <2>2, LatestIsIn, Zenon
<1>4. Max(ats) \in Nat /\ Max(ats) <= latest
  BY <1>2, <1>3
<1>5. Cardinality(own) \in Nat
  BY <1>1, FS_CardinalityType
<1> PICK total : total = Plus(own, LAMBDA i : rows[i].duration)
  OBVIOUS
<1>6. total \in Nat
  <2> DEFINE f == [i \in own |-> rows[i].duration]
  <2>1. f \in [own -> Nat]
    BY <1>2
  <2>2. total = SumOf(f, own)
    BY Zenon DEF Plus
  <2> HIDE DEF f
  <2> QED
    BY <1>1, <2>1, <2>2, SumHolds
<1>7. Cell(rows, key, day) = [key |-> key, last |-> Max(ats), count |-> Cardinality(own), total |-> total]
  BY DEF Cell, Own
<1> QED
  BY <1>4, <1>5, <1>6, <1>7 DEF Aggregate

LEMMA TwoImagesAreFinite ==
    ASSUME NEW S, IsFiniteSet(S), NEW f, NEW g, NEW U, \A a \in U : \E x \in S : a = f[x] \/ a = g[x]
    PROVE  IsFiniteSet(U)
<1> DEFINE F == {f[x] : x \in S}
           G == {g[x] : x \in S}
           h == [x \in S |-> f[x]]
           k == [x \in S |-> g[x]]
<1>1. /\ h \in [S -> F] /\ \A y \in F : \E x \in S : h[x] = y
      /\ k \in [S -> G] /\ \A y \in G : \E x \in S : k[x] = y
  OBVIOUS
<1>2. U \in SUBSET (F \cup G)
  OBVIOUS
<1> HIDE DEF F, G, h, k
<1>3. IsFiniteSet(F) /\ IsFiniteSet(G)
  BY <1>1, ImageIsFinite
<1>4. IsFiniteSet(F \cup G)
  BY <1>3, FS_Union
<1> QED
  BY <1>2, <1>4, FS_Subset

LEMMA CellsAreRows ==
    ASSUME NEW rows \in Seq(Observation), ToldOnce(Range(rows)), NEW latest \in Nat,
           \A o \in Range(rows) : o.at <= latest
    PROVE  /\ Aggregates(rows) \subseteq Aggregate /\ IsFiniteSet(Aggregates(rows))
           /\ \A a \in Aggregates(rows) : a.last <= latest
<1> PICK S : S = Range(rows)
  OBVIOUS
<1> DEFINE One(o) == Cell(rows, o.exact, DayOf(o.at))
           Other(o) == Cell(rows, o.fallback, DayOf(o.at))
<1>1. ASSUME NEW o \in S
      PROVE  /\ o.exact \in Keys /\ o.fallback \in Keys
             /\ InCell(o, o.exact, DayOf(o.at)) /\ InCell(o, o.fallback, DayOf(o.at))
  BY DEF Range, Observation, InCell
<1>2. ASSUME NEW o \in S PROVE One(o) \in Aggregate /\ One(o).last <= latest
  BY <1>1, CellIsARow
<1>3. ASSUME NEW o \in S PROVE Other(o) \in Aggregate /\ Other(o).last <= latest
  BY <1>1, CellIsARow
<1>4. Aggregates(rows) = UNION {{One(o), Other(o)} : o \in S}
  BY Zenon DEF Aggregates
<1>5. IsFiniteSet(S)
  <2> PICK D : D = DOMAIN rows
    OBVIOUS
  <2>1. D = 1..Len(rows) /\ Len(rows) \in Nat
    OBVIOUS
  <2>2. IsFiniteSet(D)
    BY <2>1, FS_Interval
  <2>3. rows \in [D -> S] /\ \A o \in S : \E i \in D : rows[i] = o
    BY DEF Range
  <2> QED
    BY <2>2, <2>3, ImageIsFinite
<1> HIDE DEF One, Other
<1>6. \A a \in Aggregates(rows) : \E o \in S : a = One(o) \/ a = Other(o)
  BY <1>4
<1>7. IsFiniteSet(Aggregates(rows))
  <2> DEFINE f == [o \in S |-> One(o)]
             g == [o \in S |-> Other(o)]
  <2>1. DOMAIN f = S /\ DOMAIN g = S /\ \A a \in Aggregates(rows) : \E o \in S : a = f[o] \/ a = g[o]
    BY <1>6
  <2> HIDE DEF f, g
  <2> QED
    BY <1>5, <2>1, TwoImagesAreFinite
<1> QED
  BY <1>2, <1>3, <1>6, <1>7

------------------------------------------------------------------------------
(* What the groups of a compiled batch hold.                               *)
LEMMA GroupsAreReported ==
    ASSUME CompInv, phase = "compiled", NEW e \in Places
    PROVE  /\ groups[e] \in Seq(Observation) /\ Range(groups[e]) = Reported(e)
           /\ Range(groups[e]) \subseteq Range(Rows)
           /\ \A o \in Reported(e) : identities[o.id] = e
<1>1. /\ inputs \in Seq(MeasurementArtifact) /\ artifacts \in Seq(MeasurementArtifact)
      /\ groups \in [Places -> Seq(Observation)] /\ grouped = Len(artifacts) /\ read = Len(inputs)
  BY DEF CompInv, CompTypes, ReadSound, BatchSound
<1>2. /\ DOMAIN artifacts = 1..grouped /\ DOMAIN inputs = 1..read
      /\ \A k \in 1..grouped : artifacts[k] \in MeasurementArtifact
      /\ \A i \in 1..read : inputs[i] \in MeasurementArtifact
  BY <1>1
<1>3. /\ \A k \in 1..grouped : Usable(artifacts[k]) /\ \E i \in 1..read : artifacts[k] = inputs[i]
      /\ \A i \in 1..read : Usable(inputs[i]) => \E k \in 1..grouped : artifacts[k] = inputs[i]
  BY <1>2 DEF CompInv, ReadSound
<1>4. /\ \A o \in Observation :
            o \in Range(groups[e])
              <=> \E k \in 1..grouped : artifacts[k].environment = e /\ o \in Range(artifacts[k].rows)
      /\ \A k \in 1..grouped : \A o \in Range(artifacts[k].rows) :
            o.id \in DOMAIN identities /\ identities[o.id] = artifacts[k].environment
  BY DEF CompInv, GroupSound
<1>5. groups[e] \in Seq(Observation) /\ \A o \in Range(groups[e]) : o \in Observation
  <2>1. groups[e] \in Seq(Observation)
    BY <1>1
  <2> QED
    BY <2>1 DEF Range
<1>6. \A k \in 1..grouped : \A o \in Range(artifacts[k].rows) : o \in Observation
  <2> TAKE k \in 1..grouped
  <2>1. artifacts[k].rows \in Seq(Observation)
    BY <1>2 DEF MeasurementArtifact
  <2> QED
    BY <2>1 DEF Range
<1>7. ASSUME NEW o \in Range(groups[e]) PROVE o \in Reported(e) /\ o \in Range(Rows)
  <2>1. PICK k \in 1..grouped : artifacts[k].environment = e /\ o \in Range(artifacts[k].rows)
    BY <1>4, <1>5
  <2>2. artifacts[k] \in Range(inputs)
    BY <1>2, <1>3 DEF Range
  <2>3. artifacts[k] \in Used
    BY <1>3, <2>2 DEF Used, Usable
  <2>4. o \in Reported(e)
    BY <2>1, <2>3 DEF Reported
  <2>5. o \in Range(Rows)
    BY <1>1, <1>2, <2>1, RowsHoldAll
  <2> QED
    BY <2>4, <2>5
<1>8. ASSUME NEW o \in Reported(e) PROVE o \in Range(groups[e]) /\ identities[o.id] = e
  <2>1. PICK f \in Used : f.environment = e /\ o \in Range(f.rows)
    BY DEF Reported
  <2>2. PICK i \in 1..read : inputs[i] = f
    BY <1>2, <2>1 DEF Used, Range
  <2>3. Usable(f)
    BY <2>1 DEF Used, Usable
  <2>4. PICK k \in 1..grouped : artifacts[k] = f
    BY <1>3, <2>2, <2>3
  <2> QED
    BY <1>4, <1>6, <2>1, <2>4
<1> QED
  BY <1>5, <1>7, <1>8

(* Nothing is newer than the batch, and nothing is told in two ways.       *)
LEMMA BatchIsNewest ==
    ASSUME CompInv, phase = "compiled"
    PROVE  /\ Rows \in Seq(Observation) /\ ToldOnce(Range(Rows))
           /\ Produced(Rows) \in Nat /\ \A o \in Range(Rows) : o.at <= Produced(Rows)
<1>1. Rows \in Seq(Observation)
  BY RowsHoldAll DEF CompInv, CompTypes
<1>2. Compilable(Rows, Produced(Rows))
  BY DEF CompInv, BatchSound
<1>3. ToldOnce(Range(Rows)) /\ Rows # << >>
  BY <1>2 DEF Compilable, ToldOnce
<1> PICK rows : rows = Rows
  OBVIOUS
<1> PICK ats : ats = {o.at : o \in Range(rows)}
  OBVIOUS
<1>4. \A i \in DOMAIN rows : rows[i].at \in Nat
  <2>1. \A i \in DOMAIN rows : rows[i] \in Observation
    BY <1>1
  <2> QED
    BY <2>1 DEF Observation
<1>5. Max(ats) \in ats /\ ats \subseteq Nat /\ \A y \in ats : y <= Max(ats)
  <2> PICK D : D = DOMAIN rows
    OBVIOUS
  <2> DEFINE f == [i \in D |-> rows[i].at]
  <2>1. /\ f \in [D -> Nat] /\ \A i \in D : f[i] \in ats
        /\ \A y \in ats : \E i \in D : f[i] = y
    BY <1>4 DEF Range
  <2> HIDE DEF f
  <2>2. D = 1..Len(rows) /\ Len(rows) \in Nat
    BY <1>1
  <2>3. Len(rows) # 0
    BY <1>1, <1>3
  <2>4. IsFiniteSet(D)
    BY <2>2, FS_Interval
  <2>5. D # {}
    BY <2>2, <2>3
  <2>6. Numbers(f, D, ats)
    BY <2>1, <2>4, <2>5 DEF Numbers
  <2> QED
    BY <2>6, LatestIsIn, Zenon
<1>6. Max(ats) \in Nat /\ \A y \in ats : y <= Max(ats)
  BY <1>5
<1> QED
  BY <1>1, <1>3, <1>6 DEF Produced

(* What the batch says of an environment.                                  *)
LEMMA CompiledForIsGroup ==
    ASSUME CompInv, phase = "compiled", NEW e \in Places
    PROVE  CompiledFor(e) = Aggregates(groups[e])
<1>1. batch = Assembled(Produced(Rows))
  BY DEF CompInv, BatchSound
<1>2. CASE e = NoEnvironment
  BY <1>1, <1>2 DEF CompiledFor, Assembled
<1>3. CASE e # NoEnvironment /\ groups[e] # << >>
  <2>1. e \in DOMAIN batch.environments /\ batch.environments[e].aggregates = Aggregates(groups[e])
    BY <1>1, <1>3 DEF Assembled, Places
  <2> QED
    BY <1>3, <2>1 DEF CompiledFor
<1>4. CASE e # NoEnvironment /\ groups[e] = << >>
  <2>1. e \notin DOMAIN batch.environments
    BY <1>1, <1>4 DEF Assembled
  <2>2. Range(groups[e]) = {}
    BY <1>4 DEF Range
  <2>3. Aggregates(groups[e]) = {}
    BY <2>2 DEF Aggregates
  <2> QED
    BY <1>4, <2>1, <2>3 DEF CompiledFor
<1> QED
  BY <1>2, <1>3, <1>4

LEMMA CompiledCounts == CompInv => CompiledIsReference
<1> SUFFICES ASSUME CompInv, phase = "compiled" PROVE CompiledIsReference
  BY DEF CompiledIsReference
<1>1. ASSUME NEW e \in Places PROVE CompiledFor(e) = ReferenceCells(Reported(e))
  <2>1. /\ groups[e] \in Seq(Observation) /\ Range(groups[e]) = Reported(e)
        /\ Range(groups[e]) \subseteq Range(Rows)
    BY GroupsAreReported
  <2>2. ToldOnce(Range(groups[e]))
    BY <2>1, BatchIsNewest DEF ToldOnce
  <2>3. Aggregates(groups[e]) = ReferenceCells(Range(groups[e]))
    BY <2>1, <2>2, CompiledCells
  <2> QED
    BY <2>1, <2>3, CompiledForIsGroup
<1>2. ASSUME NEW e \in Places, NEW d \in Places, NEW o \in Reported(e), NEW p \in Reported(d), o.id = p.id
      PROVE  o = p /\ e = d
  <2>1. o \in Range(Rows) /\ identities[o.id] = e
    BY GroupsAreReported
  <2>2. p \in Range(Rows) /\ identities[p.id] = d
    BY GroupsAreReported
  <2>3. ToldOnce(Range(Rows))
    BY BatchIsNewest
  <2> QED
    BY <1>2, <2>1, <2>2, <2>3 DEF ToldOnce
<1> QED
  BY <1>1, <1>2 DEF CompiledIsReference

(* Every cell of the batch is an aggregate row and no newer than the batch.*)
LEMMA CompiledRows ==
    ASSUME CompInv, phase = "compiled", NEW e \in Places
    PROVE  /\ Aggregates(groups[e]) \subseteq Aggregate /\ IsFiniteSet(Aggregates(groups[e]))
           /\ \A a \in Aggregates(groups[e]) : a.last <= Produced(Rows)
<1>1. groups[e] \in Seq(Observation) /\ Range(groups[e]) \subseteq Range(Rows)
  BY GroupsAreReported
<1>2. /\ ToldOnce(Range(Rows)) /\ Produced(Rows) \in Nat
      /\ \A o \in Range(Rows) : o.at <= Produced(Rows)
  BY BatchIsNewest
<1>3. ToldOnce(Range(groups[e])) /\ \A o \in Range(groups[e]) : o.at <= Produced(Rows)
  BY <1>1, <1>2 DEF ToldOnce
<1> QED
  BY <1>1, <1>2, <1>3, CellsAreRows

LEMMA CompiledAgesOnly == CompInv => CompiledIsAccepted
<1> SUFFICES ASSUME CompInv, phase = "compiled", NEW now \in 0..batch.produced + BatchMaxAge,
                    TimelyBatch(batch, now)
             PROVE  ValidBatch(batch, now)
  BY DEF CompiledIsAccepted
<1> PICK p : p = Produced(Rows)
  OBVIOUS
<1>1. /\ batch = Assembled(p) /\ ValidBatch(batch, p)
      /\ p \in Nat /\ FutureTolerance \in Nat
  BY BatchIsNewest, PolicyAssumption DEF CompInv, BatchSound
<1>2. batch.produced = p /\ now \in Int /\ p <= now + FutureTolerance
  BY <1>1 DEF Assembled, TimelyBatch
<1>3. ASSUME NEW A, A \subseteq Aggregate, \A a \in A : a.last <= p, ValidAggregates(A, p)
      PROVE  ValidAggregates(A, now)
  <2>1. ASSUME NEW a \in A PROVE a.count > 0 /\ a.last <= now + FutureTolerance
    <3>1. a.last \in Nat /\ a.last <= p /\ a.count > 0
      BY <1>3 DEF Aggregate, ValidAggregates
    <3> QED
      BY <1>1, <1>2, <3>1
  <2> QED
    BY <1>3, <2>1 DEF ValidAggregates
<1>4. batch.aggregates \subseteq Aggregate /\ \A a \in batch.aggregates : a.last <= p
  BY <1>1, CompiledRows DEF Assembled, Places
<1>5. ASSUME NEW e \in DOMAIN batch.environments
      PROVE  /\ batch.environments[e].aggregates \subseteq Aggregate
             /\ \A a \in batch.environments[e].aggregates : a.last <= p
  <2>1. e \in Places /\ batch.environments[e].aggregates = Aggregates(groups[e])
    BY <1>1 DEF Assembled, Places
  <2> QED
    BY <2>1, CompiledRows
<1>6. /\ batch.aggregates # {} \/ DOMAIN batch.environments # {}
      /\ ValidAggregates(batch.aggregates, p)
      /\ Cardinality(DOMAIN batch.environments) <= MaxEnvironments
      /\ \A e \in DOMAIN batch.environments :
            /\ batch.environments[e].id = batch.id /\ batch.environments[e].produced = batch.produced
            /\ batch.environments[e].aggregates # {}
            /\ ValidAggregates(batch.environments[e].aggregates, p)
      /\ RowCount(batch) <= MaxKeys
  BY <1>1, Zenon DEF ValidBatch
<1>7. ValidAggregates(batch.aggregates, now)
  BY <1>3, <1>4, <1>6
<1>8. \A e \in DOMAIN batch.environments : ValidAggregates(batch.environments[e].aggregates, now)
  BY <1>3, <1>5, <1>6
<1> QED
  BY <1>6, <1>7, <1>8, Zenon DEF ValidBatch

(* What a backend takes for granted of a batch that it is given.           *)
Shaped(b) ==
    /\ b.id \in Nat /\ b.produced \in Nat
    /\ b.aggregates \subseteq Aggregate /\ IsFiniteSet(b.aggregates)
    /\ DOMAIN b.environments \subseteq Envs /\ IsFiniteSet(DOMAIN b.environments)
    /\ \A e \in DOMAIN b.environments :
          /\ b.environments[e].id = b.id /\ b.environments[e].produced = b.produced
          /\ b.environments[e].aggregates \subseteq Aggregate
          /\ IsFiniteSet(b.environments[e].aggregates)

CompiledIsShaped == phase = "compiled" => Shaped(batch)

LEMMA CompiledHasShape == CompInv => CompiledIsShaped
<1> SUFFICES ASSUME CompInv, phase = "compiled" PROVE Shaped(batch)
  BY DEF CompiledIsShaped
<1> PICK p, b : p = Produced(Rows) /\ b = batch
  OBVIOUS
<1>1. b = Assembled(p) /\ p \in Nat /\ RunId \in Nat
  BY BatchIsNewest, CompilationAssumption DEF CompInv, BatchSound
<1>2. /\ b.id = RunId /\ b.produced = p /\ b.aggregates = Aggregates(groups[NoEnvironment])
      /\ DOMAIN b.environments = {x \in Envs : groups[x] # << >>}
      /\ \A e \in DOMAIN b.environments :
            /\ b.environments[e].id = RunId /\ b.environments[e].produced = p
            /\ b.environments[e].aggregates = Aggregates(groups[e])
  BY <1>1 DEF Assembled
<1>3. \A e \in Envs : e \in Places
  BY DEF Places
<1>4. NoEnvironment \in Places
  BY DEF Places
<1>5. IsFiniteSet(DOMAIN b.environments)
  <2> PICK L : L = Len(artifacts)
    OBVIOUS
  <2> DEFINE met == {artifacts[k].environment : k \in 1..L}
             h == [k \in 1..L |-> artifacts[k].environment]
  <2>1. /\ L \in Nat /\ grouped = L /\ groups \in [Places -> Seq(Observation)]
    BY DEF CompInv, CompTypes, BatchSound
  <2>2. ASSUME NEW e \in DOMAIN b.environments PROVE e \in met
    <3>1. e \in Places /\ groups[e] \in Seq(Observation) /\ groups[e] # << >>
      BY <1>2, <1>3, <2>1
    <3>2. groups[e][1] \in Observation /\ groups[e][1] \in Range(groups[e])
      <4>1. 1 \in DOMAIN groups[e]
        BY <3>1
      <4> QED
        BY <3>1, <4>1 DEF Range
    <3>3. \E k \in 1..grouped : artifacts[k].environment = e
      BY <3>1, <3>2 DEF CompInv, GroupSound
    <3> QED
      BY <2>1, <3>3
  <2>3. IsFiniteSet(1..L)
    BY <2>1, FS_Interval
  <2>4. h \in [1..L -> met] /\ \A y \in met : \E k \in 1..L : h[k] = y
    OBVIOUS
  <2> HIDE DEF met, h
  <2>5. IsFiniteSet(met)
    BY <2>3, <2>4, ImageIsFinite
  <2>6. DOMAIN b.environments \in SUBSET met
    BY <2>2
  <2> QED
    BY <2>5, <2>6, FS_Subset
<1>6. b.aggregates \subseteq Aggregate /\ IsFiniteSet(b.aggregates)
  BY <1>2, <1>4, CompiledRows
<1>7. \A e \in DOMAIN b.environments :
         b.environments[e].aggregates \subseteq Aggregate /\ IsFiniteSet(b.environments[e].aggregates)
  BY <1>2, <1>3, CompiledRows
<1> QED
  BY <1>1, <1>2, <1>5, <1>6, <1>7 DEF Shaped

(* Whatever files a run downloads, in whatever order, and however often    *)
(* they repeat an execution: a compiled batch counts each execution of a   *)
(* key, day and environment once (compile_measurements).                   *)
THEOREM CompiledCountsOnce == SpecCompilation => []CompiledIsReference
  BY CompiledInductive, CompiledCounts, PTL

(* ObservationBatch::validate refuses a compiled batch for its age only,   *)
(* whenever a backend gets it.                                             *)
THEOREM CompiledAlwaysAccepted == SpecCompilation => []CompiledIsAccepted
  BY CompiledInductive, CompiledAgesOnly, PTL

(* A compiled batch has the shape that the models of the backends take for *)
(* granted of their batches: their assumption on a batch is met here.      *)
THEOREM CompiledAlwaysShaped == SpecCompilation => []CompiledIsShaped
  BY CompiledInductive, CompiledHasShape, PTL
==============================================================================
