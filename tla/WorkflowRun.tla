----------------------------- MODULE WorkflowRun -----------------------------
(***************************************************************************)
(* One workflow run of a consumer, over the attempts GitHub lets its users *)
(* start: the affected Action plans the affected work items into           *)
(* assignments and stores the Plan as an artifact, one run job per         *)
(* assignment selects its items from that artifact and executes them in    *)
(* order, and the status Action decides from the job results whether the   *)
(* run is green and, if so, hands the measurements to history.             *)
(*                                                                         *)
(* GitHub is external: it skips, cancels and re-runs jobs, keeps the       *)
(* outputs and results of the jobs it does not re-run, and lets artifacts  *)
(* expire.  `gate' is a job of the consumer that the run job needs too.    *)
(***************************************************************************)
EXTENDS Naturals, Sequences, FiniteSets, Functions

CONSTANTS
    Item,        \* work items: (group, workspace, task, shard)
    Assignment,  \* assignment IDs
    Layout,      \* ways to order items into assignments
    MaxAttempts, \* bound: attempts of the run
    NoPlan

(* A Plan is named by the attempt that produced it and the digest of its   *)
(* bytes, here its layout.                                                 *)
PlanReference == [producer : Nat, layout : Layout]

ASSUME WorkflowAssumption ==
    /\ Layout \subseteq [Assignment -> Seq(Item)]
    /\ MaxAttempts \in Nat
    /\ NoPlan \notin PlanReference

VARIABLES
    work,     \* the affected work items: a function of base and head
    needs,    \* the jobs whose results the status job sees
    attempt,  \* the attempt of the run
    affected, \* result of the planning job
    gate,     \* result of the consumer's gate job
    plan,     \* the Plan reference among the outputs of the planning job
    stored,   \* Plans in the artifacts of the run, named by producer attempt
    leg,      \* per assignment: the run job that executes it
    status,   \* the status job
    samples,  \* measurement artifacts of the run
    executed, \* history: successful executions
    learned   \* history: batches that reached the history backend

jobs == <<affected, gate, leg, status>>
vars == <<work, needs, attempt, plan, stored, samples, executed, learned, jobs>>

ItemsOf(l) == UNION {Range(l[a]) : a \in Assignment}

(* What Plan::validate and the scheduler guarantee of a Plan: every        *)
(* affected item is in it, once.                                           *)
Plans(l) ==
    /\ ItemsOf(l) = work
    /\ \A a, b \in Assignment : \A i \in DOMAIN l[a], j \in DOMAIN l[b] :
          l[a][i] = l[b][j] => a = b /\ i = j

NoLeg == [pc |-> "absent", items |-> << >>, done |-> 0]
Queued == [NoLeg EXCEPT !.pc = "queued"]
Ended == {"success", "failure", "cancelled"}

Init ==
    /\ work \in {ItemsOf(l) : l \in Layout}
    /\ needs \in {{"affected", "run"}, {"affected", "gate", "run"}}
    /\ attempt = 1
    /\ affected = "queued" /\ gate = "queued" /\ status = "queued"
    /\ plan = NoPlan /\ stored = {}
    /\ leg = [a \in Assignment |-> NoLeg]
    /\ samples = {} /\ executed = {} /\ learned = {}

------------------------------------------------------------------------------
(* The planning job.  Which layout it picks depends on the predictions it  *)
(* could load in time; a warm Plan replaces the cold one as a whole, file  *)
(* and reference, before anything is uploaded.                             *)
PlanOf(l) == [producer |-> attempt, layout |-> l]

Plan(l) ==
    /\ affected = "queued"
    /\ Plans(l)
    /\ affected' = "success"
    /\ plan' = PlanOf(l)
    /\ stored' = stored \cup {PlanOf(l)}
    /\ leg' = [a \in Assignment |-> IF l[a] = << >> THEN NoLeg ELSE Queued]
    /\ UNCHANGED <<work, needs, attempt, gate, status, samples, executed, learned>>

(* The job fails before it has outputs, or after: the upload of the Plan.  *)
PlanFails ==
    /\ affected = "queued"
    /\ affected' = "failure"
    /\ plan' \in {NoPlan} \cup {PlanOf(l) : l \in {m \in Layout : Plans(m)}}
    /\ UNCHANGED <<work, needs, attempt, gate, status, stored, leg, samples,
                   executed, learned>>

GateEnds ==
    /\ gate = "queued"
    /\ gate' \in {"success", "failure", "skipped"}
    /\ UNCHANGED <<work, needs, attempt, affected, plan, stored, leg, status,
                   samples, executed, learned>>

------------------------------------------------------------------------------
(* The run job of one assignment.  has_change is an output of planning.    *)
HasChange == plan # NoPlan /\ ItemsOf(plan.layout) # {}

RunStarts == affected = "success" /\ gate = "success" /\ HasChange

(* A mutant: any Plan of the run will do. *)
SelectableOfRun(p) == p.producer <= attempt

(* The artifact is named by run and producer attempt, its bytes are those  *)
(* of the reference, and it was not produced by a later attempt.           *)
Selectable(p) ==
    /\ p.producer = plan.producer
    /\ p = plan
    /\ p.producer <= attempt

(* The assignment file of a job: its items, in their order.                *)
SelectAssignment(p, a) == [pc |-> "running", items |-> p.layout[a], done |-> 0]

Prepare(a) ==
    /\ RunStarts /\ leg[a].pc = "queued"
    /\ \E p \in stored :
          /\ Selectable(p)
          /\ leg' = [leg EXCEPT ![a] = SelectAssignment(p, a)]
    /\ UNCHANGED <<work, needs, attempt, affected, gate, plan, stored, status,
                   samples, executed, learned>>

(* The artifact is gone or does not match, or the checkout, the            *)
(* installation or a later validation of the assignment fails.             *)
PrepareFails(a) ==
    /\ RunStarts /\ leg[a].pc = "queued"
    /\ leg' = [leg EXCEPT ![a].pc = "failure"]
    /\ UNCHANGED <<work, needs, attempt, affected, gate, plan, stored, status,
                   samples, executed, learned>>

Execution(i, a) == [item |-> i, attempt |-> attempt, leg |-> a]

(* A mutant: the exit code decides. *)
SucceedsByExitCode(outcome) == outcome \in {"executed", "nothing"}

(* An item that executed nothing is a failure, although the command exits  *)
(* with 0.                                                                 *)
Succeeds(outcome) == outcome = "executed"

RunItem(a, outcome) ==
    /\ leg[a].pc = "running" /\ leg[a].done < Len(leg[a].items)
    /\ leg' = IF Succeeds(outcome)
              THEN [leg EXCEPT ![a].done = @ + 1]
              ELSE [leg EXCEPT ![a].pc = "failure"]
    /\ executed' = IF outcome = "executed"
                   THEN executed \cup {Execution(leg[a].items[leg[a].done + 1], a)}
                   ELSE executed
    /\ UNCHANGED <<work, needs, attempt, affected, gate, plan, stored, status,
                   samples, learned>>

(* The executions of this job, uploaded when all of its items succeeded.   *)
Sample(a) ==
    [ attempt |-> attempt, leg |-> a,
      executions |-> {Execution(i, a) : i \in Range(leg[a].items)} ]

(* The upload of the measurements may fail; the job does not.              *)
Finish(a) ==
    /\ leg[a].pc = "running" /\ leg[a].done = Len(leg[a].items)
    /\ leg' = [leg EXCEPT ![a].pc = "success"]
    /\ samples' \in {samples, samples \cup {Sample(a)}}
    /\ UNCHANGED <<work, needs, attempt, affected, gate, plan, stored, status,
                   executed, learned>>

(* A user cancels, a time limit is hit or the runner is lost.              *)
Cancel(a) ==
    /\ RunStarts /\ leg[a].pc \in {"queued", "running"}
    /\ leg' = [leg EXCEPT ![a].pc = "cancelled"]
    /\ UNCHANGED <<work, needs, attempt, affected, gate, plan, stored, status,
                   samples, executed, learned>>

------------------------------------------------------------------------------
(* The status job: `if: always()', after every job it needs.               *)
Legs == {a \in Assignment : leg[a].pc # "absent"}

RunResult ==
    CASE ~RunStarts                                     -> "skipped"
      [] \E a \in Legs : leg[a].pc = "failure"          -> "failure"
      [] (\A a \in Legs : leg[a].pc # "failure")
         /\ \E a \in Legs : leg[a].pc = "cancelled"     -> "cancelled"
      [] OTHER                                          -> "success"

Result == [affected |-> affected, gate |-> gate, run |-> RunResult]

JobsEnded ==
    /\ affected # "queued" /\ gate # "queued"
    /\ RunStarts => \A a \in Legs : leg[a].pc \in Ended

(* A mutant: nothing is required beyond what the caller lists. *)
RequiredAsListed == {}

(* Jobs that must have succeeded: when planning found work, every job but  *)
(* the planning job, and the run job if no other is seen.                  *)
RequiredJobs ==
    IF ~HasChange THEN {}
    ELSE IF needs \ {"affected"} = {} THEN {"run"}
    ELSE needs \ {"affected"}

Green ==
    /\ \A j \in RequiredJobs : j \in needs /\ Result[j] = "success"
    /\ \A j \in needs : Result[j] \in {"success", "skipped"}

(* A mutant: the job only starts when what it needs succeeded. *)
EvaluateUnlessFailed ==
    /\ status = "queued" /\ JobsEnded
    /\ \A j \in needs : Result[j] # "failure"
    /\ status' = IF Green THEN IF HasChange THEN "publishing" ELSE "success"
                 ELSE "failure"
    /\ UNCHANGED <<work, needs, attempt, affected, gate, plan, stored, leg,
                   samples, executed, learned>>

Evaluate ==
    /\ status = "queued" /\ JobsEnded
    /\ status' = IF Green THEN IF HasChange THEN "publishing" ELSE "success"
                 ELSE "failure"
    /\ UNCHANGED <<work, needs, attempt, affected, gate, plan, stored, leg,
                   samples, executed, learned>>

(* A mutant: the measurements of all attempts. *)
SamplesOfRun == samples

CurrentSamples == {s \in samples : s.attempt = attempt}

(* The last steps of the status job compile what could be downloaded of    *)
(* this attempt's measurements into one batch; their failure changes no    *)
(* result.                                                                 *)
Publish ==
    /\ status = "publishing"
    /\ status' = "success"
    /\ \E got \in SUBSET CurrentSamples :
          learned' = IF got = {} THEN learned
                     ELSE learned \cup
                          {[ attempt |-> attempt,
                             executions |-> UNION {s.executions : s \in got} ]}
    /\ UNCHANGED <<work, needs, attempt, affected, gate, plan, stored, leg,
                   samples, executed>>

------------------------------------------------------------------------------
(* A new attempt.  "Re-run failed jobs" keeps what succeeded and re-runs   *)
(* the rest and what depends on it; a skipped job stays skipped.           *)
RerunFailed ==
    /\ status = "failure" /\ attempt < MaxAttempts
    /\ attempt' = attempt + 1
    /\ status' = "queued"
    /\ gate' = IF gate = "failure" THEN "queued" ELSE gate
    /\ IF affected = "success"
       THEN /\ leg' = [a \in Assignment |->
                          IF leg[a].pc \in {"failure", "cancelled"} THEN Queued
                          ELSE leg[a]]
            /\ UNCHANGED <<affected, plan>>
       ELSE /\ affected' = "queued" /\ plan' = NoPlan
            /\ leg' = [a \in Assignment |-> NoLeg]
    /\ UNCHANGED <<work, needs, stored, samples, executed, learned>>

RerunAll ==
    /\ status \in {"success", "failure"} /\ attempt < MaxAttempts
    /\ attempt' = attempt + 1
    /\ affected' = "queued" /\ gate' = "queued" /\ status' = "queued"
    /\ plan' = NoPlan
    /\ leg' = [a \in Assignment |-> NoLeg]
    /\ UNCHANGED <<work, needs, stored, samples, executed, learned>>

PlanExpires ==
    /\ \E p \in stored : stored' = stored \ {p}
    /\ UNCHANGED <<work, needs, attempt, plan, samples, executed, learned, jobs>>

RunJob(a) ==
    \/ Prepare(a) \/ PrepareFails(a) \/ Finish(a)
    \/ \E outcome \in {"executed", "nothing", "error"} : RunItem(a, outcome)

JobStep ==
    \/ \E l \in Layout : Plan(l)
    \/ PlanFails \/ GateEnds \/ Evaluate \/ Publish
    \/ \E a \in Assignment : RunJob(a)

Next ==
    \/ JobStep
    \/ RerunFailed \/ RerunAll \/ PlanExpires
    \/ \E a \in Assignment : Cancel(a)

Spec == Init /\ [][Next]_vars /\ WF_vars(JobStep)

------------------------------------------------------------------------------
(* Type invariant.                                                         *)
TypeOK ==
    /\ work \subseteq Item
    /\ needs \subseteq {"affected", "gate", "run"}
    /\ attempt \in Nat
    /\ affected \in {"queued", "success", "failure"}
    /\ gate \in {"queued", "success", "failure", "skipped"}
    /\ status \in {"queued", "publishing", "success", "failure"}
    /\ plan \in PlanReference \cup {NoPlan}
    /\ stored \subseteq PlanReference
    /\ leg \in [Assignment ->
                  [ pc : {"absent", "queued", "running"} \cup Ended,
                    items : Seq(Item), done : Nat ]]
    /\ executed \subseteq [item : Item, attempt : Nat, leg : Assignment]
    /\ samples \subseteq [ attempt : Nat, leg : Assignment,
                           executions : SUBSET executed ]
    /\ learned \subseteq [attempt : Nat, executions : SUBSET executed]

(* A green run executed every affected item under the Plan it is green     *)
(* for: no skipped, cancelled or failed job, no re-run of some of the jobs *)
(* and no new Plan between attempts makes it green without.                *)
GreenMeansExecuted ==
    status \in {"publishing", "success"} =>
      /\ plan # NoPlan
      /\ \A i \in work : \E e \in executed :
            e.item = i /\ e.attempt \in plan.producer..attempt

(* Within an attempt no item is executed by two jobs, although re-run jobs *)
(* read a Plan that an earlier attempt stored and each attempt may plan    *)
(* another layout.                                                         *)
OneJobPerItem ==
    \A e, f \in executed :
       e.item = f.item /\ e.attempt = f.attempt => e = f

(* An execution is learned at most once, in the batch of the attempt it    *)
(* belongs to.                                                             *)
LearnedOnce ==
    /\ \A b \in learned : \A e \in b.executions : e.attempt = b.attempt
    /\ \A b, d \in learned : b # d => b.executions \cap d.executions = {}

(* Every attempt is judged, whatever fails in it, if jobs that can take a  *)
(* step eventually do.                                                     *)
EveryAttemptIsJudged ==
    \A n \in 1..MaxAttempts :
       (attempt = n) ~> (status \in {"success", "failure"} \/ attempt > n)
==============================================================================
