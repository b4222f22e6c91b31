------------------------------ MODULE Planning ------------------------------
(***************************************************************************)
(* The affected Action (scheduler off or artifact): it resolves the        *)
(* revision (Revision), calculates the affected work items and writes a    *)
(* Plan without history.  If history can change the Plan it reads          *)
(* prediction tables under a shared budget and lets a second nanoom write  *)
(* a Plan with them; whatever goes wrong there leaves the first Plan in    *)
(* place.  Then it publishes a bounded reference, which the run jobs use   *)
(* to select their assignments from the Plan file.                         *)
(*                                                                         *)
(* Which workspaces a change affects is the matter of AffectedGraph: here  *)
(* it is any set.  The reader of an artifact bundle, the History Server    *)
(* and the clock that kills the second nanoom are external.                *)
(***************************************************************************)
EXTENDS Revision, Scheduler

CONSTANTS
    Configs, \* the configurations to plan for: [Group -> group configuration]
    Stored,  \* per ref, the table that history holds of a group, or Nil
    MaxRows  \* 256 in the code

GroupConfigs == UNION {Range(c) : c \in Configs}
Environments == {Environment(c) : c \in GroupConfigs}

(* What NanoomConfig::validate and the validation of tables leave.         *)
ASSUME PlanningAssumption ==
    /\ MaxRows \in Nat
    /\ \A c \in Configs : DOMAIN c = Group
    /\ \A c \in GroupConfigs :
          /\ c.tasks \subseteq Nat /\ IsFiniteSet(c.tasks)
          /\ \A s \in DOMAIN c.shards : c.shards[s] \in Nat
          /\ c.tiers # << >> => \A t \in 1..3 : c.tiers[t].concurrency \in Nat \ {0}
    /\ \A s \in Stored, i \in DOMAIN Refs :
          s[i] # Nil => \A key \in DOMAIN s[i] : s[i][key] \in Nat

VARIABLES
    config,   \* the configuration of the commit that is planned
    affected, \* the affected workspaces
    lineage,  \* [same, ancestor]: the diff starts at the base; history: the head
              \* contains the base, or tips were to be compared
    index,    \* the prediction tables that were read
    file,     \* the Plan file
    warm,     \* the file the second nanoom writes, which nobody else reads
    compact,  \* what the chosen nanoom printed
    outputs   \* outputs of the Action

planVars == <<config, affected, lineage, index, file, warm, compact, outputs>>
vars == <<phase, revisionVars, planVars>>

InitPlanning ==
    /\ Init
    /\ config = Nil /\ affected = {} /\ lineage = Nil /\ index = << >>
    /\ file = Nil /\ warm = Nil /\ compact = Nil /\ outputs = Nil

ResolveRevision == Resolve /\ UNCHANGED planVars

RefusePlan(why) == Refuse(why) /\ UNCHANGED planVars

(* calculate_with_override after the revision.  The history of commits is  *)
(* not looked at again.                                                    *)
Calculate ==
    /\ phase = "resolved"
    /\ phase' = "calculated"
    /\ config' \in Configs
    /\ affected' \in SUBSET Workspace
    /\ lineage' = [same |-> from = request.base,
                   ancestor |-> \/ request.mode = "tip"
                                \/ request.base \in Reach(request.parents, {}, request.head)]
    /\ request' = Nil /\ cut' = {} /\ depth' = 0 /\ from' = Nil
    /\ UNCHANGED <<reason, index, file, warm, compact, outputs>>

(* A manifest that is not checked out, an ambiguous runner.                *)
CalculateFails == phase = "resolved" /\ RefusePlan("calculation")

------------------------------------------------------------------------------
(* A Plan: per group, its assignments.                                     *)
ItemsOf(g) == Items(config[g], affected)

Numbered(g) ==
    LET items == ItemsOf(g)
        before(i, j) == Lexically(<<i.task, i.name, i.shard>>, <<j.task, j.name, j.shard>>)
        alone(i) == With(Empty(Cardinality({j \in items : before(j, i)}) + 1), i, 0, FALSE)
    IN  {alone(i) : i \in items}

Layouts(g, tables) ==
    IF config[g].tiers = << >> THEN {Numbered(g)}
    ELSE Schedules(tables, g, config[g], ItemsOf(g), Tier(config[g], affected).concurrency)

Plans(tables) ==
    LET layouts == [g \in Group |-> Layouts(g, tables)]
    IN  {p \in [Group -> UNION Range(layouts)] : \A g \in Group : p[g] \in layouts[g]}

(* Plan::validate.                                                         *)
Valid(plan) ==
    /\ \A g \in Group : \A a, b \in plan[g] :
          /\ a.id = b.id => a = b
          /\ a.items \cap b.items # {} => a = b
    /\ \A g \in Group : \A a \in plan[g] :
          /\ a.items # {} /\ a.checkout # {}
          /\ a.mode \in {Unknown, "automatic", "cold-cap"}
          /\ \A i \in a.items :
                /\ i.name \in a.checkout
                /\ (i.shard = 0 /\ i.total = 0) \/ i.shard \in 1..i.total

(* What nanoom prints: a reference, the digest of the file included, and   *)
(* one matrix row per assignment.                                          *)
Rows(plan) == UNION {{<<g, a.id>> : a \in plan[g]} : g \in Group}
Printed(plan) == [plan |-> plan, rows |-> Rows(plan)]

(* Mutant: the base of the context is not compared with the resolved one.  *)
WritableForAnyBase(plan) ==
    Valid(plan) /\ \A g \in Group : Cardinality(plan[g]) <= MaxRows

(* write_affected_plan: every check comes before the file is written.      *)
Writable(plan) ==
    /\ lineage.same
    /\ Valid(plan)
    /\ \A g \in Group : Cardinality(plan[g]) <= MaxRows

NeedsHistory == {g \in Group : HistoryNeeded(config[g], affected)}

(* The first nanoom.  The workflow may have history switched off, or the   *)
(* event no prediction scope.                                              *)
WriteCold ==
    /\ phase = "calculated"
    /\ \E plan \in Plans(<< >>) :
          /\ Writable(plan)
          /\ file' = plan /\ compact' = Printed(plan)
    /\ phase' \in IF NeedsHistory = {} THEN {"publishing"}
                  ELSE {"publishing", "server", "bundle"}
    /\ UNCHANGED <<revisionVars, config, affected, lineage, index, warm, outputs>>

ColdFails ==
    /\ phase = "calculated"
    /\ \A plan \in Plans(<< >>) : ~Writable(plan)
    /\ RefusePlan(IF lineage.same THEN "rows" ELSE "revision")

------------------------------------------------------------------------------
(* History.  A server is asked for the scopes that the Plan's report       *)
(* names, all of the environment the Action was given; a bundle comes with *)
(* whatever its run had learned.                                           *)
IndexOf(stored, environment) ==
    LET slots == {s \in (DOMAIN stored) \X (DOMAIN Refs) : stored[s[1]][s[2]] # Nil}
        scope(s) == <<Refs[s[2]], s[1], environment[s[1]]>>
    IN  [x \in {scope(s) : s \in slots} |->
            LET s == CHOOSE s \in slots : scope(s) = x IN stored[s[1]][s[2]]]

Read(tables) ==
    /\ phase' = IF tables = << >> THEN "publishing" ELSE "warm"
    /\ index' = tables
    /\ UNCHANGED <<revisionVars, config, affected, lineage, file, warm, compact, outputs>>

ReadServer ==
    /\ phase = "server"
    /\ \E stored \in [NeedsHistory -> Stored] :
          Read(IndexOf(stored, [g \in NeedsHistory |-> Default]))

ReadBundle ==
    /\ phase = "bundle"
    /\ \E stored \in [NeedsHistory -> Stored], environment \in [NeedsHistory -> Environments] :
          Read(IndexOf(stored, environment))

(* Anything refused, late, or too large ends reading; nothing is tried     *)
(* again.                                                                  *)
KeepCold ==
    /\ phase' = "publishing"
    /\ index' = << >> /\ warm' = Nil
    /\ UNCHANGED <<revisionVars, config, affected, lineage, file, compact, outputs>>

ReadFails == phase \in {"server", "bundle"} /\ KeepCold

(* A table of another scope or one that does not parse: the second nanoom  *)
(* goes on without any.                                                    *)
ReadCorrupt ==
    /\ phase \in {"server", "bundle"}
    /\ phase' = "warm"
    /\ UNCHANGED <<revisionVars, planVars>>

(* Mutant: the second nanoom writes to the Plan file itself.               *)
WriteWarmInPlace ==
    /\ phase = "warm"
    /\ \E plan \in Plans(index) : Writable(plan) /\ warm' = plan /\ file' = plan
    /\ phase' = "written"
    /\ UNCHANGED <<revisionVars, config, affected, lineage, index, compact, outputs>>

(* The second nanoom runs under the rest of the budget: it may be killed   *)
(* before or after it wrote its file, or fail.                             *)
WriteWarm ==
    /\ phase = "warm"
    /\ \E plan \in Plans(index) : Writable(plan) /\ warm' = plan
    /\ phase' = "written"
    /\ UNCHANGED <<revisionVars, config, affected, lineage, index, file, compact, outputs>>

WarmFails == phase \in {"warm", "written"} /\ KeepCold

TakeWarm ==
    /\ phase = "written"
    /\ phase' = "publishing"
    /\ file' = warm /\ warm' = Nil
    /\ compact' = Printed(warm)
    /\ index' = << >>
    /\ UNCHANGED <<revisionVars, config, affected, lineage, outputs>>

------------------------------------------------------------------------------
Fits == Cardinality(compact.rows) <= MaxRows

Publish ==
    /\ phase = "publishing" /\ Fits
    /\ phase' = "published"
    /\ outputs' = compact
    /\ UNCHANGED <<revisionVars, config, affected, lineage, index, file, warm, compact>>

PublishFails == phase = "publishing" /\ ~Fits /\ RefusePlan("outputs")

Done == phase \in {"published", "refused"} /\ UNCHANGED vars

Next ==
    \/ ResolveRevision
    \/ Calculate \/ CalculateFails
    \/ WriteCold \/ ColdFails
    \/ ReadServer \/ ReadBundle \/ ReadFails \/ ReadCorrupt
    \/ WriteWarm \/ WarmFails \/ TakeWarm
    \/ Publish \/ PublishFails
    \/ Done

Spec == InitPlanning /\ [][Next]_vars

(***************************************************************************)
(* Properties.                                                             *)
(***************************************************************************)
Order == << "open", "compare", "last", "resolved", "calculated", "server", "bundle",
            "warm", "written", "publishing", "published", "refused" >>

PlanOf(p) ==
    p # Nil =>
       /\ DOMAIN p = Group
       /\ \A g \in Group : \A a \in p[g] :
             a.id \in Nat /\ a.load \in Nat /\ a.cold \in Nat /\ {i.name : i \in a.items} \subseteq Workspace

TypeOK ==
    /\ phase \in Range(Order)
    /\ request \in Requests \cup {Nil}
    /\ cut \subseteq Commit
    /\ depth \in 0..(IF request = Nil THEN 0 ELSE request.max)
    /\ from \in Commit \cup {Nil}
    /\ affected \subseteq Workspace
    /\ config \in Configs \cup {Nil}
    /\ PlanOf(file) /\ PlanOf(warm)
    /\ compact = Nil \/ compact = Printed(file)
    /\ outputs = IF phase = "published" THEN compact ELSE Nil

(* However little history the clone has, the diff starts at an ancestor of *)
(* both sides, and a Plan in merge-base mode is written only for a base    *)
(* that the head contains (Plan::from_affected compares the two).          *)
BaseIsSound ==
    /\ NothingIsLeftOut
    /\ file # Nil => lineage.ancestor

(* prepare's selection (PlanReference::validate and select_assignment).    *)
Selects(row) ==
    /\ outputs.plan = file
    /\ Valid(file)
    /\ \E a \in file[row[1]] : a.id = row[2]

(* Wherever the second nanoom is killed, the reference, the matrix and the *)
(* Plan file that the Action publishes are of one Plan: every run job of   *)
(* the matrix selects an assignment, and every assignment has a run job.   *)
PublishedTogether ==
    phase = "published" =>
       /\ \A row \in outputs.rows : Selects(row)
       /\ \A g \in Group : \A a \in file[g] : <<g, a.id>> \in outputs.rows

(* Cold or learned, a Plan that can be published executes every task of    *)
(* every affected workspace that the group does not ignore, each shard     *)
(* once, in an assignment that checks out what it needs; and nothing else. *)
EveryItemOnce ==
    phase = "publishing" =>
       \A g \in Group :
          LET placed == UNION {{<<a, i>> : i \in a.items} : a \in file[g]}
              shards(w, t) == {p \in placed : p[2].name = w /\ p[2].task = t}
              rule(w, t) == ShardsOf(config[g], w, t)
          IN  /\ \A p \in placed : CheckoutPaths[p[2].name] \subseteq p[1].checkout
              /\ \A w \in Workspace, t \in config[g].tasks :
                    IF w \in affected \ config[g].ignored
                    THEN /\ {p[2].shard : p \in shards(w, t)} =
                               IF rule(w, t) = 0 THEN {0} ELSE 1..rule(w, t)
                         /\ \A p, q \in shards(w, t) : p[2].shard = q[2].shard => p = q
                    ELSE shards(w, t) = {}

(* The groups of the learned Plan that the scheduler laid out.             *)
LaidOut == {g \in Group : config[g].tiers # << >> /\ warm[g] # {}}

(* The bound of list scheduling: with m assignments, the predicted         *)
(* makespan exceeds an even share by less than the longest item.  What     *)
(* the placement prefers among equal makespans must not break it.          *)
MakespanIsBounded ==
    phase = "written" =>
       \A g \in LaidOut :
          LET weight(i) == Weight(index, g, config[g], i)
              m == Cardinality(warm[g])
              longest == Largest({weight(i) : i \in ItemsOf(g)})
              load == SumOf([a \in warm[g] |-> a.load], warm[g])
          IN  /\ load = SumOf([i \in ItemsOf(g) |-> weight(i)], ItemsOf(g))
              /\ m * Largest({a.load : a \in warm[g]}) <= load + (m - 1) * longest

(* Fewer assignments than the configuration allows are started only on     *)
(* learned times: of every item, and of the preparation of every           *)
(* assignment.  And history never asks for more run jobs than the Plan     *)
(* without it, so that a Plan that fits the matrix is not lost to it.      *)
AutomaticIsLearned ==
    phase = "written" =>
       \A g \in LaidOut :
          /\ Cardinality(warm[g]) <= Cardinality(file[g])
          /\ \A a \in warm[g] :
                a.mode = "automatic" =>
                   /\ \A i \in a.items : Predict(index, g, config[g], i) # Unknown
                   /\ a.preparation # Unknown

(* The Action cannot go round in circles: every step either fetches more   *)
(* of the history, at most up to maxFetchDepth, or leads to a later phase. *)
(* With the deadlock check, which finds a step in every state but the last *)
(* ones, it ends.                                                          *)
Later(p, q) == \E i, j \in DOMAIN Order : i < j /\ Order[i] = p /\ Order[j] = q

EveryStepAdvances ==
    [][ \/ Later(phase, phase')
        \/ phase = "compare" /\ phase' = phase /\ depth < depth' /\ depth' <= request.max ]_vars

(* docs/adr/0011: the shallow history that the check for an ancestor and   *)
(* the merge base need is fetched, up to the configured maximum.  So a     *)
(* base that the head contains, in a history no longer than that, is not   *)
(* refused for want of history.                                            *)
AncestorIsPlanned ==
    phase = "refused" => ~(reason = "revision" /\ lineage.ancestor)
==============================================================================
