------------------------------ MODULE Scheduler ------------------------------
(***************************************************************************)
(* How the work items of a group become assignments: which items there     *)
(* are, what the prediction tables say of each, the placement that keeps   *)
(* the predicted makespan low, and the automatic choice of how many        *)
(* assignments to start.  No state: the affected Action (Planning) calls   *)
(* this once without history and, if history can change anything, again.   *)
(*                                                                         *)
(* Workspaces and tasks are numbered in the order of their names.  A table *)
(* is a function from prediction keys to milliseconds that holds the rows  *)
(* that have not expired; an index maps scopes to tables.                  *)
(***************************************************************************)
EXTENDS Naturals, FiniteSets, Sequences, SequencesExt, Orders

CONSTANTS
    Workspace,     \* a set of numbers
    Group,
    CheckoutPaths, \* per workspace, its own path and those its closure needs
    Refs,          \* refs of the prediction context, the nearest first
    Default,       \* the timingEnvironment input of the Action
    Unknown

(* [tasks, shards, ignored, environment, tiers] of a group: shards gives,  *)
(* for the workspaces with a rule for a task, the number of shards; tiers  *)
(* is empty without distribution.                                          *)
ASSUME SchedulerAssumption ==
    /\ Workspace \subseteq Nat /\ IsFiniteSet(Workspace)
    /\ \A w \in Workspace : w \in CheckoutPaths[w] /\ IsFiniteSet(CheckoutPaths[w])
    /\ Refs \in Seq(Range(Refs))

Lexically(a, b) ==
    \E k \in DOMAIN a : a[k] < b[k] /\ \A j \in 1..(k - 1) : a[j] = b[j]

------------------------------------------------------------------------------
(* The work items of a group: one per shard where a rule says so.          *)
ShardsOf(c, w, t) == IF <<w, t>> \in DOMAIN c.shards THEN c.shards[<<w, t>>] ELSE 0

(* Mutant: the last shard is left out.                                     *)
ShardsBefore(n) == IF n <= 1 THEN {0} ELSE 1..(n - 1)
Shards(n) == IF n = 0 THEN {0} ELSE 1..n

Filtered(c, affected) == affected \ c.ignored

Items(c, affected) ==
    UNION { {[name |-> w, task |-> t, shard |-> s, total |-> ShardsOf(c, w, t)] :
                s \in Shards(ShardsOf(c, w, t))} :
            w \in Filtered(c, affected), t \in c.tasks }

Tier(c, affected) ==
    LET within(tier) ==
            Cardinality(Filtered(c, affected)) * 100 <= tier.percent * Cardinality(Workspace)
    IN  CASE within(c.tiers[1]) -> c.tiers[1]
          [] ~within(c.tiers[1]) /\ within(c.tiers[2]) -> c.tiers[2]
          [] OTHER -> c.tiers[3]

Environment(c) == IF c.environment = Unknown THEN Default ELSE c.environment

(* A group whose layout history can change.                                *)
HistoryNeeded(c, affected) ==
    /\ c.tiers # << >>
    /\ Cardinality(Items(c, affected)) > 1
    /\ Tier(c, affected).concurrency > 1

------------------------------------------------------------------------------
(* Predictions: the nearest scope that has a row for the key.              *)
Scopes(g, environment) == {<<Refs[i], g, environment>> : i \in DOMAIN Refs}

Estimate(index, g, environment, key) ==
    LET scope(i) == <<Refs[i], g, environment>>
        known == {i \in DOMAIN Refs :
                    scope(i) \in DOMAIN index /\ key \in DOMAIN index[scope(i)]}
    IN  IF known = {} THEN Unknown
        ELSE index[scope(CHOOSE i \in known : \A j \in known : i <= j)][key]

ExactKey(i) == <<"exact", i.name, i.task, i.shard, i.total>>
FallbackKey(i) == <<"group", i.task, i.shard, i.total>>
PreparationKey(a) == <<"preparation", a.checkout, {i.name : i \in a.items}>>
AnyPreparation == <<"preparation">>

FirstKnown(one, other) == IF one # Unknown THEN one ELSE other

Predict(index, g, c, i) ==
    FirstKnown(Estimate(index, g, Environment(c), ExactKey(i)),
               Estimate(index, g, Environment(c), FallbackKey(i)))

(* A cold item counts as one millisecond.                                  *)
Weight(index, g, c, i) == FirstKnown(Predict(index, g, c, i), 1)

Preparation(index, g, c, a) ==
    FirstKnown(Estimate(index, g, Environment(c), PreparationKey(a)),
               Estimate(index, g, Environment(c), AnyPreparation))

------------------------------------------------------------------------------
(* Placement: longest first, each where the makespan, then the checkouts,  *)
(* then the load of its bucket stay smallest.                              *)
IdBefore(i, j) ==
    Lexically(<<i.name, i.task, i.shard, i.total>>, <<j.name, j.task, j.shard, j.total>>)

Largest(S) == CHOOSE x \in S : \A y \in S : y <= x

Empty(k) ==
    [id |-> k, items |-> {}, checkout |-> {}, load |-> 0, cold |-> 0,
     preparation |-> Unknown, mode |-> Unknown]

With(b, i, ms, cold) ==
    [b EXCEPT !.items = @ \cup {i},
              !.checkout = @ \cup CheckoutPaths[i.name],
              !.load = @ + ms,
              !.cold = @ + IF cold THEN 1 ELSE 0]

CheckoutTotal(buckets) ==
    SumOf([k \in DOMAIN buckets |-> Cardinality(buckets[k].checkout)], DOMAIN buckets)
Makespan(buckets) == Largest({buckets[k].load : k \in DOMAIN buckets})

(* Mutant: small checkouts before a small makespan.                        *)
PlaceByCheckout(buckets, i, ms, cold) ==
    LET placed(k) == [buckets EXCEPT ![k] = With(@, i, ms, cold)]
        cost == [k \in DOMAIN buckets |->
                   <<CheckoutTotal(placed(k)), Makespan(placed(k)), placed(k)[k].load, k>>]
    IN  placed(CHOOSE k \in DOMAIN buckets :
                 \A j \in DOMAIN buckets \ {k} : Lexically(cost[k], cost[j]))

Place(buckets, i, ms, cold) ==
    LET placed(k) == [buckets EXCEPT ![k] = With(@, i, ms, cold)]
        cost == [k \in DOMAIN buckets |->
                   <<Makespan(placed(k)), CheckoutTotal(placed(k)), placed(k)[k].load, k>>]
    IN  placed(CHOOSE k \in DOMAIN buckets :
                 \A j \in DOMAIN buckets \ {k} : Lexically(cost[k], cost[j]))

Min2(a, b) == IF a < b THEN a ELSE b

(* The longest item first, equal ones by their IDs.                        *)
LongestFirst(weight) ==
    LET ahead(i, j) == weight[i] > weight[j] \/ (weight[i] = weight[j] /\ IdBefore(i, j))
    IN  Sorted([j \in DOMAIN weight |-> Cardinality({i \in DOMAIN weight : ahead(i, j)})])

(* The items of weight over m buckets; cold is what no table knows.        *)
Distribute(weight, cold, m) ==
    LET order == LongestFirst(weight)
        placed[n \in 0..Cardinality(DOMAIN weight)] ==
            IF n = 0 THEN [k \in 1..m |-> Empty(k)]
            ELSE Place(placed[n - 1], order[n], weight[order[n]], order[n] \in cold)
    IN  placed[Cardinality(DOMAIN weight)]

Assign(index, g, c, items, concurrency) ==
    Distribute([i \in items |-> Weight(index, g, c, i)],
               {i \in items : Predict(index, g, c, i) = Unknown},
               Min2(concurrency, Cardinality(items)))

(* The buckets that got an item (the Go scheduler; see the README for the  *)
(* Rust one).                                                              *)
Filled(buckets) == {buckets[k] : k \in {k \in DOMAIN buckets : buckets[k].items # {}}}

------------------------------------------------------------------------------
(* How many assignments: every power of two and every tier's concurrency   *)
(* up to the selected one, compared with their preparations.               *)
Candidates(c, cap) ==
    {1, cap} \cup {n \in 1..cap : \/ \E k \in 1..cap : n = 2^k
                                  \/ \E t \in DOMAIN c.tiers : n = c.tiers[t].concurrency}

Prepared(index, g, c, assignments) ==
    {[a EXCEPT !.preparation = Preparation(index, g, c, a)] : a \in assignments}

Wall(a) == a.load + FirstKnown(a.preparation, 0)

Score(assignments) ==
    << Largest({Wall(a) : a \in assignments}),
       SumOf([a \in assignments |-> Wall(a)], assignments),
       SumOf([a \in assignments |-> Cardinality(a.checkout)], assignments),
       Cardinality(assignments) >>

(* Mutant: a layout with a few cold items counts as learned.               *)
LearnedMostly(assignments) == \E a \in assignments : a.cold = 0 /\ a.preparation # Unknown

Learned(assignments) == \A a \in assignments : a.cold = 0 /\ a.preparation # Unknown

(* Every layout the scheduler may choose: one, or several that only the    *)
(* text of their IDs tells apart.                                          *)
Schedules(index, g, c, items, concurrency) ==
    LET cap == Min2(concurrency, Cardinality(items))
        layout == [n \in Candidates(c, cap) |->
                     Prepared(index, g, c, Filled(Assign(index, g, c, items, n)))]
        best == {n \in DOMAIN layout :
                   \A m \in DOMAIN layout : ~Lexically(Score(layout[m]), Score(layout[n]))}
        marked(n, mode) == {[a EXCEPT !.mode = mode] : a \in layout[n]}
    IN  IF items = {} THEN {{}}
        ELSE IF \A n \in DOMAIN layout : Learned(layout[n])
             THEN {marked(n, "automatic") : n \in best}
             ELSE {marked(cap, "cold-cap")}
==============================================================================
