---------------------------- MODULE ModelHistory ----------------------------
(***************************************************************************)
(* The life of one ModelState with runner environments: batches arrive in  *)
(* any order, each applied with the clock its request read (which may lag, *)
(* the request having waited), and predictions are projected at any time.  *)
(* HistoryWorker shows that concurrent requests amount to such a sequence; *)
(* here the sequence is studied with everything apply_batch and            *)
(* project_predictions do to the children of a model.                      *)
(***************************************************************************)
EXTENDS BatchReference

CONSTANTS
    Batches,   \* the batches that may be applied
    Lag,       \* bound: how far a request's clock may be behind
    MaxClock   \* bound: the last tick of the clock

ChildBatches ==
    UNION {{b.environments[e] : e \in DOMAIN b.environments} : b \in Batches}

ASSUME HistoryAssumption ==
    /\ Lag \in Nat /\ MaxClock \in Nat
    /\ ReceiptRetention >= BatchMaxAge
    /\ \A b \in Batches :
          /\ b.id \in Nat /\ b.produced \in Nat
          /\ b.aggregates \subseteq Aggregate /\ IsFiniteSet(b.aggregates)
          /\ DOMAIN b.environments \subseteq Envs /\ IsFiniteSet(DOMAIN b.environments)
          /\ \A e \in DOMAIN b.environments :
                /\ b.environments[e].aggregates \subseteq Aggregate
                /\ IsFiniteSet(b.environments[e].aggregates)
    /\ \A b, c \in Batches : OneReport(b, c)
    /\ NoModel \notin ModelState({Receipt(b) : b \in Batches}, {Receipt(b) : b \in ChildBatches})
    /\ NoModel \notin Leaf({Receipt(b) : b \in ChildBatches})

VARIABLES
    model,    \* the ModelState, or NoModel
    clock,
    applied   \* history: the batches the model has learned

vars == <<model, clock, applied>>

Init == model = NoModel /\ clock = 0 /\ applied = {}

RequestTimes == Minus(clock, Lag)..clock

Apply(b, now) ==
    /\ Outcome(model, b, now) = "applied"
    /\ model' = ApplyBatch(model, b, now)
    /\ applied' = applied \cup {b}
    /\ UNCHANGED clock

Tick ==
    /\ clock < MaxClock
    /\ clock' = clock + 1
    /\ UNCHANGED <<model, applied>>

Next == Tick \/ \E b \in Batches, now \in RequestTimes : Apply(b, now)

Spec == Init /\ [][Next]_vars

------------------------------------------------------------------------------
(* Type invariant. *)
TypeOK ==
    /\ model \in {NoModel} \cup
         ModelState({Receipt(b) : b \in Batches}, {Receipt(b) : b \in ChildBatches})
    /\ clock \in 0..MaxClock
    /\ applied \subseteq Batches

Learned == model # NoModel

(* No sequence of batches leads to a model that its own validation would   *)
(* call corrupt: once the checks before the merge have passed, only the    *)
(* limits on keys and environments can refuse it.                          *)
OnlyLimitsRefuse ==
    \A b \in Batches, now \in RequestTimes :
       LET m == ModelOrFresh(model, now)
           next == Merged(m, b, now)
       IN  /\ Outcome(model, b, now) # "invalid" \/ ~ValidBatch(b, now)
           /\ Outcome(model, b, now) = "exceeds" =>
                \/ KeyCount(next) > MaxKeys
                \/ Cardinality(Present(next)) > MaxEnvironments

(* A child never disagrees with its parent about a batch: what the parent  *)
(* has not learned, expired or refused, no child has, so a batch is never  *)
(* half learned and never refused for a child's sake.                      *)
ChildrenAgree ==
    Learned =>
      \A b \in Batches, now \in RequestTimes :
         ValidBatch(b, now) /\ OwnOutcome(model.own, b, now) = "applied" =>
           \A e \in DOMAIN b.environments :
              OwnOutcome(ChildOf(model, e, now), b.environments[e], now)
                \in {"applied", "overflow"}

(* What one environment has learned is a function of the batches that were *)
(* applied and of the pruning day, not of their order, nor of what other   *)
(* environments learned meanwhile, nor of profiles that were emptied and   *)
(* came back.                                                              *)
OfEnvironment(e) ==
    {b.environments[e] : b \in {x \in applied : e \in DOMAIN x.environments}}

Within(rows, today, Date(_)) == {x \in rows : InHorizon(Date(x), today)}

EnvironmentsAreReference ==
    Learned =>
      \A e \in Envs :
         LET child == ChildOf(model, e, clock)
             today == Later(model.own.pruningDay, child.pruningDay)
             own == OfEnvironment(e)
         IN  /\ Within(child.buckets, today, LAMBDA x : x.day)
                  = ReferenceBuckets(own, today)
             /\ Within(child.recents, today, LAMBDA x : DayOf(x.at))
                  = ReferenceRecents(own, today)

(* The keys that only environments have learned.  MaxKeys counts them once *)
(* per environment in the model, but once more in the table, as the pooled *)
(* rows that project_predictions adds.                                     *)
PooledAnew ==
    (UNION {KeysOf(model.environments[e].buckets) : e \in Present(model)})
      \ KeysOf(model.own.buckets)

(* A table that is projected is refused by PredictionTable::validate for   *)
(* nothing but its number of rows (each row counts observations, outlives  *)
(* its last one, no average divides by zero), and for that only when the   *)
(* pooled rows of such keys no longer fit beside the keys of the model.    *)
OnlyPooledRowsRefuse ==
    Learned =>
       LET table == ProjectPredictions(model, clock)
       IN  /\ ValidRows(table)
           /\ KeyCount(model) + Cardinality(PooledAnew) <= MaxKeys => ValidTable(table)

(* A pooled estimate never leaves the estimates it averages.               *)
PooledIsBetween ==
    Learned =>
      LET own == LeafRows(model.own, clock)
          byEnv == EnvironmentRows(model, clock)
      IN  \A k \in PooledKeys(own, byEnv) :
            LET es == {byEnv[e][k].estimate : e \in Contributors(own, byEnv, k)}
                pooled == PooledRow(model, own, byEnv, k).estimate
            IN  (\E x \in es : x <= pooled) /\ (\E x \in es : pooled <= x)

(* docs/prediction-model-spec.md:142: a runner profile that is too old for *)
(* the recent pool is left out of the pooled average and of its range.     *)
RangeIsOfThePool ==
    Learned =>
      LET own == LeafRows(model.own, clock)
          byEnv == EnvironmentRows(model, clock)
          table == ProjectPredictions(model, clock)
      IN  \A k \in PooledKeys(own, byEnv) :
            RangeEnvironments(table, k, clock) = Contributors(own, byEnv, k)
==============================================================================
