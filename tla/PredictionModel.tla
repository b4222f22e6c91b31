--------------------------- MODULE PredictionModel ---------------------------
(***************************************************************************)
(* The prediction model of crates/prediction-core: what one immutable      *)
(* ObservationBatch does to the ModelState of a scope (apply_batch), what  *)
(* a ModelState may look like (validate_model) and the PredictionTable     *)
(* that is served from it (project_predictions).                           *)
(*                                                                         *)
(* A ModelState is a relation: `buckets' holds the day buckets of every    *)
(* key, `recents' the recent-batch summaries of every key.  An entry of    *)
(* the code is the set of rows of one key; the cached prediction of an     *)
(* entry is a function of its rows (RecentPrediction) that every write     *)
(* path recomputes, so it is derived here where it is read.  Sorting gives *)
(* the code canonical bytes; sets have them for free.  A digest is         *)
(* injective: the digest of a batch is the batch.                          *)
(***************************************************************************)
EXTENDS Integers, FiniteSets, FiniteSetsExt, Orders

CONSTANTS
    Keys,             \* prediction keys (digests)
    Envs,             \* runner environments (fingerprints)
    Day,              \* DAY_MS, in ticks of the clock
    FutureTolerance,  \* FUTURE_TOLERANCE_MS
    BatchMaxAge,      \* BATCH_MAX_AGE_MS
    ReceiptRetention, \* RECEIPT_RETENTION_MS
    BucketHorizon,    \* BUCKET_HORIZON_DAYS
    MaxBuckets,       \* MAX_BUCKETS, day buckets kept per key
    MaxRecents,       \* the three newest batch summaries per key
    RecentWindow,     \* 7 * DAY_MS, the age at which a summary stops counting
    MaxReceipts,      \* MAX_RECEIPTS
    MaxKeys,          \* MAX_KEYS
    MaxEnvironments,  \* at most 32 runner environments per scope
    MaxSafe,          \* MAX_SAFE_INTEGER
    Weight(_),        \* 2^(-d/7), scaled to an integer
    NoModel           \* there is no ModelState yet

ASSUME PolicyAssumption ==
    /\ Day \in Nat \ {0}
    /\ {FutureTolerance, BatchMaxAge, ReceiptRetention, BucketHorizon,
        MaxBuckets, MaxRecents, RecentWindow, MaxReceipts, MaxKeys,
        MaxEnvironments, MaxSafe} \subseteq Nat
    /\ BucketHorizon > 0 /\ MaxBuckets > 0
    /\ \A days \in 0..BucketHorizon : Weight(days) \in Nat \ {0}

(* A mutant: the subtraction is not saturating. *)
MinusUnsaturated(a, b) == a - b

Minus(a, b) == IF a >= b THEN a - b ELSE 0      \* u64::saturating_sub
Later(a, b) == IF a >= b THEN a ELSE b          \* u64::max

(* The rows of a model.  A ModelState is its own rows and, per runner      *)
(* environment, the rows of a child model; children do not nest.           *)
Aggregate == [key : Keys, last : Nat, count : Nat, total : Nat]
Bucket == [key : Keys, day : Nat, count : Nat, total : Nat, last : Nat]
Recent == [key : Keys, at : Nat, id : Nat, mean : Nat]

Leaf(receipts) ==
    [ updatedAt : Nat, pruningDay : Nat, acceptAfter : Nat,
      buckets : SUBSET Bucket, recents : SUBSET Recent,
      receipts : SUBSET receipts ]

ModelState(receipts, childReceipts) ==
    [ own : Leaf(receipts),
      environments : [Envs -> Leaf(childReceipts) \cup {NoModel}] ]

Present(m) == {e \in Envs : m.environments[e] # NoModel}

DayOf(time) == time \div Day
AcceptAfter(now) == Minus(now, BatchMaxAge) + 1
Cutoff(today) == Minus(today, BucketHorizon - 1)

Plus(S, Value(_)) == SumOf([x \in S |-> Value(x)], S)    \* a sum over a set
KeysOf(rows) == {row.key : row \in rows}
OfKey(rows, key) == {row \in rows : row.key = key}

------------------------------------------------------------------------------
(***************************************************************************)
(* Batches.  An aggregate row is [key, last, count, total]; its            *)
(* utcEpochDay is the day of `last' (validate_aggregate insists).  A batch *)
(* is [id, produced, aggregates, environments], where `environments' maps  *)
(* a runner environment to a child [id, produced, aggregates].             *)
(***************************************************************************)
ValidAggregates(rows, now) ==
    /\ \A a \in rows : a.count > 0 /\ a.last <= now + FutureTolerance
    /\ \A a, c \in rows :
          a.key = c.key /\ DayOf(a.last) = DayOf(c.last) => a = c

TimelyBatch(b, now) ==
    /\ b.produced <= now + FutureTolerance
    /\ Minus(now, b.produced) < BatchMaxAge

RowCount(b) ==
    Cardinality(b.aggregates)
      + Plus(DOMAIN b.environments,
             LAMBDA e : Cardinality(b.environments[e].aggregates))

ValidBatch(b, now) ==
    /\ TimelyBatch(b, now)
    /\ b.aggregates # {} \/ DOMAIN b.environments # {}
    /\ ValidAggregates(b.aggregates, now)
    /\ Cardinality(DOMAIN b.environments) <= MaxEnvironments
    /\ \A e \in DOMAIN b.environments :
          LET child == b.environments[e]
          IN  /\ child.id = b.id /\ child.produced = b.produced
              /\ child.aggregates # {}
              /\ ValidAggregates(child.aggregates, now)
    /\ RowCount(b) <= MaxKeys

(* A run attempt has one batch.  Where two bodies of one identity are both  *)
(* learned, after the receipt of the first is gone, validate_model would   *)
(* find the same summary twice if they reported a key at the same moment;  *)
(* a set cannot hold it twice, so they are taken not to.                   *)
Separate(b, c) ==
    b.id = c.id /\ b # c =>
      \A a \in b.aggregates, d \in c.aggregates : a.key # d.key \/ a.last # d.last

OneReport(b, c) ==
    /\ Separate(b, c)
    /\ \A e \in DOMAIN b.environments \cap DOMAIN c.environments :
          Separate(b.environments[e], c.environments[e])

------------------------------------------------------------------------------
(* A mutant: the average is rounded up. *)
RoundedUp(total, count) == (total + count) \div count

(* The median of the recent summaries, or the day-weighted mean when an    *)
(* entry has none left.                                                    *)
HalfUp(total, count) == (total + count \div 2) \div count

BatchMean(a) ==
    a.total \div a.count
      + (IF a.total % a.count >= (a.count + 1) \div 2 THEN 1 ELSE 0)

NewerSummary(r, s) ==
    r.at > s.at \/ (r.at = s.at /\ r.id > s.id)

WeightedMean(buckets) ==
    LET latest == Max({b.day : b \in buckets})
        num == Plus(buckets, LAMBDA b : b.total * Weight(latest - b.day))
        den == Plus(buckets, LAMBDA b : b.count * Weight(latest - b.day))
    IN  (2 * num + den) \div (2 * den)

MedianRecent(recents) ==
    LET latest == Max({r.at : r \in recents})
        used == {r \in recents : Minus(latest, r.at) <= RecentWindow}
        Below(r) == {s \in used : s.mean < r.mean
                                   \/ (s.mean = r.mean /\ NewerSummary(r, s))}
        Rank(n) == CHOOSE r \in used : Cardinality(Below(r)) = n
        middle == Cardinality(used) \div 2
    IN  IF Cardinality(used) % 2 = 1
        THEN Rank(middle).mean
        ELSE Rank(middle - 1).mean
              + (Rank(middle).mean - Rank(middle - 1).mean + 1) \div 2

RecentPrediction(buckets, recents) ==
    [ estimate |-> IF recents = {} THEN WeightedMean(buckets)
                                   ELSE MedianRecent(recents),
      count    |-> Plus(buckets, LAMBDA b : b.count),
      last     |-> Max({b.last : b \in buckets}),
      until    |-> (Min({b.day : b \in buckets}) + BucketHorizon) * Day ]

------------------------------------------------------------------------------
(* A ModelState, and the checks validate_model makes before every write,   *)
(* after every write and on every row read back from storage.              *)
WithBucket(recents, buckets) ==
    {r \in recents : \E b \in OfKey(buckets, r.key) : b.day = DayOf(r.at)}

ValidLeaf(m) ==
    /\ Cardinality(m.receipts) <= MaxReceipts
    /\ \A r, s \in m.receipts : r.id = s.id => r = s
    /\ \A b \in m.buckets :
          /\ b.count > 0 /\ b.count <= MaxSafe /\ b.total <= MaxSafe
          /\ DayOf(b.last) = b.day
          /\ b.day <= m.pruningDay /\ b.day >= Cutoff(m.pruningDay)
          /\ \A c \in OfKey(m.buckets, b.key) : c.day = b.day => c = b
    /\ \A r \in m.recents :
          \E b \in OfKey(m.buckets, r.key) :
             b.day = DayOf(r.at) /\ r.at <= b.last
    /\ \A k \in KeysOf(m.buckets) :
          /\ Cardinality(OfKey(m.buckets, k)) <= MaxBuckets
          /\ Cardinality(OfKey(m.recents, k)) <= MaxRecents
          /\ \A r, s \in OfKey(m.recents, k) :
                r.at = s.at /\ r.id = s.id => r = s

KeyCount(m) ==
    Cardinality(KeysOf(m.own.buckets))
      + Plus(Present(m),
             LAMBDA e : Cardinality(KeysOf(m.environments[e].buckets)))

ValidModel(m) ==
    /\ ValidLeaf(m.own)
    /\ Cardinality(Present(m)) <= MaxEnvironments
    /\ \A e \in Present(m) : ValidLeaf(m.environments[e])
    /\ KeyCount(m) <= MaxKeys

FreshLeaf(now) ==
    [ updatedAt |-> now, pruningDay |-> DayOf(now),
      acceptAfter |-> AcceptAfter(now),
      buckets |-> {}, recents |-> {}, receipts |-> {} ]

FreshModel(now) ==
    [own |-> FreshLeaf(now), environments |-> [e \in Envs |-> NoModel]]

------------------------------------------------------------------------------
(* A mutant: the pruning day follows the clock of the request. *)
TodayOfRequest(m, b, now) ==
    Max({DayOf(a.last) : a \in b.aggregates} \cup {DayOf(now)})

(* apply_batch, on the rows of one ModelState: fold the aggregates into    *)
(* the buckets inside the horizon, keep the newest days and summaries, and *)
(* remember the batch.                                                     *)
EffectiveToday(m, b, now) ==
    Max({DayOf(a.last) : a \in b.aggregates} \cup {DayOf(now), m.pruningDay})

InHorizon(day, today) == Cutoff(today) <= day /\ day <= today

SameDay(bucket, a) == bucket.key = a.key /\ bucket.day = DayOf(a.last)

Absorb(buckets, a) ==
    IF \E bucket \in buckets : SameDay(bucket, a)
    THEN {[bucket EXCEPT !.count = @ + a.count,
                         !.total = @ + a.total,
                         !.last  = Later(@, a.last)] :
             bucket \in {x \in buckets : SameDay(x, a)}}
    ELSE {[key |-> a.key, day |-> DayOf(a.last),
           count |-> a.count, total |-> a.total, last |-> a.last]}

FoldBuckets(m, b, today) ==
    LET kept == {x \in m.buckets : InHorizon(x.day, today)}
        fresh == {a \in b.aggregates : InHorizon(DayOf(a.last), today)}
    IN  {x \in kept : \A a \in fresh : ~SameDay(x, a)}
          \cup UNION {Absorb(kept, a) : a \in fresh}

(* A mutant: one day too many is kept. *)
NewestDaysAndOne(buckets) ==
    {b \in buckets :
        Cardinality({c \in OfKey(buckets, b.key) : c.day > b.day}) <= MaxBuckets}

NewestDays(buckets) ==
    {b \in buckets :
        Cardinality({c \in OfKey(buckets, b.key) : c.day > b.day}) < MaxBuckets}

(* A mutant: the summaries of the newest runs are kept, not the newest.    *)
SummariesOfNewestRuns(recents) ==
    {r \in recents :
        Cardinality({s \in OfKey(recents, r.key) :
                       s.id > r.id \/ (s.id = r.id /\ s.at > r.at)}) < MaxRecents}

NewestSummaries(recents) ==
    {r \in recents :
        Cardinality({s \in OfKey(recents, r.key) : NewerSummary(s, r)})
          < MaxRecents}

Summaries(b) ==
    {[key |-> a.key, at |-> a.last, id |-> b.id, mean |-> BatchMean(a)] :
        a \in b.aggregates}

(* A mutant: a receipt is kept only as long as its batch is accepted.      *)
ReceiptsOfAcceptable(m, now) ==
    {r \in m.receipts : Minus(now, r.produced) < BatchMaxAge}

LiveReceipts(m, now) ==
    {r \in m.receipts : Minus(now, r.produced) < ReceiptRetention}

Receipt(b) == [id |-> b.id, digest |-> b, produced |-> b.produced]

MergeOwn(m, b, now) ==
    LET today == EffectiveToday(m, b, now)
        buckets == NewestDays(FoldBuckets(m, b, today))
    IN  [m EXCEPT
           !.updatedAt   = Later(@, now),
           !.pruningDay  = today,
           !.acceptAfter = Later(@, AcceptAfter(now)),
           !.buckets     = buckets,
           !.recents     = NewestSummaries(
                             WithBucket(@ \cup Summaries(b), buckets)),
           !.receipts    = LiveReceipts(m, now) \cup {Receipt(b)}]

(* What apply_batch decides before it writes, in its order: a receipt with *)
(* the same identity, the acceptance watermark, a counter overflow, the    *)
(* receipt capacity.                                                       *)
OwnOutcome(m, b, now) ==
    IF \E r \in m.receipts : r.id = b.id
    THEN IF Receipt(b) \in m.receipts THEN "duplicate" ELSE "conflict"
    ELSE IF b.produced < m.acceptAfter THEN "stale"
    ELSE IF \E x \in FoldBuckets(m, b, EffectiveToday(m, b, now)) :
               x.count > MaxSafe \/ x.total > MaxSafe THEN "overflow"
    ELSE IF Cardinality(LiveReceipts(m, now)) >= MaxReceipts THEN "full"
    ELSE "applied"

ChildOf(m, e, now) ==
    IF e \in Present(m) THEN m.environments[e] ELSE FreshLeaf(now)

(* A mutant: a batch replaces what its environment had learned. *)
MergeChildAnew(m, b, e, now) ==
    IF e \notin DOMAIN b.environments THEN m.environments[e]
    ELSE MergeOwn(FreshLeaf(now), b.environments[e], now)

MergeChild(m, b, e, now) ==
    IF e \notin DOMAIN b.environments THEN m.environments[e]
    ELSE LET child == ChildOf(m, e, now)
         IN  IF OwnOutcome(child, b.environments[e], now) = "duplicate"
             THEN child
             ELSE MergeOwn(child, b.environments[e], now)

(* A mutant: the watermark of a child runs a tick ahead of its parent's.   *)
AgeChildAhead(m, now) ==
    LET today == Later(m.pruningDay, DayOf(now))
        buckets == {b \in m.buckets : InHorizon(b.day, today)}
    IN  [m EXCEPT
           !.updatedAt   = Later(@, now),
           !.pruningDay  = today,
           !.acceptAfter = Later(@, AcceptAfter(now) + 1),
           !.buckets     = buckets,
           !.recents     = WithBucket(@, buckets),
           !.receipts    = LiveReceipts(m, now)]

(* Every child ages with every write of its parent, whether or not the     *)
(* batch mentions it.                                                      *)
AgeChild(m, now) ==
    LET today == Later(m.pruningDay, DayOf(now))
        buckets == {b \in m.buckets : InHorizon(b.day, today)}
    IN  [m EXCEPT
           !.updatedAt   = Later(@, now),
           !.pruningDay  = today,
           !.acceptAfter = Later(@, AcceptAfter(now)),
           !.buckets     = buckets,
           !.recents     = WithBucket(@, buckets),
           !.receipts    = LiveReceipts(m, now)]

MergeEnvironments(m, b, now) ==
    [e \in Envs |->
       IF e \in Present(m) \cup DOMAIN b.environments
       THEN LET aged == AgeChild(MergeChild(m, b, e, now), now)
            IN  IF aged.buckets = {} THEN NoModel ELSE aged
       ELSE NoModel]

Merged(m, b, now) ==
    [own |-> MergeOwn(m.own, b, now), environments |-> MergeEnvironments(m, b, now)]

(* The first child whose batch cannot be applied fails the whole batch.    *)
ChildFailures(m, b, now) ==
    {OwnOutcome(ChildOf(m, e, now), b.environments[e], now) :
        e \in DOMAIN b.environments} \ {"applied", "duplicate"}

ModelOrFresh(m, now) == IF m = NoModel THEN FreshModel(now) ELSE m

Outcome(prev, b, now) ==
    LET m == ModelOrFresh(prev, now)
        own == OwnOutcome(m.own, b, now)
    IN  IF ~TimelyBatch(b, now) THEN "expired"
        ELSE IF ~ValidBatch(b, now) \/ ~ValidModel(m) THEN "invalid"
        ELSE IF own # "applied" THEN own
        ELSE IF ChildFailures(m, b, now) # {}
             THEN CHOOSE o \in ChildFailures(m, b, now) : TRUE
        ELSE IF ~ValidModel(Merged(m, b, now)) THEN "exceeds"
        ELSE "applied"

ApplyBatch(prev, b, now) == Merged(ModelOrFresh(prev, now), b, now)

------------------------------------------------------------------------------
(* A mutant: days that have not begun are served. *)
LeafRowsAhead(m, now) ==
    LET buckets == {b \in m.buckets : Cutoff(DayOf(now)) <= b.day}
        Row(k) == RecentPrediction(OfKey(buckets, k),
                                   OfKey(WithBucket(m.recents, buckets), k))
    IN  [k \in {x \in KeysOf(buckets) : now < Row(x).until} |-> Row(k)]

(* project_predictions: the rows served for a model at a time, per key,    *)
(* and per key and environment.                                            *)
LeafRows(m, now) ==
    LET today == DayOf(now)
        buckets == {b \in m.buckets : InHorizon(b.day, today)}
        Row(k) == RecentPrediction(OfKey(buckets, k),
                                   OfKey(WithBucket(m.recents, buckets), k))
    IN  [k \in {x \in KeysOf(buckets) : now < Row(x).until} |-> Row(k)]

EnvironmentRows(m, now) ==
    LET table == [e \in Present(m) |-> LeafRows(m.environments[e], now)]
    IN  [e \in {x \in DOMAIN table : DOMAIN table[x] # {}} |-> table[e]]

(* The environments whose row is no more than RecentWindow older than the  *)
(* newest valid row of the key.                                            *)
Latest(own, byEnv, key) ==
    Max({byEnv[e][key].last : e \in {x \in DOMAIN byEnv : key \in DOMAIN byEnv[x]}}
          \cup (IF key \in DOMAIN own THEN {own[key].last} ELSE {}))

Contributors(own, byEnv, key) ==
    {e \in DOMAIN byEnv :
        /\ key \in DOMAIN byEnv[e]
        /\ byEnv[e][key].last >= Minus(Latest(own, byEnv, key), RecentWindow)}

RecentCount(m, since, key) ==
    Plus({b \in OfKey(m.buckets, key) : b.last >= since}, LAMBDA b : b.count)

PooledRow(m, own, byEnv, key) ==
    LET since == Minus(Latest(own, byEnv, key), RecentWindow)
        es == Contributors(own, byEnv, key)
        Share(e) == RecentCount(m.environments[e], since, key)
        count == Plus(es, Share)
        total == Plus(es, LAMBDA e : byEnv[e][key].estimate * Share(e))
    IN  [ estimate |-> HalfUp(total, count),
          count    |-> count,
          last     |-> Max({byEnv[e][key].last : e \in es}),
          until    |-> Min({byEnv[e][key].until : e \in es}) ]

PooledKeys(own, byEnv) ==
    {k \in UNION {DOMAIN byEnv[e] : e \in DOMAIN byEnv} :
        Contributors(own, byEnv, k) # {}}

ProjectPredictions(m, now) ==
    LET own == LeafRows(m.own, now)
        byEnv == EnvironmentRows(m, now)
        pooled == PooledKeys(own, byEnv)
    IN  [ rows |-> [k \in DOMAIN own \cup pooled |->
                      IF k \in pooled THEN PooledRow(m, own, byEnv, k)
                                      ELSE own[k]],
          environments |-> byEnv ]

(* PredictionTable::validate on the consumer's side: its environments and  *)
(* rows, and that no more rows are there than MaxKeys, the pooled ones and *)
(* those of each environment taken together.  (The code compares the rows  *)
(* of each table by themselves too, which the total implies.)              *)
ValidRow(row) == row.count > 0 /\ row.until > row.last

ValidRows(t) ==
    /\ \A k \in DOMAIN t.rows : ValidRow(t.rows[k])
    /\ Cardinality(DOMAIN t.environments) <= MaxEnvironments
    /\ \A e \in DOMAIN t.environments :
          \A k \in DOMAIN t.environments[e] : ValidRow(t.environments[e][k])

RowTotal(t) ==
    Cardinality(DOMAIN t.rows)
      + Plus(DOMAIN t.environments, LAMBDA e : Cardinality(DOMAIN t.environments[e]))

ValidTable(t) == ValidRows(t) /\ RowTotal(t) <= MaxKeys

(* environment_range: the environments behind the range that is reported   *)
(* with a pooled row.                                                      *)
RangeEnvironments(t, key, now) ==
    LET since == Minus(t.rows[key].last, RecentWindow)
    IN  {e \in DOMAIN t.environments :
           /\ key \in DOMAIN t.environments[e]
           /\ t.environments[e][key].last >= since
           /\ now < t.environments[e][key].until}
==============================================================================
