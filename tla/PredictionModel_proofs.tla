------------------------ MODULE PredictionModel_proofs ------------------------
(***************************************************************************)
(* Lemmas about the operators of PredictionModel: applying a batch yields  *)
(* a ModelState, moves no date back, forgets no live receipt, and leaves a *)
(* model that validate_model accepts but for the limits of a whole model.  *)
(***************************************************************************)
EXTENDS BatchReference, Orders_proofs

(* A non-empty set of naturals has a least element. *)
LEMMA LeastNatural ==
    ASSUME NEW S \in SUBSET Nat, S # {}
    PROVE  \E x \in S : \A y \in S : x <= y
<1>1. PICK x \in S : \A y \in S : ~ (<<y, x>> \in OpToRel(<, Nat))
  BY NatLessThanWellFounded, WFMin
<1>2. \A y \in S : ~ (y < x)
  BY <1>1 DEF OpToRel
<1> QED
  BY <1>2

(* The maximum of a bounded set of naturals is one of its elements.        *)
LEMMA GreatestNatural ==
    ASSUME NEW S \in SUBSET Nat, S # {}, NEW n \in Nat, \A x \in S : x <= n
    PROVE  Max(S) \in S /\ \A y \in S : y <= Max(S)
<1> DEFINE D == {n - x : x \in S}
<1>1. D \in SUBSET Nat /\ D # {}
  <2>1. \A x \in S : n - x \in Nat
    OBVIOUS
  <2> QED BY <2>1
<1>2. PICK d \in D : \A e \in D : d <= e
  <2> HIDE DEF D
  <2> QED BY <1>1, LeastNatural
<1>3. PICK x \in S : d = n - x
  BY <1>2
<1>4. \A y \in S : x >= y
  <2> TAKE y \in S
  <2>1. n - y \in D
    OBVIOUS
  <2>2. n - x <= n - y
    BY <1>2, <1>3, <2>1
  <2> QED BY <2>2
<1> QED
  BY <1>4 DEF Max

(* Days are naturals and grow with the clock. *)
LEMMA DayOfType ==
    ASSUME NEW t \in Nat
    PROVE  DayOf(t) \in Nat /\ DayOf(t) <= t
  BY PolicyAssumption DEF DayOf

(* The day a model is pruned to is a day, never before the last one nor    *)
(* before a day that is reported.                                          *)
LEMMA EffectiveTodayType ==
    ASSUME NEW m, NEW b, NEW now \in Nat,
           m.pruningDay \in Nat,
           b.aggregates \subseteq Aggregate,
           ValidAggregates(b.aggregates, now)
    PROVE  /\ EffectiveToday(m, b, now) \in Nat
           /\ m.pruningDay <= EffectiveToday(m, b, now)
           /\ \A a \in b.aggregates : DayOf(a.last) <= EffectiveToday(m, b, now)
           /\ DayOf(now) <= EffectiveToday(m, b, now)
           /\ \/ EffectiveToday(m, b, now) \in {DayOf(now), m.pruningDay}
              \/ \E a \in b.aggregates : EffectiveToday(m, b, now) = DayOf(a.last)
<1> DEFINE S == {DayOf(a.last) : a \in b.aggregates} \cup {DayOf(now), m.pruningDay}
           n == now + FutureTolerance + m.pruningDay
<1>1. \A a \in b.aggregates : DayOf(a.last) \in Nat /\ DayOf(a.last) <= n
  <2> TAKE a \in b.aggregates
  <2>1. a.last \in Nat
    BY DEF Aggregate
  <2>2. a.last <= now + FutureTolerance
    BY DEF ValidAggregates
  <2> QED
    BY <2>1, <2>2, DayOfType, PolicyAssumption
<1>2. S \in SUBSET Nat /\ S # {} /\ \A x \in S : x <= n
  BY <1>1, DayOfType, PolicyAssumption
<1>3. n \in Nat
  BY PolicyAssumption
<1>4. Max(S) \in S /\ \A y \in S : y <= Max(S)
  <2> HIDE DEF S, n
  <2> QED BY <1>2, <1>3, GreatestNatural
<1> QED
  BY <1>2, <1>4 DEF EffectiveToday

(* Rounding a batch mean half up stays a natural number. *)
LEMMA BatchMeanType ==
    ASSUME NEW a \in Aggregate, a.count > 0
    PROVE  BatchMean(a) \in Nat
<1>1. a.count \in Nat /\ a.total \in Nat
  BY DEF Aggregate
<1>2. a.total \div a.count \in Nat
  BY <1>1
<1> QED
  BY <1>1, <1>2 DEF BatchMean

(* Folding aggregates into buckets yields buckets. *)
LEMMA FoldBucketsType ==
    ASSUME NEW m, NEW b, NEW today,
           m.buckets \subseteq Bucket, b.aggregates \subseteq Aggregate
    PROVE  FoldBuckets(m, b, today) \subseteq Bucket
<1>1. ASSUME NEW a \in Aggregate, NEW bs \in SUBSET Bucket
      PROVE  Absorb(bs, a) \subseteq Bucket
  <2>1. a.key \in Keys /\ a.last \in Nat /\ a.count \in Nat /\ a.total \in Nat
    BY DEF Aggregate
  <2>2. ASSUME NEW x \in Bucket
        PROVE  [x EXCEPT !.count = @ + a.count, !.total = @ + a.total,
                         !.last = Later(@, a.last)] \in Bucket
    <3>1. x.count \in Nat /\ x.total \in Nat /\ x.last \in Nat
      BY DEF Bucket
    <3>2. /\ x.count + a.count \in Nat /\ x.total + a.total \in Nat
          /\ Later(x.last, a.last) \in Nat
      BY <2>1, <3>1 DEF Later
    <3> QED
      BY <3>2 DEF Bucket
  <2>3. [key |-> a.key, day |-> DayOf(a.last), count |-> a.count,
         total |-> a.total, last |-> a.last] \in Bucket
    BY <2>1, DayOfType DEF Bucket
  <2> QED
    BY <2>2, <2>3 DEF Absorb
<1>2. {x \in m.buckets : InHorizon(x.day, today)} \in SUBSET Bucket
  OBVIOUS
<1> QED
  BY <1>1, <1>2 DEF FoldBuckets

(* Merging a valid batch into the rows of a model yields rows of a model.  *)
LEMMA MergeOwnType ==
    ASSUME NEW R, NEW m \in Leaf(R), NEW b, NEW now \in Nat,
           b.id \in Nat, b.aggregates \subseteq Aggregate,
           ValidAggregates(b.aggregates, now), Receipt(b) \in R
    PROVE  MergeOwn(m, b, now) \in Leaf(R)
<1> DEFINE today == EffectiveToday(m, b, now)
           kept == NewestDays(FoldBuckets(m, b, today))
           summaries == NewestSummaries(WithBucket(m.recents \cup Summaries(b), kept))
<1>1. /\ m.updatedAt \in Nat /\ m.pruningDay \in Nat /\ m.acceptAfter \in Nat
      /\ m.buckets \subseteq Bucket /\ m.recents \subseteq Recent
      /\ m.receipts \subseteq R
  BY DEF Leaf
<1>2. today \in Nat
  BY <1>1, EffectiveTodayType
<1>3. kept \subseteq Bucket
  BY <1>1, FoldBucketsType DEF NewestDays
<1>4. Summaries(b) \subseteq Recent
  <2> SUFFICES ASSUME NEW a \in b.aggregates
               PROVE  [key |-> a.key, at |-> a.last, id |-> b.id,
                       mean |-> BatchMean(a)] \in Recent
    BY DEF Summaries
  <2>1. a \in Aggregate /\ a.count > 0
    BY DEF ValidAggregates
  <2>2. BatchMean(a) \in Nat
    BY <2>1, BatchMeanType
  <2> QED
    BY <2>1, <2>2 DEF Aggregate, Recent
<1>5. summaries \subseteq Recent
  BY <1>1, <1>4 DEF NewestSummaries, WithBucket
<1>6. LiveReceipts(m, now) \cup {Receipt(b)} \subseteq R
  BY <1>1 DEF LiveReceipts
<1>7. Later(m.updatedAt, now) \in Nat /\ Later(m.acceptAfter, AcceptAfter(now)) \in Nat
  BY <1>1, PolicyAssumption DEF Later, AcceptAfter, Minus
<1>8. MergeOwn(m, b, now) =
        [m EXCEPT !.updatedAt = Later(@, now), !.pruningDay = today,
                  !.acceptAfter = Later(@, AcceptAfter(now)),
                  !.buckets = kept, !.recents = summaries,
                  !.receipts = LiveReceipts(m, now) \cup {Receipt(b)}]
  BY DEF MergeOwn
<1> HIDE DEF today, kept, summaries
<1> QED
  BY <1>1, <1>2, <1>3, <1>5, <1>6, <1>7, <1>8 DEF Leaf

(* What merging does to the dates and the receipts of a model: the update  *)
(* time and the watermark cover the request, no date moves back, the batch *)
(* is remembered, and a receipt goes only when its retention has passed,   *)
(* by which time the watermark has passed its batch.                       *)
LEMMA MergeOwnDates ==
    ASSUME NEW R, NEW m \in Leaf(R), NEW b, NEW now \in Nat
    PROVE  LET next == MergeOwn(m, b, now)
           IN  /\ next.updatedAt = Later(m.updatedAt, now)
               /\ next.pruningDay = EffectiveToday(m, b, now)
               /\ next.acceptAfter = Later(m.acceptAfter, AcceptAfter(now))
               /\ next.receipts = LiveReceipts(m, now) \cup {Receipt(b)}
<1> DEFINE buckets == NewestDays(FoldBuckets(m, b, EffectiveToday(m, b, now)))
           recents == NewestSummaries(WithBucket(m.recents \cup Summaries(b), buckets))
           receipts == LiveReceipts(m, now) \cup {Receipt(b)}
           updated == Later(m.updatedAt, now)
           after == Later(m.acceptAfter, AcceptAfter(now))
           today == EffectiveToday(m, b, now)
<1>1. MergeOwn(m, b, now) =
        [m EXCEPT !.updatedAt = updated, !.pruningDay = today,
                  !.acceptAfter = after, !.buckets = buckets,
                  !.recents = recents, !.receipts = receipts]
  BY DEF MergeOwn
<1>2. m = [updatedAt |-> m.updatedAt, pruningDay |-> m.pruningDay,
           acceptAfter |-> m.acceptAfter, buckets |-> m.buckets,
           recents |-> m.recents, receipts |-> m.receipts]
  BY DEF Leaf
<1> HIDE DEF buckets, recents, receipts, updated, after, today
<1>3. MergeOwn(m, b, now) =
        [updatedAt |-> updated, pruningDay |-> today, acceptAfter |-> after,
         buckets |-> buckets, recents |-> recents, receipts |-> receipts]
  BY <1>1, <1>2
<1> QED
  BY <1>3 DEF receipts, updated, after, today

(* An empty model is a model. *)
LEMMA FreshLeafType ==
    ASSUME NEW R, NEW now \in Nat
    PROVE  FreshLeaf(now) \in Leaf(R)
  BY DayOfType, PolicyAssumption DEF FreshLeaf, Leaf, AcceptAfter, Minus

(* Ageing a child model leaves a child model. *)
LEMMA AgeChildType ==
    ASSUME NEW R, NEW m \in Leaf(R), NEW now \in Nat
    PROVE  AgeChild(m, now) \in Leaf(R)
<1> DEFINE today == Later(m.pruningDay, DayOf(now))
           buckets == {b \in m.buckets : InHorizon(b.day, today)}
           recents == WithBucket(m.recents, buckets)
<1>1. /\ m.updatedAt \in Nat /\ m.pruningDay \in Nat /\ m.acceptAfter \in Nat
      /\ m.buckets \subseteq Bucket /\ m.recents \subseteq Recent
      /\ m.receipts \subseteq R
  BY DEF Leaf
<1>2. /\ Later(m.updatedAt, now) \in Nat
      /\ Later(m.acceptAfter, AcceptAfter(now)) \in Nat
      /\ today \in Nat
  BY <1>1, DayOfType, PolicyAssumption DEF Later, AcceptAfter, Minus
<1>3. buckets \subseteq Bucket /\ recents \subseteq Recent
      /\ LiveReceipts(m, now) \subseteq R
  BY <1>1 DEF WithBucket, LiveReceipts
<1>4. AgeChild(m, now) =
        [m EXCEPT !.updatedAt = Later(@, now), !.pruningDay = today,
                  !.acceptAfter = Later(@, AcceptAfter(now)),
                  !.buckets = buckets, !.recents = recents,
                  !.receipts = LiveReceipts(m, now)]
  BY DEF AgeChild
<1> HIDE DEF today, buckets, recents
<1> QED
  BY <1>1, <1>2, <1>3, <1>4 DEF Leaf

(* apply_batch maps a ModelState, or the lack of one, to a ModelState.     *)
LEMMA ApplyBatchType ==
    ASSUME NEW R, NEW C, NEW prev \in ModelState(R, C) \cup {NoModel},
           NEW b, NEW now \in Nat,
           b.id \in Nat, b.aggregates \subseteq Aggregate, Receipt(b) \in R,
           ValidBatch(b, now), DOMAIN b.environments \subseteq Envs,
           \A e \in DOMAIN b.environments :
              /\ b.environments[e].aggregates \subseteq Aggregate
              /\ Receipt(b.environments[e]) \in C
    PROVE  ApplyBatch(prev, b, now) \in ModelState(R, C)
<1> DEFINE m == ModelOrFresh(prev, now)
<1>1. m.own \in Leaf(R) /\ m.environments \in [Envs -> Leaf(C) \cup {NoModel}]
  <2>1. CASE prev = NoModel
    BY <2>1, FreshLeafType DEF ModelOrFresh, FreshModel
  <2>2. CASE prev # NoModel
    BY <2>2 DEF ModelOrFresh, ModelState
  <2> QED BY <2>1, <2>2
<1>2. ValidAggregates(b.aggregates, now)
  BY DEF ValidBatch
<1>3. MergeOwn(m.own, b, now) \in Leaf(R)
  <2> HIDE DEF m
  <2> QED BY <1>1, <1>2, MergeOwnType
<1>4. ASSUME NEW e \in Present(m) \cup DOMAIN b.environments
      PROVE  MergeChild(m, b, e, now) \in Leaf(C)
  <2> HIDE DEF m
  <2>1. ChildOf(m, e, now) \in Leaf(C)
    BY <1>1, FreshLeafType DEF ChildOf, Present
  <2>2. CASE e \notin DOMAIN b.environments
    BY <2>2, <1>1 DEF MergeChild, Present
  <2>3. CASE e \in DOMAIN b.environments
    <3>1. b.environments[e].id \in Nat /\ ValidAggregates(b.environments[e].aggregates, now)
      BY <2>3 DEF ValidBatch
    <3>2. MergeOwn(ChildOf(m, e, now), b.environments[e], now) \in Leaf(C)
      BY <2>1, <2>3, <3>1, MergeOwnType
    <3> QED
      BY <2>1, <2>3, <3>2 DEF MergeChild
  <2> QED BY <2>2, <2>3
<1>5. MergeEnvironments(m, b, now) \in [Envs -> Leaf(C) \cup {NoModel}]
  <2> HIDE DEF m
  <2> QED BY <1>4, AgeChildType DEF MergeEnvironments
<1> QED
  BY <1>3, <1>5 DEF ApplyBatch, Merged, ModelState

(* A batch that may be applied has no receipt, has not fallen behind the   *)
(* watermark, and is timely.                                               *)
LEMMA AppliedIsNew ==
    ASSUME NEW prev, NEW b, NEW now, Outcome(prev, b, now) = "applied"
    PROVE  /\ ValidBatch(b, now)
           /\ prev # NoModel =>
                /\ \A r \in prev.own.receipts : r.id # b.id
                /\ ~(b.produced < prev.own.acceptAfter)
<1>1. ValidBatch(b, now)
  BY DEF Outcome
<1>2. OwnOutcome(ModelOrFresh(prev, now).own, b, now) = "applied"
  BY DEF Outcome
<1> QED
  BY <1>1, <1>2 DEF OwnOutcome, ModelOrFresh

(* A batch that is reported as a duplicate has its receipt in the row.     *)
LEMMA DuplicateIsKnown ==
    ASSUME NEW prev, NEW b, NEW now, Outcome(prev, b, now) = "duplicate"
    PROVE  prev # NoModel /\ Receipt(b) \in prev.own.receipts
<1>1. ChildFailures(ModelOrFresh(prev, now), b, now) # {} =>
        (CHOOSE o \in ChildFailures(ModelOrFresh(prev, now), b, now) : TRUE)
           \in ChildFailures(ModelOrFresh(prev, now), b, now)
  OBVIOUS
<1>2. "duplicate" \notin ChildFailures(ModelOrFresh(prev, now), b, now)
  BY DEF ChildFailures
<1>3. OwnOutcome(ModelOrFresh(prev, now).own, b, now) = "duplicate"
  BY <1>1, <1>2 DEF Outcome
<1>4. Receipt(b) \in ModelOrFresh(prev, now).own.receipts
  BY <1>3 DEF OwnOutcome
<1> QED
  BY <1>4 DEF ModelOrFresh, FreshModel, FreshLeaf

------------------------------------------------------------------------------
UniqueDays(rows) == \A x, y \in rows : x.key = y.key /\ x.day = y.day => x = y

(* One aggregate per key and day (validate_aggregate).                     *)
OncePerDay(rows) == \A a, c \in rows : a.key = c.key /\ DayOf(a.last) = DayOf(c.last) => a = c

Added(x, a) ==
    [key |-> x.key, day |-> x.day, count |-> x.count + a.count,
     total |-> x.total + a.total, last |-> Later(x.last, a.last)]

Opened(a) ==
    [key |-> a.key, day |-> DayOf(a.last), count |-> a.count, total |-> a.total, last |-> a.last]

(* What FoldBuckets returns, row by row.                                   *)
Folded(x, buckets, rows) ==
    \/ x \in buckets /\ \A a \in rows : ~SameDay(x, a)
    \/ \E y \in buckets, a \in rows : SameDay(y, a) /\ x = Added(y, a)
    \/ \E a \in rows : (\A y \in buckets : ~SameDay(y, a)) /\ x = Opened(a)

(* Buckets are compared field by field.                                   *)
LEMMA SameBucket ==
    ASSUME NEW x \in Bucket, NEW y \in Bucket, x.key = y.key, x.day = y.day, x.count = y.count,
           x.total = y.total, x.last = y.last
    PROVE  x = y
BY DEF Bucket

LEMMA BucketGrows ==
    ASSUME NEW x \in Bucket, NEW a \in Aggregate
    PROVE  [x EXCEPT !.count = @ + a.count, !.total = @ + a.total, !.last = Later(@, a.last)]
             = Added(x, a)
<1>1. PICK p \in Nat : p = x.count + a.count
  BY DEF Bucket, Aggregate
<1>2. PICK q \in Nat : q = x.total + a.total
  BY DEF Bucket, Aggregate
<1>3. PICK r \in Nat : r = Later(x.last, a.last)
  BY DEF Bucket, Aggregate, Later
<1> DEFINE y == [x EXCEPT !.count = p, !.total = q, !.last = r]
           z == [key |-> x.key, day |-> x.day, count |-> p, total |-> q, last |-> r]
<1>4. y \in Bucket /\ z \in Bucket
  BY DEF Bucket
<1>5. /\ y.key = x.key /\ y.day = x.day /\ y.count = p
      /\ y.total = q /\ y.last = r
  BY DEF Bucket
<1>6. /\ z.key = x.key /\ z.day = x.day /\ z.count = p
      /\ z.total = q /\ z.last = r
  OBVIOUS
<1>7. y = z
  <2> HIDE DEF y, z
  <2> QED
    BY <1>4, <1>5, <1>6, SameBucket
<1>8. z = Added(x, a)
  BY <1>1, <1>2, <1>3 DEF Added
<1>9. [x EXCEPT !.count = @ + a.count, !.total = @ + a.total, !.last = Later(@, a.last)]
       = [x EXCEPT !.count = x.count + a.count, !.total = x.total + a.total, !.last = Later(x.last, a.last)]
  BY Zenon
<1>10. y = [x EXCEPT !.count = x.count + a.count, !.total = x.total + a.total, !.last = Later(x.last, a.last)]
  BY <1>1, <1>2, <1>3
<1> HIDE DEF y, z
<1> QED
  BY <1>7, <1>8, <1>9, <1>10, Zenon

LEMMA AbsorbIs ==
    ASSUME NEW buckets \in SUBSET Bucket, NEW a \in Aggregate, NEW x
    PROVE  x \in Absorb(buckets, a) <=>
              \/ \E y \in buckets : SameDay(y, a) /\ x = Added(y, a)
              \/ (\A y \in buckets : ~SameDay(y, a)) /\ x = Opened(a)
<1>1. ASSUME NEW y \in Bucket
      PROVE  [y EXCEPT !.count = @ + a.count, !.total = @ + a.total,
                       !.last = Later(@, a.last)] = Added(y, a)
  BY BucketGrows
<1>2. CASE \E y \in buckets : SameDay(y, a)
  <2>1. Absorb(buckets, a) =
          {[y EXCEPT !.count = @ + a.count, !.total = @ + a.total,
                     !.last = Later(@, a.last)] : y \in {z \in buckets : SameDay(z, a)}}
    BY <1>2 DEF Absorb
  <2>2. Absorb(buckets, a) = {Added(y, a) : y \in {z \in buckets : SameDay(z, a)}}
    BY <1>1, <2>1
  <2> QED
    BY <1>2, <2>2
<1>3. CASE \A y \in buckets : ~SameDay(y, a)
  <2>1. Absorb(buckets, a) = {Opened(a)}
    BY <1>3 DEF Absorb, Opened
  <2> QED
    BY <1>3, <2>1
<1> QED
  BY <1>2, <1>3

LEMMA FoldedRows ==
    ASSUME NEW m, m.buckets \in SUBSET Bucket, NEW b, b.aggregates \in SUBSET Aggregate, NEW today, NEW x
    PROVE  x \in FoldBuckets(m, b, today) <=>
              InHorizon(x.day, today) /\ Folded(x, m.buckets, b.aggregates)
<1> DEFINE kept == {y \in m.buckets : InHorizon(y.day, today)}
           fresh == {a \in b.aggregates : InHorizon(DayOf(a.last), today)}
<1>1. /\ x \in FoldBuckets(m, b, today) <=>
           \/ x \in kept /\ \A a \in fresh : ~SameDay(x, a)
           \/ \E a \in fresh : x \in Absorb(kept, a)
  BY DEF FoldBuckets
<1>2. kept \in SUBSET Bucket /\ fresh \in SUBSET Aggregate
  OBVIOUS
<1>3. x \in FoldBuckets(m, b, today) <=> Folded(x, kept, fresh)
  <2> HIDE DEF kept, fresh
  <2>1. \A a \in fresh : x \in Absorb(kept, a) <=>
              \/ \E y \in kept : SameDay(y, a) /\ x = Added(y, a)
              \/ (\A y \in kept : ~SameDay(y, a)) /\ x = Opened(a)
    BY <1>2, AbsorbIs
  <2> QED
    BY <1>1, <2>1 DEF Folded
<1>4. \A y, a : SameDay(y, a) => (InHorizon(y.day, today) <=> InHorizon(DayOf(a.last), today))
  BY DEF SameDay
<1>5. \A y, a : Added(y, a).day = y.day /\ Opened(a).day = DayOf(a.last)
  BY DEF Added, Opened
<1>6. Folded(x, kept, fresh) <=> InHorizon(x.day, today) /\ Folded(x, m.buckets, b.aggregates)
  BY <1>4, <1>5 DEF Folded
<1> QED
  BY <1>3, <1>6

------------------------------------------------------------------------------
(* The fields of what a fold makes.                                        *)
LEMMA FoldFields ==
    ASSUME NEW y, NEW a
    PROVE  /\ Added(y, a).key = y.key /\ Added(y, a).day = y.day
           /\ Added(y, a).count = y.count + a.count /\ Added(y, a).total = y.total + a.total
           /\ Added(y, a).last = Later(y.last, a.last)
           /\ Opened(a).key = a.key /\ Opened(a).day = DayOf(a.last)
           /\ Opened(a).count = a.count /\ Opened(a).total = a.total
           /\ Opened(a).last = a.last
BY DEF Added, Opened

(* A bucket with observations, the last of them of its day.                *)
Observed(x) == x.count > 0 /\ DayOf(x.last) = x.day

Counted(rows) == \A a \in rows : a.count > 0

(* Folding keeps one bucket per key and day, and its last observation is   *)
(* the last of those that are folded into it.                              *)
LEMMA FoldedOnce ==
    ASSUME NEW B \in SUBSET Bucket, NEW A \in SUBSET Aggregate, UniqueDays(B), OncePerDay(A),
           NEW x, NEW z, Folded(x, B, A), Folded(z, B, A), x.key = z.key, x.day = z.day
    PROVE  x = z
<1>1. CASE x \in B /\ \A a \in A : ~SameDay(x, a)
  <2>1. ASSUME NEW y \in B, NEW a \in A, SameDay(y, a), z = Added(y, a) PROVE FALSE
    BY <1>1, <2>1, FoldFields DEF SameDay
  <2>2. ASSUME NEW a \in A, z = Opened(a) PROVE FALSE
    BY <1>1, <2>2, FoldFields DEF SameDay
  <2> QED
    BY <1>1, <2>1, <2>2 DEF Folded, UniqueDays
<1>2. ASSUME NEW y \in B, NEW a \in A, SameDay(y, a), x = Added(y, a) PROVE x = z
  <2>0. x.key = a.key /\ x.day = DayOf(a.last) /\ x.key = y.key /\ x.day = y.day
    BY <1>2, FoldFields DEF SameDay
  <2>1. ~(\A c \in A : ~SameDay(z, c))
    BY <2>0 DEF SameDay
  <2>2. ASSUME NEW u \in B, NEW c \in A, SameDay(u, c), z = Added(u, c) PROVE x = z
    <3>1. z.key = u.key /\ z.day = u.day /\ z.key = c.key /\ z.day = DayOf(c.last)
      BY <2>2, FoldFields DEF SameDay
    <3>2. u = y
      BY <2>0, <3>1 DEF UniqueDays
    <3>3. c = a
      BY <2>0, <3>1 DEF OncePerDay
    <3> QED
      BY <1>2, <2>2, <3>2, <3>3
  <2>3. ASSUME NEW c \in A, \A u \in B : ~SameDay(u, c), z = Opened(c) PROVE FALSE
    BY <2>0, <2>3, FoldFields DEF SameDay
  <2> QED
    BY <2>1, <2>2, <2>3 DEF Folded
<1>3. ASSUME NEW a \in A, \A y \in B : ~SameDay(y, a), x = Opened(a) PROVE x = z
  <2>0. x.key = a.key /\ x.day = DayOf(a.last)
    BY <1>3, FoldFields
  <2>1. ~(\A c \in A : ~SameDay(z, c))
    BY <2>0 DEF SameDay
  <2>2. ASSUME NEW u \in B, NEW c \in A, SameDay(u, c), z = Added(u, c) PROVE FALSE
    BY <1>3, <2>0, <2>2, FoldFields DEF SameDay
  <2>3. ASSUME NEW c \in A, z = Opened(c) PROVE x = z
    <3>1. z.key = c.key /\ z.day = DayOf(c.last)
      BY <2>3, FoldFields
    <3>2. c = a
      BY <2>0, <3>1 DEF OncePerDay
    <3> QED
      BY <1>3, <2>3, <3>2
  <2> QED
    BY <2>1, <2>2, <2>3 DEF Folded
<1> QED
  BY <1>1, <1>2, <1>3 DEF Folded

LEMMA FoldedIsObserved ==
    ASSUME NEW B \in SUBSET Bucket, NEW A \in SUBSET Aggregate, UniqueDays(B), OncePerDay(A),
           \A y \in B : Observed(y), Counted(A), NEW x, Folded(x, B, A)
    PROVE  /\ x \in Bucket /\ Observed(x)
           /\ \A y \in B : y.key = x.key /\ y.day = x.day => y.last <= x.last
           /\ \A a \in A : SameDay(x, a) => a.last <= x.last
<1>0. /\ \A y \in B : y.key \in Keys /\ y.day \in Nat /\ y.count \in Nat /\ y.total \in Nat /\ y.last \in Nat
      /\ \A a \in A : a.key \in Keys /\ a.count \in Nat /\ a.total \in Nat /\ a.last \in Nat /\ a.count > 0
  BY DEF Bucket, Aggregate, Counted
<1>1. CASE x \in B /\ \A a \in A : ~SameDay(x, a)
  <2>1. ASSUME NEW y \in B, y.key = x.key, y.day = x.day PROVE y.last <= x.last
    <3>1. y = x
      BY <1>1, <2>1 DEF UniqueDays
    <3> QED
      BY <1>0, <3>1
  <2> QED
    BY <1>1, <2>1
<1>2. ASSUME NEW y \in B, NEW a \in A, SameDay(y, a), x = Added(y, a)
      PROVE  /\ x \in Bucket /\ Observed(x)
             /\ \A u \in B : u.key = x.key /\ u.day = x.day => u.last <= x.last
             /\ \A c \in A : SameDay(x, c) => c.last <= x.last
  <2>0. /\ x.key = a.key /\ x.day = DayOf(a.last) /\ x.key = y.key /\ x.day = y.day
        /\ x.count = y.count + a.count /\ x.total = y.total + a.total /\ x.last = Later(y.last, a.last)
    BY <1>2, FoldFields DEF SameDay
  <2>1. Later(y.last, a.last) \in {y.last, a.last} /\ y.last <= x.last /\ a.last <= x.last
    BY <1>0, <2>0 DEF Later
  <2>2. x \in Bucket
    <3>1. y.count + a.count \in Nat /\ y.total + a.total \in Nat /\ Later(y.last, a.last) \in Nat
      BY <1>0, <2>1
    <3> QED
      BY <1>0, <1>2, <3>1 DEF Bucket, Added
  <2>3. DayOf(x.last) = x.day
    BY <2>0, <2>1 DEF Observed
  <2>4. x.count > 0
    BY <1>0, <2>0
  <2>5. ASSUME NEW u \in B, u.key = x.key, u.day = x.day PROVE u.last <= x.last
    <3>1. u = y
      BY <2>0, <2>5 DEF UniqueDays
    <3> QED
      BY <2>1, <3>1
  <2>6. ASSUME NEW c \in A, SameDay(x, c) PROVE c.last <= x.last
    <3>1. c = a
      BY <2>0, <2>6 DEF OncePerDay, SameDay
    <3> QED
      BY <2>1, <3>1
  <2> QED
    BY <2>2, <2>3, <2>4, <2>5, <2>6 DEF Observed
<1>3. ASSUME NEW a \in A, \A y \in B : ~SameDay(y, a), x = Opened(a)
      PROVE  /\ x \in Bucket /\ Observed(x)
             /\ \A u \in B : u.key = x.key /\ u.day = x.day => u.last <= x.last
             /\ \A c \in A : SameDay(x, c) => c.last <= x.last
  <2>0. /\ x.key = a.key /\ x.day = DayOf(a.last)
        /\ x.count = a.count /\ x.total = a.total /\ x.last = a.last
    BY <1>3, FoldFields
  <2>1. x \in Bucket
    BY <1>0, <1>3, DayOfType DEF Bucket, Opened
  <2>2. Observed(x)
    BY <1>0, <2>0 DEF Observed
  <2>3. ASSUME NEW u \in B, u.key = x.key, u.day = x.day PROVE FALSE
    BY <1>3, <2>0, <2>3 DEF SameDay
  <2>4. ASSUME NEW c \in A, SameDay(x, c) PROVE c.last <= x.last
    <3>1. c = a
      BY <2>0, <2>4 DEF OncePerDay, SameDay
    <3> QED
      BY <1>0, <2>0, <3>1
  <2> QED
    BY <2>1, <2>2, <2>3, <2>4
<1> QED
  BY <1>1, <1>2, <1>3 DEF Folded

(* The rows of a fold are of finitely many.                                *)
LEMMA FoldIsFinite ==
    ASSUME NEW m, m.buckets \in SUBSET Bucket, NEW b, b.aggregates \in SUBSET Aggregate,
           IsFiniteSet(m.buckets), IsFiniteSet(b.aggregates), NEW today
    PROVE  IsFiniteSet(FoldBuckets(m, b, today))
<1> DEFINE B == m.buckets
           A == b.aggregates
           pairs == B \X A
           sums == {Added(p[1], p[2]) : p \in pairs}
           new == {Opened(a) : a \in A}
<1>1. IsFiniteSet(pairs)
  BY FS_Product
<1>2. IsFiniteSet(sums)
  <2> DEFINE f == [p \in pairs |-> Added(p[1], p[2])]
  <2>1. f \in [pairs -> sums] /\ \A s \in sums : \E p \in pairs : f[p] = s
    OBVIOUS
  <2> HIDE DEF f, pairs, sums
  <2> QED
    BY <1>1, <2>1, ImageIsFinite
<1>3. IsFiniteSet(new)
  <2> DEFINE f == [a \in A |-> Opened(a)]
  <2>1. f \in [A -> new] /\ \A s \in new : \E a \in A : f[a] = s
    OBVIOUS
  <2> HIDE DEF f, new
  <2> QED
    BY <2>1, ImageIsFinite
<1>4. IsFiniteSet((B \cup sums) \cup new)
  <2> HIDE DEF sums, new
  <2> QED
    BY <1>2, <1>3, FS_Union
<1>5. FoldBuckets(m, b, today) \in SUBSET ((B \cup sums) \cup new)
  <2> SUFFICES ASSUME NEW x \in FoldBuckets(m, b, today) PROVE x \in (B \cup sums) \cup new
    OBVIOUS
  <2>1. Folded(x, B, A)
    BY FoldedRows
  <2>2. ASSUME NEW y \in B, NEW a \in A, x = Added(y, a) PROVE x \in sums
    <3>1. <<y, a>> \in pairs /\ <<y, a>>[1] = y /\ <<y, a>>[2] = a
      OBVIOUS
    <3> QED
      BY <2>2, <3>1
  <2> QED
    BY <2>1, <2>2 DEF Folded
<1> QED
  BY <1>4, <1>5, FS_Subset

------------------------------------------------------------------------------
Distinct(rows) == \A r, s \in rows : r.key = s.key /\ r.at = s.at /\ r.id = s.id => r = s

(* The newest days of a key are no more than MAX_BUCKETS, and its newest   *)
(* summaries no more than are kept.                                        *)
LEMMA NewestDaysAreFew ==
    ASSUME NEW B \in SUBSET Bucket, IsFiniteSet(B), UniqueDays(B), NEW k
    PROVE  Cardinality(OfKey(NewestDays(B), k)) <= MaxBuckets
<1> DEFINE S == OfKey(B, k)
           R == {p \in S \X S : p[1].day > p[2].day}
           T == OfKey(NewestDays(B), k)
<1>1. S \in SUBSET B /\ IsFiniteSet(S)
  <2>1. S \in SUBSET B
    BY DEF OfKey
  <2> QED
    BY <2>1, FS_Subset
<1>2. \A x \in S : x.key = k /\ x.day \in Nat
  BY <1>1 DEF Bucket, OfKey
<1>3. \A x, y \in S : <<x, y>> \in R <=> x.day > y.day
  OBVIOUS
<1>4. InOrder(R, S)
  <2>1. \A x, y \in S : x.day = y.day => x = y
    BY <1>1, <1>2 DEF UniqueDays
  <2> HIDE DEF R, S
  <2> QED
    BY <1>2, <1>3, <2>1 DEF InOrder
<1>5. \A x \in S : Ahead(R, S, x) = {c \in OfKey(B, x.key) : c.day > x.day}
  BY <1>2, <1>3 DEF Ahead
<1>6. T = {x \in S : Cardinality(Ahead(R, S, x)) < MaxBuckets}
  BY <1>5 DEF NewestDays, OfKey
<1> HIDE DEF R, S, T
<1> QED
  BY <1>1, <1>4, <1>6, FirstAreFew, PolicyAssumption DEF T

LEMMA NewestSummariesAreFew ==
    ASSUME NEW Q \in SUBSET Recent, IsFiniteSet(Q), Distinct(Q), NEW k
    PROVE  Cardinality(OfKey(NewestSummaries(Q), k)) <= MaxRecents
<1> DEFINE S == OfKey(Q, k)
           R == {p \in S \X S : NewerSummary(p[1], p[2])}
           T == OfKey(NewestSummaries(Q), k)
<1>1. S \in SUBSET Q /\ IsFiniteSet(S)
  <2>1. S \in SUBSET Q
    BY DEF OfKey
  <2> QED
    BY <2>1, FS_Subset
<1>2. \A x \in S : x.key = k /\ x.at \in Nat /\ x.id \in Nat
  BY <1>1 DEF Recent, OfKey
<1>3. \A x, y \in S : <<x, y>> \in R <=> NewerSummary(x, y)
  OBVIOUS
<1>4. InOrder(R, S)
  <2>1. \A x, y \in S : x.at = y.at /\ x.id = y.id => x = y
    BY <1>1, <1>2 DEF Distinct
  <2> HIDE DEF R, S
  <2> QED
    BY <1>2, <1>3, <2>1 DEF InOrder, NewerSummary
<1>5. \A x \in S : Ahead(R, S, x) = {s \in OfKey(Q, x.key) : NewerSummary(s, x)}
  BY <1>2, <1>3 DEF Ahead
<1>6. T = {x \in S : Cardinality(Ahead(R, S, x)) < MaxRecents}
  BY <1>5 DEF NewestSummaries, OfKey
<1> HIDE DEF R, S, T
<1> QED
  BY <1>1, <1>4, <1>6, FirstAreFew, PolicyAssumption DEF T

------------------------------------------------------------------------------
(* The rows of a merge.                                                    *)
LEMMA MergeOwnRows ==
    ASSUME NEW R, NEW m \in Leaf(R), NEW b, NEW now \in Nat
    PROVE  LET next == MergeOwn(m, b, now)
               today == EffectiveToday(m, b, now)
           IN  /\ next.pruningDay = today
               /\ next.buckets = NewestDays(FoldBuckets(m, b, today))
               /\ next.recents = NewestSummaries(WithBucket(m.recents \cup Summaries(b), next.buckets))
               /\ next.receipts = LiveReceipts(m, now) \cup {Receipt(b)}
<1> DEFINE buckets == NewestDays(FoldBuckets(m, b, EffectiveToday(m, b, now)))
           recents == NewestSummaries(WithBucket(m.recents \cup Summaries(b), buckets))
           receipts == LiveReceipts(m, now) \cup {Receipt(b)}
           updated == Later(m.updatedAt, now)
           after == Later(m.acceptAfter, AcceptAfter(now))
           today == EffectiveToday(m, b, now)
<1>1. MergeOwn(m, b, now) =
        [m EXCEPT !.updatedAt = updated, !.pruningDay = today,
                  !.acceptAfter = after, !.buckets = buckets,
                  !.recents = recents, !.receipts = receipts]
  BY DEF MergeOwn
<1>2. m = [updatedAt |-> m.updatedAt, pruningDay |-> m.pruningDay,
           acceptAfter |-> m.acceptAfter, buckets |-> m.buckets,
           recents |-> m.recents, receipts |-> m.receipts]
  BY DEF Leaf
<1> HIDE DEF buckets, recents, receipts, updated, after, today
<1>3. MergeOwn(m, b, now) =
        [updatedAt |-> updated, pruningDay |-> today, acceptAfter |-> after,
         buckets |-> buckets, recents |-> recents, receipts |-> receipts]
  BY <1>1, <1>2
<1> QED
  BY <1>3 DEF receipts, recents, buckets, today

Merges(m, b, now) ==
    /\ MergeOwn(m, b, now).pruningDay = EffectiveToday(m, b, now)
    /\ MergeOwn(m, b, now).buckets = NewestDays(FoldBuckets(m, b, EffectiveToday(m, b, now)))
    /\ MergeOwn(m, b, now).recents =
          NewestSummaries(WithBucket(m.recents \cup Summaries(b), MergeOwn(m, b, now).buckets))

LEMMA MergeOwnMerges ==
    ASSUME NEW R, NEW m \in Leaf(R), NEW b, NEW now \in Nat
    PROVE  Merges(m, b, now)
  BY MergeOwnRows DEF Merges

LEMMA AgeChildRows ==
    ASSUME NEW R, NEW m \in Leaf(R), NEW now \in Nat
    PROVE  LET next == AgeChild(m, now)
               today == Later(m.pruningDay, DayOf(now))
           IN  /\ next.pruningDay = today
               /\ next.buckets = {x \in m.buckets : InHorizon(x.day, today)}
               /\ next.recents = WithBucket(m.recents, next.buckets)
               /\ next.receipts = LiveReceipts(m, now)
<1> DEFINE today == Later(m.pruningDay, DayOf(now))
           buckets == {b \in m.buckets : InHorizon(b.day, today)}
           recents == WithBucket(m.recents, buckets)
           updated == Later(m.updatedAt, now)
           after == Later(m.acceptAfter, AcceptAfter(now))
           receipts == LiveReceipts(m, now)
<1>1. AgeChild(m, now) =
        [m EXCEPT !.updatedAt = updated, !.pruningDay = today, !.acceptAfter = after,
                  !.buckets = buckets, !.recents = recents, !.receipts = receipts]
  BY DEF AgeChild
<1>2. m = [updatedAt |-> m.updatedAt, pruningDay |-> m.pruningDay,
           acceptAfter |-> m.acceptAfter, buckets |-> m.buckets,
           recents |-> m.recents, receipts |-> m.receipts]
  BY DEF Leaf
<1> HIDE DEF today, buckets, recents, updated, after, receipts
<1>3. AgeChild(m, now) =
        [updatedAt |-> updated, pruningDay |-> today, acceptAfter |-> after,
         buckets |-> buckets, recents |-> recents, receipts |-> receipts]
  BY <1>1, <1>2
<1> QED
  BY <1>3 DEF receipts, recents, buckets, today

------------------------------------------------------------------------------
(* A valid model whose rows are finitely many.                             *)
SoundLeaf(m) ==
    /\ ValidLeaf(m)
    /\ IsFiniteSet(m.buckets) /\ IsFiniteSet(m.recents) /\ IsFiniteSet(m.receipts)

(* Summaries with the identity of a batch say the same.                    *)
Consistent(m, b) ==
    \A r \in m.recents, s \in Summaries(b) : r.key = s.key /\ r.at = s.at /\ r.id = s.id => r = s

LEMMA SoundMeans ==
    ASSUME NEW R, NEW m \in Leaf(R), SoundLeaf(m)
    PROVE  /\ m.buckets \in SUBSET Bucket /\ m.recents \in SUBSET Recent /\ m.pruningDay \in Nat
           /\ UniqueDays(m.buckets) /\ Distinct(m.recents)
           /\ \A x \in m.buckets : Observed(x) /\ InHorizon(x.day, m.pruningDay)
           /\ \A x \in m.buckets : x.count <= MaxSafe /\ x.total <= MaxSafe
           /\ \A r \in m.recents : \E x \in m.buckets :
                 x.key = r.key /\ x.day = DayOf(r.at) /\ r.at <= x.last
<1>1. m.buckets \in SUBSET Bucket /\ m.recents \in SUBSET Recent /\ m.pruningDay \in Nat
  BY DEF Leaf
<1>2. \A x \in m.buckets : Observed(x) /\ InHorizon(x.day, m.pruningDay) /\ x.count <= MaxSafe /\ x.total <= MaxSafe
  BY DEF SoundLeaf, ValidLeaf, Observed, InHorizon
<1>3. UniqueDays(m.buckets)
  BY DEF SoundLeaf, ValidLeaf, UniqueDays, OfKey
<1>4. \A r \in m.recents : \E x \in m.buckets : x.key = r.key /\ x.day = DayOf(r.at) /\ r.at <= x.last
  BY DEF SoundLeaf, ValidLeaf, OfKey
<1>5. \A r \in m.recents : r.key \in KeysOf(m.buckets)
  BY <1>4 DEF KeysOf
<1>6. Distinct(m.recents)
  BY <1>5 DEF SoundLeaf, ValidLeaf, OfKey, Distinct
<1> QED
  BY <1>1, <1>2, <1>3, <1>4, <1>6

------------------------------------------------------------------------------
(* What has to be shown of rows for them to be valid.                      *)
LEMMA SoundFrom ==
    ASSUME NEW m,
           IsFiniteSet(m.buckets), IsFiniteSet(m.recents), IsFiniteSet(m.receipts),
           Cardinality(m.receipts) <= MaxReceipts,
           \A r, s \in m.receipts : r.id = s.id => r = s,
           UniqueDays(m.buckets), Distinct(m.recents),
           \A x \in m.buckets : /\ Observed(x) /\ InHorizon(x.day, m.pruningDay)
                                /\ x.count <= MaxSafe /\ x.total <= MaxSafe,
           \A r \in m.recents : \E x \in m.buckets :
              x.key = r.key /\ x.day = DayOf(r.at) /\ r.at <= x.last,
           \A k \in KeysOf(m.buckets) : /\ Cardinality(OfKey(m.buckets, k)) <= MaxBuckets
                                        /\ Cardinality(OfKey(m.recents, k)) <= MaxRecents
    PROVE  SoundLeaf(m)
<1>1. \A b \in m.buckets :
          /\ b.count > 0 /\ b.count <= MaxSafe /\ b.total <= MaxSafe
          /\ DayOf(b.last) = b.day
          /\ b.day <= m.pruningDay /\ b.day >= Cutoff(m.pruningDay)
          /\ \A c \in OfKey(m.buckets, b.key) : c.day = b.day => c = b
  BY DEF Observed, InHorizon, UniqueDays, OfKey
<1>2. \A r \in m.recents : \E b \in OfKey(m.buckets, r.key) : b.day = DayOf(r.at) /\ r.at <= b.last
  BY DEF OfKey
<1>3. \A k : \A r, s \in OfKey(m.recents, k) : r.at = s.at /\ r.id = s.id => r = s
  BY DEF OfKey, Distinct
<1> QED
  BY <1>1, <1>2, <1>3 DEF SoundLeaf, ValidLeaf

(* A batch that is applied leaves a valid model.                           *)
LEMMA MergeKeepsSound ==
    ASSUME NEW R, NEW m \in Leaf(R), SoundLeaf(m), NEW b, NEW now \in Nat,
           b.id \in Nat, b.aggregates \in SUBSET Aggregate, IsFiniteSet(b.aggregates),
           ValidAggregates(b.aggregates, now), Receipt(b) \in R,
           OwnOutcome(m, b, now) = "applied", Consistent(m, b)
    PROVE  /\ MergeOwn(m, b, now) \in Leaf(R) /\ SoundLeaf(MergeOwn(m, b, now))
           /\ MergeOwn(m, b, now).recents \subseteq m.recents \cup Summaries(b)
<1> DEFINE next == MergeOwn(m, b, now)
           today == EffectiveToday(m, b, now)
           A == b.aggregates
           B == m.buckets
           F == FoldBuckets(m, b, today)
           Q == WithBucket(m.recents \cup Summaries(b), next.buckets)
<1>1. next \in Leaf(R)
  BY MergeOwnType
<1>2. /\ next.pruningDay = today /\ next.buckets = NewestDays(F) /\ next.recents = NewestSummaries(Q)
      /\ next.receipts = LiveReceipts(m, now) \cup {Receipt(b)}
  <2>1. /\ MergeOwn(m, b, now).pruningDay = EffectiveToday(m, b, now)
        /\ MergeOwn(m, b, now).buckets = NewestDays(FoldBuckets(m, b, EffectiveToday(m, b, now)))
        /\ MergeOwn(m, b, now).recents
             = NewestSummaries(WithBucket(m.recents \cup Summaries(b), MergeOwn(m, b, now).buckets))
        /\ MergeOwn(m, b, now).receipts = LiveReceipts(m, now) \cup {Receipt(b)}
    BY MergeOwnRows
  <2> QED
    BY <2>1
<1>3. /\ B \in SUBSET Bucket /\ m.recents \in SUBSET Recent
      /\ UniqueDays(B) /\ Distinct(m.recents) /\ \A x \in B : Observed(x)
      /\ \A r \in m.recents : \E x \in B : x.key = r.key /\ x.day = DayOf(r.at) /\ r.at <= x.last
      /\ IsFiniteSet(B) /\ IsFiniteSet(m.recents) /\ IsFiniteSet(m.receipts)
  BY SoundMeans DEF SoundLeaf
<1>4. OncePerDay(A) /\ Counted(A)
  BY DEF ValidAggregates, OncePerDay, Counted
<1>5. /\ \A r \in m.receipts : r.id # b.id
      /\ \A x \in F : ~(x.count > MaxSafe) /\ ~(x.total > MaxSafe)
      /\ ~(Cardinality(LiveReceipts(m, now)) >= MaxReceipts)
  BY DEF OwnOutcome
<1>6. ASSUME NEW x \in F
      PROVE  /\ x \in Bucket /\ Observed(x) /\ InHorizon(x.day, today) /\ Folded(x, B, A)
             /\ x.count <= MaxSafe /\ x.total <= MaxSafe
             /\ \A y \in B : y.key = x.key /\ y.day = x.day => y.last <= x.last
             /\ \A a \in A : SameDay(x, a) => a.last <= x.last
  <2>1. InHorizon(x.day, today) /\ Folded(x, B, A)
    BY <1>3, FoldedRows
  <2>2. /\ x \in Bucket /\ Observed(x)
        /\ \A y \in B : y.key = x.key /\ y.day = x.day => y.last <= x.last
        /\ \A a \in A : SameDay(x, a) => a.last <= x.last
    <3> HIDE DEF A, B, F
    <3> QED
      BY <1>3, <1>4, <2>1, FoldedIsObserved DEF A
  <2>3. x.count <= MaxSafe /\ x.total <= MaxSafe
    BY <1>5, <2>2, PolicyAssumption DEF Bucket
  <2> QED
    BY <2>1, <2>2, <2>3
<1>7. F \in SUBSET Bucket /\ UniqueDays(F) /\ IsFiniteSet(F)
  <2>1. F \in SUBSET Bucket
    BY <1>6
  <2>2. UniqueDays(F)
    <3> SUFFICES ASSUME NEW x \in F, NEW z \in F, x.key = z.key, x.day = z.day PROVE x = z
      BY DEF UniqueDays
    <3> HIDE DEF A, B, F
    <3> QED
      BY <1>3, <1>4, <1>6, FoldedOnce DEF A
  <2>3. IsFiniteSet(F)
    BY <1>3, FoldIsFinite
  <2> QED
    BY <2>1, <2>2, <2>3
<1>8. /\ next.buckets \in SUBSET F /\ IsFiniteSet(next.buckets)
      /\ \A k : Cardinality(OfKey(next.buckets, k)) <= MaxBuckets
  <2>1. next.buckets \in SUBSET F
    BY <1>2 DEF NewestDays
  <2> HIDE DEF F, next
  <2> QED
    BY <1>2, <1>7, <2>1, FS_Subset, NewestDaysAreFew
<1>9. /\ Summaries(b) \in SUBSET Recent /\ IsFiniteSet(Summaries(b))
      /\ \A s \in Summaries(b) : \E a \in A : s.key = a.key /\ s.at = a.last /\ s.id = b.id /\ s.mean = BatchMean(a)
  <2> DEFINE f == [a \in A |-> [key |-> a.key, at |-> a.last, id |-> b.id, mean |-> BatchMean(a)]]
  <2>1. f \in [A -> Summaries(b)] /\ \A s \in Summaries(b) : \E a \in A : f[a] = s
    BY DEF Summaries
  <2>2. IsFiniteSet(Summaries(b))
    <3> HIDE DEF f
    <3> QED
      BY <2>1, ImageIsFinite
  <2>3. ASSUME NEW a \in A
        PROVE  [key |-> a.key, at |-> a.last, id |-> b.id, mean |-> BatchMean(a)] \in Recent
    <3>1. a \in Aggregate /\ a.count > 0
      BY <1>4 DEF Counted
    <3>2. BatchMean(a) \in Nat
      BY <3>1, BatchMeanType
    <3> QED
      BY <3>1, <3>2 DEF Aggregate, Recent
  <2> QED
    BY <2>2, <2>3 DEF Summaries
<1>10. /\ Q \in SUBSET (m.recents \cup Summaries(b)) /\ Q \in SUBSET Recent
       /\ IsFiniteSet(Q) /\ Distinct(Q)
  <2>1. Q \in SUBSET (m.recents \cup Summaries(b))
    BY DEF WithBucket
  <2>2. IsFiniteSet(m.recents \cup Summaries(b))
    BY <1>3, <1>9, FS_Union
  <2>3. IsFiniteSet(Q)
    BY <2>1, <2>2, FS_Subset
  <2>4. ASSUME NEW r \in Summaries(b), NEW s \in Summaries(b), r.key = s.key, r.at = s.at
        PROVE  r = s
    <3>1. PICK a \in A : r = [key |-> a.key, at |-> a.last, id |-> b.id, mean |-> BatchMean(a)]
      BY DEF Summaries
    <3>2. PICK c \in A : s = [key |-> c.key, at |-> c.last, id |-> b.id, mean |-> BatchMean(c)]
      BY DEF Summaries
    <3>3. a = c
      BY <1>4, <2>4, <3>1, <3>2 DEF OncePerDay
    <3> QED
      BY <3>1, <3>2, <3>3
  <2>5. Distinct(m.recents \cup Summaries(b))
    BY <1>3, <2>4 DEF Distinct, Consistent
  <2>6. Distinct(Q)
    <3> HIDE DEF Q
    <3> QED
      BY <2>1, <2>5 DEF Distinct
  <2> QED
    BY <1>3, <1>9, <2>1, <2>3, <2>6
<1>11. /\ next.recents \in SUBSET Q /\ IsFiniteSet(next.recents)
       /\ \A k : Cardinality(OfKey(next.recents, k)) <= MaxRecents
  <2>1. next.recents \in SUBSET Q
    BY <1>2 DEF NewestSummaries
  <2> HIDE DEF Q, next
  <2> QED
    BY <1>2, <1>10, <2>1, FS_Subset, NewestSummariesAreFew
<1>12. ASSUME NEW r \in next.recents
       PROVE  \E x \in next.buckets : x.key = r.key /\ x.day = DayOf(r.at) /\ r.at <= x.last
  <2>1. r \in m.recents \cup Summaries(b) /\ \E x \in OfKey(next.buckets, r.key) : x.day = DayOf(r.at)
    BY <1>11 DEF WithBucket
  <2>2. PICK x \in next.buckets : x.key = r.key /\ x.day = DayOf(r.at)
    BY <2>1 DEF OfKey
  <2>3. x \in F
    BY <1>8
  <2>4. CASE r \in m.recents
    <3>1. PICK y \in B : y.key = r.key /\ y.day = DayOf(r.at) /\ r.at <= y.last
      BY <1>3, <2>4
    <3>2. y.last <= x.last
      BY <1>6, <2>2, <2>3, <3>1
    <3>3. r.at \in Nat /\ y.last \in Nat /\ x.last \in Nat
      BY <1>3, <1>6, <2>3, <2>4, <3>1 DEF Bucket, Recent
    <3> QED
      BY <2>2, <3>1, <3>2, <3>3
  <2>5. CASE r \in Summaries(b)
    <3>1. PICK a \in A : r.key = a.key /\ r.at = a.last
      BY <1>9, <2>5
    <3>2. a.last <= x.last
      BY <1>6, <2>2, <2>3, <3>1 DEF SameDay
    <3> QED
      BY <2>2, <3>1, <3>2
  <2> QED
    BY <2>1, <2>4, <2>5
<1>13. /\ IsFiniteSet(next.receipts) /\ Cardinality(next.receipts) <= MaxReceipts
       /\ \A r, s \in next.receipts : r.id = s.id => r = s
  <2>1. LiveReceipts(m, now) \in SUBSET m.receipts
    BY DEF LiveReceipts
  <2>2. IsFiniteSet(LiveReceipts(m, now)) /\ Cardinality(LiveReceipts(m, now)) \in Nat
    BY <1>3, <2>1, FS_Subset, FS_CardinalityType
  <2>3. /\ IsFiniteSet(LiveReceipts(m, now) \cup {Receipt(b)})
        /\ Cardinality(LiveReceipts(m, now) \cup {Receipt(b)}) <= Cardinality(LiveReceipts(m, now)) + 1
    <3>1. PICK L : L = LiveReceipts(m, now)
      OBVIOUS
    <3>2. PICK r : r = Receipt(b)
      OBVIOUS
    <3>3. IsFiniteSet(L) /\ Cardinality(L) \in Nat
      BY <2>2, <3>1
    <3>4. IsFiniteSet(L \cup {r}) /\ Cardinality(L \cup {r}) = IF r \in L THEN Cardinality(L) ELSE Cardinality(L) + 1
      BY <3>3, FS_AddElement
    <3> QED
      BY <3>1, <3>2, <3>3, <3>4
  <2>4. Cardinality(LiveReceipts(m, now) \cup {Receipt(b)}) \in Nat
    BY <2>3, FS_CardinalityType
  <2>5. \A r, s \in m.receipts : r.id = s.id => r = s
    BY DEF SoundLeaf, ValidLeaf
  <2>6. Receipt(b).id = b.id
    BY DEF Receipt
  <2> HIDE DEF next
  <2> QED
    BY <1>2, <1>5, <2>1, <2>2, <2>3, <2>4, <2>5, <2>6, PolicyAssumption
<1>14. UniqueDays(next.buckets) /\ Distinct(next.recents)
  <2> HIDE DEF next, F, Q
  <2> QED
    BY <1>7, <1>8, <1>10, <1>11 DEF UniqueDays, Distinct
<1>15. \A x \in next.buckets : /\ Observed(x) /\ InHorizon(x.day, next.pruningDay)
                                /\ x.count <= MaxSafe /\ x.total <= MaxSafe
  <2> HIDE DEF next, F
  <2> QED
    BY <1>2, <1>6, <1>8
<1>16. SoundLeaf(next)
  <2> HIDE DEF next
  <2> QED
    BY <1>8, <1>11, <1>12, <1>13, <1>14, <1>15, SoundFrom
<1>17. next.recents \subseteq m.recents \cup Summaries(b)
  <2> HIDE DEF next, Q
  <2> QED
    BY <1>10, <1>11
<1> HIDE DEF next
<1> QED
  BY <1>1, <1>16, <1>17 DEF next

(* Ageing leaves a valid model.                                            *)
LEMMA AgeKeepsSound ==
    ASSUME NEW R, NEW m \in Leaf(R), SoundLeaf(m), NEW now \in Nat
    PROVE  /\ AgeChild(m, now) \in Leaf(R) /\ SoundLeaf(AgeChild(m, now))
           /\ AgeChild(m, now).recents \subseteq m.recents
<1> DEFINE next == AgeChild(m, now)
           today == Later(m.pruningDay, DayOf(now))
<1>1. /\ next.pruningDay = today
      /\ next.buckets = {x \in m.buckets : InHorizon(x.day, today)}
      /\ next.recents = WithBucket(m.recents, next.buckets)
      /\ next.receipts = LiveReceipts(m, now)
  BY AgeChildRows
<1>2. /\ UniqueDays(m.buckets) /\ Distinct(m.recents)
      /\ \A x \in m.buckets : Observed(x) /\ x.count <= MaxSafe /\ x.total <= MaxSafe
      /\ \A r \in m.recents : \E x \in m.buckets : x.key = r.key /\ x.day = DayOf(r.at) /\ r.at <= x.last
      /\ IsFiniteSet(m.buckets) /\ IsFiniteSet(m.recents) /\ IsFiniteSet(m.receipts)
      /\ Cardinality(m.receipts) <= MaxReceipts
      /\ \A r, s \in m.receipts : r.id = s.id => r = s
  BY SoundMeans DEF SoundLeaf, ValidLeaf
<1>3. /\ next.buckets \in SUBSET m.buckets /\ next.recents \in SUBSET m.recents
      /\ next.receipts \in SUBSET m.receipts
  BY <1>1 DEF WithBucket, LiveReceipts
<1> HIDE DEF next
<1>4. /\ IsFiniteSet(next.buckets) /\ IsFiniteSet(next.recents) /\ IsFiniteSet(next.receipts)
      /\ Cardinality(next.receipts) <= MaxReceipts
  <2>1. /\ IsFiniteSet(next.receipts) /\ Cardinality(next.receipts) \in Nat /\ Cardinality(m.receipts) \in Nat
        /\ Cardinality(next.receipts) <= Cardinality(m.receipts)
    BY <1>2, <1>3, FS_Subset, FS_CardinalityType
  <2>2. MaxReceipts \in Nat
    BY PolicyAssumption
  <2> QED
    BY <1>2, <1>3, <2>1, <2>2, FS_Subset
<1>5. \A k \in KeysOf(next.buckets) : /\ Cardinality(OfKey(next.buckets, k)) <= MaxBuckets
                                      /\ Cardinality(OfKey(next.recents, k)) <= MaxRecents
  <2> TAKE k \in KeysOf(next.buckets)
  <2>1. k \in KeysOf(m.buckets)
    BY <1>3 DEF KeysOf
  <2>2. Cardinality(OfKey(m.buckets, k)) <= MaxBuckets /\ Cardinality(OfKey(m.recents, k)) <= MaxRecents
    BY <2>1 DEF SoundLeaf, ValidLeaf
  <2>3. /\ OfKey(next.buckets, k) \in SUBSET OfKey(m.buckets, k) /\ OfKey(m.buckets, k) \in SUBSET m.buckets
        /\ OfKey(next.recents, k) \in SUBSET OfKey(m.recents, k) /\ OfKey(m.recents, k) \in SUBSET m.recents
    BY <1>3 DEF OfKey
  <2>4. /\ IsFiniteSet(OfKey(m.buckets, k)) /\ Cardinality(OfKey(m.buckets, k)) \in Nat
        /\ Cardinality(OfKey(next.buckets, k)) \in Nat
        /\ Cardinality(OfKey(next.buckets, k)) <= Cardinality(OfKey(m.buckets, k))
    BY <1>2, <2>3, FS_Subset, FS_CardinalityType
  <2>5. /\ IsFiniteSet(OfKey(m.recents, k)) /\ Cardinality(OfKey(m.recents, k)) \in Nat
        /\ Cardinality(OfKey(next.recents, k)) \in Nat
        /\ Cardinality(OfKey(next.recents, k)) <= Cardinality(OfKey(m.recents, k))
    BY <1>2, <2>3, FS_Subset, FS_CardinalityType
  <2>6. MaxBuckets \in Nat /\ MaxRecents \in Nat
    BY PolicyAssumption
  <2> QED
    BY <2>2, <2>4, <2>5, <2>6
<1>6. UniqueDays(next.buckets) /\ Distinct(next.recents) /\ \A r, s \in next.receipts : r.id = s.id => r = s
  BY <1>2, <1>3 DEF UniqueDays, Distinct
<1>7. \A x \in next.buckets : /\ Observed(x) /\ InHorizon(x.day, next.pruningDay)
                              /\ x.count <= MaxSafe /\ x.total <= MaxSafe
  BY <1>1, <1>2
<1>8. ASSUME NEW r \in next.recents
      PROVE  \E x \in next.buckets : x.key = r.key /\ x.day = DayOf(r.at) /\ r.at <= x.last
  <2>1. PICK x \in next.buckets : x.key = r.key /\ x.day = DayOf(r.at)
    BY <1>1 DEF WithBucket, OfKey
  <2>2. PICK y \in m.buckets : y.key = r.key /\ y.day = DayOf(r.at) /\ r.at <= y.last
    BY <1>2, <1>3
  <2>3. x = y
    BY <1>2, <1>3, <2>1, <2>2 DEF UniqueDays
  <2> QED
    BY <2>1, <2>2, <2>3
<1>9. SoundLeaf(next)
  BY <1>4, <1>5, <1>6, <1>7, <1>8, SoundFrom
<1> QED
  BY <1>3, <1>9, AgeChildType DEF next

(* An empty model is valid.                                                *)
LEMMA FreshIsSound ==
    ASSUME NEW now \in Nat
    PROVE  SoundLeaf(FreshLeaf(now)) /\ FreshLeaf(now).recents = {}
<1> DEFINE m == FreshLeaf(now)
<1>1. m.buckets = {} /\ m.recents = {} /\ m.receipts = {}
  BY DEF FreshLeaf
<1>2. IsFiniteSet({}) /\ Cardinality({}) = 0
  BY FS_EmptySet
<1>3. MaxReceipts \in Nat
  BY PolicyAssumption
<1> HIDE DEF m
<1>4. SoundLeaf(m)
  BY <1>1, <1>2, <1>3 DEF SoundLeaf, ValidLeaf, KeysOf
<1> QED
  BY <1>1, <1>4 DEF m

------------------------------------------------------------------------------
(* The extremes of a finite set of naturals are among its elements.        *)
LEMMA ExtremesAreIn ==
    ASSUME NEW S, S \subseteq Nat, IsFiniteSet(S), S # {}
    PROVE  /\ Max(S) \in S /\ \A y \in S : y <= Max(S)
           /\ Min(S) \in S /\ \A y \in S : Min(S) <= y
<1>1. PICK n \in S : \A y \in S : y <= n
  BY LargestNumber
<1>2. n \in Nat
  OBVIOUS
<1>3. Max(S) \in S /\ \A y \in S : y <= Max(S)
  BY <1>1, <1>2, GreatestNatural
<1>4. \E x \in S : \A y \in S : x <= y
  BY LeastNatural
<1>5. Min(S) \in S /\ \A y \in S : Min(S) <= y
  BY <1>4 DEF Min
<1> QED
  BY <1>3, <1>5

(* What can be said of a field of finitely many rows.                      *)
LEMMA FieldsAreFinite ==
    ASSUME NEW S, IsFiniteSet(S), NEW f \in [S -> Nat], NEW F, F = {f[x] : x \in S}
    PROVE  /\ F \subseteq Nat /\ IsFiniteSet(F)
           /\ S # {} => F # {}
<1>1. f \in [S -> F] /\ \A y \in F : \E x \in S : f[x] = y
  OBVIOUS
<1>2. IsFiniteSet(F)
  BY <1>1, ImageIsFinite
<1> QED
  BY <1>2

(* A sum of something of everything is something.                          *)
LEMMA SumIsPositive ==
    ASSUME NEW S, IsFiniteSet(S), NEW f \in [S -> Nat], NEW x \in S, f[x] > 0
    PROVE  SumOf(f, S) \in Nat /\ SumOf(f, S) > 0
<1>1. SumOf(f, S) \in Nat /\ f[x] <= SumOf(f, S)
  BY SumHolds
<1>2. PICK p, q : p = SumOf(f, S) /\ q = f[x]
  OBVIOUS
<1>3. p \in Nat /\ q \in Nat /\ q > 0 /\ q <= p
  BY <1>1, <1>2
<1> QED
  BY <1>2, <1>3

(* The buckets and summaries one row is made of.                           *)
RowSource(buckets, recents, today) ==
    /\ buckets \in SUBSET Bucket /\ IsFiniteSet(buckets) /\ buckets # {}
    /\ \A x \in buckets : Observed(x) /\ InHorizon(x.day, today)
    /\ recents \in SUBSET Recent /\ IsFiniteSet(recents)
    /\ \A r, s \in recents : r.at = s.at /\ r.id = s.id => r = s

(* The median of the summaries is a time.                                  *)
LEMMA MedianIsANumber ==
    ASSUME NEW recents \in SUBSET Recent, IsFiniteSet(recents), recents # {},
           \A r, s \in recents : r.at = s.at /\ r.id = s.id => r = s
    PROVE  MedianRecent(recents) \in Nat
<1> DEFINE times == {r.at : r \in recents}
           latest == Max(times)
           used == {r \in recents : Minus(latest, r.at) <= RecentWindow}
           Below(r) == {s \in used : s.mean < r.mean
                                      \/ (s.mean = r.mean /\ NewerSummary(r, s))}
           Rank(n) == CHOOSE r \in used : Cardinality(Below(r)) = n
           middle == Cardinality(used) \div 2
           R == {p \in used \X used : p[1].mean < p[2].mean
                                       \/ (p[1].mean = p[2].mean /\ NewerSummary(p[2], p[1]))}
<1>1. \A r \in recents : r.at \in Nat /\ r.id \in Nat /\ r.mean \in Nat
  BY DEF Recent
<1>2. latest \in times
  <2> DEFINE f == [r \in recents |-> r.at]
  <2>1. f \in [recents -> Nat] /\ times = {f[r] : r \in recents}
    BY <1>1
  <2> HIDE DEF f, times
  <2>2. times \subseteq Nat /\ IsFiniteSet(times) /\ times # {}
    BY <2>1, FieldsAreFinite
  <2> QED
    BY <2>2, ExtremesAreIn
<1> HIDE DEF latest
<1>3. used # {} /\ used \in SUBSET recents
  <2>1. PICK r \in recents : r.at = latest
    BY <1>2
  <2>2. Minus(latest, latest) = 0
    BY <1>1, <2>1 DEF Minus
  <2>3. r \in used
    BY <2>1, <2>2, PolicyAssumption
  <2> QED
    BY <2>3
<1> HIDE DEF used
<1>4. IsFiniteSet(used) /\ Cardinality(used) \in Nat /\ Cardinality(used) >= 1
  <2>1. IsFiniteSet(used) /\ Cardinality(used) \in Nat
    BY <1>3, FS_Subset, FS_CardinalityType
  <2>2. Cardinality(used) # 0
    BY <1>3, <2>1, FS_EmptySet
  <2> QED
    BY <2>1, <2>2
<1>5. \A x, y \in used : <<x, y>> \in R <=>
         x.mean < y.mean \/ (x.mean = y.mean /\ NewerSummary(y, x))
  OBVIOUS
<1>6. \A r \in used : Below(r) = Ahead(R, used, r)
  BY <1>5 DEF Ahead
<1> HIDE DEF R
<1>7. InOrder(R, used)
  <2>1. \A x \in used : <<x, x>> \notin R
    BY <1>1, <1>3, <1>5 DEF NewerSummary
  <2>2. \A x, y \in used : x # y => <<x, y>> \in R \/ <<y, x>> \in R
    BY <1>1, <1>3, <1>5 DEF NewerSummary
  <2>3. \A x, y, z \in used : <<x, y>> \in R /\ <<y, z>> \in R => <<x, z>> \in R
    BY <1>1, <1>3, <1>5 DEF NewerSummary
  <2> QED
    BY <2>1, <2>2, <2>3 DEF InOrder
<1>8. ASSUME NEW n \in 0..(Cardinality(used) - 1)
      PROVE  Rank(n) \in used /\ Cardinality(Ahead(R, used, Rank(n))) = n
  <2>1. PICK x \in used : Cardinality(Ahead(R, used, x)) = n
    BY <1>4, <1>7, EveryRankIsTaken
  <2>2. \E r \in used : Cardinality(Below(r)) = n
    BY <1>6, <2>1
  <2>3. Rank(n) \in used /\ Cardinality(Below(Rank(n))) = n
    <3> HIDE DEF Below
    <3> QED
      BY <2>2
  <2> HIDE DEF Rank, Below
  <2> QED
    BY <1>6, <2>3
<1> HIDE DEF Below
<1>9. MedianRecent(recents) =
        IF Cardinality(used) % 2 = 1
        THEN Rank(middle).mean
        ELSE Rank(middle - 1).mean + (Rank(middle).mean - Rank(middle - 1).mean + 1) \div 2
  BY DEF MedianRecent, latest, used, Below
<1>10. PICK c \in Nat : c = Cardinality(used) /\ c >= 1
  BY <1>4
<1>11. middle = c \div 2 /\ middle \in 0..(c - 1)
  BY <1>10
<1>12. Rank(middle) \in used /\ Cardinality(Ahead(R, used, Rank(middle))) = middle
  BY <1>8, <1>10, <1>11
<1>13. Rank(middle).mean \in Nat
  BY <1>1, <1>3, <1>12
<1>14. CASE c % 2 = 1
  <2>1. MedianRecent(recents) = Rank(middle).mean
    BY <1>9, <1>10, <1>14
  <2> QED
    BY <1>13, <2>1
<1>15. CASE c % 2 # 1
  <2>1. middle - 1 \in 0..(c - 1)
    BY <1>10, <1>11, <1>15
  <2>2. Rank(middle - 1) \in used /\ Cardinality(Ahead(R, used, Rank(middle - 1))) = middle - 1
    BY <1>8, <1>10, <2>1
  <2>3. PICK r, s : r = Rank(middle - 1) /\ s = Rank(middle)
    OBVIOUS
  <2>4. PICK i : i = middle
    OBVIOUS
  <2>5. /\ r \in used /\ s \in used /\ i \in Nat
        /\ Cardinality(Ahead(R, used, r)) = i - 1 /\ Cardinality(Ahead(R, used, s)) = i
    BY <1>11, <1>12, <2>2, <2>3, <2>4
  <2>6. <<s, r>> \notin R
    <3> SUFFICES ASSUME <<s, r>> \in R PROVE FALSE
      OBVIOUS
    <3>1. Cardinality(Ahead(R, used, s)) < Cardinality(Ahead(R, used, r))
      BY <1>4, <1>7, <2>5, FewerAhead
    <3> QED
      BY <2>5, <3>1
  <2>7. r.mean \in Nat /\ s.mean \in Nat /\ r.mean <= s.mean
    BY <1>1, <1>3, <1>5, <2>5, <2>6
  <2>8. MedianRecent(recents) = r.mean + (s.mean - r.mean + 1) \div 2
    BY <1>9, <1>10, <1>15, <2>3
  <2>9. PICK p, q : p = r.mean /\ q = s.mean
    OBVIOUS
  <2>10. p \in Nat /\ q \in Nat /\ q - p + 1 \in Nat
    BY <2>7, <2>9
  <2>11. (q - p + 1) \div 2 \in Nat
    BY <2>10
  <2> QED
    BY <2>8, <2>9, <2>10, <2>11
<1> QED
  BY <1>14, <1>15

------------------------------------------------------------------------------
(* Growth of a product, and what division by a day means.                  *)
LEMMA ProductGrows ==
    ASSUME NEW m \in Nat, NEW a \in Nat, NEW b \in Nat, a <= b
    PROVE  a * m \in Nat /\ b * m \in Nat /\ a * m <= b * m
<1>1. PICK d \in Nat : b = a + d
  <2> WITNESS b - a \in Nat
  <2> QED
    OBVIOUS
<1>2. b * m = a * m + d * m
  BY <1>1
<1>3. a * m \in Nat /\ d * m \in Nat
  OBVIOUS
<1>4. PICK p, q, r : p = a * m /\ q = d * m /\ r = b * m
  OBVIOUS
<1> QED
  BY <1>2, <1>3, <1>4

LEMMA BeforeTheNextDay ==
    ASSUME NEW t \in Nat, NEW today \in Nat, DayOf(t) <= today
    PROVE  t < (today + 1) * Day
<1>1. PICK q : q = t \div Day
  OBVIOUS
<1>2. Day \in Nat /\ Day > 0
  BY PolicyAssumption
<1>3. q \in Nat /\ t < (q + 1) * Day
  BY <1>1, <1>2
<1>4. q <= today
  BY <1>1 DEF DayOf
<1>5. (q + 1) * Day \in Nat /\ (today + 1) * Day \in Nat /\ (q + 1) * Day <= (today + 1) * Day
  BY <1>2, <1>3, <1>4, ProductGrows
<1>6. PICK u, v : u = (q + 1) * Day /\ v = (today + 1) * Day
  OBVIOUS
<1> QED
  BY <1>3, <1>5, <1>6

(* The weighted mean of the days is a time.                                *)
LEMMA WeightedMeanIsANumber ==
    ASSUME NEW B \in SUBSET Bucket, IsFiniteSet(B), B # {}, NEW today \in Nat,
           \A x \in B : Observed(x) /\ InHorizon(x.day, today)
    PROVE  WeightedMean(B) \in Nat
<1> DEFINE days == {x.day : x \in B}
           latest == Max(days)
           f == [x \in B |-> x.total * Weight(latest - x.day)]
           g == [x \in B |-> x.count * Weight(latest - x.day)]
<1>1. \A x \in B : x.day \in Nat /\ x.count \in Nat /\ x.total \in Nat /\ x.count > 0
  BY DEF Bucket, Observed
<1>2. latest \in days /\ \A d \in days : d <= latest
  <2> DEFINE h == [x \in B |-> x.day]
  <2>1. h \in [B -> Nat] /\ days = {h[x] : x \in B}
    BY <1>1
  <2> HIDE DEF h, days
  <2>2. days \subseteq Nat /\ IsFiniteSet(days) /\ days # {}
    BY <2>1, FieldsAreFinite
  <2> QED
    BY <2>2, ExtremesAreIn
<1>3. PICK l : l = latest
  OBVIOUS
<1>4. l \in Nat /\ \A x \in B : x.day <= l
  BY <1>1, <1>2, <1>3
<1>5. \A x \in B : l - x.day \in 0..BucketHorizon
  <2>1. ASSUME NEW x \in B PROVE l - x.day \in 0..BucketHorizon
    <3>1. InHorizon(x.day, today) /\ l <= today
      BY <1>2, <1>3 DEF InHorizon
    <3>2. BucketHorizon \in Nat
      BY PolicyAssumption
    <3>3. x.day \in Nat /\ x.day <= l
      BY <1>1, <1>4
    <3>4. PICK d : d = x.day
      OBVIOUS
    <3> QED
      BY <1>4, <3>1, <3>2, <3>3, <3>4 DEF InHorizon, Cutoff, Minus
  <2> QED
    BY <2>1
<1>6. \A x \in B : Weight(l - x.day) \in Nat /\ Weight(l - x.day) > 0
  BY <1>5, PolicyAssumption
<1>7. ASSUME NEW x \in B
      PROVE  /\ x.total * Weight(l - x.day) \in Nat
             /\ x.count * Weight(l - x.day) \in Nat /\ x.count * Weight(l - x.day) > 0
  <2>1. PICK w : w = Weight(l - x.day)
    OBVIOUS
  <2>2. PICK c, t : c = x.count /\ t = x.total
    OBVIOUS
  <2>3. w \in Nat /\ w > 0 /\ c \in Nat /\ c > 0 /\ t \in Nat
    BY <1>1, <1>6, <2>1, <2>2
  <2>4. t * w \in Nat /\ c * w \in Nat /\ c * w > 0
    BY <2>3
  <2> QED
    BY <2>1, <2>2, <2>4
<1>8. /\ f \in [B -> Nat] /\ g \in [B -> Nat] /\ \A x \in B : g[x] > 0
  BY <1>3, <1>7
<1>9. WeightedMean(B) = (2 * SumOf(f, B) + SumOf(g, B)) \div (2 * SumOf(g, B))
  BY DEF WeightedMean, Plus
<1> HIDE DEF f, g
<1>10. PICK x \in B : TRUE
  OBVIOUS
<1>11. SumOf(g, B) \in Nat /\ SumOf(g, B) > 0
  BY <1>8, <1>10, SumIsPositive
<1>12. SumOf(f, B) \in Nat
  <2>1. B \in SUBSET B
    OBVIOUS
  <2> QED
    BY <1>8, <2>1, SumWithout
<1>13. PICK p, q : p = SumOf(f, B) /\ q = SumOf(g, B)
  OBVIOUS
<1>14. p \in Nat /\ q \in Nat /\ q > 0 /\ WeightedMean(B) = (2 * p + q) \div (2 * q)
  BY <1>9, <1>11, <1>12, <1>13
<1>15. PICK u, v : u = 2 * p + q /\ v = 2 * q
  OBVIOUS
<1>16. u \in Nat /\ v \in Nat /\ v > 0
  BY <1>14, <1>15
<1>17. u \div v \in Nat
  BY <1>16
<1> QED
  BY <1>14, <1>15, <1>17

(* What every row of a table says.                                         *)
Servable(row, buckets, today) ==
    /\ row.estimate \in Nat /\ row.count \in Nat /\ row.count > 0
    /\ row.last \in Nat /\ \E x \in buckets : x.last = row.last
    /\ row.last < (today + 1) * Day
    /\ row.until \in Nat /\ (today + 1) * Day <= row.until

LEMMA RowIsServable ==
    ASSUME NEW B, NEW Q, NEW today \in Nat, RowSource(B, Q, today)
    PROVE  Servable(RecentPrediction(B, Q), B, today)
<1> DEFINE row == RecentPrediction(B, Q)
           days == {x.day : x \in B}
           lasts == {x.last : x \in B}
           f == [x \in B |-> x.count]
<1>1. /\ B \in SUBSET Bucket /\ IsFiniteSet(B) /\ B # {}
      /\ \A x \in B : Observed(x) /\ InHorizon(x.day, today)
      /\ Q \in SUBSET Recent /\ IsFiniteSet(Q)
      /\ \A r, s \in Q : r.at = s.at /\ r.id = s.id => r = s
  BY DEF RowSource
<1>2. \A x \in B : x.day \in Nat /\ x.count \in Nat /\ x.last \in Nat /\ x.count > 0 /\ DayOf(x.last) = x.day
  BY <1>1 DEF Bucket, Observed
<1>3. /\ Max(lasts) \in lasts
      /\ Min(days) \in days
  <2> DEFINE g == [x \in B |-> x.day]
             h == [x \in B |-> x.last]
  <2>1. g \in [B -> Nat] /\ days = {g[x] : x \in B}
    BY <1>2
  <2>2. h \in [B -> Nat] /\ lasts = {h[x] : x \in B}
    BY <1>2
  <2> HIDE DEF g, h, days, lasts
  <2>3. days \subseteq Nat /\ IsFiniteSet(days) /\ days # {}
    BY <1>1, <2>1, FieldsAreFinite
  <2>4. lasts \subseteq Nat /\ IsFiniteSet(lasts) /\ lasts # {}
    BY <1>1, <2>2, FieldsAreFinite
  <2> HIDE DEF days, lasts
  <2> QED
    BY <2>3, <2>4, ExtremesAreIn
<1>4. /\ row.estimate = IF Q = {} THEN WeightedMean(B) ELSE MedianRecent(Q)
      /\ row.count = SumOf(f, B) /\ row.last = Max(lasts)
      /\ row.until = (Min(days) + BucketHorizon) * Day
  BY DEF RecentPrediction, Plus
<1> HIDE DEF row
<1>5. row.estimate \in Nat
  <2>1. Q = {} => WeightedMean(B) \in Nat
    BY <1>1, WeightedMeanIsANumber
  <2>2. Q # {} => MedianRecent(Q) \in Nat
    BY <1>1, MedianIsANumber
  <2> QED
    BY <1>4, <2>1, <2>2
<1>6. row.count \in Nat /\ row.count > 0
  <2>1. f \in [B -> Nat] /\ \A x \in B : f[x] > 0
    BY <1>2
  <2> HIDE DEF f
  <2>2. PICK x \in B : TRUE
    BY <1>1
  <2>3. SumOf(f, B) \in Nat /\ SumOf(f, B) > 0
    BY <1>1, <2>1, <2>2, SumIsPositive
  <2> QED
    BY <1>4, <2>3
<1>7. PICK x \in B : x.last = row.last
  BY <1>3, <1>4
<1>8. row.last \in Nat /\ row.last < (today + 1) * Day
  <2>1. x.last \in Nat /\ DayOf(x.last) <= today
    BY <1>1, <1>2 DEF InHorizon
  <2> QED
    BY <1>7, <2>1, BeforeTheNextDay
<1>9. row.until \in Nat /\ (today + 1) * Day <= row.until
  <2>1. PICK y \in B : y.day = Min(days)
    BY <1>3
  <2>2. InHorizon(y.day, today) /\ y.day \in Nat
    BY <1>1, <1>2
  <2>3. BucketHorizon \in Nat /\ Day \in Nat
    BY PolicyAssumption
  <2>4. PICK d : d = y.day
    OBVIOUS
  <2>5. d \in Nat /\ today + 1 <= d + BucketHorizon
    BY <2>2, <2>3, <2>4 DEF InHorizon, Cutoff, Minus
  <2>6. (d + BucketHorizon) * Day \in Nat /\ (today + 1) * Day <= (d + BucketHorizon) * Day
    BY <2>3, <2>5, ProductGrows
  <2> QED
    BY <1>4, <2>1, <2>4, <2>6
<1> QED
  BY <1>5, <1>6, <1>7, <1>8, <1>9 DEF Servable, row

------------------------------------------------------------------------------
(* A rounded quotient is not below nor above what bounds the quotient.     *)
LEMMA RoundingStaysBetween ==
    ASSUME NEW total \in Nat, NEW count \in Nat, count > 0, NEW low \in Nat, NEW high \in Nat,
           low * count <= total, total <= high * count
    PROVE  HalfUp(total, count) \in Nat /\ low <= HalfUp(total, count) /\ HalfUp(total, count) <= high
<1>1. PICK half \in Nat : half = count \div 2 /\ half < count
  OBVIOUS
<1>2. PICK u \in Nat : u = total + half
  BY <1>1
<1>3. PICK q : q = u \div count
  OBVIOUS
<1>4. q \in Nat /\ q * count <= u /\ u < (q + 1) * count
  BY <1>2, <1>3
<1>5. HalfUp(total, count) = q
  BY <1>1, <1>2, <1>3 DEF HalfUp
<1>6. low <= q
  <2> SUFFICES ASSUME ~(low <= q) PROVE FALSE
    OBVIOUS
  <2>1. q + 1 \in Nat /\ q + 1 <= low
    BY <1>4
  <2>2. (q + 1) * count \in Nat /\ low * count \in Nat /\ (q + 1) * count <= low * count
    BY <2>1, ProductGrows
  <2>3. PICK a, b : a = (q + 1) * count /\ b = low * count
    OBVIOUS
  <2> QED
    BY <1>1, <1>2, <1>4, <2>2, <2>3
<1>7. q <= high
  <2> SUFFICES ASSUME ~(q <= high) PROVE FALSE
    OBVIOUS
  <2>1. high + 1 \in Nat /\ high + 1 <= q
    BY <1>4
  <2>2. (high + 1) * count \in Nat /\ q * count \in Nat /\ (high + 1) * count <= q * count
    BY <1>4, <2>1, ProductGrows
  <2>3. (high + 1) * count = high * count + count
    OBVIOUS
  <2>4. high * count \in Nat
    OBVIOUS
  <2>5. PICK a, b, c : a = (high + 1) * count /\ b = q * count /\ c = high * count
    OBVIOUS
  <2> QED
    BY <1>1, <1>2, <1>4, <2>2, <2>3, <2>4, <2>5
<1> QED
  BY <1>4, <1>5, <1>6, <1>7

(* A weighted average stays between the smallest and the largest of what   *)
(* it averages.                                                            *)
LEMMA AverageIsBetween ==
    ASSUME NEW S, IsFiniteSet(S), S # {}, NEW est \in [S -> Nat], NEW share \in [S -> Nat],
           \A x \in S : share[x] > 0,
           NEW f \in [S -> Nat], \A x \in S : f[x] = est[x] * share[x]
    PROVE  /\ SumOf(share, S) \in Nat /\ SumOf(share, S) > 0
           /\ HalfUp(SumOf(f, S), SumOf(share, S)) \in Nat
           /\ \E x \in S : est[x] <= HalfUp(SumOf(f, S), SumOf(share, S))
           /\ \E x \in S : HalfUp(SumOf(f, S), SumOf(share, S)) <= est[x]
<1> DEFINE E == {est[x] : x \in S}
<1>1. E \subseteq Nat /\ IsFiniteSet(E) /\ E # {}
  <2>1. E = {est[x] : x \in S}
    OBVIOUS
  <2> HIDE DEF E
  <2> QED
    BY <2>1, FieldsAreFinite
<1>2. Max(E) \in E /\ (\A y \in E : y <= Max(E)) /\ Min(E) \in E /\ \A y \in E : Min(E) <= y
  <2> HIDE DEF E
  <2> QED
    BY <1>1, ExtremesAreIn
<1>3. PICK lo \in S : est[lo] = Min(E)
  BY <1>2
<1>4. PICK hi \in S : est[hi] = Max(E)
  BY <1>2
<1>5. PICK low, high : low = est[lo] /\ high = est[hi]
  OBVIOUS
<1>6. low \in Nat /\ high \in Nat /\ \A x \in S : low <= est[x] /\ est[x] <= high
  BY <1>2, <1>3, <1>4, <1>5
<1>7. ASSUME NEW x \in S PROVE f[x] >= low * share[x] /\ f[x] <= high * share[x]
  <2>1. PICK s, t : s = share[x] /\ t = est[x]
    OBVIOUS
  <2>2. s \in Nat /\ t \in Nat /\ low <= t /\ t <= high
    BY <1>6, <2>1
  <2>3. /\ low * s \in Nat /\ t * s \in Nat /\ high * s \in Nat
        /\ low * s <= t * s /\ t * s <= high * s
    BY <1>6, <2>2, ProductGrows
  <2>4. f[x] = t * s
    BY <2>1
  <2>5. PICK a, b, c : a = low * s /\ b = t * s /\ c = high * s
    OBVIOUS
  <2> QED
    BY <2>1, <2>3, <2>4, <2>5
<1>8. SumOf(f, S) \in Nat /\ SumOf(share, S) \in Nat /\ SumOf(f, S) >= low * SumOf(share, S)
  BY <1>6, <1>7, SumOfMore
<1>9. SumOf(f, S) <= high * SumOf(share, S)
  BY <1>6, <1>7, SumOfLess
<1>10. SumOf(share, S) > 0
  BY <1>3, SumIsPositive
<1>11. PICK total, count : total = SumOf(f, S) /\ count = SumOf(share, S)
  OBVIOUS
<1>12. /\ total \in Nat /\ count \in Nat /\ count > 0
       /\ low * count <= total /\ total <= high * count
  <2>1. PICK a : a = low * count
    OBVIOUS
  <2>2. a \in Nat
    BY <1>6, <1>8, <1>11, <2>1
  <2> QED
    BY <1>8, <1>9, <1>10, <1>11, <2>1, <2>2
<1>13. HalfUp(total, count) \in Nat /\ low <= HalfUp(total, count) /\ HalfUp(total, count) <= high
  BY <1>6, <1>12, RoundingStaysBetween
<1> QED
  BY <1>5, <1>8, <1>10, <1>11, <1>13

------------------------------------------------------------------------------
(* Every row that is served for a valid model is one that its consumers    *)
(* accept.                                                                 *)
ServedBuckets(m, k, today) == {x \in OfKey(m.buckets, k) : InHorizon(x.day, today)}

LEMMA LeafRowsAreServable ==
    ASSUME NEW R, NEW m \in Leaf(R), SoundLeaf(m), NEW now \in Nat, NEW k \in DOMAIN LeafRows(m, now)
    PROVE  Servable(LeafRows(m, now)[k], ServedBuckets(m, k, DayOf(now)), DayOf(now))
<1> DEFINE today == DayOf(now)
           buckets == {b \in m.buckets : InHorizon(b.day, today)}
           B == OfKey(buckets, k)
           Q == OfKey(WithBucket(m.recents, buckets), k)
<1>1. /\ k \in KeysOf(buckets)
      /\ LeafRows(m, now)[k] = RecentPrediction(B, Q)
  BY DEF LeafRows
<1>2. B = ServedBuckets(m, k, today)
  BY DEF OfKey, ServedBuckets
<1>3. /\ m.buckets \in SUBSET Bucket /\ m.recents \in SUBSET Recent
      /\ Distinct(m.recents)
      /\ \A x \in m.buckets : Observed(x)
  BY SoundMeans
<1>4. IsFiniteSet(m.buckets) /\ IsFiniteSet(m.recents)
  BY DEF SoundLeaf
<1>5. B \in SUBSET m.buckets /\ Q \in SUBSET m.recents
  BY DEF OfKey, WithBucket
<1>6. IsFiniteSet(B) /\ IsFiniteSet(Q)
  BY <1>4, <1>5, FS_Subset
<1>7. B # {}
  BY <1>1 DEF KeysOf, OfKey
<1>8. \A x \in B : Observed(x) /\ InHorizon(x.day, today)
  BY <1>3 DEF OfKey
<1>9. \A r, s \in Q : r.at = s.at /\ r.id = s.id => r = s
  BY <1>3, <1>5 DEF OfKey, Distinct
<1>10. today \in Nat
  BY DayOfType
<1> HIDE DEF B, Q, today
<1>11. RowSource(B, Q, today)
  BY <1>3, <1>5, <1>6, <1>7, <1>8, <1>9 DEF RowSource
<1>12. Servable(RecentPrediction(B, Q), B, today)
  BY <1>10, <1>11, RowIsServable
<1> QED
  BY <1>1, <1>2, <1>12 DEF today

------------------------------------------------------------------------------
(* Rounding half up is what the remainder says.                            *)
LEMMA MeanIsHalfUp ==
    ASSUME NEW t \in Nat, NEW c \in Nat, c > 0
    PROVE  HalfUp(t, c) = t \div c + (IF t % c >= (c + 1) \div 2 THEN 1 ELSE 0)
<1>1. PICK q, r : q = t \div c /\ r = t % c
  OBVIOUS
<1>2. q \in Nat /\ r \in Nat /\ r < c /\ t = c * q + r
  BY <1>1
<1>3. PICK h, g : h = c \div 2 /\ g = (c + 1) \div 2
  OBVIOUS
<1>4. h \in Nat /\ g \in Nat /\ h + g = c
  BY <1>3
<1>5. PICK u : u = (t + h) \div c
  OBVIOUS
<1>6. u \in Nat /\ c * u <= t + h /\ t + h < c * (u + 1)
  BY <1>4, <1>5
<1>7. c * (u + 1) = c * u + c /\ c * (q + 1) = c * q + c /\ c * (q + 2) = c * q + c + c
  BY <1>2, <1>6
<1>8. CASE r >= g
  <2>1. u >= q + 1
    <3> SUFFICES ASSUME ~(u >= q + 1) PROVE FALSE
      OBVIOUS
    <3>1. u + 1 <= q + 1
      BY <1>2, <1>6
    <3>2. (u + 1) * c <= (q + 1) * c
      BY <1>2, <1>6, <3>1, ProductGrows
    <3> QED
      BY <1>2, <1>4, <1>6, <1>7, <1>8, <3>2
  <2>2. u <= q + 1
    <3> SUFFICES ASSUME ~(u <= q + 1) PROVE FALSE
      OBVIOUS
    <3>1. q + 2 <= u
      BY <1>2, <1>6
    <3>2. (q + 2) * c <= u * c
      BY <1>2, <1>6, <3>1, ProductGrows
    <3> QED
      BY <1>2, <1>4, <1>6, <1>7, <3>2
  <2>3. u = q + 1
    BY <1>2, <1>6, <2>1, <2>2
  <2> QED
    BY <1>1, <1>3, <1>5, <1>8, <2>3 DEF HalfUp
<1>9. CASE ~(r >= g)
  <2>1. u >= q
    <3> SUFFICES ASSUME ~(u >= q) PROVE FALSE
      OBVIOUS
    <3>1. u + 1 <= q
      BY <1>2, <1>6
    <3>2. (u + 1) * c <= q * c
      BY <1>2, <1>6, <3>1, ProductGrows
    <3> QED
      BY <1>2, <1>4, <1>6, <1>7, <3>2
  <2>2. u <= q
    <3> SUFFICES ASSUME ~(u <= q) PROVE FALSE
      OBVIOUS
    <3>1. q + 1 <= u
      BY <1>2, <1>6
    <3>2. (q + 1) * c <= u * c
      BY <1>2, <1>6, <3>1, ProductGrows
    <3> QED
      BY <1>2, <1>4, <1>6, <1>7, <1>9, <3>2
  <2>3. u = q
    BY <1>2, <1>6, <2>1, <2>2
  <2> QED
    BY <1>1, <1>2, <1>3, <1>5, <1>9, <2>3 DEF HalfUp
<1> QED
  BY <1>8, <1>9

(* One more summand.                                                       *)
LEMMA SumWithMore ==
    ASSUME NEW S, IsFiniteSet(S), NEW s, s \notin S,
           NEW f \in [S \cup {s} -> Nat], NEW g \in [S -> Nat], \A x \in S : f[x] = g[x]
    PROVE  SumOf(g, S) \in Nat /\ SumOf(f, S \cup {s}) = SumOf(g, S) + f[s]
<1> PICK D : D = S \cup {s}
  OBVIOUS
<1>1. IsFiniteSet(D) /\ S \in SUBSET D /\ D \in SUBSET D /\ s \in D /\ D \ {s} = S /\ f \in [D -> Nat]
  BY FS_AddElement
<1>2. SumOf(f, D) = f[s] + SumOf(f, D \ {s}) /\ SumOf(f, S) \in Nat
  <2>1. /\ \A T \in SUBSET D : SumOf(f, T) \in Nat
        /\ \A T \in SUBSET D : \A x \in T : SumOf(f, T) = f[x] + SumOf(f, T \ {x})
    BY <1>1, SumWithout
  <2> QED
    BY <1>1, <2>1
<1> DEFINE h == [x \in S |-> x]
<1>3. /\ h \in [S -> S] /\ (\A x, y \in S : h[x] = h[y] => x = y)
      /\ (\A x \in S : g[h[x]] = f[x]) /\ {h[x] : x \in S} = S
  OBVIOUS
<1> HIDE DEF h
<1>4. Renames(f, D, S, g, S, h)
  BY <1>1, <1>3 DEF Renames
<1>5. SumOf(f, S) = SumOf(g, S)
  BY <1>1, <1>4, SumOfAll
<1>6. PICK a, b : a = SumOf(f, S) /\ b = f[s]
  OBVIOUS
<1>7. a \in Nat /\ b \in Nat /\ SumOf(f, D) = b + a
  BY <1>1, <1>2, <1>6
<1>8. SumOf(f, D) = a + b
  BY <1>7
<1> QED
  BY <1>5, <1>6, <1>7, <1>8

LEMMA LargestOfMore ==
    ASSUME NEW S, S \subseteq Nat, IsFiniteSet(S), S # {}, NEW v \in Nat
    PROVE  Max(S \cup {v}) = Later(Max(S), v) /\ Max(S) \in Nat
<1> PICK T : T = S \cup {v}
  OBVIOUS
<1>1. T \subseteq Nat /\ IsFiniteSet(T) /\ T # {}
  BY FS_AddElement
<1>2. Max(T) \in T /\ \A y \in T : y <= Max(T)
  BY <1>1, ExtremesAreIn
<1>3. Max(S) \in S /\ \A y \in S : y <= Max(S)
  BY ExtremesAreIn
<1>4. PICK p, q : p = Max(T) /\ q = Max(S)
  OBVIOUS
<1>5. p \in T /\ q \in S /\ p \in Nat /\ q \in Nat /\ (\A y \in T : y <= p) /\ (\A y \in S : y <= q)
  BY <1>1, <1>2, <1>3, <1>4
<1>6. p = Later(q, v)
  BY <1>5 DEF Later
<1> QED
  BY <1>4, <1>5, <1>6

------------------------------------------------------------------------------
(* What the batches S say of a key and a day, and the days they speak of.  *)
OnDay(S, k, d) ==
    UNION {{[batch |-> b, row |-> a] :
              a \in {x \in b.aggregates : x.key = k /\ DayOf(x.last) = d}} : b \in S}

DaysOf(S, k, today) == {d \in Nat : InHorizon(d, today) /\ OnDay(S, k, d) # {}}

After == {p \in Nat \X Nat : p[1] > p[2]}

Kept(S, k, today) == Foremost(After, DaysOf(S, k, today), MaxBuckets)

(* Batches that can be counted: each says one thing of a key and a day.    *)
Telling(b) ==
    /\ b.id \in Nat /\ b.aggregates \in SUBSET Aggregate /\ IsFiniteSet(b.aggregates)
    /\ OncePerDay(b.aggregates) /\ Counted(b.aggregates)

Books(S) == IsFiniteSet(S) /\ (\A b \in S : Telling(b))

LEMMA OnDayIs ==
    ASSUME NEW S, NEW k, NEW d, NEW s
    PROVE  s \in OnDay(S, k, d) <=>
              \E b \in S : \E a \in b.aggregates :
                 a.key = k /\ DayOf(a.last) = d /\ s = [batch |-> b, row |-> a]
<1> DEFINE T(b) == {[batch |-> b, row |-> a] :
                      a \in {x \in b.aggregates : x.key = k /\ DayOf(x.last) = d}}
<1>1. \A b : s \in T(b) <=>
        \E a \in b.aggregates : a.key = k /\ DayOf(a.last) = d /\ s = [batch |-> b, row |-> a]
  OBVIOUS
<1>2. OnDay(S, k, d) = UNION {T(b) : b \in S}
  BY DEF OnDay
<1> HIDE DEF T
<1> QED
  BY <1>1, <1>2

LEMMA SamplesIs ==
    ASSUME NEW S, NEW k, NEW today, NEW s
    PROVE  s \in Samples(S, k, today) <=>
              \E b \in S : \E a \in b.aggregates :
                 a.key = k /\ InHorizon(DayOf(a.last), today) /\ s = [batch |-> b, row |-> a]
<1> DEFINE T(b) == {[batch |-> b, row |-> a] :
                      a \in {x \in b.aggregates : x.key = k /\ InHorizon(DayOf(x.last), today)}}
<1>1. \A b : s \in T(b) <=>
        \E a \in b.aggregates : a.key = k /\ InHorizon(DayOf(a.last), today) /\ s = [batch |-> b, row |-> a]
  OBVIOUS
<1>2. Samples(S, k, today) = UNION {T(b) : b \in S}
  BY DEF Samples
<1> HIDE DEF T
<1> QED
  BY <1>1, <1>2

LEMMA TellingRows ==
    ASSUME NEW b, Telling(b), NEW a \in b.aggregates
    PROVE  /\ b.id \in Nat /\ a \in Aggregate /\ a.key \in Keys /\ a.last \in Nat /\ a.count \in Nat
           /\ a.count > 0 /\ a.total \in Nat /\ DayOf(a.last) \in Nat
<1>1. b.id \in Nat /\ a \in Aggregate /\ a.count > 0
  BY DEF Telling, Counted
<1>2. a.key \in Keys /\ a.last \in Nat /\ a.count \in Nat /\ a.total \in Nat
  BY <1>1 DEF Aggregate
<1> QED
  BY <1>1, <1>2, DayOfType

(* The samples of the horizon, day by day.                                 *)
LEMMA SamplesByDay ==
    ASSUME NEW S, Books(S), NEW k, NEW today
    PROVE  LET samples == Samples(S, k, today) IN
           /\ {DayOf(s.row.last) : s \in samples} = DaysOf(S, k, today)
           /\ KeptDays(samples) = Kept(S, k, today)
           /\ \A d \in DaysOf(S, k, today) :
                 {s \in samples : DayOf(s.row.last) = d} = OnDay(S, k, d)
<1> DEFINE samples == Samples(S, k, today)
           days == {DayOf(s.row.last) : s \in samples}
<1>1. ASSUME NEW s
      PROVE  /\ s \in samples => /\ DayOf(s.row.last) \in Nat /\ InHorizon(DayOf(s.row.last), today)
                                 /\ s \in OnDay(S, k, DayOf(s.row.last))
             /\ \A d : s \in OnDay(S, k, d) => DayOf(s.row.last) = d
             /\ \A d : InHorizon(d, today) /\ s \in OnDay(S, k, d) => s \in samples
  <2>1. ASSUME s \in samples
        PROVE  /\ DayOf(s.row.last) \in Nat /\ InHorizon(DayOf(s.row.last), today)
               /\ s \in OnDay(S, k, DayOf(s.row.last))
    <3>1. PICK b \in S : \E a \in b.aggregates :
             a.key = k /\ InHorizon(DayOf(a.last), today) /\ s = [batch |-> b, row |-> a]
      BY <2>1, SamplesIs
    <3>2. PICK a \in b.aggregates :
             a.key = k /\ InHorizon(DayOf(a.last), today) /\ s = [batch |-> b, row |-> a]
      BY <3>1
    <3>3. s.row = a
      BY <3>2
    <3>4. DayOf(a.last) \in Nat
      BY TellingRows DEF Books
    <3> QED
      BY <3>2, <3>3, <3>4, OnDayIs
  <2>2. ASSUME NEW d, s \in OnDay(S, k, d)
        PROVE  DayOf(s.row.last) = d /\ (InHorizon(d, today) => s \in samples)
    <3>1. PICK b \in S : \E a \in b.aggregates :
             a.key = k /\ DayOf(a.last) = d /\ s = [batch |-> b, row |-> a]
      BY <2>2, OnDayIs
    <3>2. PICK a \in b.aggregates :
             a.key = k /\ DayOf(a.last) = d /\ s = [batch |-> b, row |-> a]
      BY <3>1
    <3>3. s.row = a
      BY <3>2
    <3> QED
      BY <3>2, <3>3, SamplesIs
  <2> QED
    BY <2>1, <2>2
<1> HIDE DEF samples
<1>2. days = DaysOf(S, k, today)
  <2>1. ASSUME NEW d \in days PROVE d \in DaysOf(S, k, today)
    <3>1. PICK s \in samples : d = DayOf(s.row.last)
      OBVIOUS
    <3> QED
      BY <1>1, <3>1 DEF DaysOf
  <2>2. ASSUME NEW d \in DaysOf(S, k, today) PROVE d \in days
    <3>1. PICK s : s \in OnDay(S, k, d) /\ InHorizon(d, today)
      BY DEF DaysOf
    <3>2. s \in samples /\ DayOf(s.row.last) = d
      BY <1>1, <3>1
    <3> QED
      BY <3>2
  <2> QED
    BY <2>1, <2>2
<1>3. KeptDays(samples) = {d \in days : Cardinality({x \in days : x > d}) < MaxBuckets}
  BY DEF KeptDays
<1> HIDE DEF days
<1>4. \A d \in days : {x \in days : x > d} = Ahead(After, days, d)
  <2>1. days \subseteq Nat
    BY <1>2 DEF DaysOf
  <2> QED
    BY <2>1 DEF Ahead, After
<1>5. KeptDays(samples) = Kept(S, k, today)
  BY <1>2, <1>3, <1>4 DEF Kept, Foremost
<1>6. ASSUME NEW d \in DaysOf(S, k, today)
      PROVE  {s \in samples : DayOf(s.row.last) = d} = OnDay(S, k, d)
  <2>1. InHorizon(d, today)
    BY DEF DaysOf
  <2> QED
    BY <1>1, <2>1
<1> QED
  BY <1>2, <1>5, <1>6 DEF samples, days

(* The reference, row by row.                                              *)
LEMMA ReferenceBucketsIs ==
    ASSUME NEW S, Books(S), NEW today, NEW x
    PROVE  x \in ReferenceBuckets(S, today) <=>
              \E k \in Keys : \E d \in Kept(S, k, today) : x = DayTotal(k, d, OnDay(S, k, d))
<1> DEFINE T(k) == LET samples == Samples(S, k, today)
                       On(d) == {s \in samples : DayOf(s.row.last) = d}
                   IN  {DayTotal(k, d, On(d)) : d \in KeptDays(samples)}
<1>1. ReferenceBuckets(S, today) = UNION {T(k) : k \in Keys}
  BY DEF ReferenceBuckets
<1>2. ASSUME NEW k \in Keys
      PROVE  x \in T(k) <=> \E d \in Kept(S, k, today) : x = DayTotal(k, d, OnDay(S, k, d))
  <2>1. x \in T(k) <=> \E d \in KeptDays(Samples(S, k, today)) :
           x = DayTotal(k, d, {s \in Samples(S, k, today) : DayOf(s.row.last) = d})
    OBVIOUS
  <2>2. \A d \in Kept(S, k, today) : d \in DaysOf(S, k, today)
    BY DEF Kept, Foremost
  <2>3. /\ KeptDays(Samples(S, k, today)) = Kept(S, k, today)
        /\ \A d \in DaysOf(S, k, today) :
              {s \in Samples(S, k, today) : DayOf(s.row.last) = d} = OnDay(S, k, d)
    BY SamplesByDay
  <2> HIDE DEF T
  <2> QED
    BY <2>1, <2>2, <2>3
<1> HIDE DEF T
<1> QED
  BY <1>1, <1>2

------------------------------------------------------------------------------
(* What the batches S say of the runs of a key, and what of it lies on the *)
(* days that are kept.                                                     *)
Said(S, k) == {r \in UNION {Summaries(b) : b \in S} : r.key = k}

Newer == {p \in Recent \X Recent : NewerSummary(p[1], p[2])}

Lately(S, k, today) == {r \in Said(S, k) : DayOf(r.at) \in Kept(S, k, today)}

SummaryOf(b, a) == [key |-> a.key, at |-> a.last, id |-> b.id, mean |-> BatchMean(a)]

LEMMA SaidIs ==
    ASSUME NEW S, NEW k, NEW r
    PROVE  r \in Said(S, k) <=>
              \E b \in S : \E a \in b.aggregates : a.key = k /\ r = SummaryOf(b, a)
<1>1. \A b : r \in Summaries(b) <=> \E a \in b.aggregates : r = SummaryOf(b, a)
  BY DEF Summaries, SummaryOf
<1>2. \A b, a : SummaryOf(b, a).key = a.key
  BY DEF SummaryOf
<1>3. r \in Said(S, k) <=> \E b \in S : r \in Summaries(b) /\ r.key = k
  BY DEF Said
<1> QED
  BY <1>1, <1>2, <1>3

LEMMA TellingSummary ==
    ASSUME NEW b, Telling(b), NEW a \in b.aggregates
    PROVE  /\ SummaryOf(b, a) \in Recent /\ SummaryOf(b, a).key = a.key
           /\ SummaryOf(b, a).at = a.last /\ SummaryOf(b, a).id = b.id
<1>1. /\ b.id \in Nat /\ a \in Aggregate /\ a.key \in Keys /\ a.last \in Nat /\ a.count > 0
  BY TellingRows
<1>2. BatchMean(a) \in Nat
  BY <1>1, BatchMeanType
<1> QED
  BY <1>1, <1>2 DEF SummaryOf, Recent

LEMMA SaidType ==
    ASSUME NEW S, Books(S), NEW k, NEW r \in Said(S, k)
    PROVE  /\ r \in Recent /\ r.key = k /\ r.at \in Nat /\ r.id \in Nat /\ DayOf(r.at) \in Nat
           /\ OnDay(S, k, DayOf(r.at)) # {}
<1>1. PICK b \in S : \E a \in b.aggregates : a.key = k /\ r = SummaryOf(b, a)
  BY SaidIs
<1>2. PICK a \in b.aggregates : a.key = k /\ r = SummaryOf(b, a)
  BY <1>1
<1>3. Telling(b)
  BY DEF Books
<1>4. r \in Recent /\ r.key = k /\ r.at = a.last
  BY <1>2, <1>3, TellingSummary
<1>5. r.at \in Nat /\ r.id \in Nat
  BY <1>4 DEF Recent
<1>6. [batch |-> b, row |-> a] \in OnDay(S, k, DayOf(r.at))
  BY <1>2, <1>4, OnDayIs
<1> QED
  BY <1>4, <1>5, <1>6, DayOfType

(* Summaries of a key come one after the other, or at one moment of one run.*)
LEMMA SaidIsOrdered ==
    ASSUME NEW S, Books(S), NEW k
    PROVE  PartialOrder(Newer, Said(S, k))
<1>1. \A r \in Said(S, k) : r \in Recent /\ r.at \in Nat /\ r.id \in Nat
  BY SaidType
<1>2. \A r, s \in Said(S, k) : <<r, s>> \in Newer <=> r.at > s.at \/ (r.at = s.at /\ r.id > s.id)
  BY <1>1 DEF Newer, NewerSummary
<1> PICK T : T = Said(S, k)
  OBVIOUS
<1>3. \A x \in T : <<x, x>> \notin Newer
  BY <1>1, <1>2
<1>4. \A x, y, z \in T : <<x, y>> \in Newer /\ <<y, z>> \in Newer => <<x, z>> \in Newer
  BY <1>1, <1>2
<1> QED
  BY <1>3, <1>4 DEF PartialOrder

LEMMA ReferenceRecentsIs ==
    ASSUME NEW S, Books(S), NEW today, NEW x
    PROVE  x \in ReferenceRecents(S, today) <=>
              \E k \in Keys : x \in Foremost(Newer, Lately(S, k, today), MaxRecents)
<1> DEFINE K(k) == LET samples == Samples(S, k, today)
                   IN  {Summary(s) : s \in {y \in samples : DayOf(y.row.last) \in KeptDays(samples)}}
           T(k) == {r \in K(k) : Cardinality({y \in K(k) : NewerSummary(y, r)}) < MaxRecents}
<1>1. ReferenceRecents(S, today) = UNION {T(k) : k \in Keys}
  BY DEF ReferenceRecents
<1>2. ASSUME NEW k \in Keys PROVE K(k) = Lately(S, k, today)
  <2> PICK samples : samples = Samples(S, k, today)
    OBVIOUS
  <2>1. KeptDays(samples) = Kept(S, k, today)
    BY SamplesByDay
  <2>2. \A d \in Kept(S, k, today) : InHorizon(d, today)
    BY DEF Kept, Foremost, DaysOf
  <2>3. ASSUME NEW b \in S, NEW a \in b.aggregates, a.key = k
        PROVE  Summary([batch |-> b, row |-> a]) = SummaryOf(b, a)
    <3>1. a.total \in Nat /\ a.count \in Nat /\ a.count > 0
      BY TellingRows DEF Books
    <3>2. HalfUp(a.total, a.count) = BatchMean(a)
      BY <3>1, MeanIsHalfUp DEF BatchMean
    <3> QED
      BY <3>2 DEF Summary, SummaryOf
  <2>4. ASSUME NEW r \in K(k) PROVE r \in Lately(S, k, today)
    <3>1. PICK s \in samples : DayOf(s.row.last) \in Kept(S, k, today) /\ r = Summary(s)
      BY <2>1
    <3>2. PICK b \in S : \E a \in b.aggregates :
             a.key = k /\ InHorizon(DayOf(a.last), today) /\ s = [batch |-> b, row |-> a]
      BY SamplesIs
    <3>3. PICK a \in b.aggregates : a.key = k /\ s = [batch |-> b, row |-> a]
      BY <3>2
    <3>4. s.row = a /\ r = SummaryOf(b, a)
      BY <2>3, <3>1, <3>3
    <3>5. r.at = a.last
      BY <3>4 DEF SummaryOf
    <3>6. r \in Said(S, k)
      BY <3>3, <3>4, SaidIs
    <3> QED
      BY <3>1, <3>4, <3>5, <3>6 DEF Lately
  <2>5. ASSUME NEW r \in Lately(S, k, today) PROVE r \in K(k)
    <3>1. r \in Said(S, k) /\ DayOf(r.at) \in Kept(S, k, today)
      BY DEF Lately
    <3>2. PICK b \in S : \E a \in b.aggregates : a.key = k /\ r = SummaryOf(b, a)
      BY <3>1, SaidIs
    <3>3. PICK a \in b.aggregates : a.key = k /\ r = SummaryOf(b, a)
      BY <3>2
    <3>4. r.at = a.last
      BY <3>3 DEF SummaryOf
    <3> PICK s : s = [batch |-> b, row |-> a]
      OBVIOUS
    <3>5. s \in samples /\ s.row = a
      BY <2>2, <3>1, <3>3, <3>4, SamplesIs
    <3>6. r = Summary(s)
      BY <2>3, <3>3
    <3> QED
      BY <2>1, <3>1, <3>4, <3>5, <3>6
  <2> HIDE DEF K
  <2> QED
    BY <2>4, <2>5
<1>3. ASSUME NEW k \in Keys
      PROVE  T(k) = Foremost(Newer, Lately(S, k, today), MaxRecents)
  <2> PICK L : L = Lately(S, k, today)
    OBVIOUS
  <2>1. \A r \in L : r \in Recent
    BY SaidType DEF Lately
  <2>2. \A r \in L : {y \in L : NewerSummary(y, r)} = Ahead(Newer, L, r)
    BY <2>1 DEF Ahead, Newer
  <2>3. K(k) = L
    BY <1>2
  <2> HIDE DEF K
  <2> QED
    BY <2>2, <2>3 DEF Foremost
<1> HIDE DEF T
<1> QED
  BY <1>1, <1>3

------------------------------------------------------------------------------
(* The days of a scale with one row each are as many as the rows.          *)
LEMMA RowPerDay ==
    ASSUME NEW C, NEW D, IsFiniteSet(D), \A c \in C : c.day \in D,
           \A d \in D : \E c \in C : c.day = d, \A c, e \in C : c.day = e.day => c = e
    PROVE  Cardinality(C) = Cardinality(D)
<1> DEFINE g == [d \in D |-> CHOOSE c \in C : c.day = d]
<1>1. \A d \in D : g[d] \in C /\ g[d].day = d
  OBVIOUS
<1>2. g \in [D -> C]
  BY <1>1
<1> HIDE DEF g
<1>3. g \in Surjection(D, C)
  BY <1>1, <1>2 DEF Surjection
<1>4. g \in Injection(D, C)
  BY <1>1, <1>2 DEF Injection, IsInjective
<1> QED
  BY <1>3, <1>4, FS_Surjection

(* What is on a day is finite, and a new batch adds its row to it.         *)
LEMMA OnDayIsFinite ==
    ASSUME NEW S, Books(S), NEW k, NEW d
    PROVE  /\ IsFiniteSet(OnDay(S, k, d))
           /\ \A s \in OnDay(S, k, d) :
                 /\ s.row.count \in Nat /\ s.row.total \in Nat /\ s.row.last \in Nat
                 /\ s.row.key = k /\ DayOf(s.row.last) = d
<1> DEFINE F(b) == {x \in b.aggregates : x.key = k /\ DayOf(x.last) = d}
           T(b) == {[batch |-> b, row |-> a] : a \in F(b)}
           U == {T(b) : b \in S}
<1>1. OnDay(S, k, d) = UNION U
  BY DEF OnDay
<1>2. ASSUME NEW b \in S PROVE IsFiniteSet(T(b))
  <2>1. IsFiniteSet(b.aggregates) /\ F(b) \in SUBSET b.aggregates
    BY DEF Books, Telling
  <2>2. IsFiniteSet(F(b))
    BY <2>1, FS_Subset
  <2> DEFINE f == [a \in F(b) |-> [batch |-> b, row |-> a]]
  <2>3. f \in [F(b) -> T(b)] /\ \A s \in T(b) : \E a \in F(b) : f[a] = s
    OBVIOUS
  <2> HIDE DEF f, T, F
  <2> QED
    BY <2>2, <2>3, ImageIsFinite
<1>3. IsFiniteSet(U)
  <2> DEFINE f == [b \in S |-> T(b)]
  <2>1. f \in [S -> U] /\ \A s \in U : \E b \in S : f[b] = s
    OBVIOUS
  <2>2. IsFiniteSet(S)
    BY DEF Books
  <2> HIDE DEF f, U, T
  <2> QED
    BY <2>1, <2>2, ImageIsFinite
<1>4. \A x \in U : IsFiniteSet(x)
  <2> HIDE DEF T
  <2> QED
    BY <1>2
<1>5. IsFiniteSet(UNION U)
  <2> HIDE DEF U
  <2> QED
    BY <1>3, <1>4, FS_UNION
<1>6. ASSUME NEW s \in OnDay(S, k, d)
      PROVE  /\ s.row.count \in Nat /\ s.row.total \in Nat /\ s.row.last \in Nat
             /\ s.row.key = k /\ DayOf(s.row.last) = d
  <2>1. PICK b \in S : \E a \in b.aggregates :
           a.key = k /\ DayOf(a.last) = d /\ s = [batch |-> b, row |-> a]
    BY OnDayIs
  <2>2. PICK a \in b.aggregates : a.key = k /\ DayOf(a.last) = d /\ s = [batch |-> b, row |-> a]
    BY <2>1
  <2>3. s.row = a
    BY <2>2
  <2> QED
    BY <2>2, <2>3, TellingRows DEF Books
<1> QED
  BY <1>1, <1>5, <1>6

LEMMA OnDayWithout ==
    ASSUME NEW S, NEW b, NEW k, NEW d, \A a \in b.aggregates : ~(a.key = k /\ DayOf(a.last) = d)
    PROVE  OnDay(S \cup {b}, k, d) = OnDay(S, k, d)
<1>1. ASSUME NEW s PROVE s \in OnDay(S \cup {b}, k, d) <=> s \in OnDay(S, k, d)
  BY OnDayIs
<1> QED
  BY <1>1

SampleOf(b, a) == [batch |-> b, row |-> a]

Joined(U, S, b) == U = S \cup {b} /\ b \notin S

(* What a batch reports joins what was reported on its day.                *)
LEMMA OnDayWith ==
    ASSUME NEW S, NEW b, NEW U, Joined(U, S, b), Books(U), NEW a \in b.aggregates,
           NEW s, s = SampleOf(b, a), NEW k, k = a.key, NEW d, d = DayOf(a.last)
    PROVE  s \notin OnDay(S, k, d) /\ OnDay(U, k, d) = OnDay(S, k, d) \cup {s} /\ s.row = a
<1>0. s = [batch |-> b, row |-> a] /\ U = S \cup {b} /\ b \notin S
  BY DEF SampleOf, Joined
<1>1. ASSUME s \in OnDay(S, k, d) PROVE FALSE
  <2>1. PICK c \in S : \E e \in c.aggregates :
           e.key = k /\ DayOf(e.last) = d /\ s = [batch |-> c, row |-> e]
    BY <1>0, <1>1, OnDayIs
  <2>2. PICK e \in c.aggregates : s = [batch |-> c, row |-> e]
    BY <2>1
  <2>3. s.batch = b /\ s.row = a /\ s.batch = c /\ s.row = e
    BY <1>0, <2>2
  <2> QED
    BY <1>0, <2>3
<1>2. ASSUME NEW x PROVE x \in OnDay(U, k, d) <=> x \in OnDay(S, k, d) \/ x = s
  <2>1. x \in OnDay(S, k, d) => x \in OnDay(U, k, d)
    BY <1>0, OnDayIs
  <2>2. s \in OnDay(U, k, d)
    BY <1>0, OnDayIs
  <2>3. ASSUME x \in OnDay(U, k, d), x \notin OnDay(S, k, d) PROVE x = s
    <3>1. PICK c \in U : \E e \in c.aggregates :
             e.key = k /\ DayOf(e.last) = d /\ x = [batch |-> c, row |-> e]
      BY <1>0, <2>3, OnDayIs
    <3>2. PICK e \in c.aggregates : e.key = k /\ DayOf(e.last) = d /\ x = [batch |-> c, row |-> e]
      BY <3>1
    <3>3. c = b
      BY <1>0, <2>3, <3>1, OnDayIs
    <3>4. e = a
      BY <1>0, <3>2, <3>3 DEF Books, Telling, OncePerDay
    <3> QED
      BY <1>0, <3>2, <3>3, <3>4
  <2> QED
    BY <2>1, <2>2, <2>3
<1>3. s.row = a
  BY <1>0
<1> QED
  BY <1>1, <1>2, <1>3

(* A day of one observation is the bucket it opens, and one more is added. *)
LEMMA TotalOfOne ==
    ASSUME NEW a \in Aggregate, NEW i
    PROVE  DayTotal(a.key, DayOf(a.last), {[batch |-> i, row |-> a]}) = Opened(a)
<1> PICK s : s = [batch |-> i, row |-> a]
  OBVIOUS
<1>1. s.row = a /\ a.count \in Nat /\ a.total \in Nat /\ a.last \in Nat
  BY DEF Aggregate
<1>2. IsFiniteSet({}) /\ s \notin {} /\ {} \cup {s} = {s}
  BY FS_EmptySet
<1>3. ASSUME NEW f \in [{s} -> Nat] PROVE SumOf(f, {s}) = f[s]
  <2> DEFINE g == [x \in {} |-> 0]
  <2>1. g \in [{} -> Nat] /\ \A x \in {} : f[x] = g[x]
    OBVIOUS
  <2> HIDE DEF g
  <2>2. SumOf(g, {}) = 0
    BY <1>2, <2>1, SumWithout
  <2>3. f \in [{} \cup {s} -> Nat]
    BY <1>2
  <2>4. SumOf(f, {} \cup {s}) = SumOf(g, {}) + f[s]
    BY <1>2, <2>1, <2>3, SumWithMore
  <2> QED
    BY <1>2, <2>2, <2>4
<1>4. Plus({s}, LAMBDA x : x.row.count) = a.count
  <2> DEFINE f == [x \in {s} |-> x.row.count]
  <2>1. Plus({s}, LAMBDA x : x.row.count) = SumOf(f, {s})
    BY DEF Plus
  <2>2. f \in [{s} -> Nat] /\ f[s] = a.count
    BY <1>1
  <2> HIDE DEF f
  <2> QED
    BY <1>3, <2>1, <2>2
<1>5. Plus({s}, LAMBDA x : x.row.total) = a.total
  <2> DEFINE f == [x \in {s} |-> x.row.total]
  <2>1. Plus({s}, LAMBDA x : x.row.total) = SumOf(f, {s})
    BY DEF Plus
  <2>2. f \in [{s} -> Nat] /\ f[s] = a.total
    BY <1>1
  <2> HIDE DEF f
  <2> QED
    BY <1>3, <2>1, <2>2
<1>6. Max({x.row.last : x \in {s}}) = a.last
  <2>1. {x.row.last : x \in {s}} = {a.last}
    BY <1>1
  <2>2. {a.last} \subseteq Nat /\ IsFiniteSet({a.last}) /\ {a.last} # {}
    BY <1>1, FS_Singleton
  <2>3. Max({a.last}) \in {a.last}
    BY <2>2, ExtremesAreIn
  <2> QED
    BY <2>1, <2>3
<1> QED
  BY <1>4, <1>5, <1>6 DEF DayTotal, Opened

LEMMA TotalOfMore ==
    ASSUME NEW P, IsFiniteSet(P), P # {},
           \A s \in P : s.row.count \in Nat /\ s.row.total \in Nat /\ s.row.last \in Nat,
           NEW a \in Aggregate, NEW s, s.row = a, s \notin P, NEW k, NEW d
    PROVE  DayTotal(k, d, P \cup {s}) = Added(DayTotal(k, d, P), a)
<1> PICK D : D = P \cup {s}
  OBVIOUS
<1>1. a.count \in Nat /\ a.total \in Nat /\ a.last \in Nat
  BY DEF Aggregate
<1>2. ASSUME NEW f \in [D -> Nat], NEW g \in [P -> Nat], \A x \in P : f[x] = g[x]
      PROVE  SumOf(f, D) = SumOf(g, P) + f[s]
  BY <1>2, SumWithMore
<1>3. Plus(D, LAMBDA x : x.row.count) = Plus(P, LAMBDA x : x.row.count) + a.count
  <2> DEFINE f == [x \in D |-> x.row.count]
             g == [x \in P |-> x.row.count]
  <2>1. Plus(D, LAMBDA x : x.row.count) = SumOf(f, D) /\ Plus(P, LAMBDA x : x.row.count) = SumOf(g, P)
    BY DEF Plus
  <2>2. f \in [D -> Nat] /\ g \in [P -> Nat] /\ f[s] = a.count /\ \A x \in P : f[x] = g[x]
    BY <1>1
  <2> HIDE DEF f, g
  <2> QED
    BY <1>2, <2>1, <2>2
<1>4. Plus(D, LAMBDA x : x.row.total) = Plus(P, LAMBDA x : x.row.total) + a.total
  <2> DEFINE f == [x \in D |-> x.row.total]
             g == [x \in P |-> x.row.total]
  <2>1. Plus(D, LAMBDA x : x.row.total) = SumOf(f, D) /\ Plus(P, LAMBDA x : x.row.total) = SumOf(g, P)
    BY DEF Plus
  <2>2. f \in [D -> Nat] /\ g \in [P -> Nat] /\ f[s] = a.total /\ \A x \in P : f[x] = g[x]
    BY <1>1
  <2> HIDE DEF f, g
  <2> QED
    BY <1>2, <2>1, <2>2
<1>5. Max({x.row.last : x \in D}) = Later(Max({x.row.last : x \in P}), a.last)
  <2> PICK T : T = {x.row.last : x \in P}
    OBVIOUS
  <2>1. {x.row.last : x \in D} = T \cup {a.last}
    OBVIOUS
  <2>2. T \subseteq Nat /\ T # {}
    OBVIOUS
  <2>3. IsFiniteSet(T)
    <3> DEFINE f == [x \in P |-> x.row.last]
    <3>1. f \in [P -> T] /\ \A t \in T : \E x \in P : f[x] = t
      OBVIOUS
    <3> HIDE DEF f
    <3> QED
      BY <3>1, ImageIsFinite
  <2> QED
    BY <1>1, <2>1, <2>2, <2>3, LargestOfMore
<1>6. DayTotal(k, d, D) =
        [key |-> k, day |-> d, count |-> Plus(P, LAMBDA x : x.row.count) + a.count,
         total |-> Plus(P, LAMBDA x : x.row.total) + a.total,
         last |-> Later(Max({x.row.last : x \in P}), a.last)]
  BY <1>3, <1>4, <1>5 DEF DayTotal
<1>7. DayTotal(k, d, P) =
        [key |-> k, day |-> d, count |-> Plus(P, LAMBDA x : x.row.count),
         total |-> Plus(P, LAMBDA x : x.row.total), last |-> Max({x.row.last : x \in P})]
  BY DEF DayTotal
<1> QED
  BY <1>6, <1>7 DEF Added

------------------------------------------------------------------------------
(* No batch of S reports a day after t.                                    *)
Early(S, t) == \A b \in S : \A a \in b.aggregates : DayOf(a.last) <= t

LEMMA CutoffGrows ==
    ASSUME NEW t \in Nat, NEW u \in Nat, t <= u
    PROVE  Cutoff(t) \in Nat /\ Cutoff(u) \in Nat /\ Cutoff(t) <= Cutoff(u)
BY PolicyAssumption DEF Cutoff, Minus

LEMMA DaysAreFinite ==
    ASSUME NEW S, NEW k, NEW today \in Nat
    PROVE  IsFiniteSet(DaysOf(S, k, today)) /\ DaysOf(S, k, today) \subseteq Nat
<1>1. DaysOf(S, k, today) \in SUBSET (0..today)
  <2> SUFFICES ASSUME NEW d \in DaysOf(S, k, today) PROVE d \in 0..today
    OBVIOUS
  <2>1. d \in Nat /\ d <= today
    BY DEF DaysOf, InHorizon
  <2> QED
    BY <2>1
<1>2. IsFiniteSet(0..today)
  BY FS_Interval
<1> QED
  BY <1>1, <1>2, FS_Subset

LEMMA LaterDaysFirst ==
    ASSUME NEW D, D \subseteq Nat
    PROVE  PartialOrder(After, D) /\ \A d, e \in D : <<d, e>> \in After <=> d > e
<1>1. \A d, e \in D : <<d, e>> \in After <=> d > e
  BY DEF After
<1> QED
  BY <1>1 DEF PartialOrder

LEMMA OnDayGrows ==
    ASSUME NEW S, NEW U, S \subseteq U, NEW k, NEW d, OnDay(S, k, d) # {}
    PROVE  OnDay(U, k, d) # {}
BY OnDayIs

LEMMA EarlyDays ==
    ASSUME NEW S, Books(S), NEW t \in Nat, Early(S, t), NEW k, NEW d, OnDay(S, k, d) # {}
    PROVE  d \in Nat /\ d <= t
<1>1. PICK s : s \in OnDay(S, k, d)
  OBVIOUS
<1>2. PICK b \in S : \E a \in b.aggregates :
         a.key = k /\ DayOf(a.last) = d /\ s = [batch |-> b, row |-> a]
  BY <1>1, OnDayIs
<1>3. PICK a \in b.aggregates : DayOf(a.last) = d
  BY <1>2
<1> QED
  BY <1>3, TellingRows DEF Early, Books

(* A day that is kept was kept before, if there was something on it.       *)
LEMMA KeptBefore ==
    ASSUME NEW S, NEW U, S \subseteq U, Books(U), NEW t \in Nat, NEW today \in Nat, t <= today,
           Early(S, t), NEW k, NEW d \in Kept(U, k, today), OnDay(S, k, d) # {}
    PROVE  d \in Kept(S, k, t)
<1>0. Books(S)
  <2>1. IsFiniteSet(S)
    BY FS_Subset DEF Books
  <2> QED
    BY <2>1 DEF Books
<1>1. /\ d \in DaysOf(U, k, today) /\ d \in Nat /\ InHorizon(d, today)
      /\ Cardinality(Ahead(After, DaysOf(U, k, today), d)) < MaxBuckets
  BY DEF Kept, Foremost, DaysOf
<1>2. d <= t
  BY <1>0, EarlyDays
<1>3. Cutoff(t) \in Nat /\ Cutoff(today) \in Nat /\ Cutoff(t) <= Cutoff(today)
  BY CutoffGrows
<1>4. d \in DaysOf(S, k, t)
  BY <1>1, <1>2, <1>3 DEF DaysOf, InHorizon
<1>5. Ahead(After, DaysOf(S, k, t), d) \in SUBSET Ahead(After, DaysOf(U, k, today), d)
  <2> SUFFICES ASSUME NEW e \in Ahead(After, DaysOf(S, k, t), d)
               PROVE  e \in Ahead(After, DaysOf(U, k, today), d)
    OBVIOUS
  <2>1. e \in Nat /\ InHorizon(e, t) /\ OnDay(S, k, e) # {} /\ <<e, d>> \in After
    BY DEF Ahead, DaysOf
  <2>2. e > d /\ e <= t
    BY <2>1 DEF After, InHorizon
  <2>3. InHorizon(e, today)
    BY <1>1, <1>3, <2>1, <2>2 DEF InHorizon
  <2>4. OnDay(U, k, e) # {}
    BY <2>1, OnDayGrows
  <2> QED
    BY <2>1, <2>3, <2>4 DEF Ahead, DaysOf
<1>6. IsFiniteSet(DaysOf(U, k, today)) /\ IsFiniteSet(DaysOf(S, k, t))
  BY DaysAreFinite
<1> PICK P, Q : P = Ahead(After, DaysOf(S, k, t), d) /\ Q = Ahead(After, DaysOf(U, k, today), d)
  OBVIOUS
<1>7. Cardinality(P) <= Cardinality(Q) /\ Cardinality(Q) \in Nat
  BY <1>5, <1>6, AheadIsFinite
<1>8. Cardinality(P) \in Nat
  BY <1>6, AheadIsFinite
<1>9. Cardinality(P) < MaxBuckets
  BY <1>1, <1>7, <1>8, PolicyAssumption
<1> QED
  BY <1>4, <1>9 DEF Kept, Foremost

(* The days a fold has rows of: those that were kept and those that are    *)
(* reported, as far as they are in the horizon.                            *)
Arriving(S, b, k, t, today) ==
    {d \in Nat : InHorizon(d, today) /\ (d \in Kept(S, k, t) \/ OnDay({b}, k, d) # {})}

(* The days of a key once a batch is added and the horizon has moved: what *)
(* was kept and what is new, as if nothing had ever been dropped.          *)
LEMMA KeptAfter ==
    ASSUME NEW S, NEW b, Books(S \cup {b}), NEW t \in Nat, NEW today \in Nat, t <= today,
           Early(S, t), Early({b}, today), NEW k
    PROVE  Foremost(After, Arriving(S, b, k, t, today), MaxBuckets) = Kept(S \cup {b}, k, today)
<1> DEFINE U == S \cup {b}
           X == DaysOf(S, k, t)
           E == Arriving(S, b, k, t, today)
           Q == {d \in Nat : d <= today /\ OnDay({b}, k, d) # {}}
           H == {d \in Nat : Cutoff(today) <= d}
<1>0. Books(S) /\ Books({b})
  <2>1. IsFiniteSet(S) /\ IsFiniteSet({b})
    BY FS_Subset, FS_Singleton DEF Books
  <2> QED
    BY <2>1 DEF Books
<1>1. IsFiniteSet(X) /\ X \subseteq Nat
  BY DaysAreFinite
<1>2. IsFiniteSet(Q) /\ Q \subseteq Nat
  <2>1. \A d \in Q : d \in 0..today
    OBVIOUS
  <2>2. IsFiniteSet(0..today)
    BY FS_Interval
  <2> HIDE DEF Q
  <2> QED
    BY <2>1, <2>2, FS_Subset
<1>a. /\ \A d : d \in Q <=> d \in Nat /\ d <= today /\ OnDay({b}, k, d) # {}
      /\ \A d : d \in H <=> d \in Nat /\ Cutoff(today) <= d
      /\ \A d : d \in X <=> d \in Nat /\ Cutoff(t) <= d /\ d <= t /\ OnDay(S, k, d) # {}
      /\ \A d : d \in E <=> /\ d \in Nat /\ Cutoff(today) <= d /\ d <= today
                            /\ d \in Kept(S, k, t) \/ OnDay({b}, k, d) # {}
      /\ \A d : d \in DaysOf(U, k, today) <=>
            d \in Nat /\ Cutoff(today) <= d /\ d <= today /\ OnDay(U, k, d) # {}
  BY DEF DaysOf, InHorizon, Arriving
<1> HIDE DEF Q, H, X, E
<1>3. Cutoff(t) \in Nat /\ Cutoff(today) \in Nat /\ Cutoff(t) <= Cutoff(today)
  BY CutoffGrows
<1>4. \A d : OnDay(U, k, d) # {} <=> OnDay(S, k, d) # {} \/ OnDay({b}, k, d) # {}
  <2> SUFFICES ASSUME NEW d, OnDay(U, k, d) # {}
               PROVE  OnDay(S, k, d) # {} \/ OnDay({b}, k, d) # {}
    BY OnDayGrows
  <2>1. PICK s : s \in OnDay(U, k, d)
    OBVIOUS
  <2>2. PICK c \in U : \E a \in c.aggregates :
           a.key = k /\ DayOf(a.last) = d /\ s = [batch |-> c, row |-> a]
    BY <2>1, OnDayIs
  <2>3. s \in OnDay(S, k, d) \/ s \in OnDay({b}, k, d)
    BY <2>2, OnDayIs
  <2> QED
    BY <2>3
<1>5. /\ \A d : OnDay(S, k, d) # {} => d \in Nat /\ d <= t
      /\ \A d : OnDay({b}, k, d) # {} => d \in Nat /\ d <= today
  BY <1>0, EarlyDays
<1>6. DaysOf(U, k, today) = (X \cup Q) \cap H
  <2> HIDE DEF U
  <2>1. ASSUME NEW d PROVE d \in DaysOf(U, k, today) <=> d \in (X \cup Q) \cap H
    <3>1. d \in DaysOf(U, k, today) <=>
            /\ d \in Nat /\ Cutoff(today) <= d /\ d <= today
            /\ OnDay(S, k, d) # {} \/ OnDay({b}, k, d) # {}
      BY <1>4, <1>a
    <3>2. d \in X \cup Q => d \in Nat /\ d <= today
      BY <1>a
    <3>3. OnDay(S, k, d) # {} => d \in Nat /\ d <= t
      BY <1>5
    <3>4. d \in X <=> d \in Nat /\ Cutoff(t) <= d /\ d <= t /\ OnDay(S, k, d) # {}
      BY <1>a
    <3>5. d \in Q <=> d \in Nat /\ d <= today /\ OnDay({b}, k, d) # {}
      BY <1>a
    <3>6. d \in H <=> d \in Nat /\ Cutoff(today) <= d
      BY <1>a
    <3> QED
      BY <1>3, <3>1, <3>3, <3>4, <3>5, <3>6
  <2> QED
    BY <2>1
<1>7. E = (Foremost(After, X, MaxBuckets) \cup Q) \cap H
  <2>1. Foremost(After, X, MaxBuckets) = Kept(S, k, t) /\ Kept(S, k, t) \subseteq X
    BY DEF Kept, Foremost, X
  <2>2. ASSUME NEW d
        PROVE  d \in E <=> d \in (Foremost(After, X, MaxBuckets) \cup Q) \cap H
    <3>1. d \in Kept(S, k, t) => d \in Nat /\ d <= today
      <4> SUFFICES ASSUME d \in Kept(S, k, t) PROVE d \in Nat /\ d <= today
        OBVIOUS
      <4>1. d \in Nat /\ d <= t
        BY <2>1, <1>a
      <4> QED
        BY <4>1
    <3>2. d \in E <=> /\ d \in Nat /\ Cutoff(today) <= d /\ d <= today
                      /\ d \in Kept(S, k, t) \/ OnDay({b}, k, d) # {}
      BY <1>a
    <3>3. d \in Q <=> d \in Nat /\ d <= today /\ OnDay({b}, k, d) # {}
      BY <1>a
    <3>4. d \in H <=> d \in Nat /\ Cutoff(today) <= d
      BY <1>a
    <3> QED
      BY <2>1, <3>1, <3>2, <3>3, <3>4
  <2> QED
    BY <2>2
<1>8. PartialOrder(After, X \cup Q)
  BY <1>1, <1>2, LaterDaysFirst
<1>9. Upward(After, X \cup Q, H)
  <2>1. \A x \in X \cup Q, y \in X \cup Q : <<y, x>> \in After <=> y > x
    BY <1>1, <1>2, LaterDaysFirst
  <2>2. ASSUME NEW x \in X \cup Q, NEW y \in X \cup Q, x \in H, <<y, x>> \in After
        PROVE  y \in H
    <3>1. x \in Nat /\ y \in Nat /\ y > x /\ Cutoff(today) <= x
      BY <1>a, <2>1, <2>2
    <3> QED
      BY <1>3, <1>a, <3>1
  <2> QED
    BY <2>2 DEF Upward
<1>10. MaxBuckets \in Nat
  BY PolicyAssumption
<1>11. Foremost(After, E, MaxBuckets) = Foremost(After, DaysOf(U, k, today), MaxBuckets)
  <2> PICK D : D = DaysOf(U, k, today)
    OBVIOUS
  <2>1. D = (X \cup Q) \cap H
    BY <1>6
  <2> PICK F : F = (Foremost(After, X, MaxBuckets) \cup Q) \cap H
    OBVIOUS
  <2> HIDE DEF U
  <2>2. Foremost(After, F, MaxBuckets) = Foremost(After, D, MaxBuckets)
    BY <1>1, <1>2, <1>8, <1>9, <1>10, <2>1, FirstOfFirst
  <2> QED
    BY <2>2, <1>7
<1> QED
  BY <1>11 DEF Kept, E

------------------------------------------------------------------------------
LEMMA TotalFields ==
    ASSUME NEW k, NEW d, NEW P
    PROVE  DayTotal(k, d, P).key = k /\ DayTotal(k, d, P).day = d
BY DEF DayTotal

LEMMA ArrivingIsFinite ==
    ASSUME NEW S, NEW b, NEW k, NEW t, NEW today \in Nat
    PROVE  Arriving(S, b, k, t, today) \subseteq Nat /\ IsFiniteSet(Arriving(S, b, k, t, today))
<1>1. \A d \in Arriving(S, b, k, t, today) : d \in 0..today
  BY DEF Arriving, InHorizon
<1>2. IsFiniteSet(0..today)
  BY FS_Interval
<1>3. Arriving(S, b, k, t, today) \in SUBSET (0..today)
  BY <1>1
<1> QED
  BY <1>2, <1>3, FS_Subset DEF Arriving

(* Every row adds up what was reported on its day.                         *)
AddsUp(B, S) ==
    \A x \in B : x = DayTotal(x.key, x.day, OnDay(S, x.key, x.day)) /\ OnDay(S, x.key, x.day) # {}

(* A fold adds the new rows to what the old ones add up to.                *)
LEMMA FoldedTotals ==
    ASSUME NEW S, NEW b, b \notin S, Books(S \cup {b}), NEW B \in SUBSET Bucket, UniqueDays(B),
           AddsUp(B, S), NEW x, Folded(x, B, b.aggregates),
           OnDay(S, x.key, x.day) # {} => \E y \in B : y.key = x.key /\ y.day = x.day
    PROVE  x = DayTotal(x.key, x.day, OnDay(S \cup {b}, x.key, x.day))
<1>0. Books(S) /\ Telling(b)
  <2>1. IsFiniteSet(S)
    BY FS_Subset DEF Books
  <2> QED
    BY <2>1 DEF Books
<1>1. CASE x \in B /\ \A a \in b.aggregates : ~SameDay(x, a)
  <2>1. \A a \in b.aggregates : ~(a.key = x.key /\ DayOf(a.last) = x.day)
    BY <1>1 DEF SameDay
  <2>2. OnDay(S \cup {b}, x.key, x.day) = OnDay(S, x.key, x.day)
    BY <2>1, OnDayWithout
  <2> QED
    BY <1>1, <2>2 DEF AddsUp
<1>2. ASSUME NEW y \in B, NEW a \in b.aggregates, SameDay(y, a), x = Added(y, a)
      PROVE  x = DayTotal(x.key, x.day, OnDay(S \cup {b}, x.key, x.day))
  <2>1. x.key = a.key /\ x.day = DayOf(a.last) /\ x.key = y.key /\ x.day = y.day
    BY <1>2, FoldFields DEF SameDay
  <2> PICK P : P = OnDay(S, x.key, x.day)
    OBVIOUS
  <2> PICK s : s = SampleOf(b, a)
    OBVIOUS
  <2>2. s \notin P /\ OnDay(S \cup {b}, x.key, x.day) = P \cup {s} /\ s.row = a
    <3> PICK U, d : U = S \cup {b} /\ d = x.day
      OBVIOUS
    <3>1. s \notin OnDay(S, x.key, d) /\ OnDay(U, x.key, d) = OnDay(S, x.key, d) \cup {s} /\ s.row = a
      <4>1. Joined(U, S, b) /\ Books(U)
        BY DEF Joined
      <4>2. x.key = a.key /\ d = DayOf(a.last)
        BY <2>1
      <4> PICK k : k = x.key
        OBVIOUS
      <4>3. s \notin OnDay(S, k, d) /\ OnDay(U, k, d) = OnDay(S, k, d) \cup {s} /\ s.row = a
        BY <4>1, <4>2, OnDayWith
      <4> QED
        BY <4>3
    <3> QED
      BY <3>1
  <2>3. /\ IsFiniteSet(P)
        /\ \A z \in P : z.row.count \in Nat /\ z.row.total \in Nat /\ z.row.last \in Nat
    BY <1>0, OnDayIsFinite
  <2>4. y = DayTotal(x.key, x.day, P) /\ P # {} /\ a \in Aggregate
    BY <2>1, <1>0 DEF Telling, AddsUp
  <2>5. DayTotal(x.key, x.day, P \cup {s}) = Added(DayTotal(x.key, x.day, P), a)
    BY <2>2, <2>3, <2>4, TotalOfMore
  <2> QED
    BY <1>2, <2>2, <2>4, <2>5
<1>3. ASSUME NEW a \in b.aggregates, \A y \in B : ~SameDay(y, a), x = Opened(a)
      PROVE  x = DayTotal(x.key, x.day, OnDay(S \cup {b}, x.key, x.day))
  <2>1. x.key = a.key /\ x.day = DayOf(a.last)
    BY <1>3, FoldFields
  <2>2. OnDay(S, x.key, x.day) = {}
    BY <1>3, <2>1 DEF SameDay
  <2> PICK s : s = SampleOf(b, a)
    OBVIOUS
  <2>3. OnDay(S \cup {b}, x.key, x.day) = {s}
    <3> PICK U, d : U = S \cup {b} /\ d = x.day
      OBVIOUS
    <3>1. OnDay(U, x.key, d) = OnDay(S, x.key, d) \cup {s}
      <4>1. Joined(U, S, b) /\ Books(U)
        BY DEF Joined
      <4> QED
        BY <2>1, <4>1, OnDayWith
    <3> QED
      BY <2>2, <3>1
  <2>4. a \in Aggregate
    BY <1>0 DEF Telling
  <2> QED
    BY <1>3, <2>1, <2>3, <2>4, TotalOfOne DEF SampleOf
<1> QED
  BY <1>1, <1>2, <1>3 DEF Folded

(* The rows of a model, as they follow from the batches it has learned.    *)
Reflects(m, S, today) ==
    m.buckets = ReferenceBuckets(S, today) /\ m.recents = ReferenceRecents(S, today)

LEMMA ReflectedBuckets ==
    ASSUME NEW S, Books(S), NEW today \in Nat, NEW B, B = ReferenceBuckets(S, today)
    PROVE  /\ \A x \in B : /\ x.key \in Keys /\ x.day \in Kept(S, x.key, today)
                           /\ x = DayTotal(x.key, x.day, OnDay(S, x.key, x.day))
                           /\ OnDay(S, x.key, x.day) # {}
           /\ \A k \in Keys : \A d \in Kept(S, k, today) :
                 DayTotal(k, d, OnDay(S, k, d)) \in B
           /\ UniqueDays(B)
<1>1. ASSUME NEW x \in B
      PROVE  /\ x.key \in Keys /\ x.day \in Kept(S, x.key, today)
             /\ x = DayTotal(x.key, x.day, OnDay(S, x.key, x.day))
             /\ OnDay(S, x.key, x.day) # {}
  <2>1. PICK k \in Keys : \E d \in Kept(S, k, today) : x = DayTotal(k, d, OnDay(S, k, d))
    BY ReferenceBucketsIs
  <2>2. PICK d \in Kept(S, k, today) : x = DayTotal(k, d, OnDay(S, k, d))
    BY <2>1
  <2>3. x.key = k /\ x.day = d
    BY <2>2, TotalFields
  <2>4. OnDay(S, k, d) # {}
    BY DEF Kept, Foremost, DaysOf
  <2> QED
    BY <2>2, <2>3, <2>4
<1>2. ASSUME NEW k \in Keys, NEW d \in Kept(S, k, today)
      PROVE  DayTotal(k, d, OnDay(S, k, d)) \in B
  BY ReferenceBucketsIs
<1>3. UniqueDays(B)
  BY <1>1 DEF UniqueDays
<1> QED
  BY <1>1, <1>2, <1>3

LEMMA MergedBuckets ==
    ASSUME NEW S, NEW b, b \notin S, Books(S \cup {b}), NEW t \in Nat, NEW today \in Nat, t <= today,
           Early(S, t), Early({b}, today), NEW m, m.buckets \in SUBSET Bucket,
           m.buckets = ReferenceBuckets(S, t)
    PROVE  NewestDays(FoldBuckets(m, b, today)) = ReferenceBuckets(S \cup {b}, today)
<1> DEFINE F == FoldBuckets(m, b, today)
<1> PICK B : B = m.buckets
  OBVIOUS
<1> PICK A : A = b.aggregates
  OBVIOUS
<1> PICK U : U = S \cup {b}
  OBVIOUS
<1>0. Books(S) /\ Telling(b) /\ Books(U)
  <2>1. IsFiniteSet(S)
    BY FS_Subset DEF Books
  <2> QED
    BY <2>1 DEF Books
<1>1. /\ \A x \in B : /\ x.key \in Keys /\ x.day \in Kept(S, x.key, t)
                      /\ x = DayTotal(x.key, x.day, OnDay(S, x.key, x.day))
                      /\ OnDay(S, x.key, x.day) # {}
      /\ \A k \in Keys : \A d \in Kept(S, k, t) : DayTotal(k, d, OnDay(S, k, d)) \in B
      /\ UniqueDays(B) /\ B \in SUBSET Bucket
  BY <1>0, ReflectedBuckets
<1>2. A \in SUBSET Aggregate /\ OncePerDay(A)
  BY <1>0 DEF Telling
<1>3. \A x : x \in F <=> InHorizon(x.day, today) /\ Folded(x, B, A)
  BY <1>1, <1>2, FoldedRows
<1> HIDE DEF F
<1>4. ASSUME NEW a \in A
      PROVE  /\ a.key \in Keys /\ DayOf(a.last) \in Nat
             /\ OnDay({b}, a.key, DayOf(a.last)) # {}
  <2>1. [batch |-> b, row |-> a] \in OnDay({b}, a.key, DayOf(a.last))
    BY OnDayIs
  <2> QED
    BY <1>0, <2>1, TellingRows
<1>5. ASSUME NEW k, NEW d, OnDay({b}, k, d) # {}
      PROVE  \E a \in A : a.key = k /\ DayOf(a.last) = d
  <2>1. PICK s : s \in OnDay({b}, k, d)
    BY <1>5
  <2>2. \E c \in {b} : \E a \in c.aggregates :
           a.key = k /\ DayOf(a.last) = d /\ s = [batch |-> c, row |-> a]
    BY <2>1, OnDayIs
  <2> QED
    BY <2>2
<1> DEFINE E(k) == Arriving(S, b, k, t, today)
<1>a. \A k, d : d \in E(k) <=>
          d \in Nat /\ InHorizon(d, today) /\ (d \in Kept(S, k, t) \/ OnDay({b}, k, d) # {})
  BY DEF Arriving
<1> HIDE DEF E
<1>6. ASSUME NEW x \in F
      PROVE  x.key \in Keys /\ x.day \in E(x.key)
  <2>1. InHorizon(x.day, today) /\ Folded(x, B, A)
    BY <1>3
  <2>2. ASSUME NEW y \in B, x.key = y.key, x.day = y.day PROVE x.key \in Keys /\ x.day \in E(x.key)
    <3>1. x.key \in Keys /\ x.day \in Kept(S, x.key, t)
      BY <1>1, <2>2
    <3>2. x.day \in Nat
      BY <3>1 DEF Kept, Foremost, DaysOf
    <3> QED
      BY <1>a, <2>1, <3>1, <3>2
  <2>3. ASSUME NEW a \in A, x.key = a.key, x.day = DayOf(a.last) PROVE x.key \in Keys /\ x.day \in E(x.key)
    BY <1>a, <1>4, <2>1, <2>3
  <2>4. CASE x \in B
    BY <2>2, <2>4
  <2>5. ASSUME NEW y \in B, NEW a \in A, x = Added(y, a) PROVE x.key \in Keys /\ x.day \in E(x.key)
    BY <2>2, <2>5, FoldFields
  <2>6. ASSUME NEW a \in A, x = Opened(a) PROVE x.key \in Keys /\ x.day \in E(x.key)
    BY <2>3, <2>6, FoldFields
  <2> QED
    BY <2>1, <2>4, <2>5, <2>6 DEF Folded
<1>7. ASSUME NEW k \in Keys, NEW d \in E(k)
      PROVE  \E x \in F : x.key = k /\ x.day = d
  <2>1. InHorizon(d, today)
    BY <1>a
  <2>2. ASSUME NEW a \in A, a.key = k, DayOf(a.last) = d PROVE \E x \in F : x.key = k /\ x.day = d
    <3>1. CASE \E y \in B : SameDay(y, a)
      <4>1. PICK y \in B : SameDay(y, a)
        BY <3>1
      <4>2. Added(y, a).key = k /\ Added(y, a).day = d /\ Folded(Added(y, a), B, A)
        BY <2>2, <4>1, FoldFields DEF SameDay, Folded
      <4> QED
        BY <1>3, <2>1, <4>2
    <3>2. CASE \A y \in B : ~SameDay(y, a)
      <4>1. Opened(a).key = k /\ Opened(a).day = d /\ Folded(Opened(a), B, A)
        BY <2>2, <3>2, FoldFields DEF Folded
      <4> QED
        BY <1>3, <2>1, <4>1
    <3> QED
      BY <3>1, <3>2
  <2>3. CASE \A a \in A : ~(a.key = k /\ DayOf(a.last) = d)
    <3>1. d \in Kept(S, k, t)
      <4>1. ~(OnDay({b}, k, d) # {})
        <5> SUFFICES ASSUME OnDay({b}, k, d) # {} PROVE FALSE
          OBVIOUS
        <5>1. \E a \in A : a.key = k /\ DayOf(a.last) = d
          BY <1>5
        <5> QED
          BY <2>3, <5>1
      <4> QED
        BY <1>a, <4>1
    <3> PICK x : x = DayTotal(k, d, OnDay(S, k, d))
      OBVIOUS
    <3>2. x \in B /\ x.key = k /\ x.day = d
      BY <1>1, <3>1, TotalFields
    <3>3. Folded(x, B, A)
      BY <2>3, <3>2 DEF Folded, SameDay
    <3> QED
      BY <1>3, <2>1, <3>2, <3>3
  <2> QED
    BY <2>2, <2>3
<1>8. ASSUME NEW x \in F, NEW z \in F, x.key = z.key, x.day = z.day PROVE x = z
  BY <1>1, <1>2, <1>3, <1>8, FoldedOnce
<1>9. ASSUME NEW k PROVE Foremost(After, E(k), MaxBuckets) = Kept(U, k, today)
  BY KeptAfter DEF E
<1>10. ASSUME NEW k PROVE E(k) \subseteq Nat /\ IsFiniteSet(E(k))
  BY ArrivingIsFinite DEF E
<1>11. ASSUME NEW x \in F
       PROVE  x \in NewestDays(F) <=> x.day \in Kept(U, x.key, today)
  <2> DEFINE C == {c \in OfKey(F, x.key) : c.day > x.day}
             D == Ahead(After, E(x.key), x.day)
  <2>0. x.day \in E(x.key) /\ x.day \in Nat /\ x.key \in Keys
    BY <1>6, <1>10
  <2>a. \A d \in E(x.key) : <<d, x.day>> \in After <=> d > x.day
    BY <1>10, <2>0, LaterDaysFirst
  <2>1. \A c \in C : c \in F /\ c.key = x.key /\ c.day > x.day
    BY DEF OfKey
  <2>2. \A d : d \in D <=> d \in E(x.key) /\ d > x.day
    BY <2>a DEF Ahead
  <2>3. \A c \in F : c.key = x.key /\ c.day > x.day => c \in C
    BY DEF OfKey
  <2>4. IsFiniteSet(D)
    BY <1>10, AheadIsFinite
  <2>5. x \in NewestDays(F) <=> Cardinality(C) < MaxBuckets
    BY DEF NewestDays
  <2> HIDE DEF C, D
  <2>6. \A c \in C : c.day \in D
    BY <1>6, <2>1, <2>2
  <2>7. \A d \in D : \E c \in C : c.day = d
    <3> SUFFICES ASSUME NEW d \in D PROVE \E c \in C : c.day = d
      OBVIOUS
    <3>1. d \in E(x.key) /\ d > x.day
      BY <2>2
    <3>2. PICK c \in F : c.key = x.key /\ c.day = d
      BY <1>7, <2>0, <3>1
    <3> QED
      BY <2>3, <3>1, <3>2
  <2>8. \A c, e \in C : c.day = e.day => c = e
    BY <1>8, <2>1
  <2>9. Cardinality(C) = Cardinality(D)
    BY <2>4, <2>6, <2>7, <2>8, RowPerDay
  <2>10. x.day \in Foremost(After, E(x.key), MaxBuckets) <=> Cardinality(D) < MaxBuckets
    BY <2>0 DEF Foremost, D
  <2> QED
    BY <1>9, <2>5, <2>9, <2>10
<1>12. ASSUME NEW x \in F, x.day \in Kept(U, x.key, today)
       PROVE  x = DayTotal(x.key, x.day, OnDay(U, x.key, x.day))
  <2>1. Folded(x, B, A) /\ x.key \in Keys
    BY <1>3, <1>6
  <2>2. ASSUME OnDay(S, x.key, x.day) # {} PROVE \E y \in B : y.key = x.key /\ y.day = x.day
    <3>1. x.day \in Kept(S, x.key, t)
      BY <1>0, <1>12, <2>2, KeptBefore
    <3>2. DayTotal(x.key, x.day, OnDay(S, x.key, x.day)) \in B
      BY <1>1, <2>1, <3>1
    <3> QED
      BY <3>2, TotalFields
  <2>3. AddsUp(B, S)
    BY <1>1 DEF AddsUp
  <2>4. UniqueDays(B) /\ B \in SUBSET Bucket
    BY <1>1
  <2> QED
    BY <2>1, <2>2, <2>3, <2>4, FoldedTotals
<1>13. ASSUME NEW x PROVE x \in NewestDays(F) <=> x \in ReferenceBuckets(U, today)
  <2>1. ASSUME x \in NewestDays(F) PROVE x \in ReferenceBuckets(U, today)
    <3>1. x \in F
      BY <2>1 DEF NewestDays
    <3>2. x.key \in Keys /\ x.day \in Kept(U, x.key, today)
      BY <1>6, <1>11, <2>1, <3>1
    <3>3. x = DayTotal(x.key, x.day, OnDay(U, x.key, x.day))
      BY <1>12, <3>1, <3>2
    <3>4. \E k \in Keys : \E d \in Kept(U, k, today) : x = DayTotal(k, d, OnDay(U, k, d))
      BY <3>2, <3>3, Zenon
    <3> QED
      BY <1>0, <3>4, ReferenceBucketsIs, Zenon
  <2>2. ASSUME x \in ReferenceBuckets(U, today) PROVE x \in NewestDays(F)
    <3>1. PICK k \in Keys : \E d \in Kept(U, k, today) : x = DayTotal(k, d, OnDay(U, k, d))
      BY <1>0, <2>2, ReferenceBucketsIs
    <3>2. PICK d \in Kept(U, k, today) : x = DayTotal(k, d, OnDay(U, k, d))
      BY <3>1
    <3>3. d \in E(k)
      BY <1>9 DEF Foremost
    <3>4. PICK z \in F : z.key = k /\ z.day = d
      BY <1>7, <3>3
    <3>5. z = x
      BY <1>12, <3>2, <3>4
    <3> QED
      BY <1>11, <3>4, <3>5
  <2> QED
    BY <2>1, <2>2
<1> QED
  BY <1>13 DEF F

------------------------------------------------------------------------------
LEMMA SaidIsFinite ==
    ASSUME NEW S, Books(S), NEW k
    PROVE  IsFiniteSet(Said(S, k))
<1> DEFINE T == {Summaries(b) : b \in S}
<1>1. ASSUME NEW b \in S PROVE IsFiniteSet(Summaries(b))
  <2> DEFINE f == [a \in b.aggregates |-> SummaryOf(b, a)]
  <2>1. f \in [b.aggregates -> Summaries(b)] /\ \A s \in Summaries(b) : \E a \in b.aggregates : f[a] = s
    BY DEF Summaries, SummaryOf
  <2>2. IsFiniteSet(b.aggregates)
    BY DEF Books, Telling
  <2> HIDE DEF f
  <2> QED
    BY <2>1, <2>2, ImageIsFinite
<1>2. IsFiniteSet(T)
  <2> DEFINE f == [b \in S |-> Summaries(b)]
  <2>1. f \in [S -> T] /\ \A s \in T : \E b \in S : f[b] = s
    OBVIOUS
  <2>2. IsFiniteSet(S)
    BY DEF Books
  <2> HIDE DEF f, T
  <2> QED
    BY <2>1, <2>2, ImageIsFinite
<1>3. \A x \in T : IsFiniteSet(x)
  BY <1>1
<1>4. IsFiniteSet(UNION T)
  <2> HIDE DEF T
  <2> QED
    BY <1>2, <1>3, FS_UNION
<1>5. Said(S, k) \in SUBSET (UNION T)
  BY DEF Said
<1> QED
  BY <1>4, <1>5, FS_Subset

LEMMA SaidOfMore ==
    ASSUME NEW S, NEW b, NEW U, Joined(U, S, b), NEW k
    PROVE  Said(U, k) = Said(S, k) \cup Said({b}, k)
<1>1. U = S \cup {b}
  BY DEF Joined
<1>2. ASSUME NEW r PROVE r \in Said(U, k) <=> r \in Said(S, k) \/ r \in Said({b}, k)
  BY <1>1, SaidIs
<1> QED
  BY <1>2

(* Of two days of which something is said, the later is kept first.        *)
LEMMA KeptUpward ==
    ASSUME NEW U, NEW today \in Nat, NEW k, NEW d \in Kept(U, k, today), NEW e \in Nat, e >= d, e <= today,
           OnDay(U, k, e) # {}
    PROVE  e \in Kept(U, k, today)
<1> PICK D : D = DaysOf(U, k, today)
  OBVIOUS
<1>1. d \in D /\ d \in Nat /\ InHorizon(d, today) /\ Cardinality(Ahead(After, D, d)) < MaxBuckets
  BY DEF Kept, Foremost, DaysOf
<1>2. Cutoff(today) \in Nat
  BY CutoffGrows
<1>3. e \in D
  BY <1>1, <1>2 DEF DaysOf, InHorizon
<1>4. IsFiniteSet(D) /\ D \subseteq Nat
  BY DaysAreFinite
<1>5. \A x, y \in D : <<x, y>> \in After <=> x > y
  BY <1>4, LaterDaysFirst
<1>6. Ahead(After, D, e) \in SUBSET Ahead(After, D, d)
  <2> SUFFICES ASSUME NEW x \in D, <<x, e>> \in After PROVE <<x, d>> \in After
    BY DEF Ahead
  <2>1. x > e /\ x \in Nat
    BY <1>3, <1>4, <1>5
  <2>2. x > d
    BY <1>1, <2>1
  <2> QED
    BY <1>1, <1>5, <2>2
<1> PICK P, Q : P = Ahead(After, D, e) /\ Q = Ahead(After, D, d)
  OBVIOUS
<1>7. Cardinality(P) <= Cardinality(Q) /\ Cardinality(P) \in Nat /\ Cardinality(Q) \in Nat
  BY <1>4, <1>6, AheadIsFinite
<1>8. Cardinality(P) < MaxBuckets
  BY <1>1, <1>7, PolicyAssumption
<1> QED
  BY <1>3, <1>8 DEF Kept, Foremost

LEMMA NewerIs ==
    ASSUME NEW r \in Recent, NEW s \in Recent
    PROVE  <<r, s>> \in Newer <=> NewerSummary(r, s)
BY DEF Newer

(* The summaries on kept days hold all that are newer.                     *)
LEMMA LatelyUpward ==
    ASSUME NEW U, Books(U), NEW today \in Nat, Early(U, today), NEW k,
           NEW r \in Said(U, k), NEW s \in Said(U, k), DayOf(r.at) \in Kept(U, k, today),
           <<s, r>> \in Newer
    PROVE  DayOf(s.at) \in Kept(U, k, today)
<1>1. /\ r \in Recent /\ s \in Recent /\ r.at \in Nat /\ s.at \in Nat
      /\ DayOf(r.at) \in Nat /\ DayOf(s.at) \in Nat /\ OnDay(U, k, DayOf(s.at)) # {}
  BY SaidType
<1>2. s.at >= r.at
  BY <1>1 DEF Newer, NewerSummary
<1>3. DayOf(s.at) >= DayOf(r.at)
  BY <1>1, <1>2, PolicyAssumption DEF DayOf
<1>4. DayOf(s.at) <= today
  BY <1>1, EarlyDays
<1> QED
  BY <1>1, <1>3, <1>4, KeptUpward

(* The summaries a merge chooses from.                                     *)
Heard(E, S, b, U, k, t, today) ==
    \A r : r \in E <=> /\ r \in Foremost(Newer, Lately(S, k, t), MaxRecents) \/ r \in Said({b}, k)
                       /\ DayOf(r.at) \in Kept(U, k, today)

(* The summaries of a key once a batch is added: what was kept and what is *)
(* new, as if none had ever been dropped.                                  *)
LEMMA LatelyAfter ==
    ASSUME NEW S, NEW b, NEW U, Joined(U, S, b), Books(U), NEW t \in Nat, NEW today \in Nat, t <= today,
           Early(S, t), Early(U, today), NEW k, NEW E,
           Heard(E, S, b, U, k, t, today)
    PROVE  Foremost(Newer, E, MaxRecents) = Foremost(Newer, Lately(U, k, today), MaxRecents)
<1> PICK X, Q, L : X = Lately(S, k, t) /\ Q = Said({b}, k) /\ L = Lately(U, k, today)
  OBVIOUS
<1> DEFINE H == {r \in Said(U, k) : DayOf(r.at) \in Kept(U, k, today)}
<1>0. S \subseteq U /\ U = S \cup {b}
  BY DEF Joined
<1>1. Said(U, k) = Said(S, k) \cup Q
  BY SaidOfMore
<1>2. \A r : r \in X <=> r \in Said(S, k) /\ DayOf(r.at) \in Kept(S, k, t)
  BY DEF Lately
<1>3. X \cup Q \in SUBSET Said(U, k)
  BY <1>1, <1>2
<1>4. IsFiniteSet(X) /\ IsFiniteSet(Q)
  <2>1. X \in SUBSET Said(U, k) /\ Q \in SUBSET Said(U, k)
    BY <1>3
  <2>2. IsFiniteSet(Said(U, k))
    BY SaidIsFinite
  <2> QED
    BY <2>1, <2>2, FS_Subset
<1>5. PartialOrder(Newer, X \cup Q)
  <2>1. PartialOrder(Newer, Said(U, k))
    BY SaidIsOrdered
  <2> QED
    BY <1>3, <2>1 DEF PartialOrder
<1>6. Upward(Newer, X \cup Q, H)
  BY <1>3, LatelyUpward DEF Upward
<1>7. L = (X \cup Q) \cap H
  <2>1. ASSUME NEW r \in Said(S, k), DayOf(r.at) \in Kept(U, k, today) PROVE r \in X
    <3>0. Books(S)
      <4>1. IsFiniteSet(S)
        BY <1>0, FS_Subset DEF Books
      <4> QED
        BY <1>0, <4>1 DEF Books
    <3>1. OnDay(S, k, DayOf(r.at)) # {}
      BY <3>0, SaidType
    <3>2. DayOf(r.at) \in Kept(S, k, t)
      BY <1>0, <2>1, <3>1, KeptBefore
    <3> QED
      BY <1>2, <3>2
  <2>2. \A r : r \in L <=> r \in Said(U, k) /\ DayOf(r.at) \in Kept(U, k, today)
    BY DEF Lately
  <2>3. ASSUME NEW r PROVE r \in L <=> r \in (X \cup Q) \cap H
    BY <1>1, <1>3, <2>1, <2>2
  <2> QED
    BY <2>3
<1>8. E = (Foremost(Newer, X, MaxRecents) \cup Q) \cap H
  <2>1. Foremost(Newer, X, MaxRecents) \in SUBSET X
    BY DEF Foremost
  <2> PICK F : F = Foremost(Newer, X, MaxRecents)
    OBVIOUS
  <2>2. \A r : r \in E <=> /\ r \in F \/ r \in Q
                           /\ DayOf(r.at) \in Kept(U, k, today)
    BY DEF Heard
  <2>3. F \cup Q \in SUBSET Said(U, k)
    BY <1>3, <2>1
  <2>4. E = (F \cup Q) \cap H
    BY <2>2, <2>3
  <2> QED
    BY <2>4
<1>9. MaxRecents \in Nat
  BY PolicyAssumption
<1> HIDE DEF H
<1>10. Foremost(Newer, (Foremost(Newer, X, MaxRecents) \cup Q) \cap H, MaxRecents)
         = Foremost(Newer, (X \cup Q) \cap H, MaxRecents)
  <2> PICK G : G = H
    OBVIOUS
  <2>1. Foremost(Newer, (Foremost(Newer, X, MaxRecents) \cup Q) \cap G, MaxRecents)
         = Foremost(Newer, (X \cup Q) \cap G, MaxRecents)
    BY <1>4, <1>5, <1>6, <1>9, FirstOfFirst
  <2> QED
    BY <2>1
<1>11. Foremost(Newer, E, MaxRecents) = Foremost(Newer, L, MaxRecents)
  BY <1>7, <1>8, <1>10
<1> QED
  BY <1>11

------------------------------------------------------------------------------
LEMMA EarlyOfMore ==
    ASSUME NEW S, NEW b, NEW U, Joined(U, S, b), Books(U), NEW t \in Nat, NEW today \in Nat, t <= today,
           Early(S, t), Early({b}, today)
    PROVE  Early(U, today)
<1> SUFFICES ASSUME NEW c \in U, NEW a \in c.aggregates PROVE DayOf(a.last) <= today
  BY DEF Early
<1>1. DayOf(a.last) \in Nat
  BY TellingRows DEF Books
<1>2. CASE c = b
  BY <1>2 DEF Early
<1>3. CASE c \in S
  <2>1. DayOf(a.last) <= t
    BY <1>3 DEF Early
  <2> QED
    BY <1>1, <2>1
<1> QED
  BY <1>2, <1>3 DEF Joined

LEMMA FewerBooks ==
    ASSUME NEW S, NEW U, S \subseteq U, Books(U)
    PROVE  Books(S)
<1>1. IsFiniteSet(S)
  BY FS_Subset DEF Books
<1> QED
  BY <1>1 DEF Books

LEMMA SummariesAreSaid ==
    ASSUME NEW b, NEW r
    PROVE  r \in Summaries(b) <=> r \in Said({b}, r.key)
BY DEF Said

(* The summaries of a model are those of its keys.                         *)
LEMMA ReflectedRecents ==
    ASSUME NEW S, Books(S), NEW today \in Nat, NEW r
    PROVE  r \in ReferenceRecents(S, today) <=>
              r.key \in Keys /\ r \in Foremost(Newer, Lately(S, r.key, today), MaxRecents)
<1>1. ASSUME NEW k, r \in Foremost(Newer, Lately(S, k, today), MaxRecents) PROVE r.key = k
  BY <1>1 DEF Foremost, Lately, Said
<1> QED
  BY <1>1, ReferenceRecentsIs

LEMMA FirstIsLately ==
    ASSUME NEW S, NEW k, NEW today, NEW r \in Foremost(Newer, Lately(S, k, today), MaxRecents)
    PROVE  r \in Said(S, k) /\ r.key = k /\ DayOf(r.at) \in Kept(S, k, today)
BY DEF Foremost, Lately, Said

LEMMA OnKeptDay ==
    ASSUME NEW U, Books(U), NEW today \in Nat, NEW B, B = ReferenceBuckets(U, today), NEW k \in Keys, NEW d
    PROVE  (\E x \in OfKey(B, k) : x.day = d) <=> d \in Kept(U, k, today)
<1>1. ASSUME NEW x \in B, x.key = k, x.day = d PROVE d \in Kept(U, k, today)
  BY <1>1, ReflectedBuckets
<1>2. ASSUME d \in Kept(U, k, today) PROVE \E x \in B : x.key = k /\ x.day = d
  <2>1. DayTotal(k, d, OnDay(U, k, d)) \in B
    BY <1>2, ReflectedBuckets
  <2> QED
    BY <2>1, TotalFields
<1> QED
  BY <1>1, <1>2 DEF OfKey

LEMMA MergedHeard ==
    ASSUME NEW S, NEW b, NEW U, Joined(U, S, b), Books(U), NEW t \in Nat, NEW today \in Nat,
           NEW Q, Q = ReferenceRecents(S, t), NEW B, B = ReferenceBuckets(U, today), NEW k \in Keys
    PROVE  Heard(OfKey(WithBucket(Q \cup Summaries(b), B), k), S, b, U, k, t, today)
<1> PICK W : W = WithBucket(Q \cup Summaries(b), B)
  OBVIOUS
<1> PICK F : F = Foremost(Newer, Lately(S, k, t), MaxRecents)
  OBVIOUS
<1>0. Books(S)
  BY FewerBooks DEF Joined
<1>1. ASSUME NEW r
      PROVE  r \in OfKey(W, k) <=> /\ r \in F \/ r \in Said({b}, k)
                                   /\ DayOf(r.at) \in Kept(U, k, today)
  <2>1. r \in OfKey(W, k) <=> /\ r \in Q \/ r \in Summaries(b)
                              /\ \E x \in OfKey(B, r.key) : x.day = DayOf(r.at)
                              /\ r.key = k
    BY DEF OfKey, WithBucket
  <2>2. r.key = k => (r \in Q <=> r \in F)
    BY <1>0, ReflectedRecents
  <2>3. r.key = k => (r \in Summaries(b) <=> r \in Said({b}, k))
    BY SummariesAreSaid
  <2>4. r \in F \/ r \in Said({b}, k) => r.key = k
    BY FirstIsLately DEF Said
  <2>5. r.key = k => ((\E x \in OfKey(B, r.key) : x.day = DayOf(r.at))
                        <=> DayOf(r.at) \in Kept(U, k, today))
    BY OnKeptDay
  <2> QED
    BY <2>1, <2>2, <2>3, <2>4, <2>5
<1> QED
  BY <1>1 DEF Heard

LEMMA MergedRecents ==
    ASSUME NEW S, NEW b, NEW U, Joined(U, S, b), Books(U), NEW t \in Nat, NEW today \in Nat, t <= today,
           Early(S, t), Early({b}, today),
           NEW Q, Q = ReferenceRecents(S, t), NEW B, B = ReferenceBuckets(U, today)
    PROVE  NewestSummaries(WithBucket(Q \cup Summaries(b), B)) = ReferenceRecents(U, today)
<1> PICK W : W = WithBucket(Q \cup Summaries(b), B)
  OBVIOUS
<1>0. Early(U, today) /\ Books(S)
  BY EarlyOfMore, FewerBooks DEF Joined
<1>1. ASSUME NEW k \in Keys
      PROVE  Foremost(Newer, OfKey(W, k), MaxRecents) = Foremost(Newer, Lately(U, k, today), MaxRecents)
  <2> PICK E : E = OfKey(W, k)
    OBVIOUS
  <2>1. Heard(E, S, b, U, k, t, today)
    BY MergedHeard
  <2>2. Foremost(Newer, E, MaxRecents) = Foremost(Newer, Lately(U, k, today), MaxRecents)
    BY <1>0, <2>1, LatelyAfter
  <2> QED
    BY <2>2
<1>2. ASSUME NEW r \in W PROVE r \in Recent /\ r.key \in Keys
  <2>1. r \in Q \/ r \in Summaries(b)
    BY DEF WithBucket
  <2>2. r \in Q => r \in Said(S, r.key)
    BY <1>0, ReflectedRecents, FirstIsLately
  <2>3. r \in Summaries(b) => r \in Said({b}, r.key)
    BY SummariesAreSaid
  <2>4. Books({b})
    BY FewerBooks DEF Joined
  <2>5. r \in Recent
    BY <1>0, <2>1, <2>2, <2>3, <2>4, SaidType
  <2> QED
    BY <2>5 DEF Recent
<1>3. ASSUME NEW r
      PROVE  r \in NewestSummaries(W) <=> r.key \in Keys /\ r \in Foremost(Newer, OfKey(W, r.key), MaxRecents)
  <2> PICK E : E = OfKey(W, r.key)
    OBVIOUS
  <2>1. r \in W <=> r \in E
    BY DEF OfKey
  <2>2. \A s \in E : s \in W /\ s \in Recent
    BY <1>2 DEF OfKey
  <2>3. r \in W => {s \in E : NewerSummary(s, r)} = Ahead(Newer, E, r)
    <3> SUFFICES ASSUME r \in W PROVE {s \in E : NewerSummary(s, r)} = Ahead(Newer, E, r)
      OBVIOUS
    <3>1. \A s \in E : <<s, r>> \in Newer <=> NewerSummary(s, r)
      BY <1>2, <2>2, NewerIs
    <3> QED
      BY <3>1 DEF Ahead
  <2>4. r \in NewestSummaries(W) <=> r \in W /\ Cardinality({s \in E : NewerSummary(s, r)}) < MaxRecents
    BY DEF NewestSummaries
  <2>5. r \in Foremost(Newer, E, MaxRecents) <=> r \in E /\ Cardinality(Ahead(Newer, E, r)) < MaxRecents
    BY DEF Foremost
  <2> QED
    BY <1>2, <2>1, <2>3, <2>4, <2>5
<1>4. ASSUME NEW r PROVE r \in NewestSummaries(W) <=> r \in ReferenceRecents(U, today)
  BY <1>1, <1>3, ReflectedRecents
<1> QED
  BY <1>4

------------------------------------------------------------------------------
(* What a batch adds to rows that reflect the batches before it.           *)
LEMMA MergeReflects ==
    ASSUME NEW R, NEW m \in Leaf(R), NEW S, NEW b, NEW U, Joined(U, S, b), Books(U), NEW now \in Nat,
           ValidAggregates(b.aggregates, now), Early(S, m.pruningDay), Reflects(m, S, m.pruningDay)
    PROVE  /\ Reflects(MergeOwn(m, b, now), U, MergeOwn(m, b, now).pruningDay)
           /\ Early(U, MergeOwn(m, b, now).pruningDay)
<1>0. /\ MergeOwn(m, b, now).pruningDay = EffectiveToday(m, b, now)
      /\ MergeOwn(m, b, now).buckets = NewestDays(FoldBuckets(m, b, EffectiveToday(m, b, now)))
      /\ MergeOwn(m, b, now).recents =
            NewestSummaries(WithBucket(m.recents \cup Summaries(b), MergeOwn(m, b, now).buckets))
  <2>1. Merges(m, b, now)
    BY MergeOwnMerges, Zenon
  <2> QED
    BY <2>1, Zenon DEF Merges
<1> PICK today : today = EffectiveToday(m, b, now)
  OBVIOUS
<1> PICK n : n = MergeOwn(m, b, now)
  OBVIOUS
<1> PICK t : t = m.pruningDay
  OBVIOUS
<1>1. t \in Nat /\ m.buckets \in SUBSET Bucket
  BY DEF Leaf
<1>2. b.aggregates \subseteq Aggregate
  BY DEF Joined, Books, Telling
<1>3. today \in Nat /\ t <= today /\ \A a \in b.aggregates : DayOf(a.last) <= today
  BY <1>1, <1>2, EffectiveTodayType
<1>4. Early({b}, today)
  BY <1>3 DEF Early
<1>5. /\ n.pruningDay = today
      /\ n.buckets = NewestDays(FoldBuckets(m, b, today))
      /\ n.recents = NewestSummaries(WithBucket(m.recents \cup Summaries(b), n.buckets))
  BY <1>0
<1>6. Early(U, today)
  BY <1>1, <1>3, <1>4, EarlyOfMore
<1>7. m.buckets = ReferenceBuckets(S, t) /\ m.recents = ReferenceRecents(S, t)
  BY DEF Reflects
<1>8. n.buckets = ReferenceBuckets(U, today)
  <2>1. b \notin S /\ U = S \cup {b}
    BY DEF Joined
  <2>2. NewestDays(FoldBuckets(m, b, today)) = ReferenceBuckets(S \cup {b}, today)
    BY <1>1, <1>3, <1>4, <1>7, <2>1, MergedBuckets
  <2> QED
    BY <1>5, <2>1, <2>2
<1>9. n.recents = ReferenceRecents(U, today)
  BY <1>1, <1>3, <1>4, <1>5, <1>7, <1>8, MergedRecents
<1> QED
  BY <1>5, <1>6, <1>8, <1>9 DEF Reflects

(* When the horizon moves, the days that stay are kept as before.          *)
LEMMA KeptLater ==
    ASSUME NEW S, Books(S), NEW t \in Nat, NEW today \in Nat, t <= today, Early(S, t), NEW k, NEW d
    PROVE  d \in Kept(S, k, today) <=> d \in Kept(S, k, t) /\ InHorizon(d, today)
<1>1. ASSUME d \in Kept(S, k, today) PROVE d \in Kept(S, k, t) /\ InHorizon(d, today)
  <2>1. InHorizon(d, today) /\ OnDay(S, k, d) # {}
    BY <1>1 DEF Kept, Foremost, DaysOf
  <2> QED
    BY <1>1, <2>1, KeptBefore
<1>2. ASSUME d \in Kept(S, k, t), InHorizon(d, today) PROVE d \in Kept(S, k, today)
  <2> PICK C, D : C = DaysOf(S, k, today) /\ D = DaysOf(S, k, t)
    OBVIOUS
  <2>1. d \in D /\ d \in Nat /\ OnDay(S, k, d) # {} /\ Cardinality(Ahead(After, D, d)) < MaxBuckets
    BY <1>2 DEF Kept, Foremost, DaysOf
  <2>2. d \in C
    BY <1>2, <2>1 DEF DaysOf
  <2>3. ASSUME NEW e \in C PROVE e \in D
    <3>1. e \in Nat /\ InHorizon(e, today) /\ OnDay(S, k, e) # {}
      BY DEF DaysOf
    <3>2. e <= t
      BY <3>1, EarlyDays
    <3>3. Cutoff(t) \in Nat /\ Cutoff(today) \in Nat /\ Cutoff(t) <= Cutoff(today)
      BY CutoffGrows
    <3> QED
      BY <3>1, <3>2, <3>3 DEF InHorizon, DaysOf
  <2>4. Ahead(After, C, d) \in SUBSET Ahead(After, D, d)
    BY <2>3 DEF Ahead
  <2>5. IsFiniteSet(D) /\ IsFiniteSet(C)
    BY DaysAreFinite
  <2> PICK P, Q : P = Ahead(After, C, d) /\ Q = Ahead(After, D, d)
    OBVIOUS
  <2>6. Cardinality(P) <= Cardinality(Q) /\ Cardinality(P) \in Nat /\ Cardinality(Q) \in Nat
    BY <2>4, <2>5, AheadIsFinite
  <2>7. Cardinality(P) < MaxBuckets
    BY <2>1, <2>6, PolicyAssumption
  <2> QED
    BY <2>2, <2>7 DEF Kept, Foremost
<1> QED
  BY <1>1, <1>2

(* The first of what stays, when all that is ahead of it stays too.        *)
LEMMA FirstThatStay ==
    ASSUME NEW X, NEW L, NEW R, NEW n, L \subseteq X,
           \A x \in L, y \in X : <<y, x>> \in R => y \in L
    PROVE  \A r : r \in Foremost(R, L, n) <=> r \in Foremost(R, X, n) /\ r \in L
<1>1. ASSUME NEW r \in L PROVE Ahead(R, L, r) = Ahead(R, X, r)
  BY DEF Ahead
<1> QED
  BY <1>1 DEF Foremost

(* The rows of the days of a horizon.                                      *)
InDays(B, today) == {x \in B : InHorizon(x.day, today)}
OfDays(Q, today) == {r \in Q : InHorizon(DayOf(r.at), today)}

(* When the horizon moves and nothing is learned, days and their summaries *)
(* are dropped and nothing else changes.                                   *)
LEMMA ReferenceLater ==
    ASSUME NEW S, Books(S), NEW t \in Nat, NEW today \in Nat, t <= today, Early(S, t)
    PROVE  /\ Early(S, today)
           /\ ReferenceBuckets(S, today) = InDays(ReferenceBuckets(S, t), today)
           /\ ReferenceRecents(S, today) = OfDays(ReferenceRecents(S, t), today)
<1>1. Early(S, today)
  <2> SUFFICES ASSUME NEW c \in S, NEW a \in c.aggregates PROVE DayOf(a.last) <= today
    BY DEF Early
  <2>1. DayOf(a.last) \in Nat /\ DayOf(a.last) <= t
    BY TellingRows DEF Books, Early
  <2> QED
    BY <2>1
<1>2. \A k, d : d \in Kept(S, k, today) <=> d \in Kept(S, k, t) /\ InHorizon(d, today)
  BY KeptLater
<1>3. ASSUME NEW x PROVE x \in ReferenceBuckets(S, today) <=> x \in InDays(ReferenceBuckets(S, t), today)
  <2>1. \A k, d : DayTotal(k, d, OnDay(S, k, d)).day = d
    BY TotalFields
  <2>2. x \in ReferenceBuckets(S, t)
          <=> \E k \in Keys : \E d \in Kept(S, k, t) : x = DayTotal(k, d, OnDay(S, k, d))
    BY ReferenceBucketsIs
  <2>3. x \in ReferenceBuckets(S, today)
          <=> \E k \in Keys : \E d \in Kept(S, k, today) : x = DayTotal(k, d, OnDay(S, k, d))
    BY ReferenceBucketsIs
  <2> QED
    BY <1>2, <2>1, <2>2, <2>3 DEF InDays
<1>4. ASSUME NEW k, NEW r
      PROVE  r \in Foremost(Newer, Lately(S, k, today), MaxRecents)
               <=> r \in Foremost(Newer, Lately(S, k, t), MaxRecents) /\ InHorizon(DayOf(r.at), today)
  <2> PICK X, L : X = Lately(S, k, t) /\ L = Lately(S, k, today)
    OBVIOUS
  <2>1. \A x : x \in X <=> x \in Said(S, k) /\ DayOf(x.at) \in Kept(S, k, t)
    BY DEF Lately
  <2>2. \A x : x \in L <=> x \in Said(S, k) /\ DayOf(x.at) \in Kept(S, k, today)
    BY DEF Lately
  <2>3. L \subseteq X /\ \A x : x \in L <=> x \in X /\ InHorizon(DayOf(x.at), today)
    BY <1>2, <2>1, <2>2
  <2>4. ASSUME NEW x \in L, NEW y \in X, <<y, x>> \in Newer PROVE y \in L
    BY <1>1, <2>1, <2>2, <2>4, LatelyUpward
  <2>5. r \in Foremost(Newer, L, MaxRecents) <=> r \in Foremost(Newer, X, MaxRecents) /\ r \in L
    BY <2>3, <2>4, FirstThatStay
  <2>6. r \in Foremost(Newer, X, MaxRecents) => r \in X
    BY DEF Foremost
  <2> QED
    BY <2>3, <2>5, <2>6
<1>5. ASSUME NEW r PROVE r \in ReferenceRecents(S, today) <=> r \in OfDays(ReferenceRecents(S, t), today)
  BY <1>4, ReflectedRecents DEF OfDays
<1> QED
  BY <1>1, <1>3, <1>5

(* Before anything is learned.                                             *)
LEMMA NothingReflected ==
    ASSUME NEW m, m.buckets = {}, m.recents = {}, NEW t \in Nat
    PROVE  Reflects(m, {}, t) /\ Early({}, t) /\ Books({})
<1>1. Books({})
  BY FS_EmptySet DEF Books
<1>2. \A k, d : OnDay({}, k, d) = {}
  BY OnDayIs
<1>3. \A k : Kept({}, k, t) = {}
  BY <1>2 DEF Kept, Foremost, DaysOf
<1>4. \A x : x \notin ReferenceBuckets({}, t)
  BY <1>1, <1>3, ReferenceBucketsIs
<1>5. \A r : r \notin ReferenceRecents({}, t)
  BY <1>1, <1>3, ReflectedRecents, FirstIsLately
<1> QED
  BY <1>1, <1>4, <1>5 DEF Reflects, Early

------------------------------------------------------------------------------
(* What the rows of a leaf show of a horizon, which may have moved beyond  *)
(* the day the leaf itself was pruned to.                                  *)
Shows(m, S, today) ==
    /\ InDays(m.buckets, today) = ReferenceBuckets(S, today)
    /\ OfDays(m.recents, today) = ReferenceRecents(S, today)

(* The rows of a leaf are of the days it was pruned to, and a summary has  *)
(* the bucket of its day.                                                  *)
Dated(m, day) ==
    /\ \A x \in m.buckets : x.day \in Nat /\ x.day <= day /\ Cutoff(day) <= x.day
    /\ \A r \in m.recents :
          r \in Recent /\ \E x \in m.buckets : x.key = r.key /\ x.day = DayOf(r.at)

LEMMA ValidIsDated ==
    ASSUME NEW R, NEW m \in Leaf(R), ValidLeaf(m)
    PROVE  Dated(m, m.pruningDay) /\ m.pruningDay \in Nat /\ m.buckets \in SUBSET Bucket /\ UniqueDays(m.buckets)
<1>1. m.pruningDay \in Nat /\ m.buckets \in SUBSET Bucket /\ m.recents \in SUBSET Recent
  BY DEF Leaf
<1>2. \A x \in m.buckets : x.day \in Nat /\ x.day <= m.pruningDay /\ Cutoff(m.pruningDay) <= x.day
  <2> SUFFICES ASSUME NEW x \in m.buckets
               PROVE  x.day \in Nat /\ x.day <= m.pruningDay /\ Cutoff(m.pruningDay) <= x.day
    OBVIOUS
  <2>1. x.day \in Nat
    BY <1>1 DEF Bucket
  <2>2. x.day <= m.pruningDay /\ x.day >= Cutoff(m.pruningDay)
    BY DEF ValidLeaf
  <2>3. Cutoff(m.pruningDay) \in Nat
    BY <1>1, CutoffGrows
  <2> QED
    BY <2>1, <2>2, <2>3
<1>3. ASSUME NEW r \in m.recents PROVE \E x \in m.buckets : x.key = r.key /\ x.day = DayOf(r.at)
  BY DEF ValidLeaf, OfKey
<1>4. UniqueDays(m.buckets)
  BY DEF ValidLeaf, UniqueDays, OfKey
<1> QED
  BY <1>1, <1>2, <1>3, <1>4 DEF Dated

(* Before anything is learned.                                             *)
LEMMA NothingShown ==
    ASSUME NEW m, m.buckets = {}, m.recents = {}, NEW t \in Nat
    PROVE  Shows(m, {}, t) /\ Early({}, t) /\ Books({})
<1>1. Reflects(m, {}, t) /\ Early({}, t) /\ Books({})
  BY NothingReflected
<1>2. InDays({}, t) = {} /\ OfDays({}, t) = {}
  BY DEF InDays, OfDays
<1> QED
  BY <1>1, <1>2 DEF Reflects, Shows

(* A horizon moves on.                                                     *)
LEMMA ShowsLater ==
    ASSUME NEW S, Books(S), NEW t \in Nat, NEW today \in Nat, t <= today, Early(S, t),
           NEW m, NEW p \in Nat, p <= t, Dated(m, p), Shows(m, S, t)
    PROVE  Early(S, today) /\ Shows(m, S, today)
<1>1. /\ Early(S, today)
      /\ ReferenceBuckets(S, today) = InDays(ReferenceBuckets(S, t), today)
      /\ ReferenceRecents(S, today) = OfDays(ReferenceRecents(S, t), today)
  BY ReferenceLater
<1>2. Cutoff(t) \in Nat /\ Cutoff(today) \in Nat /\ Cutoff(t) <= Cutoff(today)
  BY CutoffGrows
<1>3. ASSUME NEW d \in Nat, d <= p PROVE InHorizon(d, today) => InHorizon(d, t)
  BY <1>2, <1>3 DEF InHorizon
<1>4. ASSUME NEW x PROVE x \in InDays(m.buckets, today) <=> x \in InDays(InDays(m.buckets, t), today)
  BY <1>3 DEF InDays, Dated
<1>5. ASSUME NEW r PROVE r \in OfDays(m.recents, today) <=> r \in OfDays(OfDays(m.recents, t), today)
  <2>1. r \in m.recents => DayOf(r.at) \in Nat /\ DayOf(r.at) <= p
    BY DEF Dated
  <2> QED
    BY <1>3, <2>1 DEF OfDays
<1>6. InDays(m.buckets, today) = InDays(InDays(m.buckets, t), today)
  BY <1>4
<1>7. OfDays(m.recents, today) = OfDays(OfDays(m.recents, t), today)
  BY <1>5
<1> QED
  BY <1>1, <1>6, <1>7 DEF Shows

(* Ageing takes away only what the horizon has left behind.                *)
LEMMA AgeShows ==
    ASSUME NEW R, NEW m \in Leaf(R), ValidLeaf(m), NEW now \in Nat, NEW S, NEW today \in Nat,
           AgeChild(m, now).pruningDay <= today, Shows(m, S, today)
    PROVE  Shows(AgeChild(m, now), S, today)
<1> PICK n : n = AgeChild(m, now)
  OBVIOUS
<1> PICK t, p : t = n.pruningDay /\ p = m.pruningDay
  OBVIOUS
<1>1. /\ t = Later(p, DayOf(now))
      /\ n.buckets = {x \in m.buckets : InHorizon(x.day, t)}
      /\ n.recents = WithBucket(m.recents, n.buckets)
  BY AgeChildRows
<1>2. Dated(m, p) /\ p \in Nat
  BY ValidIsDated
<1>3. t \in Nat /\ p <= t /\ t <= today
  BY <1>1, <1>2, DayOfType DEF Later
<1>4. Cutoff(t) \in Nat /\ Cutoff(today) \in Nat /\ Cutoff(t) <= Cutoff(today)
  BY <1>3, CutoffGrows
<1>5. ASSUME NEW d \in Nat, d <= p PROVE InHorizon(d, today) => InHorizon(d, t)
  BY <1>2, <1>3, <1>4, <1>5 DEF InHorizon
<1>6. ASSUME NEW x PROVE x \in InDays(n.buckets, today) <=> x \in InDays(m.buckets, today)
  BY <1>1, <1>2, <1>5 DEF InDays, Dated
<1>7. ASSUME NEW r PROVE r \in OfDays(n.recents, today) <=> r \in OfDays(m.recents, today)
  <2>1. r \in n.recents <=> r \in m.recents /\ \E x \in n.buckets : x.key = r.key /\ x.day = DayOf(r.at)
    BY <1>1 DEF WithBucket, OfKey
  <2>2. ASSUME r \in m.recents, InHorizon(DayOf(r.at), today)
        PROVE  \E x \in n.buckets : x.key = r.key /\ x.day = DayOf(r.at)
    <3>1. PICK x \in m.buckets : x.key = r.key /\ x.day = DayOf(r.at)
      BY <1>2, <2>2 DEF Dated
    <3>2. x.day \in Nat /\ x.day <= p
      BY <1>2 DEF Dated
    <3>3. InHorizon(x.day, t)
      BY <1>5, <2>2, <3>1, <3>2
    <3> QED
      BY <1>1, <3>1, <3>3
  <2> QED
    BY <2>1, <2>2 DEF OfDays
<1>8. InDays(n.buckets, today) = InDays(m.buckets, today)
  BY <1>6
<1>9. OfDays(n.recents, today) = OfDays(m.recents, today)
  BY <1>7
<1> QED
  BY <1>8, <1>9 DEF Shows

(* Folding and then looking at a later horizon is folding into what can be *)
(* seen from there.                                                        *)
LEMMA FoldedInDays ==
    ASSUME NEW m, m.buckets \in SUBSET Bucket, NEW b, b.aggregates \in SUBSET Aggregate, NEW p \in Nat, Dated(m, p),
           NEW t \in Nat, NEW u \in Nat, NEW today \in Nat, p <= t, t <= today, p <= u, u <= today,
           \A a \in b.aggregates : DayOf(a.last) \in Nat /\ DayOf(a.last) <= u,
           NEW v, v.buckets = InDays(m.buckets, t)
    PROVE  /\ InDays(FoldBuckets(m, b, u), today) = FoldBuckets(v, b, today)
           /\ \A x \in FoldBuckets(m, b, u) : x.day \in Nat /\ x.day <= today
<1> PICK A, B, V : A = b.aggregates /\ B = m.buckets /\ V = v.buckets
  OBVIOUS
<1>1. /\ Cutoff(t) \in Nat /\ Cutoff(today) \in Nat /\ Cutoff(t) <= Cutoff(today)
      /\ Cutoff(u) \in Nat /\ Cutoff(u) <= Cutoff(today)
  BY CutoffGrows
<1>2. \A x : x \in V <=> x \in B /\ InHorizon(x.day, t)
  BY DEF InDays
<1>3. V \in SUBSET Bucket
  BY <1>2
<1>4. \A x : x \in FoldBuckets(m, b, u) <=> InHorizon(x.day, u) /\ Folded(x, B, A)
  BY FoldedRows
<1>5. \A x : x \in FoldBuckets(v, b, today) <=> InHorizon(x.day, today) /\ Folded(x, V, A)
  BY <1>3, FoldedRows
<1>6. ASSUME NEW x, Folded(x, B, A) PROVE x.day \in Nat /\ x.day <= u
  <2>1. \A y \in B : y.day \in Nat /\ y.day <= p
    BY DEF Dated
  <2>2. CASE x \in B
    BY <2>1, <2>2
  <2>3. ASSUME NEW y \in B, NEW a \in A, x = Added(y, a) PROVE x.day \in Nat /\ x.day <= u
    BY <2>1, <2>3, FoldFields
  <2>4. ASSUME NEW a \in A, x = Opened(a) PROVE x.day \in Nat /\ x.day <= u
    BY <2>4, FoldFields
  <2> QED
    BY <1>6, <2>2, <2>3, <2>4 DEF Folded
<1>7. ASSUME NEW d \in Nat, d <= u, InHorizon(d, today) PROVE InHorizon(d, u)
  BY <1>1, <1>7 DEF InHorizon
<1>8. ASSUME NEW d, InHorizon(d, today), NEW y \in B, y.day = d PROVE y \in V
  <2>1. y.day \in Nat /\ y.day <= p
    BY DEF Dated
  <2> QED
    BY <1>1, <1>2, <1>8, <2>1 DEF InHorizon
<1>9. ASSUME NEW x, InHorizon(x.day, today) PROVE Folded(x, B, A) <=> Folded(x, V, A)
  <2>0. V \subseteq B
    BY <1>2
  <2>1. x \in B <=> x \in V
    BY <1>8, <1>9, <2>0
  <2>2. ASSUME NEW y \in B, NEW a \in A, x = Added(y, a) PROVE y \in V
    BY <1>8, <1>9, <2>2, FoldFields
  <2>3. ASSUME NEW a \in A, x = Opened(a), NEW y \in B, SameDay(y, a) PROVE y \in V
    <3>1. y.day = x.day
      BY <2>3, FoldFields DEF SameDay
    <3> QED
      BY <1>8, <1>9, <3>1
  <2> QED
    BY <2>0, <2>1, <2>2, <2>3 DEF Folded
<1>10. ASSUME NEW x PROVE x \in InDays(FoldBuckets(m, b, u), today) <=> x \in FoldBuckets(v, b, today)
  BY <1>4, <1>5, <1>6, <1>7, <1>9 DEF InDays
<1>11. InDays(FoldBuckets(m, b, u), today) = FoldBuckets(v, b, today)
  BY <1>10
<1>12. ASSUME NEW x \in FoldBuckets(m, b, u) PROVE x.day \in Nat /\ x.day <= today
  <2>1. x.day \in Nat /\ x.day <= u
    BY <1>4, <1>6
  <2> QED
    BY <2>1
<1> QED
  BY <1>11, <1>12

LEMMA NewestInDays ==
    ASSUME NEW F, NEW today \in Nat, \A x \in F : x.day \in Nat /\ x.day <= today
    PROVE  InDays(NewestDays(F), today) = NewestDays(InDays(F, today))
<1>1. Cutoff(today) \in Nat
  BY CutoffGrows
<1> PICK G : G = InDays(F, today)
  OBVIOUS
<1>2. \A x : x \in G <=> x \in F /\ InHorizon(x.day, today)
  BY DEF InDays
<1>3. ASSUME NEW x \in G
      PROVE  {c \in OfKey(F, x.key) : c.day > x.day} = {c \in OfKey(G, x.key) : c.day > x.day}
  <2>1. ASSUME NEW c \in F, c.day > x.day PROVE c \in G
    <3>1. c.day \in Nat /\ c.day <= today /\ x.day \in Nat /\ Cutoff(today) <= x.day
      BY <1>2 DEF InHorizon
    <3>2. InHorizon(c.day, today)
      BY <1>1, <2>1, <3>1 DEF InHorizon
    <3> QED
      BY <1>2, <3>2
  <2> QED
    BY <1>2, <2>1 DEF OfKey
<1>4. ASSUME NEW x PROVE x \in InDays(NewestDays(F), today) <=> x \in NewestDays(G)
  BY <1>2, <1>3 DEF InDays, NewestDays
<1> QED
  BY <1>4

------------------------------------------------------------------------------
LEMMA NewestOfDays ==
    ASSUME NEW W, W \subseteq Recent, NEW today \in Nat, \A r \in W : DayOf(r.at) <= today
    PROVE  OfDays(NewestSummaries(W), today) = NewestSummaries(OfDays(W, today))
<1>1. Cutoff(today) \in Nat
  BY CutoffGrows
<1> PICK G : G = OfDays(W, today)
  OBVIOUS
<1>2. \A r : r \in G <=> r \in W /\ InHorizon(DayOf(r.at), today)
  BY DEF OfDays
<1>3. ASSUME NEW r \in G
      PROVE  {s \in OfKey(W, r.key) : NewerSummary(s, r)} = {s \in OfKey(G, r.key) : NewerSummary(s, r)}
  <2>1. ASSUME NEW s \in W, NewerSummary(s, r) PROVE s \in G
    <3>1. r \in W /\ r.at \in Nat /\ s.at \in Nat
      BY <1>2 DEF Recent
    <3>2. s.at >= r.at
      BY <2>1, <3>1 DEF NewerSummary
    <3>3. DayOf(r.at) \in Nat /\ DayOf(s.at) \in Nat /\ DayOf(s.at) >= DayOf(r.at)
      BY <3>1, <3>2, PolicyAssumption DEF DayOf
    <3>4. InHorizon(DayOf(s.at), today)
      BY <1>1, <1>2, <3>3 DEF InHorizon
    <3> QED
      BY <1>2, <3>4
  <2> QED
    BY <1>2, <2>1 DEF OfKey
<1>4. ASSUME NEW r PROVE r \in OfDays(NewestSummaries(W), today) <=> r \in NewestSummaries(G)
  BY <1>2, <1>3 DEF OfDays, NewestSummaries
<1> QED
  BY <1>4

(* A leaf that shows what the batches of its environment say shows it      *)
(* still when another is merged.                                            *)
LEMMA MergeShows ==
    ASSUME NEW R, NEW m \in Leaf(R), ValidLeaf(m), NEW S, NEW b, NEW U, Joined(U, S, b), Books(U),
           NEW now \in Nat, ValidAggregates(b.aggregates, now),
           NEW t \in Nat, NEW today \in Nat, m.pruningDay <= t, t <= today, Early(S, t), Shows(m, S, t),
           MergeOwn(m, b, now).pruningDay <= today
    PROVE  Shows(MergeOwn(m, b, now), U, today) /\ Early(U, today)
<1>0. /\ MergeOwn(m, b, now).pruningDay = EffectiveToday(m, b, now)
      /\ MergeOwn(m, b, now).buckets = NewestDays(FoldBuckets(m, b, EffectiveToday(m, b, now)))
      /\ MergeOwn(m, b, now).recents =
            NewestSummaries(WithBucket(m.recents \cup Summaries(b), MergeOwn(m, b, now).buckets))
  <2>1. Merges(m, b, now)
    BY MergeOwnMerges, Zenon
  <2> QED
    BY <2>1, Zenon DEF Merges
<1> PICK u, n, p : u = EffectiveToday(m, b, now) /\ n = MergeOwn(m, b, now) /\ p = m.pruningDay
  OBVIOUS
<1>1. Dated(m, p) /\ p \in Nat /\ m.buckets \in SUBSET Bucket
  BY ValidIsDated
<1>2. b.aggregates \subseteq Aggregate /\ b \notin S /\ U = S \cup {b}
  BY DEF Joined, Books, Telling
<1>3. u \in Nat /\ p <= u /\ \A a \in b.aggregates : DayOf(a.last) <= u
  BY <1>1, <1>2, EffectiveTodayType
<1>4. /\ n.pruningDay = u
      /\ n.buckets = NewestDays(FoldBuckets(m, b, u))
      /\ n.recents = NewestSummaries(WithBucket(m.recents \cup Summaries(b), n.buckets))
  BY <1>0
<1>5. u <= today
  BY <1>4
<1>6. ASSUME NEW a \in b.aggregates PROVE DayOf(a.last) \in Nat /\ DayOf(a.last) <= u /\ DayOf(a.last) <= today
  BY <1>2, <1>3, <1>5, DayOfType DEF Aggregate
<1>7. Early({b}, today)
  BY <1>6 DEF Early
<1>8. Early(U, today)
  BY <1>7, EarlyOfMore
<1> PICK F : F = FoldBuckets(m, b, u)
  OBVIOUS
<1> PICK v : v = [buckets |-> InDays(m.buckets, t)]
  OBVIOUS
<1>9. v.buckets = InDays(m.buckets, t)
  OBVIOUS
<1>10. /\ InDays(F, today) = FoldBuckets(v, b, today)
       /\ \A x \in F : x.day \in Nat /\ x.day <= today
  BY <1>1, <1>2, <1>3, <1>5, <1>6, <1>9, FoldedInDays
<1>11. InDays(n.buckets, today) = NewestDays(FoldBuckets(v, b, today))
  BY <1>4, <1>10, NewestInDays
<1>12. v.buckets \in SUBSET Bucket /\ v.buckets = ReferenceBuckets(S, t)
  BY <1>1, <1>9 DEF InDays, Shows
<1>13. Books(S \cup {b})
  BY <1>2
<1>14. InDays(n.buckets, today) = ReferenceBuckets(U, today)
  <2>1. NewestDays(FoldBuckets(v, b, today)) = ReferenceBuckets(S \cup {b}, today)
    BY <1>2, <1>7, <1>12, <1>13, MergedBuckets
  <2> QED
    BY <1>2, <1>11, <2>1
<1> PICK B, Q : B = InDays(n.buckets, today) /\ Q = OfDays(m.recents, t)
  OBVIOUS
<1> PICK W, V : W = WithBucket(m.recents \cup Summaries(b), n.buckets) /\ V = WithBucket(Q \cup Summaries(b), B)
  OBVIOUS
<1>15. Q = ReferenceRecents(S, t) /\ B = ReferenceBuckets(U, today)
  BY <1>14 DEF Shows
<1>16. NewestSummaries(V) = ReferenceRecents(U, today)
  BY <1>7, <1>15, MergedRecents
<1>17. /\ Cutoff(t) \in Nat /\ Cutoff(today) \in Nat /\ Cutoff(t) <= Cutoff(today)
  BY CutoffGrows
<1>18. ASSUME NEW r \in m.recents, InHorizon(DayOf(r.at), today) PROVE r \in Q
  <2>1. DayOf(r.at) \in Nat /\ DayOf(r.at) <= p
    BY <1>1 DEF Dated
  <2>2. InHorizon(DayOf(r.at), t)
    BY <1>1, <1>17, <1>18, <2>1 DEF InHorizon
  <2> QED
    BY <2>2 DEF OfDays
<1>19. \A x : x \in B <=> x \in n.buckets /\ InHorizon(x.day, today)
  BY DEF InDays
<1>20. ASSUME NEW r PROVE r \in OfDays(W, today) <=> r \in V
  <2>1. r \in W <=> /\ r \in m.recents \/ r \in Summaries(b)
                    /\ \E x \in n.buckets : x.key = r.key /\ x.day = DayOf(r.at)
    BY DEF WithBucket, OfKey
  <2>2. r \in V <=> /\ r \in Q \/ r \in Summaries(b)
                    /\ \E x \in B : x.key = r.key /\ x.day = DayOf(r.at)
    BY DEF WithBucket, OfKey
  <2>3. r \in Q => r \in m.recents
    BY DEF OfDays
  <2>4. r \in OfDays(W, today) <=> r \in W /\ InHorizon(DayOf(r.at), today)
    BY DEF OfDays
  <2> QED
    BY <1>18, <1>19, <2>1, <2>2, <2>3, <2>4
<1>21. W \subseteq Recent /\ \A r \in W : DayOf(r.at) <= today
  <2> SUFFICES ASSUME NEW r \in W PROVE r \in Recent /\ DayOf(r.at) <= today
    OBVIOUS
  <2>1. r \in m.recents \/ r \in Summaries(b)
    BY DEF WithBucket
  <2>2. PICK x \in n.buckets : x.day = DayOf(r.at)
    BY DEF WithBucket, OfKey
  <2>3. x \in F
    BY <1>4, <2>2 DEF NewestDays
  <2>4. r \in m.recents => r \in Recent
    BY <1>1 DEF Dated
  <2>5. r \in Summaries(b) => r \in Recent
    <3>1. Books({b})
      BY FewerBooks DEF Joined
    <3>2. r \in Summaries(b) => r \in Said({b}, r.key)
      BY SummariesAreSaid
    <3> QED
      BY <3>1, <3>2, SaidType
  <2> QED
    BY <1>10, <2>1, <2>2, <2>3, <2>4, <2>5
<1>22. OfDays(n.recents, today) = ReferenceRecents(U, today)
  <2>1. OfDays(W, today) = V
    BY <1>20
  <2>2. OfDays(NewestSummaries(W), today) = NewestSummaries(OfDays(W, today))
    BY <1>21, NewestOfDays
  <2> QED
    BY <1>4, <1>16, <2>1, <2>2
<1> QED
  BY <1>8, <1>14, <1>22 DEF Shows

(* As long as the day a leaf was pruned to is one that something is said   *)
(* of, the leaf has a bucket.                                              *)
LEMMA LastDayIsKept ==
    ASSUME NEW S, Books(S), NEW t \in Nat, Early(S, t), NEW k \in Keys, OnDay(S, k, t) # {}
    PROVE  ReferenceBuckets(S, t) # {}
<1>1. InHorizon(t, t)
  BY PolicyAssumption DEF InHorizon, Cutoff, Minus
<1>2. t \in DaysOf(S, k, t)
  BY <1>1 DEF DaysOf
<1>3. Ahead(After, DaysOf(S, k, t), t) = {}
  <2>1. ASSUME NEW d \in DaysOf(S, k, t), <<d, t>> \in After PROVE FALSE
    <3>1. d \in Nat /\ d <= t
      BY DEF DaysOf, InHorizon
    <3> QED
      BY <2>1, <3>1 DEF After
  <2> QED
    BY <2>1 DEF Ahead
<1>4. t \in Kept(S, k, t)
  BY <1>2, <1>3, FS_EmptySet, PolicyAssumption DEF Kept, Foremost
<1>5. DayTotal(k, t, OnDay(S, k, t)) \in ReferenceBuckets(S, t)
  BY <1>4, ReferenceBucketsIs
<1> QED
  BY <1>5

------------------------------------------------------------------------------
(* How a child stands to what the batches S say of its environment when    *)
(* its parent was pruned to `day': it shows it, and it is ahead of its     *)
(* parent only for something that was reported.                            *)
Standing(child, S, day) ==
    /\ Early(S, Later(day, child.pruningDay))
    /\ Shows(child, S, Later(day, child.pruningDay))
    /\ child.pruningDay > day => \E k \in Keys : OnDay(S, k, child.pruningDay) # {}

(* Nothing that is left of what they say.                                  *)
NothingLeft(S, day) ==
    Early(S, day) /\ ReferenceBuckets(S, day) = {} /\ ReferenceRecents(S, day) = {}

LEMMA LaterIs ==
    ASSUME NEW a \in Nat, NEW b \in Nat
    PROVE  /\ Later(a, b) \in Nat /\ a <= Later(a, b) /\ b <= Later(a, b)
           /\ Later(a, b) \in {a, b} /\ (b <= a => Later(a, b) = a) /\ (a <= b => Later(a, b) = b)
BY DEF Later

LEMMA NothingLeftLater ==
    ASSUME NEW S, Books(S), NEW day \in Nat, NEW next \in Nat, day <= next, NothingLeft(S, day)
    PROVE  NothingLeft(S, next)
<1>1. /\ Early(S, next)
      /\ ReferenceBuckets(S, next) = InDays({}, next)
      /\ ReferenceRecents(S, next) = OfDays({}, next)
  BY ReferenceLater DEF NothingLeft
<1> QED
  BY <1>1 DEF NothingLeft, InDays, OfDays

(* A child that is not there, or comes back, stands as an empty one.       *)
LEMMA FreshShows ==
    ASSUME NEW S, Books(S), NEW day \in Nat, NothingLeft(S, day), NEW now \in Nat, NEW next \in Nat, day <= next
    PROVE  /\ Early(S, Later(next, FreshLeaf(now).pruningDay))
           /\ Shows(FreshLeaf(now), S, Later(next, FreshLeaf(now).pruningDay))
           /\ DayOf(now) <= next => Standing(FreshLeaf(now), S, next)
<1> PICK f : f = FreshLeaf(now)
  OBVIOUS
<1>1. f.buckets = {} /\ f.recents = {} /\ f.pruningDay = DayOf(now) /\ DayOf(now) \in Nat
  BY DayOfType DEF FreshLeaf
<1> PICK t : t = Later(next, f.pruningDay)
  OBVIOUS
<1>2. t \in Nat /\ day <= t
  BY <1>1, LaterIs
<1>3. NothingLeft(S, t)
  BY <1>2, NothingLeftLater
<1>4. Early(S, t) /\ Shows(f, S, t)
  BY <1>1, <1>3 DEF NothingLeft, Shows, InDays, OfDays
<1>5. DayOf(now) <= next => ~(f.pruningDay > next)
  BY <1>1
<1> QED
  BY <1>4, <1>5 DEF Standing

LEMMA StandingLater ==
    ASSUME NEW R, NEW child \in Leaf(R), ValidLeaf(child), NEW S, Books(S),
           NEW day \in Nat, NEW next \in Nat, day <= next, Standing(child, S, day)
    PROVE  Standing(child, S, next)
<1> PICK p : p = child.pruningDay
  OBVIOUS
<1>1. Dated(child, p) /\ p \in Nat
  BY ValidIsDated
<1> PICK t, today : t = Later(day, p) /\ today = Later(next, p)
  OBVIOUS
<1>2. t \in Nat /\ today \in Nat /\ p <= t /\ t <= today
  BY <1>1 DEF Later
<1>3. Early(S, today) /\ Shows(child, S, today)
  BY <1>1, <1>2, ShowsLater DEF Standing
<1>4. p > next => p > day
  BY <1>1
<1> QED
  BY <1>3, <1>4 DEF Standing

(* A merge keeps a child in its standing.                                  *)
LEMMA MergeStands ==
    ASSUME NEW R, NEW child \in Leaf(R), ValidLeaf(child), NEW S, NEW c, NEW U, Joined(U, S, c), Books(U),
           NEW now \in Nat, ValidAggregates(c.aggregates, now), NEW day \in Nat, DayOf(now) <= day,
           Standing(child, S, day)
    PROVE  Standing(MergeOwn(child, c, now), U, day)
<1> PICK n, p, q : n = MergeOwn(child, c, now) /\ p = child.pruningDay /\ q = EffectiveToday(child, c, now)
  OBVIOUS
<1>1. p \in Nat
  BY DEF Leaf
<1>2. c.aggregates \subseteq Aggregate /\ Telling(c) /\ c \in U /\ S \subseteq U
  BY DEF Joined, Books, Telling
<1>3. /\ q \in Nat /\ p <= q
      /\ q \in {DayOf(now), p} \/ \E a \in c.aggregates : q = DayOf(a.last)
  BY <1>1, <1>2, EffectiveTodayType
<1>4. n.pruningDay = q
  BY MergeOwnRows
<1> PICK t, today : t = Later(day, p) /\ today = Later(day, q)
  OBVIOUS
<1>5. t \in Nat /\ today \in Nat /\ p <= t /\ q <= today /\ t <= today
  BY <1>1, <1>3 DEF Later
<1>6. Shows(n, U, today) /\ Early(U, today)
  BY <1>4, <1>5, MergeShows DEF Standing
<1>7. ASSUME q > day PROVE \E k \in Keys : OnDay(U, k, q) # {}
  <2>1. CASE q = p
    <3>1. PICK k \in Keys : OnDay(S, k, p) # {}
      BY <1>7, <2>1 DEF Standing
    <3> QED
      BY <1>2, <2>1, <3>1, OnDayGrows
  <2>2. ASSUME NEW a \in c.aggregates, q = DayOf(a.last) PROVE \E k \in Keys : OnDay(U, k, q) # {}
    <3>1. a.key \in Keys
      BY <1>2, TellingRows
    <3>2. [batch |-> c, row |-> a] \in OnDay(U, a.key, q)
      BY <1>2, <2>2, OnDayIs
    <3> QED
      BY <3>1, <3>2
  <2>3. DayOf(now) \in Nat
    BY DayOfType
  <2> QED
    BY <1>3, <1>7, <2>1, <2>2, <2>3
<1> QED
  BY <1>4, <1>6, <1>7 DEF Standing

(* So does ageing, and a child it empties has nothing to show any more.    *)
LEMMA AgeStands ==
    ASSUME NEW R, NEW child \in Leaf(R), ValidLeaf(child), NEW S, Books(S), NEW now \in Nat,
           NEW day \in Nat, DayOf(now) <= day, Standing(child, S, day)
    PROVE  /\ Standing(AgeChild(child, now), S, day)
           /\ AgeChild(child, now).buckets = {} => NothingLeft(S, day)
<1> PICK n, p : n = AgeChild(child, now) /\ p = child.pruningDay
  OBVIOUS
<1>1. p \in Nat /\ DayOf(now) \in Nat
  BY DayOfType DEF Leaf
<1>2. /\ n.pruningDay = Later(p, DayOf(now))
      /\ n.recents = WithBucket(child.recents, n.buckets)
  BY AgeChildRows
<1> PICK q, today : q = n.pruningDay /\ today = Later(day, q)
  OBVIOUS
<1>3. /\ q \in Nat /\ today \in Nat /\ q <= today /\ today = Later(day, p)
      /\ q > day => q = p
  BY <1>1, <1>2 DEF Later
<1>4. Early(S, today) /\ Shows(n, S, today)
  BY <1>3, AgeShows DEF Standing
<1>5. q > day => \E k \in Keys : OnDay(S, k, q) # {}
  BY <1>3 DEF Standing
<1>6. ASSUME n.buckets = {} PROVE NothingLeft(S, day)
  <2>1. n.recents = {}
    BY <1>2, <1>6 DEF WithBucket, OfKey
  <2>2. ReferenceBuckets(S, today) = {} /\ ReferenceRecents(S, today) = {}
    BY <1>4, <1>6, <2>1 DEF Shows, InDays, OfDays
  <2>3. ~(q > day)
    <3>1. q > day => today = q
      BY <1>3 DEF Later
    <3> QED
      BY <1>3, <1>4, <1>5, <2>2, <3>1, LastDayIsKept
  <2>4. today = day
    BY <1>3, <2>3 DEF Later
  <2> QED
    BY <1>4, <2>2, <2>4 DEF NothingLeft
<1> QED
  BY <1>4, <1>5, <1>6 DEF Standing
==============================================================================
