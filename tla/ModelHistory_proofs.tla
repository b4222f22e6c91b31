-------------------------- MODULE ModelHistory_proofs --------------------------
(***************************************************************************)
(* What holds of a model and its runner environments after any sequence of *)
(* batches, for every retention policy and every lag of the clocks.        *)
(***************************************************************************)
EXTENDS ModelHistory, PredictionModel_proofs

(* What a child remembers, its parent remembers, and for as long; and the  *)
(* parent's watermark is never behind the child's.                         *)
Accompanies(child, own, e) ==
    /\ child.acceptAfter <= own.acceptAfter
    /\ \A r \in child.receipts :
          \E s \in own.receipts :
             /\ r = Receipt(s.digest.environments[e])
             /\ r.id = s.id /\ r.produced = s.produced

Together(m) ==
    /\ m.own.acceptAfter >= 1 /\ IsFiniteSet(m.own.receipts)
    /\ \A e \in Present(m) : Accompanies(m.environments[e], m.own, e)

IInv == TypeOK /\ (Learned => Together(model))

AnyModel == ModelState({Receipt(b) : b \in Batches}, {Receipt(b) : b \in ChildBatches})

------------------------------------------------------------------------------
(* A request's clock is a time.                                            *)
LEMMA RequestTimeType ==
    ASSUME TypeOK, NEW now \in RequestTimes
    PROVE  now \in Nat
BY HistoryAssumption DEF TypeOK, RequestTimes, Minus

LEMMA WatermarkType ==
    ASSUME NEW now \in Nat
    PROVE  AcceptAfter(now) \in Nat /\ AcceptAfter(now) >= 1
BY PolicyAssumption DEF AcceptAfter, Minus

(* A model before its first batch has no children.                         *)
LEMMA FreshTogether ==
    ASSUME NEW now \in Nat
    PROVE  Together(FreshModel(now)) /\ FreshModel(now) \in AnyModel
<1>1. FreshLeaf(now).acceptAfter = AcceptAfter(now) /\ FreshLeaf(now).receipts = {}
  BY DEF FreshLeaf
<1>2. /\ FreshModel(now).own = FreshLeaf(now)
      /\ FreshModel(now).environments = [e \in Envs |-> NoModel]
  BY DEF FreshModel
<1>3. Present(FreshModel(now)) = {}
  BY <1>2 DEF Present
<1>4. FreshModel(now) \in AnyModel
  BY FreshLeafType DEF FreshModel, AnyModel, ModelState
<1> QED
  BY <1>1, <1>2, <1>3, <1>4, WatermarkType, FS_EmptySet DEF Together

(* What ageing does to the watermark and the receipts of a child.          *)
LEMMA AgeChildDates ==
    ASSUME NEW R, NEW m \in Leaf(R), NEW now \in Nat
    PROVE  /\ AgeChild(m, now).acceptAfter = Later(m.acceptAfter, AcceptAfter(now))
           /\ AgeChild(m, now).receipts = LiveReceipts(m, now)
<1> DEFINE today == Later(m.pruningDay, DayOf(now))
           buckets == {b \in m.buckets : InHorizon(b.day, today)}
           recents == WithBucket(m.recents, buckets)
           updated == Later(m.updatedAt, now)
           after == Later(m.acceptAfter, AcceptAfter(now))
           receipts == LiveReceipts(m, now)
<1>1. AgeChild(m, now) =
        [m EXCEPT !.updatedAt = updated, !.pruningDay = today, !.acceptAfter = after,
                  !.buckets = buckets, !.recents = recents, !.receipts = receipts]
  BY DEF AgeChild
<1>2. m = [updatedAt |-> m.updatedAt, pruningDay |-> m.pruningDay,
           acceptAfter |-> m.acceptAfter, buckets |-> m.buckets,
           recents |-> m.recents, receipts |-> m.receipts]
  BY DEF Leaf
<1> HIDE DEF today, buckets, recents, updated, after, receipts
<1>3. AgeChild(m, now) =
        [updatedAt |-> updated, pruningDay |-> today, acceptAfter |-> after,
         buckets |-> buckets, recents |-> recents, receipts |-> receipts]
  BY <1>1, <1>2
<1> QED
  BY <1>3 DEF after, receipts

(* A batch that passed validation gives its own identity to its children.  *)
LEMMA ChildIdentity ==
    ASSUME NEW b \in Batches, NEW now \in Nat, ValidBatch(b, now), NEW e \in DOMAIN b.environments
    PROVE  /\ e \in Envs
           /\ b.environments[e].id = b.id /\ b.environments[e].produced = b.produced
           /\ b.environments[e].aggregates \subseteq Aggregate
           /\ ValidAggregates(b.environments[e].aggregates, now)
           /\ Receipt(b.environments[e]) \in {Receipt(c) : c \in ChildBatches}
BY HistoryAssumption DEF ValidBatch, ChildBatches

LEMMA MergeChildType ==
    ASSUME NEW C, NEW child \in Leaf(C), NEW c, NEW now \in Nat,
           c.id \in Nat, c.aggregates \subseteq Aggregate,
           ValidAggregates(c.aggregates, now), Receipt(c) \in C
    PROVE  /\ MergeOwn(child, c, now) \in Leaf(C)
           /\ MergeOwn(child, c, now).acceptAfter = Later(child.acceptAfter, AcceptAfter(now))
           /\ MergeOwn(child, c, now).receipts = LiveReceipts(child, now) \cup {Receipt(c)}
BY MergeOwnType, MergeOwnDates

------------------------------------------------------------------------------
(* A merge keeps parent and children together: a child gets a receipt only *)
(* with its parent's, and both go when their common age says so.           *)
LEMMA MergeTogether ==
    ASSUME NEW m \in AnyModel, Together(m), NEW b \in Batches, NEW now \in Nat, ValidBatch(b, now)
    PROVE  Together(Merged(m, b, now))
<1> DEFINE C == {Receipt(c) : c \in ChildBatches}
           own == m.own
           after == MergeOwn(own, b, now)
           next == Merged(m, b, now)
<1>1. /\ own \in Leaf({Receipt(c) : c \in Batches})
      /\ m.environments \in [Envs -> Leaf(C) \cup {NoModel}]
      /\ own.acceptAfter \in Nat
  BY DEF AnyModel, ModelState, Leaf
<1>2. /\ after.acceptAfter = Later(own.acceptAfter, AcceptAfter(now))
      /\ after.receipts = LiveReceipts(own, now) \cup {Receipt(b)}
  BY <1>1, MergeOwnDates
<1>3. next.own = after /\ next.environments = MergeEnvironments(m, b, now)
  BY DEF Merged
<1>4. after.acceptAfter >= 1
  BY <1>1, <1>2, WatermarkType DEF Together, Later
<1>5. IsFiniteSet(after.receipts)
  <2>1. LiveReceipts(own, now) \in SUBSET own.receipts
    BY DEF LiveReceipts
  <2>2. IsFiniteSet(LiveReceipts(own, now))
    BY <2>1, FS_Subset DEF Together
  <2> QED
    BY <1>2, <2>2, FS_AddElement
<1>6. ASSUME NEW e \in Present(next)
      PROVE  Accompanies(next.environments[e], next.own, e)
  <2> DEFINE child == ChildOf(m, e, now)
             merged == MergeChild(m, b, e, now)
  <2>1. /\ e \in Envs /\ e \in Present(m) \cup DOMAIN b.environments
        /\ next.environments[e] = AgeChild(merged, now)
    BY <1>3 DEF Present, MergeEnvironments
  <2>2. /\ child \in Leaf(C) /\ child.acceptAfter \in Nat
        /\ child.acceptAfter <= after.acceptAfter
        /\ \A r \in child.receipts :
              \E s \in own.receipts : /\ r = Receipt(s.digest.environments[e])
                                      /\ r.id = s.id /\ r.produced = s.produced
    <3>1. CASE e \in Present(m)
      <4>1. child = m.environments[e] /\ child \in Leaf(C)
        BY <1>1, <2>1, <3>1 DEF ChildOf, Present
      <4>2. child.acceptAfter \in Nat
        BY <4>1 DEF Leaf
      <4>3. Accompanies(child, own, e)
        BY <3>1, <4>1 DEF Together
      <4> QED
        BY <1>1, <1>2, <4>1, <4>2, <4>3, WatermarkType DEF Accompanies, Later
    <3>2. CASE e \notin Present(m)
      <4>1. child = FreshLeaf(now) /\ child \in Leaf(C)
        BY <3>2, FreshLeafType DEF ChildOf
      <4>2. child.acceptAfter = AcceptAfter(now) /\ child.receipts = {}
        BY <4>1 DEF FreshLeaf
      <4> QED
        BY <1>1, <1>2, <4>1, <4>2, WatermarkType DEF Later
    <3> QED
      BY <3>1, <3>2
  <2>3. /\ merged \in Leaf(C) /\ merged.acceptAfter \in Nat
        /\ merged.acceptAfter <= after.acceptAfter
        /\ \A r \in merged.receipts :
              \/ r \in child.receipts
              \/ e \in DOMAIN b.environments /\ r = Receipt(b.environments[e])
    <3>1. CASE merged = child
      BY <2>2, <3>1
    <3>2. CASE e \in DOMAIN b.environments /\ merged = MergeOwn(child, b.environments[e], now)
      <4>1. /\ merged \in Leaf(C)
            /\ merged.acceptAfter = Later(child.acceptAfter, AcceptAfter(now))
            /\ merged.receipts = LiveReceipts(child, now) \cup {Receipt(b.environments[e])}
        BY <2>2, <3>2, ChildIdentity, MergeChildType, HistoryAssumption
      <4> QED
        BY <1>1, <1>2, <2>2, <3>2, <4>1, WatermarkType DEF Later, LiveReceipts
    <3>3. e \notin DOMAIN b.environments => merged = child
      BY <2>1 DEF MergeChild, ChildOf
    <3> QED
      BY <3>1, <3>2, <3>3 DEF MergeChild
  <2>4. /\ next.environments[e].acceptAfter = Later(merged.acceptAfter, AcceptAfter(now))
        /\ next.environments[e].receipts = LiveReceipts(merged, now)
    BY <2>1, <2>3, AgeChildDates
  <2>5. ASSUME NEW r \in LiveReceipts(merged, now)
        PROVE  \E s \in after.receipts : /\ r = Receipt(s.digest.environments[e])
                                         /\ r.id = s.id /\ r.produced = s.produced
    <3>1. r \in merged.receipts /\ Minus(now, r.produced) < ReceiptRetention
      BY DEF LiveReceipts
    <3>2. CASE r \in child.receipts
      <4>1. PICK s \in own.receipts : /\ r = Receipt(s.digest.environments[e])
                                      /\ r.id = s.id /\ r.produced = s.produced
        BY <2>2, <3>2
      <4>2. s \in LiveReceipts(own, now)
        BY <3>1, <4>1 DEF LiveReceipts
      <4> QED
        BY <1>2, <4>1, <4>2
    <3>3. CASE e \in DOMAIN b.environments /\ r = Receipt(b.environments[e])
      <4>1. Receipt(b).digest = b /\ Receipt(b).id = b.id /\ Receipt(b).produced = b.produced
        BY DEF Receipt
      <4>2. r.id = b.id /\ r.produced = b.produced
        BY <3>3, ChildIdentity DEF Receipt
      <4> QED
        BY <1>2, <3>3, <4>1, <4>2
    <3> QED
      BY <2>3, <3>1, <3>2, <3>3
  <2>6. next.environments[e].acceptAfter <= next.own.acceptAfter
    BY <1>1, <1>2, <1>3, <2>3, <2>4, WatermarkType DEF Later
  <2> HIDE DEF next, after, own, merged, child
  <2> QED
    BY <1>3, <2>4, <2>5, <2>6 DEF Accompanies
<1> HIDE DEF next, after, own
<1> QED
  BY <1>3, <1>4, <1>5, <1>6 DEF Together, next

(* And it leaves a model.                                                  *)
LEMMA MergedType ==
    ASSUME NEW m \in AnyModel, NEW b \in Batches, NEW now \in Nat, ValidBatch(b, now)
    PROVE  Merged(m, b, now) \in AnyModel
<1> DEFINE R == {Receipt(c) : c \in Batches}
           C == {Receipt(c) : c \in ChildBatches}
<1>1. b.id \in Nat /\ b.aggregates \subseteq Aggregate /\ Receipt(b) \in R
      /\ DOMAIN b.environments \subseteq Envs
  BY HistoryAssumption
<1>2. \A e \in DOMAIN b.environments :
         b.environments[e].aggregates \subseteq Aggregate /\ Receipt(b.environments[e]) \in C
  BY ChildIdentity
<1>3. m \in ModelState(R, C) \cup {NoModel} /\ m # NoModel
  BY HistoryAssumption DEF AnyModel
<1> HIDE DEF R, C
<1>4. ApplyBatch(m, b, now) \in ModelState(R, C)
  BY <1>1, <1>2, <1>3, ApplyBatchType
<1>5. ApplyBatch(m, b, now) = Merged(m, b, now)
  BY <1>3 DEF ApplyBatch, ModelOrFresh
<1> QED
  BY <1>4, <1>5 DEF AnyModel, R, C

LEMMA InitSound == Init => IInv
BY HistoryAssumption DEF Init, IInv, TypeOK, Learned

LEMMA InvStep == IInv /\ [Next]_vars => IInv'
<1> SUFFICES ASSUME IInv, [Next]_vars PROVE IInv'
  OBVIOUS
<1>1. CASE UNCHANGED vars
  BY <1>1 DEF vars, IInv, TypeOK, Learned
<1>2. CASE Tick
  BY <1>2, HistoryAssumption DEF Tick, IInv, TypeOK, Learned
<1>3. ASSUME NEW b \in Batches, NEW now \in RequestTimes, Apply(b, now)
      PROVE  IInv'
  <2> DEFINE m == ModelOrFresh(model, now)
  <2>1. now \in Nat /\ model \in AnyModel \cup {NoModel}
    BY RequestTimeType DEF IInv, TypeOK, AnyModel
  <2>2. m \in AnyModel /\ Together(m)
    BY <2>1, FreshTogether DEF ModelOrFresh, IInv, Learned
  <2>3. ValidBatch(b, now)
    BY <1>3, AppliedIsNew DEF Apply
  <2>4. model' = Merged(m, b, now) /\ model' = ApplyBatch(model, b, now)
    BY <1>3 DEF Apply, ApplyBatch
  <2>5. Together(model')
    BY <2>1, <2>2, <2>3, <2>4, MergeTogether
  <2>6. model' \in AnyModel
    BY <2>1, <2>2, <2>3, <2>4, MergedType
  <2>7. clock' \in 0..MaxClock /\ applied' \subseteq Batches
    BY <1>3 DEF Apply, IInv, TypeOK
  <2> QED
    BY <2>5, <2>6, <2>7 DEF IInv, TypeOK, AnyModel
<1> QED
  BY <1>1, <1>2, <1>3 DEF Next

LEMMA SpecInv == Spec => []IInv
BY InitSound, InvStep, PTL DEF Spec

(* The model of a scope is a ModelState after any sequence of batches      *)
(* (apply_batch of prediction-core).                                       *)
THEOREM HistoryTypes == Spec => []TypeOK
<1>1. IInv => TypeOK
  BY DEF IInv
<1> QED
  BY SpecInv, <1>1, PTL

------------------------------------------------------------------------------
(* No more receipts of a child are live than of its parent: each is the    *)
(* receipt of the child batch of a parent's.                               *)
LEMMA ChildHoldsFewer ==
    ASSUME NEW m \in AnyModel, Together(m), NEW e \in Present(m), NEW now \in Nat
    PROVE  /\ IsFiniteSet(LiveReceipts(m.own, now))
           /\ IsFiniteSet(LiveReceipts(m.environments[e], now))
           /\ Cardinality(LiveReceipts(m.environments[e], now))
                <= Cardinality(LiveReceipts(m.own, now))
<1> DEFINE parents == LiveReceipts(m.own, now)
           f == [s \in parents |-> Receipt(s.digest.environments[e])]
           image == {f[s] : s \in parents}
           children == LiveReceipts(m.environments[e], now)
<1>1. IsFiniteSet(parents)
  <2>1. parents \in SUBSET m.own.receipts
    BY DEF LiveReceipts
  <2> QED
    BY <2>1, FS_Subset DEF Together
<1>2. IsFiniteSet(image) /\ Cardinality(image) <= Cardinality(parents)
  <2>1. f \in Surjection(parents, image)
    BY DEF Surjection
  <2> HIDE DEF f, image, parents
  <2> QED
    BY <1>1, <2>1, FS_Surjection
<1>3. children \in SUBSET image
  <2> SUFFICES ASSUME NEW r \in children PROVE r \in image
    OBVIOUS
  <2>1. r \in m.environments[e].receipts /\ Minus(now, r.produced) < ReceiptRetention
    BY DEF LiveReceipts
  <2>2. PICK s \in m.own.receipts : /\ r = Receipt(s.digest.environments[e])
                                    /\ r.id = s.id /\ r.produced = s.produced
    BY <2>1 DEF Together, Accompanies
  <2>3. s \in parents
    BY <2>1, <2>2 DEF LiveReceipts
  <2> QED
    BY <2>2, <2>3
<1> HIDE DEF parents, children, image
<1>4. IsFiniteSet(children) /\ Cardinality(children) <= Cardinality(image)
  BY <1>2, <1>3, FS_Subset
<1>5. /\ Cardinality(children) \in Nat /\ Cardinality(image) \in Nat /\ Cardinality(parents) \in Nat
  BY <1>1, <1>2, <1>4, FS_CardinalityType
<1> QED
  BY <1>1, <1>2, <1>4, <1>5 DEF parents, children

(* What "applied" says of a model, and what refuses it otherwise.          *)
LEMMA AppliedMeans ==
    ASSUME NEW own, NEW b, NEW now, OwnOutcome(own, b, now) = "applied"
    PROVE  /\ \A r \in own.receipts : r.id # b.id
           /\ ~(b.produced < own.acceptAfter)
           /\ ~(Cardinality(LiveReceipts(own, now)) >= MaxReceipts)
BY DEF OwnOutcome

LEMMA ChildAccepts ==
    ASSUME NEW child, NEW c, NEW now,
           \A r \in child.receipts : r.id # c.id,
           ~(c.produced < child.acceptAfter),
           ~(Cardinality(LiveReceipts(child, now)) >= MaxReceipts)
    PROVE  OwnOutcome(child, c, now) \in {"applied", "overflow"}
BY DEF OwnOutcome

(* apply_batch: what the parent would apply, every child would apply too,  *)
(* unless its counters overflow.  No order of batches, lag of the clocks   *)
(* or expiry of receipts makes a child call a batch a duplicate, a         *)
(* conflict or too old that is new to its parent, or fill up first.        *)
THEOREM ChildrenAlwaysAgree == Spec => []ChildrenAgree
<1>1. IInv => ChildrenAgree
  <2> SUFFICES ASSUME IInv, Learned, NEW b \in Batches, NEW now \in RequestTimes,
                      ValidBatch(b, now), OwnOutcome(model.own, b, now) = "applied",
                      NEW e \in DOMAIN b.environments
               PROVE  OwnOutcome(ChildOf(model, e, now), b.environments[e], now)
                         \in {"applied", "overflow"}
    BY DEF ChildrenAgree
  <2> DEFINE child == ChildOf(model, e, now)
             c == b.environments[e]
  <2>1. model \in AnyModel /\ Together(model) /\ now \in Nat
    BY RequestTimeType DEF IInv, TypeOK, Learned, AnyModel
  <2>2. c.id = b.id /\ c.produced = b.produced /\ b.produced \in Nat
    BY <2>1, ChildIdentity, HistoryAssumption
  <2>3. model.own.acceptAfter \in Nat /\ model.own.acceptAfter >= 1
    BY <2>1 DEF AnyModel, ModelState, Leaf, Together
  <2>4. /\ \A r \in model.own.receipts : r.id # b.id
        /\ model.own.acceptAfter <= b.produced
        /\ ~(Cardinality(LiveReceipts(model.own, now)) >= MaxReceipts)
    BY <2>2, <2>3, AppliedMeans
  <2>5. CASE e \in Present(model)
    <3>1. child = model.environments[e] /\ Accompanies(child, model.own, e)
      BY <2>1, <2>5 DEF ChildOf, Together
    <3>2. child.acceptAfter \in Nat
      BY <2>1, <2>5, <3>1 DEF AnyModel, ModelState, Leaf, Present
    <3>3. \A r \in child.receipts : r.id # c.id
      BY <2>2, <2>4, <3>1 DEF Accompanies
    <3>4. ~(c.produced < child.acceptAfter)
      BY <2>2, <2>3, <2>4, <3>1, <3>2 DEF Accompanies
    <3>5. ~(Cardinality(LiveReceipts(child, now)) >= MaxReceipts)
      <4>1. /\ Cardinality(LiveReceipts(child, now)) \in Nat
            /\ Cardinality(LiveReceipts(model.own, now)) \in Nat
            /\ Cardinality(LiveReceipts(child, now)) <= Cardinality(LiveReceipts(model.own, now))
        BY <2>1, <2>5, <3>1, ChildHoldsFewer, FS_CardinalityType
      <4> QED
        BY <2>4, <4>1, PolicyAssumption
    <3> HIDE DEF child, c
    <3> QED
      BY <3>3, <3>4, <3>5, ChildAccepts DEF child, c
  <2>6. CASE e \notin Present(model)
    <3>1. child.receipts = {} /\ child.acceptAfter = AcceptAfter(now)
      BY <2>6 DEF ChildOf, FreshLeaf
    <3>2. AcceptAfter(now) <= b.produced
      <4>1. Minus(now, b.produced) < BatchMaxAge
        BY DEF ValidBatch, TimelyBatch
      <4> QED
        BY <2>1, <2>2, <2>3, <2>4, <4>1, PolicyAssumption DEF AcceptAfter, Minus
    <3>3. ~(c.produced < child.acceptAfter)
      BY <2>1, <2>2, <3>1, <3>2, WatermarkType
    <3>4. LiveReceipts(child, now) = {}
      BY <3>1 DEF LiveReceipts
    <3>5. ~(Cardinality(LiveReceipts(child, now)) >= MaxReceipts)
      <4>1. /\ Cardinality(LiveReceipts(model.own, now)) \in Nat
        <5>1. LiveReceipts(model.own, now) \in SUBSET model.own.receipts
          BY DEF LiveReceipts
        <5> QED
          BY <2>1, <5>1, FS_Subset, FS_CardinalityType DEF Together
      <4>2. Cardinality(LiveReceipts(child, now)) = 0
        BY <3>4, FS_EmptySet
      <4> QED
        BY <2>4, <4>1, <4>2, PolicyAssumption
    <3> HIDE DEF child, c
    <3> QED
      BY <3>1, <3>3, <3>5, ChildAccepts DEF child, c
  <2> QED
    BY <2>5, <2>6
<1> QED
  BY SpecInv, <1>1, PTL

------------------------------------------------------------------------------
(* What the batches of the scope say, and what those of an environment do. *)
Sayings == UNION {Summaries(b) : b \in Batches}
SayingsOf(e) ==
    UNION {Summaries(b.environments[e]) : b \in {x \in Batches : e \in DOMAIN x.environments}}

(* A model and its environments are valid, finite, and repeat the batches. *)
SoundModel(m) ==
    /\ SoundLeaf(m.own) /\ m.own.recents \subseteq Sayings
    /\ IsFiniteSet(Present(m))
    /\ \A e \in Present(m) :
          SoundLeaf(m.environments[e]) /\ m.environments[e].recents \subseteq SayingsOf(e)

LEMMA SummaryIs ==
    ASSUME NEW b, NEW s \in Summaries(b)
    PROVE  \E a \in b.aggregates :
              s = [key |-> a.key, at |-> a.last, id |-> b.id, mean |-> BatchMean(a)]
BY DEF Summaries

LEMMA SeparateIsConsistent ==
    ASSUME NEW b, NEW c, Separate(b, c), OncePerDay(c.aggregates), NEW r \in Summaries(b), NEW s \in Summaries(c),
           r.key = s.key, r.at = s.at, r.id = s.id
    PROVE  r = s
<1>1. PICK a \in b.aggregates : r = [key |-> a.key, at |-> a.last, id |-> b.id, mean |-> BatchMean(a)]
  BY SummaryIs
<1>2. PICK d \in c.aggregates : s = [key |-> d.key, at |-> d.last, id |-> c.id, mean |-> BatchMean(d)]
  BY SummaryIs
<1>3. b.id = c.id /\ a.key = d.key /\ a.last = d.last
  BY <1>1, <1>2
<1>4. b = c
  BY <1>3 DEF Separate
<1>5. a = d
  BY <1>3, <1>4 DEF OncePerDay
<1> QED
  BY <1>1, <1>2, <1>4, <1>5

LEMMA SayingsAgree ==
    ASSUME NEW b \in Batches, NEW now \in Nat, ValidBatch(b, now)
    PROVE  /\ Summaries(b) \subseteq Sayings
           /\ \A m : m.recents \subseteq Sayings => Consistent(m, b)
           /\ \A e \in DOMAIN b.environments :
                 /\ Summaries(b.environments[e]) \subseteq SayingsOf(e)
                 /\ \A m : m.recents \subseteq SayingsOf(e) => Consistent(m, b.environments[e])
<1>1. Summaries(b) \subseteq Sayings
  BY DEF Sayings
<1>2. ASSUME NEW m, m.recents \subseteq Sayings, NEW r \in m.recents, NEW s \in Summaries(b),
             r.key = s.key, r.at = s.at, r.id = s.id
      PROVE  r = s
  <2>1. PICK c \in Batches : r \in Summaries(c)
    BY <1>2 DEF Sayings
  <2>2. Separate(c, b) /\ OncePerDay(b.aggregates)
    BY HistoryAssumption DEF OneReport, ValidBatch, ValidAggregates, OncePerDay
  <2> QED
    BY <1>2, <2>1, <2>2, SeparateIsConsistent
<1>3. ASSUME NEW e \in DOMAIN b.environments
      PROVE  Summaries(b.environments[e]) \subseteq SayingsOf(e)
  BY DEF SayingsOf
<1>4. ASSUME NEW e \in DOMAIN b.environments, NEW m, m.recents \subseteq SayingsOf(e),
             NEW r \in m.recents, NEW s \in Summaries(b.environments[e]),
             r.key = s.key, r.at = s.at, r.id = s.id
      PROVE  r = s
  <2>1. PICK c \in Batches : e \in DOMAIN c.environments /\ r \in Summaries(c.environments[e])
    BY <1>4 DEF SayingsOf
  <2>2. OneReport(c, b) /\ e \in DOMAIN c.environments \cap DOMAIN b.environments
    BY <2>1, HistoryAssumption
  <2>3. Separate(c.environments[e], b.environments[e])
    BY <2>2 DEF OneReport
  <2>4. OncePerDay(b.environments[e].aggregates)
    BY ChildIdentity DEF ValidAggregates, OncePerDay
  <2> QED
    BY <1>4, <2>1, <2>3, <2>4, SeparateIsConsistent
<1> QED
  BY <1>1, <1>2, <1>3, <1>4 DEF Consistent

(* A model before its first batch.                                         *)
LEMMA FreshModelIsSound ==
    ASSUME NEW now \in Nat
    PROVE  SoundModel(FreshModel(now)) /\ ValidModel(FreshModel(now))
<1> DEFINE m == FreshModel(now)
<1>1. m.own = FreshLeaf(now) /\ m.environments = [e \in Envs |-> NoModel]
  BY DEF FreshModel
<1>2. Present(m) = {}
  BY <1>1 DEF Present
<1>3. IsFiniteSet({}) /\ Cardinality({}) = 0
  BY FS_EmptySet
<1>4. SoundLeaf(m.own) /\ m.own.recents = {}
  BY <1>1, FreshIsSound
<1>5. KeyCount(m) = 0
  <2>1. m.own.buckets = {}
    BY <1>1 DEF FreshLeaf
  <2>2. KeysOf(m.own.buckets) = {}
    BY <2>1 DEF KeysOf
  <2> DEFINE f == [e \in Present(m) |-> Cardinality(KeysOf(m.environments[e].buckets))]
  <2>3. f \in [{} -> Nat]
    BY <1>2
  <2>4. SumOf(f, {}) = 0
    <3> HIDE DEF f
    <3> QED
      BY <1>3, <2>3, SumWithout
  <2>5. Plus(Present(m), LAMBDA e : Cardinality(KeysOf(m.environments[e].buckets))) = SumOf(f, Present(m))
    BY DEF Plus
  <2>6. KeyCount(m) = Cardinality(KeysOf(m.own.buckets)) + SumOf(f, Present(m))
    BY <2>5 DEF KeyCount
  <2> HIDE DEF f, m
  <2> QED
    BY <1>2, <1>3, <2>2, <2>4, <2>6
<1> HIDE DEF m
<1>6. MaxEnvironments \in Nat /\ MaxKeys \in Nat
  BY PolicyAssumption
<1> QED
  BY <1>2, <1>3, <1>4, <1>5, <1>6 DEF SoundModel, ValidModel, SoundLeaf, m

(* Finitely many rows are of finitely many keys.                           *)
LEMMA KeysAreFinite ==
    ASSUME NEW rows, IsFiniteSet(rows)
    PROVE  IsFiniteSet(KeysOf(rows)) /\ Cardinality(KeysOf(rows)) \in Nat
<1> DEFINE f == [row \in rows |-> row.key]
<1>1. f \in [rows -> KeysOf(rows)] /\ \A k \in KeysOf(rows) : \E row \in rows : f[row] = k
  BY DEF KeysOf
<1> HIDE DEF f
<1> QED
  BY <1>1, ImageIsFinite, FS_CardinalityType

(* The limits are limits of numbers.                                       *)
LEMMA KeyCountType ==
    ASSUME NEW m, SoundModel(m)
    PROVE  KeyCount(m) \in Nat /\ Cardinality(Present(m)) \in Nat
<1> DEFINE f == [e \in Present(m) |-> Cardinality(KeysOf(m.environments[e].buckets))]
<1>1. f \in [Present(m) -> Nat]
  BY KeysAreFinite DEF SoundModel, SoundLeaf
<1>2. Plus(Present(m), LAMBDA e : Cardinality(KeysOf(m.environments[e].buckets))) = SumOf(f, Present(m))
  BY DEF Plus
<1>3. KeyCount(m) = Cardinality(KeysOf(m.own.buckets)) + SumOf(f, Present(m))
  BY <1>2 DEF KeyCount
<1> HIDE DEF f
<1>4. Present(m) \in SUBSET Present(m) /\ IsFiniteSet(Present(m))
  BY DEF SoundModel
<1>5. SumOf(f, Present(m)) \in Nat
  BY <1>1, <1>4, SumWithout
<1>6. Cardinality(KeysOf(m.own.buckets)) \in Nat
  BY KeysAreFinite DEF SoundModel, SoundLeaf
<1> QED
  BY <1>3, <1>4, <1>5, <1>6, FS_CardinalityType

------------------------------------------------------------------------------
LEMMA AppliedOrDuplicate ==
    ASSUME NEW m, NEW b, NEW now, ChildFailures(m, b, now) = {}, NEW e \in DOMAIN b.environments
    PROVE  OwnOutcome(ChildOf(m, e, now), b.environments[e], now) \in {"applied", "duplicate"}
BY DEF ChildFailures

(* A merge leaves every child valid, before it ages.                       *)
LEMMA MergedChildIsSound ==
    ASSUME NEW m \in AnyModel, SoundModel(m), NEW b \in Batches, NEW now \in Nat, ValidBatch(b, now),
           ChildFailures(m, b, now) = {}, NEW e \in Present(m) \cup DOMAIN b.environments
    PROVE  LET merged == MergeChild(m, b, e, now)
               child == ChildOf(m, e, now)
           IN  /\ merged \in Leaf({Receipt(c) : c \in ChildBatches})
               /\ SoundLeaf(merged) /\ merged.recents \subseteq SayingsOf(e)
               /\ child \in Leaf({Receipt(c) : c \in ChildBatches}) /\ SoundLeaf(child)
<1> DEFINE C == {Receipt(c) : c \in ChildBatches}
           child == ChildOf(m, e, now)
           merged == MergeChild(m, b, e, now)
<1>1. m.environments \in [Envs -> Leaf(C) \cup {NoModel}]
  BY DEF AnyModel, ModelState
<1>2. DOMAIN b.environments \subseteq Envs /\ b.id \in Nat
  BY HistoryAssumption
<1>3. child \in Leaf(C) /\ SoundLeaf(child) /\ child.recents \subseteq SayingsOf(e)
  <2>1. CASE e \in Present(m)
    <3>1. child = m.environments[e]
      BY <2>1 DEF ChildOf
    <3> QED
      BY <1>1, <2>1, <3>1 DEF SoundModel, Present
  <2>2. CASE e \notin Present(m)
    <3>1. child = FreshLeaf(now)
      BY <2>2 DEF ChildOf
    <3> QED
      BY <3>1, FreshLeafType, FreshIsSound
  <2> QED
    BY <2>1, <2>2
<1>4. CASE merged = child
  BY <1>3, <1>4
<1>5. CASE /\ e \in DOMAIN b.environments /\ merged = MergeOwn(child, b.environments[e], now)
           /\ OwnOutcome(child, b.environments[e], now) = "applied"
  <2> DEFINE c == b.environments[e]
  <2>1. /\ c.id \in Nat /\ c.aggregates \in SUBSET Aggregate /\ IsFiniteSet(c.aggregates)
        /\ ValidAggregates(c.aggregates, now) /\ Receipt(c) \in C
    BY <1>2, <1>5, ChildIdentity, HistoryAssumption
  <2>2. Consistent(child, c) /\ Summaries(c) \subseteq SayingsOf(e)
    BY <1>3, <1>5, SayingsAgree
  <2> HIDE DEF child, merged, c, C
  <2>3. /\ MergeOwn(child, c, now) \in Leaf(C) /\ SoundLeaf(MergeOwn(child, c, now))
        /\ MergeOwn(child, c, now).recents \subseteq child.recents \cup Summaries(c)
    BY <1>3, <1>5, <2>1, <2>2, MergeKeepsSound DEF c
  <2>4. merged = MergeOwn(child, c, now)
    BY <1>5 DEF c
  <2> QED
    BY <1>3, <2>2, <2>3, <2>4 DEF merged, child, C
<1>6. CASE e \notin DOMAIN b.environments
  <2>1. e \in Present(m)
    BY <1>6
  <2>2. merged = child
    BY <1>6, <2>1 DEF MergeChild, ChildOf
  <2> QED
    BY <1>4, <2>2
<1>7. CASE e \in DOMAIN b.environments
  <2>1. OwnOutcome(child, b.environments[e], now) \in {"applied", "duplicate"}
    BY <1>7, AppliedOrDuplicate
  <2>2. merged = IF OwnOutcome(child, b.environments[e], now) = "duplicate" THEN child
                 ELSE MergeOwn(child, b.environments[e], now)
    BY <1>7 DEF MergeChild
  <2> HIDE DEF child, merged, C
  <2> QED
    BY <1>4, <1>5, <1>7, <2>1, <2>2 DEF child, merged, C
<1> QED
  BY <1>3, <1>6, <1>7

(* A merge that its checks let through leaves a valid model with valid     *)
(* environments.                                                           *)
LEMMA MergedIsSound ==
    ASSUME NEW m \in AnyModel, SoundModel(m), NEW b \in Batches, NEW now \in Nat, ValidBatch(b, now),
           OwnOutcome(m.own, b, now) = "applied", ChildFailures(m, b, now) = {}
    PROVE  SoundModel(Merged(m, b, now))
<1> DEFINE R == {Receipt(c) : c \in Batches}
           C == {Receipt(c) : c \in ChildBatches}
           next == Merged(m, b, now)
<1>1. m.own \in Leaf(R) /\ m.environments \in [Envs -> Leaf(C) \cup {NoModel}]
  BY DEF AnyModel, ModelState
<1>2. next.own = MergeOwn(m.own, b, now) /\ next.environments = MergeEnvironments(m, b, now)
  BY DEF Merged
<1>3. /\ b.id \in Nat /\ b.aggregates \in SUBSET Aggregate /\ IsFiniteSet(b.aggregates)
      /\ ValidAggregates(b.aggregates, now) /\ Receipt(b) \in R
      /\ DOMAIN b.environments \subseteq Envs /\ IsFiniteSet(DOMAIN b.environments)
  BY HistoryAssumption DEF ValidBatch
<1>4. SoundLeaf(next.own) /\ next.own.recents \subseteq Sayings
  <2>1. SoundLeaf(m.own) /\ m.own.recents \subseteq Sayings
    BY DEF SoundModel
  <2>2. Consistent(m.own, b) /\ Summaries(b) \subseteq Sayings
    BY <2>1, SayingsAgree
  <2> HIDE DEF next, R
  <2>3. /\ SoundLeaf(MergeOwn(m.own, b, now))
        /\ MergeOwn(m.own, b, now).recents \subseteq m.own.recents \cup Summaries(b)
    BY <1>1, <1>3, <2>1, <2>2, MergeKeepsSound
  <2> QED
    BY <1>2, <2>1, <2>2, <2>3
<1>5. ASSUME NEW e \in Present(m) \cup DOMAIN b.environments
      PROVE  LET merged == MergeChild(m, b, e, now)
             IN  merged \in Leaf(C) /\ SoundLeaf(merged) /\ merged.recents \subseteq SayingsOf(e)
  BY MergedChildIsSound
<1>6. ASSUME NEW e \in Present(next)
      PROVE  /\ e \in Present(m) \cup DOMAIN b.environments
             /\ SoundLeaf(next.environments[e]) /\ next.environments[e].recents \subseteq SayingsOf(e)
  <2> DEFINE merged == MergeChild(m, b, e, now)
  <2>1. e \in Present(m) \cup DOMAIN b.environments /\ next.environments[e] = AgeChild(merged, now)
    BY <1>2 DEF Present, MergeEnvironments
  <2>2. merged \in Leaf(C) /\ SoundLeaf(merged) /\ merged.recents \subseteq SayingsOf(e)
    BY <1>5, <2>1
  <2> HIDE DEF next, merged, C
  <2>3. SoundLeaf(AgeChild(merged, now)) /\ AgeChild(merged, now).recents \subseteq merged.recents
    BY <2>2, AgeKeepsSound
  <2> QED
    BY <2>1, <2>2, <2>3
<1>7. IsFiniteSet(Present(next))
  <2>1. Present(next) \in SUBSET (Present(m) \cup DOMAIN b.environments)
    BY <1>6
  <2>2. IsFiniteSet(Present(m) \cup DOMAIN b.environments)
    BY <1>3, FS_Union DEF SoundModel
  <2> QED
    BY <2>1, <2>2, FS_Subset
<1> HIDE DEF next
<1> QED
  BY <1>4, <1>6, <1>7 DEF SoundModel, next

------------------------------------------------------------------------------
(* What each answer of apply_batch says.                                   *)
LEMMA OwnOutcomes ==
    ASSUME NEW m, NEW b, NEW now
    PROVE  OwnOutcome(m, b, now) \in {"duplicate", "conflict", "stale", "overflow", "full", "applied"}
BY DEF OwnOutcome

LEMMA FailureIsAnOutcome ==
    ASSUME NEW m, NEW b, NEW now, NEW o \in ChildFailures(m, b, now)
    PROVE  o \in {"conflict", "stale", "overflow", "full"}
<1>1. PICK e \in DOMAIN b.environments : o = OwnOutcome(ChildOf(m, e, now), b.environments[e], now)
  BY DEF ChildFailures
<1>2. o \notin {"applied", "duplicate"}
  BY DEF ChildFailures
<1> QED
  BY <1>1, <1>2, OwnOutcomes

LEMMA OutcomeMeans ==
    ASSUME NEW prev, NEW b, NEW now
    PROVE  LET m == ModelOrFresh(prev, now)
           IN  /\ Outcome(prev, b, now) = "invalid" => ~ValidBatch(b, now) \/ ~ValidModel(m)
               /\ Outcome(prev, b, now) \in {"applied", "exceeds"} =>
                     /\ ValidBatch(b, now) /\ ValidModel(m)
                     /\ OwnOutcome(m.own, b, now) = "applied"
                     /\ ChildFailures(m, b, now) = {}
               /\ Outcome(prev, b, now) = "applied" => ValidModel(Merged(m, b, now))
               /\ Outcome(prev, b, now) = "exceeds" => ~ValidModel(Merged(m, b, now))
<1> DEFINE m == ModelOrFresh(prev, now)
           F == ChildFailures(m, b, now)
           o == OwnOutcome(m.own, b, now)
<1>1. o \in {"duplicate", "conflict", "stale", "overflow", "full", "applied"}
  BY OwnOutcomes
<1>2. F # {} => (CHOOSE x \in F : TRUE) \in {"conflict", "stale", "overflow", "full"}
  <2> SUFFICES ASSUME F # {} PROVE (CHOOSE x \in F : TRUE) \in {"conflict", "stale", "overflow", "full"}
    OBVIOUS
  <2>1. (CHOOSE x \in F : TRUE) \in F
    <3> HIDE DEF F
    <3> QED
      OBVIOUS
  <2> HIDE DEF m
  <2>2. PICK y : y = CHOOSE x \in F : TRUE
    OBVIOUS
  <2>3. y \in ChildFailures(m, b, now)
    BY <2>1, <2>2
  <2> QED
    BY <2>2, <2>3, FailureIsAnOutcome
<1>3. PICK y : y = CHOOSE x \in F : TRUE
  OBVIOUS
<1>4. Outcome(prev, b, now) =
        IF ~TimelyBatch(b, now) THEN "expired"
        ELSE IF ~ValidBatch(b, now) \/ ~ValidModel(m) THEN "invalid"
        ELSE IF o # "applied" THEN o
        ELSE IF F # {} THEN y
        ELSE IF ~ValidModel(Merged(m, b, now)) THEN "exceeds"
        ELSE "applied"
  BY <1>3 DEF Outcome
<1>5. F # {} => y \in {"conflict", "stale", "overflow", "full"}
  BY <1>2, <1>3
<1> HIDE DEF m, F, o
<1>6. /\ Outcome(prev, b, now) = "invalid" => ~ValidBatch(b, now) \/ ~ValidModel(m)
      /\ Outcome(prev, b, now) \in {"applied", "exceeds"} =>
            ValidBatch(b, now) /\ ValidModel(m) /\ o = "applied" /\ F = {}
      /\ Outcome(prev, b, now) = "applied" => ValidModel(Merged(m, b, now))
      /\ Outcome(prev, b, now) = "exceeds" => ~ValidModel(Merged(m, b, now))
  BY <1>1, <1>4, <1>5
<1> QED
  BY <1>6 DEF m, F, o

------------------------------------------------------------------------------
(* What keeps every model one that its own validation accepts.             *)
LimitInv == Learned => SoundModel(model) /\ ValidModel(model)

LEMMA ModelAtHand ==
    ASSUME IInv, LimitInv, NEW now \in RequestTimes
    PROVE  LET m == ModelOrFresh(model, now)
           IN  now \in Nat /\ m \in AnyModel /\ SoundModel(m) /\ ValidModel(m)
<1> DEFINE m == ModelOrFresh(model, now)
<1>1. now \in Nat /\ model \in AnyModel \cup {NoModel}
  BY RequestTimeType DEF IInv, TypeOK, AnyModel
<1>2. CASE model = NoModel
  <2>1. m = FreshModel(now)
    BY <1>2 DEF ModelOrFresh
  <2> HIDE DEF m
  <2> QED
    BY <1>1, <2>1, FreshModelIsSound, FreshTogether DEF m
<1>3. CASE model # NoModel
  <2>1. m = model
    BY <1>3 DEF ModelOrFresh
  <2> HIDE DEF m
  <2> QED
    BY <1>1, <1>3, <2>1 DEF m, LimitInv, Learned
<1> QED
  BY <1>2, <1>3

LEMMA LimitStep == IInv /\ LimitInv /\ [Next]_vars => LimitInv'
<1> SUFFICES ASSUME IInv, LimitInv, [Next]_vars PROVE LimitInv'
  OBVIOUS
<1>1. ASSUME model' = model PROVE LimitInv'
  BY <1>1 DEF LimitInv, Learned
<1>2. CASE UNCHANGED vars
  BY <1>1, <1>2 DEF vars
<1>3. CASE Tick
  BY <1>1, <1>3 DEF Tick
<1>4. ASSUME NEW b \in Batches, NEW now \in RequestTimes, Apply(b, now)
      PROVE  LimitInv'
  <2> DEFINE m == ModelOrFresh(model, now)
  <2>1. now \in Nat /\ m \in AnyModel /\ SoundModel(m) /\ ValidModel(m)
    BY ModelAtHand
  <2>2. /\ ValidBatch(b, now) /\ OwnOutcome(m.own, b, now) = "applied"
        /\ ChildFailures(m, b, now) = {} /\ ValidModel(Merged(m, b, now))
    <3>1. Outcome(model, b, now) = "applied"
      BY <1>4 DEF Apply
    <3> QED
      BY <3>1, OutcomeMeans
  <2>3. model' = Merged(m, b, now)
    BY <1>4 DEF Apply, ApplyBatch
  <2> HIDE DEF m
  <2>4. SoundModel(Merged(m, b, now))
    BY <2>1, <2>2, MergedIsSound
  <2> QED
    BY <2>2, <2>3, <2>4 DEF LimitInv
<1> QED
  BY <1>2, <1>3, <1>4 DEF Next

LEMMA SpecLimits == Spec => []LimitInv
<1>1. Init => LimitInv
  BY DEF Init, LimitInv, Learned
<1> QED
  BY SpecInv, <1>1, LimitStep, PTL DEF Spec

(* apply_batch, validate_model: a sequence of batches never leads to a     *)
(* model that its validation refuses, so a stored model is never answered  *)
(* with an error that no further request can repair; and a valid batch is  *)
(* refused after its merge only when the keys or the environments are more *)
(* than the limits.                                                        *)
THEOREM OnlyLimitsEverRefuse == Spec => []OnlyLimitsRefuse
<1>1. IInv /\ LimitInv => OnlyLimitsRefuse
  <2> SUFFICES ASSUME IInv, LimitInv, NEW b \in Batches, NEW now \in RequestTimes
               PROVE  LET m == ModelOrFresh(model, now)
                          next == Merged(m, b, now)
                      IN  /\ Outcome(model, b, now) # "invalid" \/ ~ValidBatch(b, now)
                          /\ Outcome(model, b, now) = "exceeds" =>
                               \/ KeyCount(next) > MaxKeys
                               \/ Cardinality(Present(next)) > MaxEnvironments
    BY DEF OnlyLimitsRefuse
  <2> DEFINE m == ModelOrFresh(model, now)
             next == Merged(m, b, now)
  <2>1. now \in Nat /\ m \in AnyModel /\ SoundModel(m) /\ ValidModel(m)
    BY ModelAtHand
  <2>2. Outcome(model, b, now) # "invalid" \/ ~ValidBatch(b, now)
    BY <2>1, OutcomeMeans
  <2>3. ASSUME Outcome(model, b, now) = "exceeds"
        PROVE  \/ KeyCount(next) > MaxKeys
               \/ Cardinality(Present(next)) > MaxEnvironments
    <3>1. /\ ValidBatch(b, now) /\ OwnOutcome(m.own, b, now) = "applied"
          /\ ChildFailures(m, b, now) = {} /\ ~ValidModel(Merged(m, b, now))
      BY <2>3, OutcomeMeans
    <3> HIDE DEF m
    <3>2. SoundModel(Merged(m, b, now))
      BY <2>1, <3>1, MergedIsSound
    <3> HIDE DEF next
    <3>3. SoundModel(next) /\ ~ValidModel(next)
      BY <3>1, <3>2 DEF next
    <3>4. KeyCount(next) \in Nat /\ Cardinality(Present(next)) \in Nat
      BY <3>3, KeyCountType
    <3>5. ValidLeaf(next.own) /\ \A e \in Present(next) : ValidLeaf(next.environments[e])
      BY <3>3 DEF SoundModel, SoundLeaf
    <3>6. ~(Cardinality(Present(next)) <= MaxEnvironments) \/ ~(KeyCount(next) <= MaxKeys)
      BY <3>3, <3>5 DEF ValidModel
    <3> QED
      BY <3>4, <3>6, PolicyAssumption
  <2> QED
    BY <2>2, <2>3
<1> QED
  BY SpecInv, SpecLimits, <1>1, PTL

------------------------------------------------------------------------------
(* The rows of the environments of a sound model.                          *)
LEMMA EnvironmentRowsAreServable ==
    ASSUME NEW m \in AnyModel, SoundModel(m), NEW now \in Nat, NEW e \in DOMAIN EnvironmentRows(m, now)
    PROVE  /\ e \in Present(m) /\ m.environments[e] \in Leaf({Receipt(c) : c \in ChildBatches})
           /\ SoundLeaf(m.environments[e])
           /\ EnvironmentRows(m, now)[e] = LeafRows(m.environments[e], now)
           /\ \A k \in DOMAIN EnvironmentRows(m, now)[e] :
                 Servable(EnvironmentRows(m, now)[e][k], ServedBuckets(m.environments[e], k, DayOf(now)), DayOf(now))
<1> DEFINE C == {Receipt(c) : c \in ChildBatches}
           child == m.environments[e]
<1>1. e \in Present(m) /\ EnvironmentRows(m, now)[e] = LeafRows(child, now)
  BY DEF EnvironmentRows
<1>2. child \in Leaf(C)
  BY <1>1 DEF AnyModel, ModelState, Present
<1>3. SoundLeaf(child)
  BY <1>1 DEF SoundModel
<1> HIDE DEF C, child
<1>4. \A k \in DOMAIN LeafRows(child, now) :
         Servable(LeafRows(child, now)[k], ServedBuckets(child, k, DayOf(now)), DayOf(now))
  BY <1>2, <1>3, LeafRowsAreServable
<1> QED
  BY <1>1, <1>2, <1>3, <1>4 DEF C, child

(* What an environment contributes to a pooled row is something.           *)
LEMMA SharesArePositive ==
    ASSUME NEW m \in AnyModel, SoundModel(m), NEW now \in Nat,
           NEW byEnv, byEnv = EnvironmentRows(m, now), NEW own, NEW k, NEW e \in Contributors(own, byEnv, k)
    PROVE  LET share == RecentCount(m.environments[e], Minus(Latest(own, byEnv, k), RecentWindow), k)
           IN  share \in Nat /\ share > 0
<1> DEFINE child == m.environments[e]
<1> PICK since : since = Minus(Latest(own, byEnv, k), RecentWindow)
  OBVIOUS
<1>1. e \in DOMAIN byEnv /\ k \in DOMAIN byEnv[e] /\ byEnv[e][k].last >= since
  BY DEF Contributors
<1>2. SoundLeaf(child) /\ child \in Leaf({Receipt(c) : c \in ChildBatches})
  BY <1>1, EnvironmentRowsAreServable
<1>3. Servable(byEnv[e][k], ServedBuckets(child, k, DayOf(now)), DayOf(now))
  BY <1>1, EnvironmentRowsAreServable
<1>4. PICK x \in ServedBuckets(child, k, DayOf(now)) : x.last = byEnv[e][k].last
  BY <1>3 DEF Servable
<1> DEFINE B == {b \in OfKey(child.buckets, k) : b.last >= since}
           f == [b \in B |-> b.count]
<1>5. x \in B
  BY <1>1, <1>4 DEF ServedBuckets
<1>6. child.buckets \in SUBSET Bucket /\ \A y \in child.buckets : Observed(y)
  BY <1>2, SoundMeans
<1>7. B \in SUBSET child.buckets /\ IsFiniteSet(B)
  <2>1. B \in SUBSET child.buckets
    BY DEF OfKey
  <2> QED
    BY <1>2, <2>1, FS_Subset DEF SoundLeaf
<1>8. f \in [B -> Nat] /\ f[x] > 0
  BY <1>5, <1>6, <1>7 DEF Bucket, Observed
<1>9. RecentCount(child, since, k) = SumOf(f, B)
  BY DEF RecentCount, Plus
<1> HIDE DEF f, B, child
<1>10. SumOf(f, B) \in Nat /\ SumOf(f, B) > 0
  BY <1>5, <1>7, <1>8, SumIsPositive
<1> QED
  BY <1>9, <1>10 DEF child

(* A pooled row averages at least one environment, with shares that are    *)
(* positive, and is servable as the rows it averages are.                  *)
LEMMA PooledRowIsSound ==
    ASSUME NEW m \in AnyModel, SoundModel(m), NEW now \in Nat,
           NEW byEnv, byEnv = EnvironmentRows(m, now), NEW own, NEW k, Contributors(own, byEnv, k) # {}
    PROVE  LET row == PooledRow(m, own, byEnv, k)
               es == Contributors(own, byEnv, k)
           IN  /\ row.count \in Nat /\ row.count > 0 /\ row.last \in Nat /\ row.until \in Nat
               /\ row.last < row.until
               /\ \E e \in es : byEnv[e][k].estimate <= row.estimate
               /\ \E e \in es : row.estimate <= byEnv[e][k].estimate
<1> DEFINE since == Minus(Latest(own, byEnv, k), RecentWindow)
           es == Contributors(own, byEnv, k)
           today == DayOf(now)
           row == PooledRow(m, own, byEnv, k)
           share == [e \in es |-> RecentCount(m.environments[e], since, k)]
           est == [e \in es |-> byEnv[e][k].estimate]
           f == [e \in es |-> byEnv[e][k].estimate * RecentCount(m.environments[e], since, k)]
           last == [e \in es |-> byEnv[e][k].last]
           until == [e \in es |-> byEnv[e][k].until]
<1>1. IsFiniteSet(es)
  <2>1. es \in SUBSET Present(m)
    BY EnvironmentRowsAreServable DEF Contributors
  <2> HIDE DEF es
  <2> QED
    BY <2>1, FS_Subset DEF SoundModel
<1>2. ASSUME NEW e \in es
      PROVE  /\ byEnv[e][k].estimate \in Nat
             /\ byEnv[e][k].last \in Nat /\ byEnv[e][k].last < (today + 1) * Day
             /\ byEnv[e][k].until \in Nat /\ (today + 1) * Day <= byEnv[e][k].until
  <2>1. e \in DOMAIN byEnv /\ k \in DOMAIN byEnv[e]
    BY DEF Contributors
  <2>2. Servable(byEnv[e][k], ServedBuckets(m.environments[e], k, DayOf(now)), DayOf(now))
    BY <2>1, EnvironmentRowsAreServable
  <2> QED
    BY <2>2 DEF Servable
<1>3. ASSUME NEW e \in es
      PROVE  RecentCount(m.environments[e], since, k) \in Nat /\ RecentCount(m.environments[e], since, k) > 0
  BY SharesArePositive
<1>4. /\ row.estimate = HalfUp(SumOf(f, es), SumOf(share, es))
      /\ row.count = SumOf(share, es)
      /\ row.last = Max({byEnv[e][k].last : e \in es})
      /\ row.until = Min({byEnv[e][k].until : e \in es})
  BY DEF PooledRow, Plus
<1>5. share \in [es -> Nat] /\ est \in [es -> Nat] /\ \A e \in es : share[e] > 0
  <2> HIDE DEF es, since
  <2> QED
    BY <1>2, <1>3
<1>6. /\ f \in [es -> Nat] /\ \A e \in es : f[e] = est[e] * share[e]
  <2>1. ASSUME NEW e \in es
        PROVE  byEnv[e][k].estimate * RecentCount(m.environments[e], since, k) \in Nat
    <3>1. PICK p, q : p = byEnv[e][k].estimate /\ q = RecentCount(m.environments[e], since, k)
      OBVIOUS
    <3>2. p \in Nat /\ q \in Nat
      BY <1>2, <1>3, <3>1
    <3>3. p * q \in Nat
      BY <3>2
    <3> HIDE DEF es, since
    <3> QED
      BY <3>1, <3>3
  <2> HIDE DEF es, since
  <2> QED
    BY <2>1
<1>7. last \in [es -> Nat] /\ \A e \in es : last[e] < (today + 1) * Day
  <2> HIDE DEF es, today
  <2> QED
    BY <1>2
<1>8. until \in [es -> Nat] /\ \A e \in es : (today + 1) * Day <= until[e]
  <2> HIDE DEF es, today
  <2> QED
    BY <1>2
<1>9. /\ {byEnv[e][k].last : e \in es} = {last[e] : e \in es}
      /\ {byEnv[e][k].until : e \in es} = {until[e] : e \in es}
  OBVIOUS
<1>10. es # {}
  OBVIOUS
<1>11. \A e \in es : est[e] = byEnv[e][k].estimate
  OBVIOUS
<1> HIDE DEF share, est, f, last, until, es, since, row, today
<1>12. /\ SumOf(share, es) \in Nat /\ SumOf(share, es) > 0
       /\ HalfUp(SumOf(f, es), SumOf(share, es)) \in Nat
       /\ \E e \in es : est[e] <= HalfUp(SumOf(f, es), SumOf(share, es))
       /\ \E e \in es : HalfUp(SumOf(f, es), SumOf(share, es)) <= est[e]
  BY <1>1, <1>5, <1>6, <1>10, AverageIsBetween
<1>13. PICK a \in es : row.last = last[a]
  <2> DEFINE F == {last[e] : e \in es}
  <2>1. F \subseteq Nat /\ IsFiniteSet(F) /\ F # {}
    BY <1>1, <1>7, <1>10, FieldsAreFinite
  <2>2. row.last = Max(F)
    BY <1>4, <1>9
  <2> HIDE DEF F
  <2>3. row.last \in F
    BY <2>1, <2>2, ExtremesAreIn
  <2> QED
    BY <2>3 DEF F
<1>14. PICK z \in es : row.until = until[z]
  <2> DEFINE F == {until[e] : e \in es}
  <2>1. F \subseteq Nat /\ IsFiniteSet(F) /\ F # {}
    BY <1>1, <1>8, <1>10, FieldsAreFinite
  <2>2. row.until = Min(F)
    BY <1>4, <1>9
  <2> HIDE DEF F
  <2>3. row.until \in F
    BY <2>1, <2>2, ExtremesAreIn
  <2> QED
    BY <2>3 DEF F
<1>15. row.last < row.until /\ row.last \in Nat /\ row.until \in Nat
  <2>1. PICK u, v, w : u = last[a] /\ v = until[z] /\ w = (today + 1) * Day
    OBVIOUS
  <2>2. w \in Nat
    BY <2>1, DayOfType, PolicyAssumption DEF today
  <2>3. u \in Nat /\ v \in Nat /\ u < w /\ w <= v
    BY <1>7, <1>8, <2>1
  <2> QED
    BY <1>13, <1>14, <2>1, <2>2, <2>3
<1>16. /\ \E e \in es : byEnv[e][k].estimate <= row.estimate
       /\ \E e \in es : row.estimate <= byEnv[e][k].estimate
  BY <1>4, <1>11, <1>12
<1> QED
  BY <1>4, <1>12, <1>15, <1>16 DEF row, es

------------------------------------------------------------------------------
LEMMA LearnedModel ==
    ASSUME IInv, LimitInv, Learned
    PROVE  model \in AnyModel /\ SoundModel(model) /\ ValidModel(model) /\ clock \in Nat
BY HistoryAssumption DEF IInv, TypeOK, LimitInv, Learned, AnyModel

LEMMA ServableIsValid ==
    ASSUME NEW row, NEW B, NEW today \in Nat, Servable(row, B, today)
    PROVE  ValidRow(row)
<1>1. /\ row.count > 0 /\ row.last \in Nat /\ row.last < (today + 1) * Day
      /\ row.until \in Nat /\ (today + 1) * Day <= row.until
  BY DEF Servable
<1>2. PICK u, v, w : u = row.last /\ v = row.until /\ w = (today + 1) * Day
  OBVIOUS
<1>3. w \in Nat
  BY <1>2, PolicyAssumption
<1>4. v > u
  BY <1>1, <1>2, <1>3
<1> QED
  BY <1>1, <1>2, <1>4 DEF ValidRow

(* The rows served for a leaf are of keys it has learned.                  *)
LEMMA RowsAreOfKeys ==
    ASSUME NEW m, NEW now, SoundLeaf(m)
    PROVE  /\ DOMAIN LeafRows(m, now) \in SUBSET KeysOf(m.buckets)
           /\ IsFiniteSet(DOMAIN LeafRows(m, now))
           /\ Cardinality(DOMAIN LeafRows(m, now)) \in Nat /\ Cardinality(KeysOf(m.buckets)) \in Nat
           /\ Cardinality(DOMAIN LeafRows(m, now)) <= Cardinality(KeysOf(m.buckets))
<1>1. DOMAIN LeafRows(m, now) \in SUBSET KeysOf(m.buckets)
  BY DEF LeafRows, KeysOf
<1>2. IsFiniteSet(KeysOf(m.buckets)) /\ Cardinality(KeysOf(m.buckets)) \in Nat
  BY KeysAreFinite DEF SoundLeaf
<1>3. /\ IsFiniteSet(DOMAIN LeafRows(m, now))
      /\ Cardinality(DOMAIN LeafRows(m, now)) <= Cardinality(KeysOf(m.buckets))
  BY <1>1, <1>2, FS_Subset
<1> QED
  BY <1>1, <1>2, <1>3, FS_CardinalityType

(* Fewer and smaller summands.                                             *)
NoMore(f, D, g, P) ==
    /\ D \in SUBSET P /\ f \in [D -> Nat] /\ g \in [P -> Nat]
    /\ \A x \in D : f[x] <= g[x]

LEMMA SumOfFewer ==
    ASSUME NEW P, IsFiniteSet(P), NEW D, NEW f, NEW g, NoMore(f, D, g, P)
    PROVE  SumOf(f, D) \in Nat /\ SumOf(g, P) \in Nat /\ SumOf(f, D) <= SumOf(g, P)
<1> DEFINE h == [x \in P |-> IF x \in D THEN f[x] ELSE 0]
           id == [x \in D |-> x]
<1>1. /\ D \in SUBSET P /\ f \in [D -> Nat] /\ g \in [P -> Nat]
      /\ \A x \in D : f[x] <= g[x]
  BY DEF NoMore
<1>2. IsFiniteSet(D)
  BY <1>1, FS_Subset
<1>3. h \in [P -> Nat] /\ (\A x \in D : h[x] = f[x]) /\ \A x \in P \ D : h[x] = 0
  BY <1>1
<1>4. id \in [D -> D] /\ \A x \in D : id[x] = x
  OBVIOUS
<1> HIDE DEF h, id
<1>5. \A x \in P : h[x] <= 1 * g[x]
  BY <1>1, <1>3
<1>6. SumOf(h, P) \in Nat /\ SumOf(g, P) \in Nat /\ SumOf(h, P) <= 1 * SumOf(g, P)
  BY <1>1, <1>3, <1>5, SumOfLess
<1>7. SumOf(h, P) = SumOf(h, D)
  <2>1. CountsOnly(h, P, P, D)
    BY <1>1, <1>3 DEF CountsOnly
  <2> QED
    BY <2>1, SumWhere
<1>8. SumOf(h, D) = SumOf(f, D)
  <2>1. Renames(h, P, D, f, D, id)
    BY <1>1, <1>3, <1>4 DEF Renames
  <2> QED
    BY <1>2, <2>1, SumOfAll
<1> QED
  BY <1>6, <1>7, <1>8

(* No more rows are projected than keys are learned, but for the pooled    *)
(* rows of the keys that only environments have learned.                   *)
LEMMA RowsAreNoMore ==
    ASSUME NEW m \in AnyModel, SoundModel(m), NEW now \in Nat,
           NEW new, new = (UNION {KeysOf(m.environments[e].buckets) : e \in Present(m)})
                            \ KeysOf(m.own.buckets)
    PROVE  /\ RowTotal(ProjectPredictions(m, now)) \in Nat /\ Cardinality(new) \in Nat
           /\ RowTotal(ProjectPredictions(m, now)) <= KeyCount(m) + Cardinality(new)
<1> DEFINE own == LeafRows(m.own, now)
           byEnv == EnvironmentRows(m, now)
           O == KeysOf(m.own.buckets)
           P == Present(m)
           D == DOMAIN byEnv
           R == DOMAIN own \cup PooledKeys(own, byEnv)
           f == [e \in D |-> Cardinality(DOMAIN byEnv[e])]
           g == [e \in P |-> Cardinality(KeysOf(m.environments[e].buckets))]
           X == UNION {KeysOf(m.environments[e].buckets) : e \in P}
<1>0. new = X \ O
  OBVIOUS
<1>1. IsFiniteSet(P) /\ SoundLeaf(m.own) /\ \A e \in P : SoundLeaf(m.environments[e])
  BY DEF SoundModel
<1>2. \A e \in P : /\ IsFiniteSet(KeysOf(m.environments[e].buckets))
                    /\ Cardinality(KeysOf(m.environments[e].buckets)) \in Nat
  BY <1>1, KeysAreFinite DEF SoundLeaf
<1>3. IsFiniteSet(O) /\ Cardinality(O) \in Nat
  BY <1>1, KeysAreFinite DEF SoundLeaf
<1>4. \A e \in D : /\ e \in P /\ DOMAIN byEnv[e] \in SUBSET KeysOf(m.environments[e].buckets)
                    /\ Cardinality(DOMAIN byEnv[e]) \in Nat
                    /\ Cardinality(DOMAIN byEnv[e]) <= Cardinality(KeysOf(m.environments[e].buckets))
  <2> SUFFICES ASSUME NEW e \in D
               PROVE  /\ e \in P /\ DOMAIN byEnv[e] \in SUBSET KeysOf(m.environments[e].buckets)
                      /\ Cardinality(DOMAIN byEnv[e]) \in Nat
                      /\ Cardinality(DOMAIN byEnv[e]) <= Cardinality(KeysOf(m.environments[e].buckets))
    OBVIOUS
  <2>1. e \in P /\ SoundLeaf(m.environments[e]) /\ byEnv[e] = LeafRows(m.environments[e], now)
    BY EnvironmentRowsAreServable
  <2> QED
    BY <2>1, RowsAreOfKeys
<1>5. DOMAIN own \in SUBSET O
  BY <1>1, RowsAreOfKeys
<1>6. KeyCount(m) = Cardinality(O) + SumOf(g, P)
  BY DEF KeyCount, Plus
<1>7. RowTotal(ProjectPredictions(m, now)) = Cardinality(R) + SumOf(f, D)
  BY DEF RowTotal, Plus, ProjectPredictions
<1>8. R \in SUBSET (O \cup new)
  <2> SUFFICES ASSUME NEW k \in PooledKeys(own, byEnv) PROVE k \in O \cup new
    BY <1>5
  <2>1. PICK e \in D : k \in DOMAIN byEnv[e]
    BY DEF PooledKeys
  <2>2. e \in P /\ k \in KeysOf(m.environments[e].buckets)
    BY <1>4, <2>1
  <2>3. k \in X
    BY <2>2
  <2> HIDE DEF O, X
  <2> QED
    BY <1>0, <2>3
<1>9. NoMore(f, D, g, P)
  <2> HIDE DEF byEnv, D, P
  <2> QED
    BY <1>2, <1>4 DEF NoMore
<1>10. IsFiniteSet(new) /\ Cardinality(new) \in Nat
  <2> DEFINE S == {KeysOf(m.environments[e].buckets) : e \in P}
             h == [e \in P |-> KeysOf(m.environments[e].buckets)]
  <2>1. h \in [P -> S] /\ \A y \in S : \E e \in P : h[e] = y
    OBVIOUS
  <2>2. \A T \in S : IsFiniteSet(T)
    BY <1>2
  <2>3. new \in SUBSET UNION S
    OBVIOUS
  <2> HIDE DEF S, h
  <2>4. IsFiniteSet(S)
    BY <1>1, <2>1, ImageIsFinite
  <2>5. IsFiniteSet(UNION S)
    BY <2>2, <2>4, FS_UNION
  <2> QED
    BY <2>3, <2>5, FS_Subset, FS_CardinalityType
<1> HIDE DEF own, byEnv, O, X, P, D, R, f, g
<1>11. O \cap new = {}
  BY <1>0
<1>12. SumOf(f, D) \in Nat /\ SumOf(g, P) \in Nat /\ SumOf(f, D) <= SumOf(g, P)
  BY <1>1, <1>9, SumOfFewer
<1>13. IsFiniteSet(O \cup new) /\ Cardinality(O \cup new) = Cardinality(O) + Cardinality(new)
  <2>1. /\ IsFiniteSet(O \cup new)
        /\ Cardinality(O \cup new) = Cardinality(O) + Cardinality(new) - Cardinality(O \cap new)
    BY <1>3, <1>10, FS_Union
  <2>2. Cardinality(O \cap new) = 0
    BY <1>11, FS_EmptySet
  <2> QED
    BY <1>3, <1>10, <2>1, <2>2
<1>14. Cardinality(R) \in Nat /\ Cardinality(R) <= Cardinality(O \cup new)
  BY <1>8, <1>13, FS_Subset, FS_CardinalityType
<1> QED
  BY <1>3, <1>6, <1>7, <1>10, <1>12, <1>13, <1>14

(* project_predictions: at any time and after any batches, every row of    *)
(* the table that is served counts observations and outlives its last one, *)
(* the pooled rows too, and there are no more environments than a table    *)
(* may have.  PredictionTable::validate accepts it unless the pooled rows  *)
(* of the keys that only environments have learned do not fit beside the   *)
(* keys of the model: validate_model counts those keys once less.          *)
THEOREM OnlyPooledRowsEverRefuse == Spec => []OnlyPooledRowsRefuse
<1>1. IInv /\ LimitInv => OnlyPooledRowsRefuse
  <2> SUFFICES ASSUME IInv, LimitInv, Learned
               PROVE  LET table == ProjectPredictions(model, clock)
                      IN  /\ ValidRows(table)
                          /\ KeyCount(model) + Cardinality(PooledAnew) <= MaxKeys => ValidTable(table)
    BY DEF OnlyPooledRowsRefuse
  <2> DEFINE own == LeafRows(model.own, clock)
             byEnv == EnvironmentRows(model, clock)
             table == ProjectPredictions(model, clock)
  <2>1. model \in AnyModel /\ SoundModel(model) /\ ValidModel(model) /\ clock \in Nat
    BY LearnedModel
  <2>2. /\ DOMAIN table.rows = DOMAIN own \cup PooledKeys(own, byEnv)
        /\ \A k \in DOMAIN table.rows :
              table.rows[k] = IF k \in PooledKeys(own, byEnv) THEN PooledRow(model, own, byEnv, k) ELSE own[k]
        /\ table.environments = byEnv
    BY DEF ProjectPredictions
  <2>3. DayOf(clock) \in Nat
    BY <2>1, DayOfType
  <2> HIDE DEF table
  <2>4. ASSUME NEW k \in DOMAIN table.rows PROVE ValidRow(table.rows[k])
    <3>1. CASE k \in PooledKeys(own, byEnv)
      <4>1. Contributors(own, byEnv, k) # {}
        BY <3>1 DEF PooledKeys
      <4> DEFINE row == PooledRow(model, own, byEnv, k)
      <4>2. row.count \in Nat /\ row.count > 0 /\ row.last \in Nat /\ row.until \in Nat /\ row.last < row.until
        <5> HIDE DEF own
        <5> QED
          BY <2>1, <4>1, PooledRowIsSound
      <4>3. table.rows[k] = row
        BY <2>2, <3>1
      <4> HIDE DEF row
      <4> QED
        BY <4>2, <4>3 DEF ValidRow
    <3>2. CASE k \notin PooledKeys(own, byEnv)
      <4>1. k \in DOMAIN LeafRows(model.own, clock) /\ table.rows[k] = LeafRows(model.own, clock)[k]
        BY <2>2, <3>2
      <4>2. model.own \in Leaf({Receipt(c) : c \in Batches}) /\ SoundLeaf(model.own)
        BY <2>1 DEF AnyModel, ModelState, SoundModel
      <4>3. Servable(LeafRows(model.own, clock)[k], ServedBuckets(model.own, k, DayOf(clock)), DayOf(clock))
        BY <2>1, <4>1, <4>2, LeafRowsAreServable
      <4>4. ValidRow(LeafRows(model.own, clock)[k])
        BY <2>3, <4>3, ServableIsValid
      <4> QED
        BY <4>1, <4>4
    <3> QED
      BY <3>1, <3>2
  <2>5. ASSUME NEW e \in DOMAIN byEnv, NEW k \in DOMAIN byEnv[e] PROVE ValidRow(byEnv[e][k])
    <3>1. Servable(byEnv[e][k], ServedBuckets(model.environments[e], k, DayOf(clock)), DayOf(clock))
      BY <2>1, EnvironmentRowsAreServable
    <3> QED
      BY <2>3, <3>1, ServableIsValid
  <2>6. Cardinality(DOMAIN byEnv) <= MaxEnvironments
    <3>1. DOMAIN byEnv \in SUBSET Present(model)
      BY <2>1, EnvironmentRowsAreServable
    <3>2. IsFiniteSet(Present(model)) /\ Cardinality(Present(model)) <= MaxEnvironments
      BY <2>1 DEF SoundModel, ValidModel
    <3> HIDE DEF byEnv
    <3>3. /\ IsFiniteSet(DOMAIN byEnv) /\ Cardinality(DOMAIN byEnv) <= Cardinality(Present(model))
      BY <3>1, <3>2, FS_Subset
    <3>4. Cardinality(DOMAIN byEnv) \in Nat /\ Cardinality(Present(model)) \in Nat /\ MaxEnvironments \in Nat
      BY <3>2, <3>3, FS_CardinalityType, PolicyAssumption
    <3> QED
      BY <3>2, <3>3, <3>4
  <2>7. ValidRows(table)
    <3> HIDE DEF own, byEnv
    <3> QED
      BY <2>2, <2>4, <2>5, <2>6 DEF ValidRows
  <2>8. /\ RowTotal(table) \in Nat /\ Cardinality(PooledAnew) \in Nat
        /\ RowTotal(table) <= KeyCount(model) + Cardinality(PooledAnew)
    BY <2>1, RowsAreNoMore DEF PooledAnew, table
  <2>9. KeyCount(model) \in Nat /\ MaxKeys \in Nat
    BY <2>1, KeyCountType, PolicyAssumption
  <2> QED
    BY <2>7, <2>8, <2>9 DEF ValidTable, table
<1> QED
  BY SpecInv, SpecLimits, <1>1, PTL

(* project_predictions: a pooled estimate, whatever the shares and the     *)
(* rounding, is never below all the estimates it averages nor above them   *)
(* all.                                                                    *)
THEOREM PooledIsAlwaysBetween == Spec => []PooledIsBetween
<1>1. IInv /\ LimitInv => PooledIsBetween
  <2> SUFFICES ASSUME IInv, LimitInv, Learned,
                      NEW own, own = LeafRows(model.own, clock),
                      NEW byEnv, byEnv = EnvironmentRows(model, clock),
                      NEW k \in PooledKeys(own, byEnv),
                      NEW es, es = {byEnv[e][k].estimate : e \in Contributors(own, byEnv, k)},
                      NEW pooled, pooled = PooledRow(model, own, byEnv, k).estimate
               PROVE  (\E x \in es : x <= pooled) /\ (\E x \in es : pooled <= x)
    BY DEF PooledIsBetween
  <2>1. model \in AnyModel /\ SoundModel(model) /\ clock \in Nat
    BY LearnedModel
  <2>2. Contributors(own, byEnv, k) # {}
    BY DEF PooledKeys
  <2>3. /\ \E e \in Contributors(own, byEnv, k) : byEnv[e][k].estimate <= pooled
        /\ \E e \in Contributors(own, byEnv, k) : pooled <= byEnv[e][k].estimate
    BY <2>1, <2>2, PooledRowIsSound
  <2> QED
    BY <2>3
<1> QED
  BY SpecInv, SpecLimits, <1>1, PTL

------------------------------------------------------------------------------
(* What the batches A say of an environment.                               *)
ChildrenOf(A, e) == {b.environments[e] : b \in {x \in A : e \in DOMAIN x.environments}}

(* A batch that gives its identity to its children, which can be counted.  *)
Parental(b) ==
    \A e \in DOMAIN b.environments :
       LET child == b.environments[e]
       IN  child.id = b.id /\ child.produced = b.produced /\ Telling(child)

(* No batch that was applied can be applied again: its receipt is still    *)
(* there, or the watermark has passed it.                                  *)
Remembered(m, A) ==
    \A b \in A : Receipt(b) \in m.own.receipts \/ b.produced < m.own.acceptAfter

(* What every environment holds, or no longer has to hold.                 *)
InStep(m, A) ==
    \A e \in Envs :
       IF e \in Present(m) THEN Standing(m.environments[e], ChildrenOf(A, e), m.own.pruningDay)
       ELSE NothingLeft(ChildrenOf(A, e), m.own.pruningDay)

Ledger(A) == IsFiniteSet(A) /\ A \subseteq Batches /\ \A b \in A : Parental(b)

LearnedInv ==
    /\ Ledger(applied)
    /\ IF Learned THEN Remembered(model, applied) /\ InStep(model, applied) ELSE applied = {}

LEMMA ChildrenAreBooks ==
    ASSUME NEW A, Ledger(A), NEW e
    PROVE  Books(ChildrenOf(A, e))
<1> PICK D, S : D = {x \in A : e \in DOMAIN x.environments} /\ S = ChildrenOf(A, e)
  OBVIOUS
<1>1. IsFiniteSet(D)
  BY FS_Subset DEF Ledger
<1> DEFINE f == [b \in D |-> b.environments[e]]
<1>2. f \in [D -> S] /\ \A c \in S : \E b \in D : f[b] = c
  BY DEF ChildrenOf
<1> HIDE DEF f
<1>3. IsFiniteSet(S)
  BY <1>1, <1>2, ImageIsFinite
<1>4. \A c \in S : Telling(c)
  BY DEF ChildrenOf, Ledger, Parental
<1> QED
  BY <1>3, <1>4 DEF Books

(* A batch that passed validation is one its children can be counted by.   *)
LEMMA ValidIsParental ==
    ASSUME NEW b \in Batches, NEW now \in Nat, ValidBatch(b, now)
    PROVE  Parental(b)
<1> SUFFICES ASSUME NEW e \in DOMAIN b.environments
             PROVE  LET child == b.environments[e]
                    IN  child.id = b.id /\ child.produced = b.produced /\ Telling(child)
  BY DEF Parental
<1> PICK c : c = b.environments[e]
  OBVIOUS
<1>1. /\ c.id = b.id /\ c.produced = b.produced /\ c.aggregates \subseteq Aggregate
      /\ ValidAggregates(c.aggregates, now)
  BY ChildIdentity
<1>2. b.id \in Nat /\ IsFiniteSet(c.aggregates)
  BY HistoryAssumption
<1>3. OncePerDay(c.aggregates) /\ Counted(c.aggregates)
  BY <1>1 DEF ValidAggregates, OncePerDay, Counted
<1> QED
  BY <1>1, <1>2, <1>3 DEF Telling

(* A batch that is applied now was not applied before, and is not          *)
(* forgotten while it could be.                                            *)
LEMMA AppliedIsRemembered ==
    ASSUME NEW m \in AnyModel, NEW A, Ledger(A), Remembered(m, A), NEW b \in Batches, NEW now \in Nat,
           ValidBatch(b, now), OwnOutcome(m.own, b, now) = "applied"
    PROVE  /\ \A d \in A : d.id = b.id => d.produced # b.produced
           /\ Remembered(Merged(m, b, now), A \cup {b})
<1> PICK own, n : own = m.own /\ n = MergeOwn(m.own, b, now)
  OBVIOUS
<1>1. own \in Leaf({Receipt(c) : c \in Batches}) /\ own.acceptAfter \in Nat
  BY DEF AnyModel, ModelState, Leaf
<1>2. (\A r \in own.receipts : r.id # b.id) /\ ~(b.produced < own.acceptAfter)
  BY AppliedMeans
<1>3. ASSUME NEW d \in A, d.id = b.id, d.produced = b.produced PROVE FALSE
  <2>1. Receipt(d) \in own.receipts \/ d.produced < own.acceptAfter
    BY DEF Remembered
  <2> QED
    BY <1>2, <1>3, <2>1 DEF Receipt
<1>4. /\ n.acceptAfter = Later(own.acceptAfter, AcceptAfter(now))
      /\ n.receipts = LiveReceipts(own, now) \cup {Receipt(b)}
  BY <1>1, MergeOwnDates
<1>5. Merged(m, b, now).own = n
  BY DEF Merged
<1>6. BatchMaxAge > 0
  BY HistoryAssumption, PolicyAssumption DEF ValidBatch, TimelyBatch, Minus
<1>7. ASSUME NEW d \in A PROVE Receipt(d) \in n.receipts \/ d.produced < n.acceptAfter
  <2>1. d.produced \in Nat /\ AcceptAfter(now) \in Nat
    BY HistoryAssumption, WatermarkType DEF Ledger
  <2>2. CASE d.produced < own.acceptAfter
    BY <1>1, <1>4, <2>1, <2>2 DEF Later
  <2>3. CASE Receipt(d) \in own.receipts
    <3>1. Receipt(d).produced = d.produced
      BY DEF Receipt
    <3>2. CASE Minus(now, d.produced) < ReceiptRetention
      BY <1>4, <2>3, <3>1, <3>2 DEF LiveReceipts
    <3>3. CASE ~(Minus(now, d.produced) < ReceiptRetention)
      <4>1. d.produced < AcceptAfter(now)
        BY <1>6, <2>1, <3>3, HistoryAssumption, PolicyAssumption DEF Minus, AcceptAfter
      <4> QED
        BY <1>1, <1>4, <2>1, <4>1 DEF Later
    <3> QED
      BY <3>2, <3>3
  <2> QED
    BY <2>2, <2>3 DEF Remembered
<1> QED
  BY <1>3, <1>4, <1>5, <1>7 DEF Remembered

------------------------------------------------------------------------------
LEMMA FreshInStep ==
    ASSUME NEW now \in Nat
    PROVE  Ledger({}) /\ Remembered(FreshModel(now), {}) /\ InStep(FreshModel(now), {})
<1> PICK m, f : m = FreshModel(now) /\ f = FreshLeaf(now)
  OBVIOUS
<1>1. m.own = f /\ m.environments = [e \in Envs |-> NoModel]
  BY DEF FreshModel
<1>2. Present(m) = {}
  BY <1>1 DEF Present
<1>3. f.pruningDay \in Nat /\ f.buckets = {} /\ f.recents = {}
  BY DayOfType DEF FreshLeaf
<1>4. ASSUME NEW e PROVE ChildrenOf({}, e) = {}
  BY DEF ChildrenOf
<1>5. NothingLeft({}, m.own.pruningDay)
  <2>1. Reflects(f, {}, f.pruningDay) /\ Early({}, f.pruningDay)
    BY <1>3, NothingReflected
  <2> QED
    BY <1>1, <1>3, <2>1 DEF NothingLeft, Reflects
<1>6. InStep(m, {})
  BY <1>2, <1>4, <1>5 DEF InStep
<1> QED
  BY <1>6, FS_EmptySet DEF Ledger, Remembered

(* The children of one more batch.                                         *)
LEMMA ChildrenOfMore ==
    ASSUME NEW A, NEW b, NEW U, U = A \cup {b}, NEW e, e \in DOMAIN b.environments,
           NEW c, c = b.environments[e], c \notin ChildrenOf(A, e)
    PROVE  Joined(ChildrenOf(U, e), ChildrenOf(A, e), c)
BY DEF ChildrenOf, Joined

LEMMA ChildrenOfOthers ==
    ASSUME NEW A, NEW b, NEW U, U = A \cup {b}, NEW e, e \notin DOMAIN b.environments
    PROVE  ChildrenOf(U, e) = ChildrenOf(A, e)
BY DEF ChildrenOf

(* A batch the parent applies is new to the child it speaks of.            *)
LEMMA ChildApplies ==
    ASSUME NEW m \in AnyModel, Together(m), NEW b \in Batches, NEW now \in Nat, ValidBatch(b, now),
           OwnOutcome(m.own, b, now) = "applied", ChildFailures(m, b, now) = {},
           NEW e \in DOMAIN b.environments
    PROVE  MergeChild(m, b, e, now) = MergeOwn(ChildOf(m, e, now), b.environments[e], now)
<1> PICK child, c : child = ChildOf(m, e, now) /\ c = b.environments[e]
  OBVIOUS
<1>1. c.id = b.id
  BY ChildIdentity
<1>2. \A r \in m.own.receipts : r.id # b.id
  BY AppliedMeans
<1>3. \A r \in child.receipts : r.id # c.id
  <2>1. CASE e \in Present(m)
    <3>1. Accompanies(child, m.own, e)
      BY <2>1 DEF ChildOf, Together
    <3> QED
      BY <1>1, <1>2, <3>1 DEF Accompanies
  <2>2. CASE e \notin Present(m)
    BY <2>2 DEF ChildOf, FreshLeaf
  <2> QED
    BY <2>1, <2>2
<1>4. OwnOutcome(child, c, now) # "duplicate"
  BY <1>3 DEF OwnOutcome
<1> QED
  BY <1>4 DEF MergeChild

(* A merge leaves every environment in step with the batches.              *)
LEMMA MergeInStep ==
    ASSUME NEW m \in AnyModel, Together(m), SoundModel(m), NEW A, Ledger(A), Remembered(m, A), InStep(m, A),
           NEW b \in Batches, NEW now \in Nat, ValidBatch(b, now),
           OwnOutcome(m.own, b, now) = "applied", ChildFailures(m, b, now) = {}
    PROVE  Ledger(A \cup {b}) /\ InStep(Merged(m, b, now), A \cup {b})
<1> PICK U : U = A \cup {b}
  OBVIOUS
<1>1. Ledger(U)
  BY ValidIsParental, FS_AddElement DEF Ledger
<1> PICK C, next, p, q : /\ C = {Receipt(c) : c \in ChildBatches} /\ next = Merged(m, b, now)
                         /\ p = m.own.pruningDay /\ q = next.own.pruningDay
  OBVIOUS
<1>2. p \in Nat /\ q \in Nat /\ p <= q /\ DayOf(now) <= q /\ DayOf(now) \in Nat
  <2>1. m.own \in Leaf({Receipt(c) : c \in Batches}) /\ p \in Nat
    BY DEF AnyModel, ModelState, Leaf
  <2>2. q = EffectiveToday(m.own, b, now)
    BY <2>1, MergeOwnDates DEF Merged
  <2>3. b.aggregates \subseteq Aggregate /\ ValidAggregates(b.aggregates, now)
    BY HistoryAssumption DEF ValidBatch
  <2> QED
    BY <2>1, <2>2, <2>3, EffectiveTodayType, DayOfType
<1>3. ASSUME NEW e \in Envs
      PROVE  IF e \in Present(next) THEN Standing(next.environments[e], ChildrenOf(U, e), q)
             ELSE NothingLeft(ChildrenOf(U, e), q)
  <2> PICK S, T, merged, child : /\ S = ChildrenOf(A, e) /\ T = ChildrenOf(U, e)
                                 /\ merged = MergeChild(m, b, e, now) /\ child = ChildOf(m, e, now)
    OBVIOUS
  <2>1. Books(S) /\ Books(T)
    BY <1>1, ChildrenAreBooks
  <2>2. next.environments[e] = IF e \in Present(m) \cup DOMAIN b.environments
                               THEN IF AgeChild(merged, now).buckets = {} THEN NoModel
                                    ELSE AgeChild(merged, now)
                               ELSE NoModel
    BY DEF Merged, MergeEnvironments
  <2>3. CASE e \notin Present(m) \cup DOMAIN b.environments
    <3>1. T = S
      BY <2>3, ChildrenOfOthers
    <3>2. e \notin Present(next)
      BY <2>2, <2>3 DEF Present
    <3>3. NothingLeft(S, p)
      BY <2>3 DEF InStep
    <3> QED
      BY <1>2, <2>1, <3>1, <3>2, <3>3, NothingLeftLater
  <2>4. CASE e \in Present(m) \cup DOMAIN b.environments
    <3>1. merged \in Leaf(C) /\ ValidLeaf(merged) /\ child \in Leaf(C) /\ ValidLeaf(child)
      BY <2>4, MergedChildIsSound DEF SoundLeaf
    <3>2. Standing(child, S, q)
      <4>1. CASE e \in Present(m)
        <5>1. child = m.environments[e] /\ Standing(child, S, p)
          BY <4>1 DEF ChildOf, InStep
        <5> QED
          BY <1>2, <2>1, <3>1, <5>1, StandingLater
      <4>2. CASE e \notin Present(m)
        <5>1. child = FreshLeaf(now) /\ NothingLeft(S, p)
          BY <4>2 DEF ChildOf, InStep
        <5> QED
          BY <1>2, <2>1, <5>1, FreshShows
      <4> QED
        BY <4>1, <4>2
    <3>3. Standing(merged, T, q)
      <4>1. CASE e \in DOMAIN b.environments
        <5> PICK c : c = b.environments[e]
          OBVIOUS
        <5>1. merged = MergeOwn(child, c, now)
          BY <4>1, ChildApplies
        <5>2. c.id = b.id /\ c.produced = b.produced /\ ValidAggregates(c.aggregates, now)
          BY <4>1, ChildIdentity
        <5>3. c \notin S
          <6>1. ASSUME NEW d \in A, e \in DOMAIN d.environments, c = d.environments[e] PROVE FALSE
            <7>1. d.id = b.id /\ d.produced = b.produced
              BY <5>2, <6>1 DEF Ledger, Parental
            <7> QED
              BY <7>1, AppliedIsRemembered
          <6> QED
            BY <6>1 DEF ChildrenOf
        <5>4. Joined(T, S, c)
          BY <4>1, <5>3, ChildrenOfMore
        <5> QED
          BY <1>2, <2>1, <3>1, <3>2, <5>1, <5>2, <5>4, MergeStands
      <4>2. CASE e \notin DOMAIN b.environments
        <5>1. merged = child /\ T = S
          BY <2>4, <4>2, ChildrenOfOthers DEF MergeChild, ChildOf
        <5> QED
          BY <3>2, <5>1
      <4> QED
        BY <4>1, <4>2
    <3>4. /\ Standing(AgeChild(merged, now), T, q)
          /\ AgeChild(merged, now).buckets = {} => NothingLeft(T, q)
      BY <1>2, <2>1, <3>1, <3>3, AgeStands
    <3>5. AgeChild(merged, now) # NoModel
      BY <3>1, AgeChildType, HistoryAssumption
    <3>6. e \in Present(next) <=> next.environments[e] # NoModel
      BY DEF Present
    <3>7. CASE AgeChild(merged, now).buckets = {}
      BY <2>2, <2>4, <3>4, <3>6, <3>7
    <3>8. CASE AgeChild(merged, now).buckets # {}
      BY <2>2, <2>4, <3>4, <3>5, <3>6, <3>8
    <3> QED
      BY <3>7, <3>8
  <2> QED
    BY <2>3, <2>4
<1> QED
  BY <1>1, <1>3 DEF InStep

LEMMA LearnedStep == IInv /\ LimitInv /\ LearnedInv /\ [Next]_vars => LearnedInv'
<1> SUFFICES ASSUME IInv, LimitInv, LearnedInv, [Next]_vars PROVE LearnedInv'
  OBVIOUS
<1>1. ASSUME model' = model, applied' = applied PROVE LearnedInv'
  BY <1>1 DEF LearnedInv, Learned
<1>2. CASE UNCHANGED vars
  BY <1>1, <1>2 DEF vars
<1>3. CASE Tick
  BY <1>1, <1>3 DEF Tick
<1>4. ASSUME NEW b \in Batches, NEW now \in RequestTimes, Apply(b, now)
      PROVE  LearnedInv'
  <2> PICK m : m = ModelOrFresh(model, now)
    OBVIOUS
  <2>1. now \in Nat /\ m \in AnyModel /\ SoundModel(m)
    BY ModelAtHand
  <2>2. /\ ValidBatch(b, now) /\ OwnOutcome(m.own, b, now) = "applied"
        /\ ChildFailures(m, b, now) = {}
    <3>1. Outcome(model, b, now) = "applied"
      BY <1>4 DEF Apply
    <3> QED
      BY <3>1, OutcomeMeans
  <2>3. model' = Merged(m, b, now) /\ applied' = applied \cup {b}
    BY <1>4 DEF Apply, ApplyBatch
  <2>4. Together(m) /\ Ledger(applied) /\ Remembered(m, applied) /\ InStep(m, applied)
    BY <2>1, FreshTogether, FreshInStep DEF ModelOrFresh, IInv, LearnedInv, Learned
  <2>5. Ledger(applied') /\ InStep(model', applied')
    BY <2>1, <2>2, <2>3, <2>4, MergeInStep
  <2>6. Remembered(model', applied')
    BY <2>1, <2>2, <2>3, <2>4, AppliedIsRemembered
  <2>7. Learned'
    <3>1. model' \in AnyModel
      BY <2>1, <2>2, <2>3, MergedType
    <3> QED
      BY <3>1, HistoryAssumption DEF Learned, AnyModel
  <2> QED
    BY <2>5, <2>6, <2>7 DEF LearnedInv
<1> QED
  BY <1>2, <1>3, <1>4 DEF Next

(* apply_batch: whatever order the batches come in, however their requests *)
(* lag, and however often the profile of an environment is emptied and     *)
(* comes back, what it holds of the days of the horizon is what the        *)
(* batches that were applied say of it.                                    *)
THEOREM EnvironmentsFollowTheirBatches == Spec => []EnvironmentsAreReference
<1>1. Init => LearnedInv
  BY FS_EmptySet DEF Init, LearnedInv, Learned, Ledger
<1>2. IInv /\ LimitInv /\ LearnedInv => EnvironmentsAreReference
  <2> SUFFICES ASSUME IInv, LimitInv, LearnedInv, Learned, NEW e \in Envs
               PROVE  LET child == ChildOf(model, e, clock)
                          today == Later(model.own.pruningDay, child.pruningDay)
                          own == OfEnvironment(e)
                      IN  /\ Within(child.buckets, today, LAMBDA x : x.day) = ReferenceBuckets(own, today)
                          /\ Within(child.recents, today, LAMBDA x : DayOf(x.at)) = ReferenceRecents(own, today)
    BY DEF EnvironmentsAreReference
  <2> PICK child, p, S : child = ChildOf(model, e, clock) /\ p = model.own.pruningDay /\ S = OfEnvironment(e)
    OBVIOUS
  <2> PICK today : today = Later(p, child.pruningDay)
    OBVIOUS
  <2>1. S = ChildrenOf(applied, e) /\ Books(S)
    BY ChildrenAreBooks DEF OfEnvironment, ChildrenOf, LearnedInv
  <2>2. p \in Nat /\ clock \in Nat
    BY HistoryAssumption DEF IInv, TypeOK, Learned, ModelState, Leaf
  <2>3. Shows(child, S, today)
    <3>1. CASE e \in Present(model)
      BY <2>1, <3>1 DEF ChildOf, LearnedInv, InStep, Standing
    <3>2. CASE e \notin Present(model)
      <4>1. NothingLeft(S, p) /\ child = FreshLeaf(clock)
        BY <2>1, <3>2 DEF ChildOf, LearnedInv, InStep
      <4> QED
        BY <2>1, <2>2, <4>1, FreshShows
    <3> QED
      BY <3>1, <3>2
  <2>4. /\ Within(child.buckets, today, LAMBDA x : x.day) = InDays(child.buckets, today)
        /\ Within(child.recents, today, LAMBDA x : DayOf(x.at)) = OfDays(child.recents, today)
    BY DEF Within, InDays, OfDays
  <2> QED
    BY <2>3, <2>4 DEF Shows
<1> QED
  BY SpecInv, SpecLimits, <1>1, <1>2, LearnedStep, PTL DEF Spec
==============================================================================
