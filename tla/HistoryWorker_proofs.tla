------------------------- MODULE HistoryWorker_proofs -------------------------
(***************************************************************************)
(* Safety of the history server for every number of clients, posts,        *)
(* batches and every retention policy that satisfies RetentionAssumption.  *)
(***************************************************************************)
EXTENDS HistoryWorker, PredictionModel_proofs

(* A batch counts as long as the row can prove it: by its receipt, or by a *)
(* watermark so far past the batch that neither it nor a recompiled copy   *)
(* of its run can be accepted again.                                       *)
Guarded(b) ==
    /\ row # NoModel
    /\ \/ Receipt(b) \in row.own.receipts
       \/ b.produced + (ReceiptRetention - BatchMaxAge) < row.own.acceptAfter

CountedIsGuarded == \A b \in counted : Guarded(b)

(* The row is at least as recent as the batches in it. *)
CountedIsRecent ==
    \A b \in counted : b.produced <= row.own.updatedAt + FutureTolerance

(* Every receipt belongs to a batch that counts. *)
ReceiptsAreCounted ==
    row # NoModel =>
      \A r \in row.own.receipts : \E b \in counted : r = Receipt(b)

(* A batch that was committed still counts, once, or was deleted with its  *)
(* row after it had expired for every request that can still be running.   *)
Outdated(b) == b.produced + BatchMaxAge + Lifetime <= clock

CommittedOnce ==
    \A b \in Batches :
       \/ b \in counted /\ merges[b] = 1
       \/ b \notin counted /\ merges[b] = 0
       \/ b \notin counted /\ merges[b] = 1 /\ Outdated(b)

(* A running request holds a clock its batch is valid for. *)
RequestsAreTimely ==
    \A c \in Client, k \in Posts :
       Running(c, k) => /\ ValidBatch(BatchOf[c], req[c][k].now)
                        /\ req[c][k].now <= clock
                        /\ clock <= req[c][k].now + Lifetime

StoresAreDecided ==
    \A c \in Client, k \in Posts :
       req[c][k].pc = "store" =>
         Outcome(req[c][k].seen, BatchOf[c], req[c][k].now) = "applied"

(* Good news is true. *)
OkIsCommitted ==
    /\ \A c \in Client, k \in Posts :
          req[c][k].status = "ok" => merges[BatchOf[c]] = 1
    /\ AckedIsMerged

(* A client waits for a post it made; an answer says something. *)
AnswersMakeSense ==
    /\ \A c \in Client : run[c].state = "waiting" => run[c].posts \in Posts
    /\ \A c \in Client, k \in Posts :
          req[c][k].pc = "replied" => req[c][k].status # "none"

IInv ==
    /\ TypeOK
    /\ CountedIsGuarded
    /\ CountedIsRecent
    /\ ReceiptsAreCounted
    /\ CommittedOnce
    /\ RequestsAreTimely
    /\ StoresAreDecided
    /\ OkIsCommitted
    /\ AnswersMakeSense
    /\ OneBodyPerIdentity

------------------------------------------------------------------------------
(* Writing one request changes that request and no other. *)
LEMMA UpdateType ==
    ASSUME NEW f \in [Client -> [Posts -> Request]],
           NEW c \in Client, NEW k \in Posts, NEW v \in Request
    PROVE  LET g == [f EXCEPT ![c][k] = v]
           IN  /\ g \in [Client -> [Posts -> Request]]
               /\ \A d \in Client, j \in Posts :
                     g[d][j] = IF d = c /\ j = k THEN v ELSE f[d][j]
  OBVIOUS

LEMMA BatchType ==
    ASSUME NEW c \in Client
    PROVE  /\ BatchOf[c] \in Batches
           /\ BatchOf[c].id \in Nat /\ BatchOf[c].produced \in Nat
           /\ Receipt(BatchOf[c]) \in {Receipt(b) : b \in Batches}
  BY WorkerAssumption DEF Batches

(* What a request can become. *)
LEMMA RequestType ==
    ASSUME TypeOK, NEW r \in Request
    PROVE  /\ NoRequest \in Request /\ Finished \in Request
           /\ \A status \in {"ok", "reject", "retry"} :
                 [NoRequest EXCEPT !.pc = "replied", !.status = status] \in Request
           /\ [r EXCEPT !.pc = "arrived"] \in Request
           /\ [r EXCEPT !.pc = "load", !.now = clock] \in Request
           /\ [r EXCEPT !.pc = "store", !.seen = row] \in Request
           /\ [r EXCEPT !.pc = "load", !.seen = NoModel, !.tries = @ + 1] \in Request
<1>1. clock \in 0..MaxClock /\ row \in Rows \cup {NoModel}
  BY DEF TypeOK
<1>2. NoRequest \in Request
  BY WorkerAssumption DEF NoRequest, Request
<1>3. r.tries + 1 \in Nat
  BY DEF Request
<1> QED
  BY <1>1, <1>2, <1>3 DEF Request, Finished

(* The request of a store was decided on the row it replaces: the batch is *)
(* new to that row, and no row that ever held it can have been deleted.    *)
LEMMA StoredBatchIsNew ==
    ASSUME IInv, NEW c \in Client, NEW k \in Posts,
           req[c][k].pc = "store", row = req[c][k].seen
    PROVE  /\ BatchOf[c] \notin counted
           /\ merges[BatchOf[c]] = 0
           /\ \A b \in counted :
                 /\ b.id # BatchOf[c].id \/ Receipt(b) \notin row.own.receipts
                 /\ ~(BatchOf[c].produced < row.own.acceptAfter)
<1> DEFINE b == BatchOf[c]
           now == req[c][k].now
<1>1. Outcome(row, b, now) = "applied"
  BY DEF IInv, StoresAreDecided
<1>2. /\ ValidBatch(b, now)
      /\ row # NoModel => /\ \A r \in row.own.receipts : r.id # b.id
                          /\ ~(b.produced < row.own.acceptAfter)
  <2> HIDE DEF b, now
  <2> QED BY <1>1, AppliedIsNew
<1>3. \A d \in counted : row # NoModel /\ Guarded(d)
  BY DEF IInv, CountedIsGuarded, Guarded
<1>4. \A d : Receipt(d).id = d.id
  BY DEF Receipt
<1>5. b \notin counted
  <2> SUFFICES ASSUME b \in counted PROVE FALSE
    OBVIOUS
  <2>1. row # NoModel /\ Guarded(b)
    BY <1>3
  <2>2. Receipt(b) \notin row.own.receipts
    BY <2>1, <1>2, <1>4
  <2>3. b.produced + (ReceiptRetention - BatchMaxAge) < row.own.acceptAfter
    BY <2>1, <2>2 DEF Guarded
  <2>4. row.own.acceptAfter \in Nat
    BY <2>1 DEF IInv, TypeOK, Rows, ModelState, Leaf
  <2>5. b.produced < row.own.acceptAfter
    BY <2>3, <2>4, BatchType, PolicyAssumption, RetentionAssumption
  <2> QED
    BY <2>1, <2>5, <1>2
<1>6. ~Outdated(b)
  <2>1. TimelyBatch(b, now)
    BY <1>2 DEF ValidBatch
  <2>2. now <= clock /\ clock <= now + Lifetime
    BY DEF IInv, RequestsAreTimely, Running
  <2>3. now \in Nat /\ clock \in Nat
    BY WorkerAssumption DEF IInv, TypeOK, Request
  <2>4. b.produced \in Nat /\ BatchMaxAge \in Nat /\ Lifetime \in Nat
    BY BatchType, PolicyAssumption, WorkerAssumption
  <2> HIDE DEF b, now
  <2> QED
    BY <2>1, <2>2, <2>3, <2>4 DEF Outdated, TimelyBatch, Minus
<1>7. merges[b] = 0
  BY <1>5, <1>6, BatchType DEF IInv, CommittedOnce
<1> QED
  BY <1>2, <1>3, <1>4, <1>5, <1>7

(* What a commit leaves in the row: a model that remembers the new batch,  *)
(* whose dates have not moved back, and which has dropped a receipt only   *)
(* when its watermark is past every copy of that receipt's run.            *)
LEMMA CommittedRow ==
    ASSUME IInv, NEW c \in Client, NEW k \in Posts,
           req[c][k].pc = "store", row = req[c][k].seen, Commit(c, k)
    PROVE  /\ row' \in Rows /\ row' # NoModel
           /\ Receipt(BatchOf[c]) \in row'.own.receipts
           /\ BatchOf[c].produced <= row'.own.updatedAt + FutureTolerance
           /\ row = NoModel => row'.own.receipts = {Receipt(BatchOf[c])}
           /\ row # NoModel =>
                /\ row'.own.updatedAt >= row.own.updatedAt
                /\ row'.own.pruningDay >= row.own.pruningDay
                /\ row'.own.acceptAfter >= row.own.acceptAfter
                /\ row'.own.receipts \subseteq row.own.receipts \cup {Receipt(BatchOf[c])}
                /\ \A r \in row.own.receipts \ row'.own.receipts :
                      /\ r.produced + (ReceiptRetention - BatchMaxAge) < row'.own.acceptAfter
                      /\ r.produced + ReceiptRetention <= clock
<1> DEFINE b == BatchOf[c]
           now == req[c][k].now
           R == {Receipt(d) : d \in Batches}
           C == {Receipt(d) : d \in ChildBatches}
           m == ModelOrFresh(row, now)
           next == MergeOwn(m.own, b, now)
<1>1. now \in Nat /\ now <= clock /\ clock \in Nat
  BY WorkerAssumption DEF IInv, TypeOK, Request, RequestsAreTimely, Running
<1>2. ValidBatch(b, now) /\ TimelyBatch(b, now) /\ ValidAggregates(b.aggregates, now)
  BY DEF IInv, RequestsAreTimely, Running, ValidBatch
<1>3. b \in Batches /\ b.id \in Nat /\ b.produced \in Nat /\ Receipt(b) \in R
  BY BatchType
<1>4. /\ b.aggregates \subseteq Aggregate /\ DOMAIN b.environments \subseteq Envs
      /\ \A e \in DOMAIN b.environments :
            /\ b.environments[e].aggregates \subseteq Aggregate
            /\ Receipt(b.environments[e]) \in C
  BY <1>3, WorkerAssumption DEF ChildBatches
<1>5. row \in ModelState(R, C) \cup {NoModel}
  BY DEF IInv, TypeOK, Rows
<1>6. row' = ApplyBatch(row, b, now)
  BY DEF Commit
<1>7. row' \in ModelState(R, C)
  <2> HIDE DEF b, now, R, C
  <2> QED BY <1>1, <1>2, <1>3, <1>4, <1>5, <1>6, ApplyBatchType
<1>8. row' \in Rows /\ row' # NoModel
  BY <1>7, WorkerAssumption DEF Rows
<1>9. m.own \in Leaf(R)
  <2>1. CASE row = NoModel
    BY <2>1, <1>1, FreshLeafType DEF ModelOrFresh, FreshModel
  <2>2. CASE row # NoModel
    BY <2>2, <1>5 DEF ModelOrFresh, ModelState
  <2> QED BY <2>1, <2>2
<1>10. row'.own = next
  BY <1>6 DEF ApplyBatch, Merged
<1>11. /\ next.updatedAt = Later(m.own.updatedAt, now)
       /\ next.pruningDay = EffectiveToday(m.own, b, now)
       /\ next.acceptAfter = Later(m.own.acceptAfter, AcceptAfter(now))
       /\ next.receipts = LiveReceipts(m.own, now) \cup {Receipt(b)}
  <2> HIDE DEF b, now, R, m
  <2> QED BY <1>1, <1>9, MergeOwnDates
<1>12. /\ m.own.updatedAt \in Nat /\ m.own.pruningDay \in Nat
       /\ m.own.acceptAfter \in Nat /\ m.own.receipts \subseteq R
  BY <1>9 DEF Leaf
<1>13. b.produced <= next.updatedAt + FutureTolerance
  <2> HIDE DEF b, now, m, next
  <2> QED BY <1>1, <1>2, <1>3, <1>11, <1>12, PolicyAssumption DEF TimelyBatch, Later
<1>14. next.pruningDay >= m.own.pruningDay
  <2>1. EffectiveToday(m.own, b, now) \in Nat
        /\ m.own.pruningDay <= EffectiveToday(m.own, b, now)
    <3> HIDE DEF b, now, m
    <3> QED BY <1>1, <1>2, <1>4, <1>12, EffectiveTodayType
  <2> HIDE DEF m, next
  <2> QED BY <2>1, <1>11, <1>12
<1>15. \A r \in m.own.receipts \ next.receipts :
          /\ r.produced + (ReceiptRetention - BatchMaxAge) < next.acceptAfter
          /\ r.produced + ReceiptRetention <= clock
  <2> SUFFICES ASSUME NEW r \in m.own.receipts, r \notin next.receipts
               PROVE  /\ r.produced + (ReceiptRetention - BatchMaxAge) < next.acceptAfter
                      /\ r.produced + ReceiptRetention <= clock
    OBVIOUS
  <2>1. r.produced \in Nat
    BY <1>12, WorkerAssumption DEF Receipt
  <2> HIDE DEF b, now, m, next
  <2>2. ~(Minus(now, r.produced) < ReceiptRetention)
    BY <1>11 DEF LiveReceipts
  <2>3. 0 < BatchMaxAge
    BY <1>1, <1>2, <1>3, PolicyAssumption DEF TimelyBatch, Minus
  <2>4. r.produced + ReceiptRetention <= now
    BY <2>1, <2>2, <2>3, <1>1, PolicyAssumption, RetentionAssumption DEF Minus
  <2>5. r.produced + (ReceiptRetention - BatchMaxAge) < AcceptAfter(now)
    BY <2>1, <2>4, <1>1, PolicyAssumption, RetentionAssumption DEF AcceptAfter, Minus
  <2> QED
    BY <2>1, <2>4, <2>5, <1>1, <1>11, <1>12, PolicyAssumption, RetentionAssumption
       DEF Later, AcceptAfter, Minus
<1>16. CASE row = NoModel
  <2>1. m.own.receipts = {}
    BY <1>16 DEF ModelOrFresh, FreshModel, FreshLeaf
  <2>2. next.receipts = {Receipt(b)}
    BY <2>1, <1>11 DEF LiveReceipts
  <2> QED
    BY <1>8, <1>10, <1>13, <1>16, <2>2
<1>17. CASE row # NoModel
  <2>1. m = row
    BY <1>17 DEF ModelOrFresh
  <2>2. /\ next.updatedAt >= m.own.updatedAt /\ next.acceptAfter >= m.own.acceptAfter
        /\ next.receipts \subseteq m.own.receipts \cup {Receipt(b)}
        /\ Receipt(b) \in next.receipts
    <3> HIDE DEF b, now, m, next
    <3> QED BY <1>1, <1>11, <1>12, PolicyAssumption DEF Later, AcceptAfter, Minus, LiveReceipts
  <2> HIDE DEF next
  <2> QED
    BY <2>1, <2>2, <1>8, <1>10, <1>13, <1>14, <1>15, <1>17
<1> QED
  BY <1>16, <1>17

(* Learning one more batch keeps the books: every batch that counts stays  *)
(* guarded by the row, and no rival of the new batch is among them.        *)
LEMMA CommitKeeps ==
    ASSUME IInv, NEW c \in Client, NEW k \in Posts,
           req[c][k].pc = "store", row = req[c][k].seen, Commit(c, k),
           UNCHANGED clock
    PROVE  /\ row' \in Rows \cup {NoModel} /\ counted' \subseteq Batches
           /\ merges' \in [Batches -> Nat] /\ merges'[BatchOf[c]] = 1
           /\ \A d \in Client : merges[BatchOf[d]] = 1 => merges'[BatchOf[d]] = 1
           /\ CountedIsGuarded' /\ CountedIsRecent' /\ ReceiptsAreCounted'
           /\ CommittedOnce' /\ OneBodyPerIdentity'
<1> DEFINE b == BatchOf[c]
<1>1. /\ b \notin counted /\ merges[b] = 0 /\ b \in Batches
      /\ b.id \in Nat /\ b.produced \in Nat
  BY StoredBatchIsNew, BatchType
<1>2. /\ counted' = counted \cup {b} /\ counted \subseteq Batches
      /\ merges' = [merges EXCEPT ![b] = @ + 1] /\ merges \in [Batches -> Nat]
  BY DEF Commit, IInv, TypeOK
<1>3. /\ merges' \in [Batches -> Nat] /\ merges'[b] = 1
      /\ \A d \in Batches \ {b} : merges'[d] = merges[d]
  BY <1>1, <1>2
<1>4. \A d \in Client : merges[BatchOf[d]] = 1 => merges'[BatchOf[d]] = 1
  BY <1>1, <1>3, BatchType
<1>5. row' \in Rows /\ row' # NoModel
  BY CommittedRow
<1>6. \A d \in counted :
         /\ row # NoModel /\ Guarded(d)
         /\ d.produced <= row.own.updatedAt + FutureTolerance
         /\ d \in Batches /\ d.id \in Nat /\ d.produced \in Nat
  BY <1>2, WorkerAssumption DEF IInv, CountedIsGuarded, CountedIsRecent, Guarded
<1>7. \A d : Receipt(d).produced = d.produced /\ Receipt(d).id = d.id
  BY DEF Receipt
<1>8. row # NoModel => row.own.acceptAfter \in Nat /\ row.own.updatedAt \in Nat
  BY DEF IInv, TypeOK, Rows, ModelState, Leaf
<1>9. row'.own.acceptAfter \in Nat /\ row'.own.updatedAt \in Nat
  BY <1>5 DEF Rows, ModelState, Leaf
<1>10. CountedIsGuarded'
  <2> SUFFICES ASSUME NEW d \in counted'
               PROVE  \/ Receipt(d) \in row'.own.receipts
                      \/ d.produced + (ReceiptRetention - BatchMaxAge)
                            < row'.own.acceptAfter
    BY <1>5 DEF CountedIsGuarded, Guarded
  <2>1. CASE d = b
    BY <2>1, CommittedRow
  <2>2. CASE d # b
    <3>1. d \in counted
      BY <2>2, <1>2
    <3>2. CASE Receipt(d) \in row.own.receipts
      BY <3>1, <3>2, <1>6, <1>7, CommittedRow
    <3>3. CASE d.produced + (ReceiptRetention - BatchMaxAge) < row.own.acceptAfter
      <4>1. row'.own.acceptAfter >= row.own.acceptAfter
        BY <3>1, <1>6, CommittedRow
      <4> HIDE DEF b
      <4> QED BY <3>1, <3>3, <4>1, <1>6, <1>8, <1>9, PolicyAssumption
    <3> QED BY <3>1, <3>2, <3>3, <1>6 DEF Guarded
  <2> QED BY <2>1, <2>2
<1>11. CountedIsRecent'
  <2> SUFFICES ASSUME NEW d \in counted'
               PROVE  d.produced <= row'.own.updatedAt + FutureTolerance
    BY DEF CountedIsRecent
  <2>1. CASE d = b
    BY <2>1, CommittedRow
  <2>2. CASE d # b
    <3>1. d \in counted
      BY <2>2, <1>2
    <3>2. row'.own.updatedAt >= row.own.updatedAt
      BY <3>1, <1>6, CommittedRow
    <3> QED BY <3>1, <3>2, <1>6, <1>8, <1>9, PolicyAssumption
  <2> QED BY <2>1, <2>2
<1>12. ReceiptsAreCounted'
  <2> SUFFICES ASSUME NEW r \in row'.own.receipts
               PROVE  \E d \in counted' : r = Receipt(d)
    BY DEF ReceiptsAreCounted, Receipt
  <2>1. CASE r = Receipt(b)
    BY <2>1, <1>2
  <2>2. CASE r # Receipt(b)
    <3>1. row # NoModel /\ r \in row.own.receipts
      BY <2>2, CommittedRow
    <3> QED BY <3>1, <1>2 DEF IInv, ReceiptsAreCounted
  <2> QED BY <2>1, <2>2
<1>13. CommittedOnce'
  BY <1>1, <1>2, <1>3 DEF IInv, CommittedOnce, Outdated
<1>14. OneBodyPerIdentity'
  <2>1. ASSUME NEW d \in counted, d.id = b.id,
               b.produced <= d.produced + (ReceiptRetention - BatchMaxAge)
        PROVE  FALSE
    <3>1. Receipt(d) \notin row.own.receipts /\ ~(b.produced < row.own.acceptAfter)
      BY <2>1, StoredBatchIsNew
    <3>2. d.produced + (ReceiptRetention - BatchMaxAge) < row.own.acceptAfter
      BY <3>1, <1>6 DEF Guarded
    <3> HIDE DEF b
    <3> QED BY <2>1, <3>1, <3>2, <1>1, <1>6, <1>8, PolicyAssumption
  <2>2. ASSUME NEW x \in Batches, NEW y \in Batches, x.id = y.id, x # y,
               y.produced <= x.produced + (ReceiptRetention - BatchMaxAge),
               x.produced <= y.produced + (ReceiptRetention - BatchMaxAge),
               x \in counted', y \in counted'
        PROVE  FALSE
    <3>1. CASE x \in counted /\ y \in counted
      BY <2>2, <3>1 DEF IInv, OneBodyPerIdentity
    <3>2. CASE x = b
      BY <2>1, <2>2, <3>2, <1>2
    <3>3. CASE y = b
      BY <2>1, <2>2, <3>3, <1>2
    <3> QED BY <2>2, <3>1, <3>2, <3>3, <1>2
  <2> QED BY <2>2 DEF OneBodyPerIdentity
<1> QED
  BY <1>2, <1>3, <1>4, <1>5, <1>10, <1>11, <1>12, <1>13, <1>14

(* While the row and the clock stand still, so do the books. *)
LEMMA BooksStand ==
    ASSUME IInv, UNCHANGED <<row, clock, counted, merges>>
    PROVE  /\ row' \in Rows \cup {NoModel} /\ counted' \subseteq Batches
           /\ clock' \in 0..MaxClock /\ merges' \in [Batches -> Nat]
           /\ \A d \in Client : merges[BatchOf[d]] = 1 => merges'[BatchOf[d]] = 1
           /\ CountedIsGuarded' /\ CountedIsRecent' /\ ReceiptsAreCounted'
           /\ CommittedOnce' /\ OneBodyPerIdentity'
<1>1. /\ row' \in Rows \cup {NoModel} /\ counted' \subseteq Batches
      /\ clock' \in 0..MaxClock /\ merges' \in [Batches -> Nat]
      /\ \A d \in Client : merges[BatchOf[d]] = 1 => merges'[BatchOf[d]] = 1
  BY DEF IInv, TypeOK
<1>2. CountedIsGuarded' /\ CountedIsRecent'
  BY DEF IInv, CountedIsGuarded, CountedIsRecent, Guarded
<1>3. ReceiptsAreCounted'
  BY DEF IInv, ReceiptsAreCounted
<1>4. CommittedOnce'
  BY DEF IInv, CommittedOnce, Outdated
<1>5. OneBodyPerIdentity'
  BY DEF IInv, OneBodyPerIdentity
<1> QED
  BY <1>1, <1>2, <1>3, <1>4, <1>5

(* What the invariant says of all requests. *)
RequestsAreSound ==
    /\ req \in [Client -> [Posts -> Request]]
    /\ RequestsAreTimely
    /\ StoresAreDecided
    /\ \A c \in Client, k \in Posts :
          /\ req[c][k].status = "ok" => merges[BatchOf[c]] = 1
          /\ req[c][k].pc = "replied" => req[c][k].status # "none"

(* A step of one request keeps them sound when what it writes is sound.    *)
LEMMA RequestStep ==
    ASSUME IInv, NEW c \in Client, NEW k \in Posts, NEW v \in Request,
           Update(c, k, v), UNCHANGED clock,
           \A d \in Client : merges[BatchOf[d]] = 1 => merges'[BatchOf[d]] = 1,
           v.pc \in {"load", "store"} =>
              /\ ValidBatch(BatchOf[c], v.now)
              /\ v.now <= clock /\ clock <= v.now + Lifetime,
           v.pc = "store" => Outcome(v.seen, BatchOf[c], v.now) = "applied",
           v.status = "ok" => merges'[BatchOf[c]] = 1,
           v.pc = "replied" => v.status # "none"
    PROVE  RequestsAreSound'
<1>1. req \in [Client -> [Posts -> Request]]
  BY DEF IInv, TypeOK
<1>2. /\ req' \in [Client -> [Posts -> Request]]
      /\ \A d \in Client, j \in Posts :
            req'[d][j] = IF d = c /\ j = k THEN v ELSE req[d][j]
  BY <1>1, UpdateType DEF Update
<1>3. RequestsAreTimely'
  BY <1>2 DEF IInv, RequestsAreTimely, Running
<1>4. StoresAreDecided'
  BY <1>2 DEF IInv, StoresAreDecided
<1>5. \A d \in Client, j \in Posts :
         /\ req'[d][j].status = "ok" => merges'[BatchOf[d]] = 1
         /\ req'[d][j].pc = "replied" => req'[d][j].status # "none"
  BY <1>2 DEF IInv, OkIsCommitted, AnswersMakeSense
<1> QED
  BY <1>2, <1>3, <1>4, <1>5 DEF RequestsAreSound

(* An answer keeps them sound when it is true. *)
LEMMA ReplyStep ==
    ASSUME IInv, NEW c \in Client, NEW k \in Posts,
           NEW status \in {"ok", "reject", "retry"},
           Reply(c, k, status), UNCHANGED clock,
           \A d \in Client : merges[BatchOf[d]] = 1 => merges'[BatchOf[d]] = 1,
           status = "ok" => merges'[BatchOf[c]] = 1
    PROVE  RequestsAreSound'
<1> DEFINE v == IF Listening(c, k)
                THEN [NoRequest EXCEPT !.pc = "replied", !.status = status]
                ELSE Finished
<1>1. TypeOK
  BY DEF IInv
<1>2. NoRequest \in Request
  BY WorkerAssumption DEF NoRequest, Request
<1>3. v \in Request
  BY <1>1, <1>2, RequestType
<1>4. /\ v.pc \in {"replied", "done"}
      /\ v.status = "ok" => status = "ok"
      /\ v.pc = "replied" => v.status # "none"
  BY DEF NoRequest, Finished
<1>5. Update(c, k, v)
  BY DEF Reply
<1> HIDE DEF v
<1> QED
  BY <1>3, <1>4, <1>5, RequestStep

(* What the invariant says of all clients. *)
RunsAreSound ==
    /\ run \in [Client -> [state : {"ready", "waiting", "merged", "unmerged"},
                          posts : 0..MaxPosts]]
    /\ AckedIsMerged
    /\ \A c \in Client : run[c].state = "waiting" => run[c].posts \in Posts

(* A client that does nothing stays sound. *)
LEMMA RunsStand ==
    ASSUME IInv, UNCHANGED run,
           \A d \in Client : merges[BatchOf[d]] = 1 => merges'[BatchOf[d]] = 1
    PROVE  RunsAreSound'
  BY DEF IInv, TypeOK, OkIsCommitted, AckedIsMerged, AnswersMakeSense, RunsAreSound

(* A client that moves stays sound when it moves for a good reason. *)
LEMMA RunStep ==
    ASSUME IInv, NEW c \in Client, UNCHANGED merges,
           NEW r \in [state : {"ready", "waiting", "merged", "unmerged"},
                      posts : 0..MaxPosts],
           run' = [run EXCEPT ![c] = r],
           r.state = "merged" => merges[BatchOf[c]] = 1,
           r.state = "waiting" => r.posts \in Posts
    PROVE  RunsAreSound'
<1>1. run \in [Client -> [state : {"ready", "waiting", "merged", "unmerged"},
                         posts : 0..MaxPosts]]
  BY DEF IInv, TypeOK
<1>2. /\ run' \in [Client -> [state : {"ready", "waiting", "merged", "unmerged"},
                             posts : 0..MaxPosts]]
      /\ \A d \in Client : run'[d] = IF d = c THEN r ELSE run[d]
  BY <1>1
<1> QED
  BY <1>2 DEF IInv, OkIsCommitted, AckedIsMerged, AnswersMakeSense, RunsAreSound

(* What the invariant says of the row and the batches in it. *)
BooksAreSound ==
    /\ row \in Rows \cup {NoModel}
    /\ clock \in 0..MaxClock
    /\ counted \subseteq Batches
    /\ merges \in [Batches -> Nat]
    /\ CountedIsGuarded
    /\ CountedIsRecent
    /\ ReceiptsAreCounted
    /\ CommittedOnce
    /\ OneBodyPerIdentity

(* The invariant, by what it speaks of. *)
LEMMA ThreeParts == IInv <=> BooksAreSound /\ RequestsAreSound /\ RunsAreSound
  BY DEF IInv, TypeOK, BooksAreSound, RequestsAreSound, RunsAreSound,
         OkIsCommitted, AnswersMakeSense

(* The empty history satisfies the invariant. *)
LEMMA InitIInv == Init => IInv
<1> SUFFICES ASSUME Init PROVE BooksAreSound /\ RequestsAreSound /\ RunsAreSound
  BY ThreeParts
<1>1. NoRequest \in Request
  BY WorkerAssumption DEF NoRequest, Request
<1>2. BooksAreSound
  BY WorkerAssumption DEF Init, BooksAreSound, CountedIsGuarded, CountedIsRecent,
     ReceiptsAreCounted, CommittedOnce, OneBodyPerIdentity
<1>3. RequestsAreSound
  BY <1>1 DEF Init, RequestsAreSound, RequestsAreTimely, StoresAreDecided, Running,
     NoRequest
<1>4. RunsAreSound
  BY WorkerAssumption DEF Init, RunsAreSound, AckedIsMerged
<1> QED BY <1>2, <1>3, <1>4

------------------------------------------------------------------------------
(* Steps of the clients keep the invariant. *)
LEMMA ClientKeepsIInv ==
    ASSUME IInv, NEW c \in Client, ClientStep(c)
    PROVE  BooksAreSound' /\ RequestsAreSound' /\ RunsAreSound'
<1> DEFINE k == run[c].posts
           Runs == [state : {"ready", "waiting", "merged", "unmerged"},
                    posts : 0..MaxPosts]
<1>1. UNCHANGED <<row, clock, counted, merges>>
  BY DEF ClientStep, Post, Answer, Disconnect, GiveUp
<1>2. BooksAreSound'
  BY <1>1, BooksStand DEF BooksAreSound
<1>3. /\ TypeOK /\ run \in [Client -> Runs] /\ req \in [Client -> [Posts -> Request]]
      /\ run[c] \in Runs /\ MaxPosts \in Nat
  BY WorkerAssumption DEF IInv, TypeOK
<1>4. Finished \in Request
  BY <1>3, WorkerAssumption DEF Finished, NoRequest, Request
<1>5. UNCHANGED req => RequestsAreSound'
  BY <1>1 DEF IInv, TypeOK, RequestsAreSound, RequestsAreTimely, StoresAreDecided,
     Running, OkIsCommitted, AnswersMakeSense
<1>6. ASSUME NEW j \in Posts, Update(c, j, Finished) PROVE RequestsAreSound'
  BY <1>1, <1>4, <1>6, RequestStep DEF Finished, NoRequest
<1>7. CASE Post(c)
  <2> DEFINE j == run[c].posts + 1
             v == [req[c][j] EXCEPT !.pc = "arrived"]
             r == [state |-> "waiting", posts |-> j]
  <2>1. j \in Posts /\ j \in 0..MaxPosts
    BY <1>3, <1>7 DEF Post, Posts
  <2>2. req[c][j] \in Request
    BY <2>1, <1>3
  <2>3. v \in Request /\ v.pc = "arrived" /\ v.status = req[c][j].status
    BY <2>2 DEF Request
  <2>4. v.status = "ok" => merges[BatchOf[c]] = 1
    BY <2>1, <2>3 DEF IInv, OkIsCommitted
  <2>5. Update(c, j, v) /\ run' = [run EXCEPT ![c] = r]
    BY <1>7 DEF Post
  <2>6. r \in Runs
    BY <2>1
  <2>7. RequestsAreSound'
    <3> HIDE DEF v, j
    <3> QED BY <2>1, <2>3, <2>4, <2>5, <1>1, RequestStep
  <2>8. RunsAreSound'
    <3>1. r.state # "merged" /\ r.posts \in Posts
      BY <2>1
    <3> HIDE DEF r
    <3> QED BY <2>5, <2>6, <3>1, <1>1, RunStep
  <2> QED BY <1>2, <2>7, <2>8
<1>8. CASE Answer(c)
  <2> DEFINE r == [run[c] EXCEPT !.state = Answered(req[c][k].status)]
  <2>1. /\ k \in Posts /\ req[c][k] \in Request
        /\ req[c][k].status \in {"ok", "reject", "retry"}
        /\ req[c][k].status = "ok" => merges[BatchOf[c]] = 1
    BY <1>3, <1>8 DEF Answer, IInv, AnswersMakeSense, OkIsCommitted, Request
  <2>2. r \in Runs /\ r.state # "waiting"
        /\ (r.state = "merged" => req[c][k].status = "ok")
    BY <2>1, <1>3 DEF Answered
  <2>3. run' = [run EXCEPT ![c] = r] /\ Update(c, k, Finished)
    BY <1>3, <1>8 DEF Answer
  <2>4. RunsAreSound'
    <3> HIDE DEF r, k
    <3> QED BY <2>1, <2>2, <2>3, <1>1, RunStep
  <2> QED BY <1>2, <1>6, <2>1, <2>3, <2>4
<1>9. CASE Disconnect(c)
  <2> DEFINE r == [run[c] EXCEPT !.state = "ready"]
  <2>1. k \in Posts /\ req[c][k] \in Request
    BY <1>3, <1>9 DEF Disconnect, IInv, AnswersMakeSense
  <2>2. r \in Runs /\ r.state = "ready"
    BY <1>3
  <2>3. run' = [run EXCEPT ![c] = r]
    BY <1>3, <1>9 DEF Disconnect
  <2>4. RunsAreSound'
    <3> HIDE DEF r
    <3> QED BY <2>2, <2>3, <1>1, RunStep
  <2>5. CASE req[c][k].pc = "replied"
    BY <1>2, <1>6, <1>9, <2>1, <2>4, <2>5 DEF Disconnect
  <2>6. CASE req[c][k].pc # "replied"
    <3>1. Update(c, k, req[c][k])
      BY <1>9, <2>6 DEF Disconnect
    <3>2. UNCHANGED req
      BY <3>1, <2>1, <1>3 DEF Update
    <3> QED BY <1>2, <1>5, <2>4, <3>2
  <2> QED BY <2>5, <2>6
<1>10. CASE GiveUp(c)
  <2> DEFINE r == [run[c] EXCEPT !.state = "unmerged"]
  <2>1. r \in Runs /\ r.state = "unmerged"
    BY <1>3
  <2>2. run' = [run EXCEPT ![c] = r] /\ UNCHANGED req
    BY <1>3, <1>10 DEF GiveUp
  <2>3. RunsAreSound'
    <3> HIDE DEF r
    <3> QED BY <2>1, <2>2, <1>1, RunStep
  <2> QED BY <1>2, <1>5, <2>2, <2>3
<1> QED
  BY <1>7, <1>8, <1>9, <1>10 DEF ClientStep

(* Steps of the server and of the database keep the invariant. *)
LEMMA ServerKeepsIInv ==
    ASSUME IInv, NEW c \in Client, NEW k \in Posts,
           ServerStep(c, k) \/ Fault(c, k)
    PROVE  BooksAreSound' /\ RequestsAreSound' /\ RunsAreSound'
<1> DEFINE b == BatchOf[c]
           q == req[c][k]
<1>1. /\ TypeOK /\ q \in Request /\ clock \in 0..MaxClock
      /\ clock \in Nat /\ Lifetime \in Nat /\ q.now \in Nat
      /\ q.status = "ok" => merges[b] = 1
  BY WorkerAssumption DEF IInv, TypeOK, OkIsCommitted, Request
<1>2. Running(c, k) => /\ ValidBatch(b, q.now)
                       /\ q.now <= clock /\ clock <= q.now + Lifetime
  BY DEF IInv, RequestsAreTimely
<1>3. ASSUME UNCHANGED <<row, clock, run, counted, merges>>
      PROVE  /\ BooksAreSound' /\ RunsAreSound'
             /\ \A d \in Client : merges[BatchOf[d]] = 1 => merges'[BatchOf[d]] = 1
  BY <1>3, BooksStand, RunsStand DEF BooksAreSound
<1>4. ASSUME Commit(c, k), row = q.seen, q.pc = "store", UNCHANGED <<clock, run>>
      PROVE  /\ BooksAreSound' /\ RunsAreSound' /\ merges'[b] = 1
             /\ \A d \in Client : merges[BatchOf[d]] = 1 => merges'[BatchOf[d]] = 1
  BY <1>1, <1>4, CommitKeeps, RunsStand DEF BooksAreSound
<1>5. CASE Receive(c, k)
  <2>1. CASE ValidBatch(b, clock)
    <3> DEFINE v == [q EXCEPT !.pc = "load", !.now = clock]
    <3>1. v \in Request /\ v.pc = "load" /\ v.now = clock /\ v.status = q.status
      BY <1>1 DEF Request
    <3>2. Update(c, k, v)
      BY <1>5, <2>1 DEF Receive
    <3>3. UNCHANGED <<row, clock, run, counted, merges>>
      BY <1>5 DEF Receive
    <3>4. clock <= clock /\ clock <= clock + Lifetime
      BY <1>1
    <3>5. v.status = "ok" => merges'[b] = 1
      BY <3>1, <3>3, <1>1
    <3> HIDE DEF v
    <3>6. RequestsAreSound'
      BY <3>1, <3>2, <3>3, <3>4, <3>5, <2>1, <1>3, RequestStep
    <3> QED BY <3>3, <3>6, <1>3
  <2>2. CASE ~ValidBatch(b, clock)
    BY <1>3, <1>5, <2>2, ReplyStep DEF Receive
  <2> QED BY <2>1, <2>2
<1>6. CASE Load(c, k)
  <2> DEFINE outcome == Outcome(row, b, q.now)
  <2>1. UNCHANGED <<row, clock, run, counted, merges>> /\ q.pc = "load"
    BY <1>6 DEF Load
  <2>2. CASE outcome = "applied"
    <3> DEFINE v == [q EXCEPT !.pc = "store", !.seen = row]
    <3>1. /\ v \in Request /\ v.pc = "store" /\ v.now = q.now
          /\ v.seen = row /\ v.status = q.status
      BY <1>1 DEF Request, TypeOK
    <3>2. Update(c, k, v)
      BY <1>6, <2>2 DEF Load
    <3>3. v.status = "ok" => merges'[b] = 1
      BY <3>1, <2>1, <1>1
    <3>4. RequestsAreSound'
      <4> HIDE DEF v
      <4> QED BY <3>1, <3>2, <3>3, <2>1, <2>2, <1>2, <1>3, RequestStep DEF Running
    <3> QED BY <3>4, <2>1, <1>3
  <2>3. CASE outcome = "duplicate"
    <3>1. row # NoModel /\ Receipt(b) \in row.own.receipts
      BY <2>3, DuplicateIsKnown
    <3>2. PICK d \in counted : Receipt(b) = Receipt(d)
      BY <3>1 DEF IInv, ReceiptsAreCounted
    <3>3. d = b
      BY <3>2 DEF Receipt
    <3>4. merges[b] = 1
      BY <3>3, BatchType DEF IInv, CommittedOnce
    <3>5. Reply(c, k, "ok")
      BY <1>6, <2>3 DEF Load
    <3> QED BY <3>4, <3>5, <2>1, <1>3, ReplyStep
  <2>4. CASE outcome # "applied" /\ outcome # "duplicate"
    <3>1. Reply(c, k, "reject")
      BY <1>6, <2>4 DEF Load
    <3> QED BY <3>1, <2>1, <1>3, ReplyStep
  <2> QED BY <2>2, <2>3, <2>4
<1>7. CASE Store(c, k)
  BY <1>4, <1>7, ReplyStep DEF Store
<1>8. CASE StoreRaced(c, k)
  <2>1. UNCHANGED <<row, clock, run, counted, merges>> /\ q.pc = "store"
    BY <1>8 DEF StoreRaced
  <2>2. CASE q.tries + 1 < CasAttempts
    <3> DEFINE v == [q EXCEPT !.pc = "load", !.seen = NoModel, !.tries = @ + 1]
    <3>1. /\ v \in Request /\ v.pc = "load" /\ v.now = q.now
          /\ v.status = q.status
      <4>1. v \in Request
        BY <1>1, RequestType
      <4> QED BY <4>1, <1>1 DEF Request
    <3>2. Update(c, k, v)
      BY <1>8, <2>2 DEF StoreRaced
    <3>3. v.status = "ok" => merges'[b] = 1
      BY <3>1, <2>1, <1>1
    <3>4. RequestsAreSound'
      <4> HIDE DEF v
      <4> QED BY <3>1, <3>2, <3>3, <2>1, <1>2, <1>3, RequestStep DEF Running
    <3> QED BY <3>4, <2>1, <1>3
  <2>3. CASE ~(q.tries + 1 < CasAttempts)
    <3>1. Reply(c, k, "retry")
      BY <1>8, <2>3 DEF StoreRaced
    <3> QED BY <3>1, <2>1, <1>3, ReplyStep
  <2> QED BY <2>2, <2>3
<1>9. CASE StorageFails(c, k)
  BY <1>3, <1>9, ReplyStep DEF StorageFails
<1>10. CASE StoreUnconfirmed(c, k)
  BY <1>4, <1>10, ReplyStep DEF StoreUnconfirmed
<1> QED
  BY <1>5, <1>6, <1>7, <1>8, <1>9, <1>10 DEF ServerStep, Fault

(* Time passing keeps the invariant: what has expired stays expired.       *)
LEMMA TickKeepsIInv ==
    ASSUME IInv, Tick
    PROVE  BooksAreSound' /\ RequestsAreSound' /\ RunsAreSound'
<1>1. /\ clock \in 0..MaxClock /\ MaxClock \in Nat /\ clock' = clock + 1
      /\ clock < MaxClock /\ UNCHANGED <<row, run, req, counted, merges>>
      /\ Lifetime \in Nat /\ BatchMaxAge \in Nat
  BY WorkerAssumption, PolicyAssumption DEF IInv, TypeOK, Tick
<1>2. \A b \in Batches : Outdated(b) => Outdated(b)'
  BY <1>1, WorkerAssumption DEF Outdated
<1>3. BooksAreSound'
  <2>1. CountedIsGuarded' /\ CountedIsRecent' /\ ReceiptsAreCounted'
    BY <1>1 DEF IInv, CountedIsGuarded, CountedIsRecent, Guarded, ReceiptsAreCounted
  <2>2. CommittedOnce' /\ OneBodyPerIdentity'
    BY <1>1, <1>2 DEF IInv, CommittedOnce, OneBodyPerIdentity
  <2>3. clock' \in 0..MaxClock
    BY <1>1
  <2> QED
    BY <1>1, <2>1, <2>2, <2>3 DEF IInv, TypeOK, BooksAreSound
<1>4. RequestsAreSound'
  <2>1. RequestsAreTimely'
    <3> SUFFICES ASSUME NEW c \in Client, NEW k \in Posts, Running(c, k)
                 PROVE  /\ ValidBatch(BatchOf[c], req[c][k].now)
                        /\ req[c][k].now <= clock'
                        /\ clock' <= req[c][k].now + Lifetime
      BY <1>1 DEF RequestsAreTimely, Running
    <3>1. ValidBatch(BatchOf[c], req[c][k].now) /\ req[c][k].now <= clock
      BY DEF IInv, RequestsAreTimely
    <3>2. clock + 1 <= req[c][k].now + Lifetime
      BY DEF Tick
    <3>3. req[c][k].now \in Nat
      BY WorkerAssumption DEF IInv, TypeOK, Request
    <3> QED BY <3>1, <3>2, <3>3, <1>1
  <2> QED
    BY <1>1, <2>1 DEF IInv, TypeOK, RequestsAreSound, StoresAreDecided, OkIsCommitted,
       AnswersMakeSense
<1>5. RunsAreSound'
  BY <1>1, RunsStand
<1> QED
  BY <1>3, <1>4, <1>5

(* Deleting a stale row keeps the invariant: nothing in it can come back.  *)
LEMMA CleanupKeepsIInv ==
    ASSUME IInv, Cleanup
    PROVE  BooksAreSound' /\ RequestsAreSound' /\ RunsAreSound'
<1>1. /\ row # NoModel /\ row.own.updatedAt + CleanupAge < clock
      /\ row' = NoModel /\ counted' = {} /\ UNCHANGED <<clock, run, req, merges>>
      /\ counted \subseteq Batches
  BY DEF Cleanup, IInv, TypeOK
<1>2. ASSUME NEW b \in counted
      PROVE  Outdated(b)
  <2>1. b.produced <= row.own.updatedAt + FutureTolerance
    BY DEF IInv, CountedIsRecent
  <2>2. b.produced \in Nat
    BY <1>1, WorkerAssumption
  <2>3. row.own.updatedAt \in Nat
    BY <1>1 DEF IInv, TypeOK, Rows, ModelState, Leaf
  <2>4. clock \in Nat
    BY WorkerAssumption DEF IInv, TypeOK
  <2> QED
    BY <1>1, <2>1, <2>2, <2>3, <2>4, PolicyAssumption, WorkerAssumption,
       RetentionAssumption DEF Outdated
<1>3. CommittedOnce'
  BY <1>1, <1>2 DEF IInv, CommittedOnce, Outdated
<1>4. BooksAreSound'
  BY <1>1, <1>3 DEF BooksAreSound, IInv, TypeOK, CountedIsGuarded, CountedIsRecent,
     ReceiptsAreCounted, OneBodyPerIdentity
<1>5. RequestsAreSound'
  BY <1>1 DEF IInv, TypeOK, RequestsAreSound, RequestsAreTimely, Running,
     StoresAreDecided, OkIsCommitted, AnswersMakeSense
<1>6. RunsAreSound'
  BY <1>1, RunsStand
<1> QED
  BY <1>4, <1>5, <1>6

(* The invariant is inductive. *)
LEMMA NextIInv == IInv /\ [Next]_vars => IInv'
<1> SUFFICES ASSUME IInv, [Next]_vars
             PROVE  BooksAreSound' /\ RequestsAreSound' /\ RunsAreSound'
  BY DEF IInv, TypeOK, BooksAreSound, RequestsAreSound, RunsAreSound,
         OkIsCommitted, AnswersMakeSense
<1>1. CASE UNCHANGED vars
  BY <1>1, BooksStand, RunsStand
     DEF vars, BooksAreSound, IInv, TypeOK, RequestsAreSound, RequestsAreTimely,
         Running, StoresAreDecided, OkIsCommitted, AnswersMakeSense
<1>2. CASE Tick
  BY <1>2, TickKeepsIInv
<1>3. CASE Cleanup
  BY <1>3, CleanupKeepsIInv
<1>4. CASE \E c \in Client : ClientStep(c)
  BY <1>4, ClientKeepsIInv
<1>5. CASE \E c \in Client, k \in Posts : ServerStep(c, k) \/ Fault(c, k)
  BY <1>5, ServerKeepsIInv
<1> QED
  BY <1>1, <1>2, <1>3, <1>4, <1>5 DEF Next

(* The invariant holds of every behaviour. *)
THEOREM Invariance == Spec => []IInv
  BY InitIInv, NextIInv, PTL DEF Spec

(* Every reachable row is a model, and every request is well formed.       *)
THEOREM TypeCorrect == Spec => []TypeOK
<1>1. IInv => TypeOK
  BY DEF IInv
<1> QED BY <1>1, Invariance, PTL

(* However many runs post, retry, race or lose their answers, and however  *)
(* often the row is cleaned up, no batch is committed twice.               *)
THEOREM CommittedAtMostOnce == Spec => []ExactlyOnce
<1>1. IInv => ExactlyOnce
  BY DEF IInv, CommittedOnce, ExactlyOnce
<1> QED BY <1>1, Invariance, PTL

(* A client that was told its batch is merged was told the truth.          *)
THEOREM AcknowledgedIsMerged == Spec => []AckedIsMerged
<1>1. IInv => AckedIsMerged
  BY DEF IInv, OkIsCommitted
<1> QED BY <1>1, Invariance, PTL

(* Two bodies of one run attempt never both count while either could still *)
(* be recognised.                                                          *)
THEOREM OneBodyCounts == Spec => []OneBodyPerIdentity
<1>1. IInv => OneBodyPerIdentity
  BY DEF IInv
<1> QED BY <1>1, Invariance, PTL

------------------------------------------------------------------------------
(* The row is written by a commit of a request that saw it, or deleted.    *)
LEMMA RowIsCommitted ==
    ASSUME [Next]_vars, row' # row, row' # NoModel
    PROVE  \E c \in Client, k \in Posts :
              req[c][k].pc = "store" /\ row = req[c][k].seen /\ Commit(c, k)
<1>1. ~Tick /\ ~Cleanup /\ ~UNCHANGED vars
  BY DEF Tick, Cleanup, vars
<1>2. \A c \in Client : ~ClientStep(c)
  BY DEF ClientStep, Post, Answer, Disconnect, GiveUp
<1>3. PICK c \in Client, k \in Posts : ServerStep(c, k) \/ Fault(c, k)
  BY <1>1, <1>2 DEF Next
<1>4. Store(c, k) \/ StoreUnconfirmed(c, k)
  BY <1>3 DEF ServerStep, Fault, Receive, Load, StoreRaced, StorageFails
<1> QED
  BY <1>4 DEF Store, StoreUnconfirmed

(* No commit moves the dates of a row back, whatever clock its request had *)
(* read.                                                                   *)
THEOREM DatesNeverMoveBack == Spec => NeverBack
<1>1. ASSUME IInv, [Next]_vars, row' # row, row # NoModel, row' # NoModel
      PROVE  /\ row'.own.acceptAfter >= row.own.acceptAfter
             /\ row'.own.pruningDay >= row.own.pruningDay
             /\ row'.own.updatedAt >= row.own.updatedAt
  BY <1>1, RowIsCommitted, CommittedRow
<1>2. IInv /\ [Next]_vars =>
        [row # NoModel /\ row' # NoModel =>
           /\ row'.own.acceptAfter >= row.own.acceptAfter
           /\ row'.own.pruningDay >= row.own.pruningDay
           /\ row'.own.updatedAt >= row.own.updatedAt]_row
  BY <1>1
<1> QED
  BY <1>2, Invariance, PTL DEF Spec, NeverBack

(* No commit evicts a receipt that is still live. *)
THEOREM ReceiptsLiveOut == Spec => LiveReceiptsStay
<1>1. ASSUME IInv, [Next]_vars, row' # row, row # NoModel, row' # NoModel
      PROVE  \A r \in row.own.receipts \ row'.own.receipts :
                clock >= r.produced + ReceiptRetention
  <2> SUFFICES ASSUME NEW r \in row.own.receipts, r \notin row'.own.receipts
               PROVE  clock >= r.produced + ReceiptRetention
    OBVIOUS
  <2>1. r.produced + ReceiptRetention <= clock
    BY <1>1, RowIsCommitted, CommittedRow
  <2>2. r \in {Receipt(b) : b \in Batches}
    BY <1>1 DEF IInv, TypeOK, Rows, ModelState, Leaf
  <2>3. r.produced \in Nat /\ clock \in Nat
    BY <1>1, <2>2, WorkerAssumption DEF Receipt, IInv, TypeOK
  <2> QED BY <2>1, <2>3, PolicyAssumption
<1>2. IInv /\ [Next]_vars =>
        [row # NoModel /\ row' # NoModel =>
           \A r \in row.own.receipts \ row'.own.receipts :
              clock >= r.produced + ReceiptRetention]_row
  BY <1>1
<1> QED
  BY <1>2, Invariance, PTL DEF Spec, LiveReceiptsStay

------------------------------------------------------------------------------
(* The rows of a model are those its batches call for, and no batch is     *)
(* ahead of the day they are pruned to.                                    *)
RowIsLearned ==
    /\ Books(counted)
    /\ row # NoModel => /\ Reflects(row.own, counted, row.own.pruningDay)
                        /\ Early(counted, row.own.pruningDay)

(* The bookkeeping of a row changes when a batch is committed and when the *)
(* row is deleted, and at no other time.                                   *)
LEMMA LearningSteps ==
    ASSUME [Next]_vars
    PROVE  \/ UNCHANGED <<row, counted>>
           \/ row' = NoModel /\ counted' = {}
           \/ \E c \in Client, k \in Posts :
                 req[c][k].pc = "store" /\ row = req[c][k].seen /\ Commit(c, k)
<1>1. CASE UNCHANGED vars
  BY <1>1 DEF vars
<1>2. CASE Tick
  BY <1>2 DEF Tick
<1>3. CASE Cleanup
  BY <1>3 DEF Cleanup
<1>4. CASE \E c \in Client : ClientStep(c)
  BY <1>4 DEF ClientStep, Post, Answer, Disconnect, GiveUp
<1>5. ASSUME NEW c \in Client, NEW k \in Posts, ServerStep(c, k) \/ Fault(c, k)
      PROVE  \/ UNCHANGED <<row, counted>>
             \/ req[c][k].pc = "store" /\ row = req[c][k].seen /\ Commit(c, k)
  BY <1>5 DEF ServerStep, Fault, Receive, Load, Store, StoreRaced, StorageFails, StoreUnconfirmed
<1> QED
  BY <1>1, <1>2, <1>3, <1>4, <1>5 DEF Next

LEMMA CommitLearns ==
    ASSUME IInv, RowIsLearned, NEW c \in Client, NEW k \in Posts,
           req[c][k].pc = "store", row = req[c][k].seen, Commit(c, k)
    PROVE  RowIsLearned'
<1> DEFINE R == {Receipt(d) : d \in Batches}
           C == {Receipt(d) : d \in ChildBatches}
<1> PICK b : b = BatchOf[c]
  OBVIOUS
<1> PICK now : now = req[c][k].now
  OBVIOUS
<1> PICK m : m = ModelOrFresh(row, now).own
  OBVIOUS
<1> PICK U : U = counted \cup {b}
  OBVIOUS
<1>1. now \in Nat
  BY WorkerAssumption DEF IInv, TypeOK, Request
<1>2. ValidAggregates(b.aggregates, now)
  BY DEF IInv, RequestsAreTimely, Running, ValidBatch
<1>3. b \in Batches /\ b.id \in Nat
  BY BatchType
<1>4. b.aggregates \in SUBSET Aggregate /\ IsFiniteSet(b.aggregates)
  BY <1>3, WorkerAssumption
<1>5. Joined(U, counted, b)
  BY StoredBatchIsNew DEF Joined
<1>6. Telling(b)
  BY <1>2, <1>3, <1>4 DEF Telling, ValidAggregates, OncePerDay, Counted
<1>7. Books(U)
  <2>1. IsFiniteSet(U)
    BY FS_AddElement DEF RowIsLearned, Books
  <2> QED
    BY <1>6, <2>1 DEF RowIsLearned, Books
<1>8. row \in ModelState(R, C) \cup {NoModel}
  BY DEF IInv, TypeOK, Rows
<1>9. m \in Leaf(R) /\ Reflects(m, counted, m.pruningDay) /\ Early(counted, m.pruningDay)
  <2>1. CASE row = NoModel
    <3>1. m = FreshLeaf(now)
      BY <2>1 DEF ModelOrFresh, FreshModel
    <3>2. m \in Leaf(R)
      <4> HIDE DEF R
      <4> QED
        BY <1>1, <3>1, FreshLeafType
    <3>3. m.buckets = {} /\ m.recents = {} /\ m.pruningDay \in Nat
      BY <1>1, <3>1, DayOfType DEF FreshLeaf
    <3>4. counted = {}
      BY <2>1 DEF IInv, CountedIsGuarded, Guarded
    <3>5. Reflects(m, {}, m.pruningDay) /\ Early({}, m.pruningDay)
      BY <3>3, NothingReflected
    <3> QED
      BY <3>2, <3>4, <3>5
  <2>2. CASE row # NoModel
    <3>1. m = row.own
      BY <2>2 DEF ModelOrFresh
    <3> QED
      BY <1>8, <2>2, <3>1 DEF ModelState, RowIsLearned
  <2> QED
    BY <2>1, <2>2
<1>10. row'.own = MergeOwn(m, b, now) /\ counted' = U
  BY DEF Commit, ApplyBatch, Merged
<1> PICK n : n = MergeOwn(m, b, now)
  OBVIOUS
<1>11. Reflects(n, U, n.pruningDay) /\ Early(U, n.pruningDay)
  <2> HIDE DEF R
  <2> QED
    BY <1>1, <1>2, <1>5, <1>7, <1>9, MergeReflects
<1> QED
  BY <1>7, <1>10, <1>11 DEF RowIsLearned

(* Whatever the order in which batches were accepted, the clocks their     *)
(* requests had read and the days that were pruned on the way, the row     *)
(* holds what the accepted batches say of the days that are kept.          *)
THEOREM StoredFollowsFromTheBatches == Spec => []StoredIsReference
<1>1. Init => RowIsLearned
  <2> SUFFICES ASSUME Init PROVE Books({})
    BY DEF Init, RowIsLearned
  <2>1. IsFiniteSet({})
    BY FS_EmptySet
  <2> QED
    BY <2>1 DEF Books
<1>2. ASSUME IInv, RowIsLearned, [Next]_vars PROVE RowIsLearned'
  <2>1. CASE UNCHANGED <<row, counted>>
    BY <1>2, <2>1 DEF RowIsLearned
  <2>2. CASE row' = NoModel /\ counted' = {}
    <3>1. Books({})
      BY FS_EmptySet DEF Books
    <3> QED
      BY <2>2, <3>1 DEF RowIsLearned
  <2>3. CASE \E c \in Client, k \in Posts :
               req[c][k].pc = "store" /\ row = req[c][k].seen /\ Commit(c, k)
    BY <1>2, <2>3, CommitLearns
  <2> QED
    BY <1>2, <2>1, <2>2, <2>3, LearningSteps
<1>3. RowIsLearned => StoredIsReference
  BY DEF RowIsLearned, Reflects, StoredIsReference
<1> QED
  BY <1>1, <1>2, <1>3, Invariance, PTL DEF Spec

------------------------------------------------------------------------------
(* The history server implements the ledger. *)
Forgotten == {b \in Batches : merges[b] > 0} \ counted

(* What the ledger sees of a step that leaves the books alone. *)
LEMMA BooksStandInLedger ==
    ASSUME UNCHANGED <<counted, merges>>
    PROVE  counted' = counted /\ Forgotten' = Forgotten
  BY DEF Forgotten

(* A client's step is a stutter of the ledger or tells that client.        *)
LEMMA ClientImplements ==
    ASSUME IInv, NEW c \in Client, ClientStep(c)
    PROVE  [Ledger!Next]_(Ledger!vars)
<1> DEFINE told == [d \in Client |-> Told(d)]
<1>1. UNCHANGED <<counted, merges>>
  BY DEF ClientStep, Post, Answer, Disconnect, GiveUp
<1>2. run \in [Client -> [state : {"ready", "waiting", "merged", "unmerged"},
                         posts : 0..MaxPosts]]
  BY DEF IInv, TypeOK
<1>3. ASSUME NEW r, run' = [run EXCEPT ![c] = r]
      PROVE  told' = [told EXCEPT ![c] =
                        IF r.state \in {"merged", "unmerged"} THEN r.state ELSE "asking"]
  BY <1>2, <1>3 DEF Told
<1>4. told[c] = Told(c)
  OBVIOUS
<1>5. ASSUME told' = told PROVE [Ledger!Next]_(Ledger!vars)
  BY <1>1, <1>5, BooksStandInLedger DEF Ledger!vars, Forgotten
<1>6. ASSUME told[c] = "asking", told' = [told EXCEPT ![c] = "unmerged"]
      PROVE  [Ledger!Next]_(Ledger!vars)
  BY <1>1, <1>6, BooksStandInLedger DEF Ledger!Next, Ledger!GiveUp, Forgotten
<1>7. ASSUME told[c] = "asking", told' = [told EXCEPT ![c] = "merged"],
             merges[BatchOf[c]] = 1
      PROVE  [Ledger!Next]_(Ledger!vars)
  <2>1. BatchOf[c] \in counted \cup Forgotten
    BY <1>7, BatchType DEF Forgotten
  <2> QED
    BY <1>1, <1>7, <2>1, BooksStandInLedger DEF Ledger!Next, Ledger!TellMerged, Forgotten
<1>8. CASE Post(c)
  <2>1. run' = [run EXCEPT ![c] = [state |-> "waiting", posts |-> run[c].posts + 1]]
        /\ run[c].state = "ready"
    BY <1>8 DEF Post
  <2>2. told' = [told EXCEPT ![c] = "asking"] /\ told[c] = "asking"
    BY <2>1, <1>3, <1>4 DEF Told
  <2>3. told' = told
    BY <2>2
  <2> QED BY <2>3, <1>5
<1>9. CASE Answer(c)
  <2> DEFINE status == req[c][run[c].posts].status
             r == [run[c] EXCEPT !.state = Answered(status)]
  <2>1. run' = [run EXCEPT ![c] = r] /\ run[c].state = "waiting"
    BY <1>2, <1>9 DEF Answer
  <2>2. r.state = Answered(status)
    BY <1>2
  <2>3. told' = [told EXCEPT ![c] = IF Answered(status) \in {"merged", "unmerged"}
                                    THEN Answered(status) ELSE "asking"]
    <3> HIDE DEF r
    <3>1. told' = [told EXCEPT ![c] =
                     IF r.state \in {"merged", "unmerged"} THEN r.state ELSE "asking"]
      BY <2>1, <1>3
    <3> QED BY <3>1, <2>2
  <2>4. told[c] = "asking"
    BY <2>1, <1>4 DEF Told
  <2>5. /\ run[c].posts \in Posts /\ status \in {"ok", "reject", "retry"}
        /\ status = "ok" => merges[BatchOf[c]] = 1
    BY <1>9 DEF Answer, IInv, TypeOK, Request, AnswersMakeSense, OkIsCommitted
  <2>6. CASE status = "ok"
    BY <2>3, <2>4, <2>5, <2>6, <1>7 DEF Answered
  <2>7. CASE status = "reject"
    BY <2>3, <2>4, <2>7, <1>6 DEF Answered
  <2>8. CASE status = "retry"
    BY <2>3, <2>4, <2>8, <1>5 DEF Answered
  <2> QED BY <2>5, <2>6, <2>7, <2>8
<1>10. CASE Disconnect(c)
  <2> DEFINE r == [run[c] EXCEPT !.state = "ready"]
  <2>1. run' = [run EXCEPT ![c] = r] /\ run[c].state = "waiting" /\ r.state = "ready"
    BY <1>2, <1>10 DEF Disconnect
  <2>2. told' = [told EXCEPT ![c] = "asking"] /\ told[c] = "asking"
    BY <2>1, <1>3, <1>4 DEF Told
  <2>3. told' = told
    BY <2>2
  <2> QED BY <2>3, <1>5
<1>11. CASE GiveUp(c)
  <2> DEFINE r == [run[c] EXCEPT !.state = "unmerged"]
  <2>1. run' = [run EXCEPT ![c] = r] /\ run[c].state = "ready" /\ r.state = "unmerged"
    BY <1>2, <1>11 DEF GiveUp
  <2>2. told' = [told EXCEPT ![c] = "unmerged"] /\ told[c] = "asking"
    BY <2>1, <1>3, <1>4 DEF Told
  <2> QED BY <2>2, <1>6
<1> QED
  BY <1>8, <1>9, <1>10, <1>11 DEF ClientStep

(* A commit is the moment the ledger learns the batch. *)
LEMMA CommitImplements ==
    ASSUME IInv, NEW c \in Client, NEW k \in Posts,
           req[c][k].pc = "store", row = req[c][k].seen, Commit(c, k),
           UNCHANGED run
    PROVE  Ledger!Learn(c)
<1>1. /\ BatchOf[c] \notin counted /\ merges[BatchOf[c]] = 0
      /\ BatchOf[c] \in Batches /\ merges \in [Batches -> Nat]
      /\ counted' = counted \cup {BatchOf[c]}
      /\ merges' = [merges EXCEPT ![BatchOf[c]] = @ + 1]
  BY StoredBatchIsNew, BatchType DEF Commit, IInv, TypeOK
<1>2. \A b \in Batches : merges'[b] = IF b = BatchOf[c] THEN 1 ELSE merges[b]
  BY <1>1
<1>3. Forgotten' = Forgotten
  BY <1>1, <1>2 DEF Forgotten
<1>4. BatchOf[c] \notin counted \cup Forgotten
  BY <1>1 DEF Forgotten
<1>5. [d \in Client |-> Told(d)]' = [d \in Client |-> Told(d)]
  BY DEF Told
<1> QED
  BY <1>1, <1>3, <1>4, <1>5 DEF Ledger!Learn, Forgotten

(* Deleting the row is the moment the ledger forgets. *)
LEMMA CleanupImplements ==
    ASSUME IInv, Cleanup
    PROVE  Ledger!Forget
<1>1. counted' = {} /\ UNCHANGED <<merges, run>> /\ counted \subseteq Batches
  BY DEF Cleanup, IInv, TypeOK
<1>2. \A b \in counted : merges[b] = 1
  BY <1>1 DEF IInv, CommittedOnce
<1>3. Forgotten' = Forgotten \cup counted
  BY <1>1, <1>2 DEF Forgotten
<1>4. [d \in Client |-> Told(d)]' = [d \in Client |-> Told(d)]
  BY <1>1 DEF Told
<1> QED
  BY <1>1, <1>3, <1>4 DEF Ledger!Forget, Forgotten

(* The history server, with its rows, clocks, races, retries and           *)
(* deletions, implements the ledger: a batch is learned at most once, and  *)
(* clients hear the truth.                                                 *)
THEOREM ServerImplementsLedger == Spec => ImplementsLedger
<1>1. Init => Ledger!Init
  <2> SUFFICES ASSUME Init PROVE Ledger!Init
    OBVIOUS
  <2>1. counted = {} /\ {b \in Batches : merges[b] > 0} = {}
    BY DEF Init
  <2>2. \A c \in Client : Told(c) = "asking"
    BY DEF Init, Told
  <2> QED BY <2>1, <2>2 DEF Ledger!Init
<1>2. IInv /\ [Next]_vars => [Ledger!Next]_(Ledger!vars)
  <2> SUFFICES ASSUME IInv, [Next]_vars PROVE [Ledger!Next]_(Ledger!vars)
    OBVIOUS
  <2>1. ASSUME UNCHANGED <<counted, merges, run>>
        PROVE  [Ledger!Next]_(Ledger!vars)
    BY <2>1 DEF Ledger!vars, Told
  <2>2. CASE UNCHANGED vars \/ Tick
    BY <2>1, <2>2 DEF vars, Tick
  <2>3. CASE Cleanup
    BY <2>3, CleanupImplements DEF Ledger!Next
  <2>4. CASE \E c \in Client : ClientStep(c)
    BY <2>4, ClientImplements
  <2>5. ASSUME NEW c \in Client, NEW k \in Posts, ServerStep(c, k) \/ Fault(c, k)
        PROVE  [Ledger!Next]_(Ledger!vars)
    <3>1. CASE Store(c, k) \/ StoreUnconfirmed(c, k)
      BY <3>1, CommitImplements DEF Store, StoreUnconfirmed, Ledger!Next
    <3>2. CASE Receive(c, k) \/ Load(c, k) \/ StoreRaced(c, k) \/ StorageFails(c, k)
      BY <3>2, <2>1 DEF Receive, Load, StoreRaced, StorageFails
    <3> QED BY <2>5, <3>1, <3>2 DEF ServerStep, Fault
  <2> QED BY <2>2, <2>3, <2>4, <2>5 DEF Next
<1> QED
  BY <1>1, <1>2, Invariance, PTL DEF Spec, ImplementsLedger, Ledger!Spec
==============================================================================
