---------------------------- MODULE HistoryWorker ----------------------------
(***************************************************************************)
(* One scope of the history server: workflow runs post their batch to      *)
(* :merge (.github/actions/history/run.sh), requests run concurrently in   *)
(* as many isolates as the platform likes (crates/history-worker), and     *)
(* they meet in one database row that is replaced by compare-and-swap.     *)
(* Between two awaits of a request any other request, the daily cleanup or *)
(* the clock may move.  What one application of a batch does to the model  *)
(* is PredictionModel!ApplyBatch.                                          *)
(***************************************************************************)
EXTENDS BatchReference

CONSTANTS
    Client,       \* workflow runs (or repeated jobs) with a batch to post
    BatchOf,      \* the batch each of them posts
    MaxPosts,     \* posts a client makes before it gives up
    CasAttempts,  \* CAS_ATTEMPTS
    CleanupAge,   \* age at which the scheduled cleanup deletes the row
    Lifetime,     \* bound: how long the platform lets one request run
    MaxClock      \* bound: the last tick of the clock

VARIABLES
    row,      \* the prediction_state row of the scope, or NoModel
    clock,    \* Date.now() of every isolate
    run,      \* per client: [state, posts]
    req,      \* per client and post: the request on the server
    counted,  \* history: batches folded into the present row
    merges    \* history: how often each batch was committed

vars == <<row, clock, run, req, counted, merges>>

Batches == {BatchOf[c] : c \in Client}
Posts == 1..MaxPosts

ChildBatches ==
    UNION {{b.environments[e] : e \in DOMAIN b.environments} : b \in Batches}

Rows ==
    ModelState({Receipt(b) : b \in Batches}, {Receipt(b) : b \in ChildBatches})

Request ==
    [ pc : {"none", "arrived", "load", "store", "replied", "done"},
      now : 0..MaxClock, seen : Rows \cup {NoModel}, tries : Nat,
      status : {"none", "ok", "reject", "retry"} ]

ASSUME WorkerAssumption ==
    /\ NoModel \notin Rows
    /\ {MaxPosts, CasAttempts, CleanupAge, Lifetime, MaxClock} \subseteq Nat
    /\ \A b \in Batches :
          /\ b.id \in Nat /\ b.produced \in Nat
          /\ b.aggregates \subseteq Aggregate /\ IsFiniteSet(b.aggregates)
          /\ DOMAIN b.environments \subseteq Envs
          /\ \A e \in DOMAIN b.environments :
                b.environments[e].aggregates \subseteq Aggregate
    /\ \A b, c \in Batches : OneReport(b, c)

(* Receipts outlive the batches they guard against, and a row is deleted   *)
(* only long after every batch in it has expired.                          *)
ASSUME RetentionAssumption ==
    /\ ReceiptRetention >= BatchMaxAge
    /\ CleanupAge >= BatchMaxAge + FutureTolerance + Lifetime

NoRequest == [pc |-> "none", now |-> 0, seen |-> NoModel, tries |-> 0,
              status |-> "none"]

Finished == [NoRequest EXCEPT !.pc = "done"]

Init ==
    /\ row = NoModel
    /\ clock = 0
    /\ run = [c \in Client |-> [state |-> "ready", posts |-> 0]]
    /\ req = [c \in Client |-> [k \in Posts |-> NoRequest]]
    /\ counted = {}
    /\ merges = [b \in Batches |-> 0]

------------------------------------------------------------------------------
Update(c, k, request) == req' = [req EXCEPT ![c][k] = request]

(* The client: up to MaxPosts posts of the same bytes; 200 ends it, a 5xx  *)
(* or a broken connection is tried again while the budget lasts, anything  *)
(* else ends it.                                                           *)
Post(c) ==
    /\ run[c].state = "ready"
    /\ run[c].posts < MaxPosts
    /\ LET k == run[c].posts + 1
       IN  /\ run' = [run EXCEPT ![c] = [state |-> "waiting", posts |-> k]]
           /\ Update(c, k, [req[c][k] EXCEPT !.pc = "arrived"])
    /\ UNCHANGED <<row, clock, counted, merges>>

(* A mutant: a conflict is taken for a batch that is merged already.       *)
AnsweredLax(status) ==
    CASE status \in {"ok", "reject"} -> "merged"
      [] status = "retry"             -> "ready"

Answered(status) ==
    CASE status = "ok"     -> "merged"
      [] status = "reject" -> "unmerged"
      [] status = "retry"  -> "ready"

Answer(c) ==
    /\ run[c].state = "waiting"
    /\ req[c][run[c].posts].pc = "replied"
    /\ run' = [run EXCEPT ![c].state = Answered(req[c][run[c].posts].status)]
    /\ Update(c, run[c].posts, Finished)
    /\ UNCHANGED <<row, clock, counted, merges>>

(* curl reports 000, or a 200 that cannot be read: the answer is lost, the *)
(* request may still be running.                                           *)
Disconnect(c) ==
    /\ run[c].state = "waiting"
    /\ run' = [run EXCEPT ![c].state = "ready"]
    /\ LET k == run[c].posts
       IN  Update(c, k, IF req[c][k].pc = "replied" THEN Finished ELSE req[c][k])
    /\ UNCHANGED <<row, clock, counted, merges>>

(* No attempt is left, or no time. *)
GiveUp(c) ==
    /\ run[c].state = "ready"
    /\ run' = [run EXCEPT ![c].state = "unmerged"]
    /\ UNCHANGED <<row, clock, req, counted, merges>>

------------------------------------------------------------------------------
(* The server: merge_observations. *)
Listening(c, k) == run[c] = [state |-> "waiting", posts |-> k]

(* An answer nobody waits for any more is dropped. *)
Reply(c, k, status) ==
    Update(c, k, IF Listening(c, k)
                 THEN [NoRequest EXCEPT !.pc = "replied", !.status = status]
                 ELSE Finished)

(* The clock is read once; the loop below keeps using that value. *)
Receive(c, k) ==
    /\ req[c][k].pc = "arrived"
    /\ IF ValidBatch(BatchOf[c], clock)
       THEN Update(c, k, [req[c][k] EXCEPT !.pc = "load", !.now = clock])
       ELSE Reply(c, k, "reject")
    /\ UNCHANGED <<row, clock, run, counted, merges>>

Load(c, k) ==
    /\ req[c][k].pc = "load"
    /\ LET outcome == Outcome(row, BatchOf[c], req[c][k].now)
       IN  CASE outcome = "applied" ->
                  Update(c, k, [req[c][k] EXCEPT !.pc = "store", !.seen = row])
             [] outcome = "duplicate" -> Reply(c, k, "ok")
             [] OTHER                 -> Reply(c, k, "reject")
    /\ UNCHANGED <<row, clock, run, counted, merges>>

Commit(c, k) ==
    /\ row' = ApplyBatch(req[c][k].seen, BatchOf[c], req[c][k].now)
    /\ counted' = counted \cup {BatchOf[c]}
    /\ merges' = [merges EXCEPT ![BatchOf[c]] = @ + 1]

(* A mutant: the row is written without comparing it. *)
StoreBlind(c, k) ==
    /\ req[c][k].pc = "store"
    /\ Commit(c, k)
    /\ Reply(c, k, "ok")
    /\ UNCHANGED <<clock, run>>

Store(c, k) ==
    /\ req[c][k].pc = "store"
    /\ row = req[c][k].seen
    /\ Commit(c, k)
    /\ Reply(c, k, "ok")
    /\ UNCHANGED <<clock, run>>

(* A mutant: a lost race is final. *)
StoreRacedIsFinal(c, k) ==
    /\ req[c][k].pc = "store"
    /\ row # req[c][k].seen
    /\ Reply(c, k, "reject")
    /\ UNCHANGED <<row, clock, run, counted, merges>>

(* The row changed since it was loaded. *)
StoreRaced(c, k) ==
    /\ req[c][k].pc = "store"
    /\ row # req[c][k].seen
    /\ IF req[c][k].tries + 1 < CasAttempts
       THEN Update(c, k, [req[c][k] EXCEPT !.pc = "load", !.seen = NoModel,
                                           !.tries = @ + 1])
       ELSE Reply(c, k, "retry")
    /\ UNCHANGED <<row, clock, run, counted, merges>>

(* The database reports an error; a failed store may have been committed.  *)
StorageFails(c, k) ==
    /\ req[c][k].pc \in {"load", "store"}
    /\ Reply(c, k, "retry")
    /\ UNCHANGED <<row, clock, run, counted, merges>>

StoreUnconfirmed(c, k) ==
    /\ req[c][k].pc = "store"
    /\ row = req[c][k].seen
    /\ Commit(c, k)
    /\ Reply(c, k, "retry")
    /\ UNCHANGED <<clock, run>>

(* A mutant: a row is stale as soon as a receipt could be. *)
CleanupEarly ==
    /\ row # NoModel
    /\ row.own.updatedAt + 1 < clock
    /\ row' = NoModel
    /\ counted' = {}
    /\ UNCHANGED <<clock, run, req, merges>>

(* cleanup_stale_history; a row beyond its batch of 10,000 waits a day.    *)
Cleanup ==
    /\ row # NoModel
    /\ row.own.updatedAt + CleanupAge < clock
    /\ row' = NoModel
    /\ counted' = {}
    /\ UNCHANGED <<clock, run, req, merges>>

Running(c, k) == req[c][k].pc \in {"load", "store"}

Tick ==
    /\ clock < MaxClock
    /\ \A c \in Client, k \in Posts :
          Running(c, k) => clock + 1 <= req[c][k].now + Lifetime
    /\ clock' = clock + 1
    /\ UNCHANGED <<row, run, req, counted, merges>>

ClientStep(c) == Post(c) \/ Answer(c) \/ Disconnect(c) \/ GiveUp(c)
ServerStep(c, k) == Receive(c, k) \/ Load(c, k) \/ Store(c, k) \/ StoreRaced(c, k)
Fault(c, k) == StorageFails(c, k) \/ StoreUnconfirmed(c, k)

Next ==
    \/ Tick
    \/ Cleanup
    \/ \E c \in Client : ClientStep(c)
    \/ \E c \in Client, k \in Posts : ServerStep(c, k) \/ Fault(c, k)

Spec == Init /\ [][Next]_vars

(* Weak fairness of every isolate, with its enabling condition spelled out:*)
(* a request that is on the server is eventually stepped.  The platform    *)
(* does not suspend one isolate for ever while others run.                 *)
Pending(c, k) == req[c][k].pc \in {"arrived", "load", "store"}

IsolatesRun ==
    \A c \in Client, k \in Posts :
       []<>~Pending(c, k) \/ []<><<ServerStep(c, k)>>_vars

(* A day without faults: no broken connection, no storage error, and time  *)
(* enough for every attempt.  A client that used up its posts is stuck     *)
(* with its batch unmerged.                                                *)
CalmClient(c) == Post(c) \/ Answer(c)

CalmNext ==
    \/ Tick
    \/ \E c \in Client : CalmClient(c)
    \/ \E c \in Client, k \in Posts : ServerStep(c, k)

CalmSpec ==
    /\ Init /\ [][CalmNext]_vars
    /\ \A c \in Client : WF_vars(CalmClient(c))
    /\ IsolatesRun

------------------------------------------------------------------------------
(* Type invariant: the row is a ModelState or absent, and a request keeps  *)
(* what its next await needs.                                              *)
TypeOK ==
    /\ row \in Rows \cup {NoModel}
    /\ clock \in 0..MaxClock
    /\ run \in [Client -> [state : {"ready", "waiting", "merged", "unmerged"},
                           posts : 0..MaxPosts]]
    /\ req \in [Client -> [Posts -> Request]]
    /\ counted \subseteq Batches
    /\ merges \in [Batches -> Nat]

(* A batch is committed at most once in its life: not by a retry after a   *)
(* lost answer, not by a store the database did not confirm, not by a slow *)
(* request that outlives the receipt, and not after the row was cleaned up.*)
ExactlyOnce == \A b \in Batches : merges[b] <= 1

(* A client that was told 200 has its batch in the history, once.          *)
AckedIsMerged ==
    \A c \in Client : run[c].state = "merged" => merges[BatchOf[c]] = 1

(* Two different bodies under one run identity are never both learned,     *)
(* unless the second claims to be produced after the receipt of the first  *)
(* may have been dropped.                                                  *)
OneBodyPerIdentity ==
    \A b, d \in Batches :
       /\ b.id = d.id /\ b # d
       /\ d.produced <= b.produced + (ReceiptRetention - BatchMaxAge)
       /\ b.produced <= d.produced + (ReceiptRetention - BatchMaxAge)
       => ~(b \in counted /\ d \in counted)

(* The stored buckets and summaries depend only on which batches were      *)
(* accepted and on the pruning day: never on their order, the retries, the *)
(* clock a request read or the days that were pruned on the way.           *)
StoredIsReference ==
    row # NoModel =>
      /\ row.own.buckets = ReferenceBuckets(counted, row.own.pruningDay)
      /\ row.own.recents = ReferenceRecents(counted, row.own.pruningDay)

(* While a row lives, its acceptance watermark, its pruning day and its    *)
(* update time never move back, even when a slow request with an old clock *)
(* commits last.                                                           *)
NeverBack ==
    [][row # NoModel /\ row' # NoModel =>
         /\ row'.own.acceptAfter >= row.own.acceptAfter
         /\ row'.own.pruningDay >= row.own.pruningDay
         /\ row'.own.updatedAt >= row.own.updatedAt]_row

(* A receipt leaves the row only with the whole row or after its retention.*)
LiveReceiptsStay ==
    [][row # NoModel /\ row' # NoModel =>
         \A r \in row.own.receipts \ row'.own.receipts :
            clock >= r.produced + ReceiptRetention]_row

(* On a calm day every client's batch ends up learned, although every      *)
(* client writes the same row: a lost race costs a retry, never the batch. *)
EveryBatchLands ==
    \A c \in Client :
       (run[c].state = "waiting") ~> (run[c].state = "merged" /\ merges[BatchOf[c]] = 1)

(* What HistoryWorker implements. *)
Told(c) ==
    IF run[c].state \in {"merged", "unmerged"} THEN run[c].state ELSE "asking"

Ledger == INSTANCE BatchLedger
    WITH learned <- counted,
         forgotten <- {b \in Batches : merges[b] > 0} \ counted,
         told <- [c \in Client |-> Told(c)]

ImplementsLedger == Ledger!Spec
==============================================================================
