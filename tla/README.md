# Verification of nanoom

nanoom finds the work items of a monorepo that a change affects, distributes them over GitHub
Actions jobs by predicted duration, executes them, decides whether the run is green and learns
from the measured durations. This directory holds TLA+ modules of its stateful parts, the TLC
configurations that check them and TLAPS proofs about them. Paths below are relative to the
repository. The Rust crates and the Go packages implement the same contract
(docs/adr/0017-go-runtime-migration.md keeps Rust as the oracle); the modules follow the Rust
text and were compared with the Go text, and refer to whichever is the shorter to read.

## 1. Inventory

| Part | State it keeps | Operations | Talks to |
|---|---|---|---|
| affected Action, `nanoom affected` | the Plan (file, reference, artifact) | resolve revisions, calculate affected items, assign, warm re-plan, upload | git, history (read), coordinator (register) |
| prepare / install | selected assignment, checkout | validate the reference, select, check out, install | Plan artifact |
| run Action, `nanoom run` | position in the assignment, measurements | execute items in order, stop at the first failure; or claim items from a coordinator | task runner, coordinator |
| status Action | verdict, `publish-history` | judge `needs`, then publish | history |
| history Action, `nanoom history` | compiled batches, previous model | find the previous model, compile, apply or post, upload | artifacts, history server |
| prediction model | `ModelState`: day buckets, recent summaries, receipts, watermark, runner environments | `apply_batch`, `project_predictions`, validation | used by the two below |
| history server (Worker or Go) | one row per scope: model and digest | merge, snapshot, daily cleanup | SQL database |
| artifact history | model and prediction artifacts of successful runs | look up, extend, publish | GitHub artifacts |
| scheduler, affected graph, git, configuration | none between calls | pure functions of files and predictions | |

How they interact. Planning hands the run jobs a *reference* (run, producer attempt, digest); the
Plan itself travels as an artifact that may be gone or be another attempt's. Run jobs hand their
measurements to the status job as artifacts named by run and attempt. The status job hands one
immutable `ObservationBatch` per scope to history: over HTTP with retries (server backend) or by
extending the newest published model (artifact backend). Planning reads the predictions back
under a three-second budget and does without them if anything is late.

What is hard, and what makes each part correct:

* **History server.** Many isolates, one row; lost answers, repeated posts, database errors after
  the effect, a clock read once per request, three retention windows and a cleanup that deletes
  the row. Correct: a batch is learned at most once, an acknowledgement is true, the stored model
  depends only on the accepted batches, dates never move back, contention does not lose batches.
* **Prediction model.** Late and early dates, pruning, limits, runner environments that age by a
  different path than they merge. Correct: no legal sequence of batches makes the model fail its
  own validation, parent and children agree, what is served is valid but for its number of rows, the
  pool averages.
* **A workflow run.** Attempts, partial re-runs, skipped and cancelled jobs, expired artifacts, a
  new Plan beside an older one. Correct: green means everything affected was executed; no item
  twice in an attempt; nothing learned twice; every attempt is judged.
* **Artifact history.** Overlapping runs, two uploads that must be seen as one, fall back from a
  pull request to its base, pointer mismatches, re-runs, one page of runs for all streams of a branch
  name. Correct: a visible marker names a model of its own run, made from one earlier model; what was
  learned once stays learned, unless runs overlap, are run again, a transfer fails, or the page ends.
* **Planning.** A second planner that may be killed at any point, history of another scope or none, a
  shallow clone. Correct: reference, matrix and Plan file are of one Plan; every item once; the diff
  starts at a common ancestor.
* **Continuous agents.** Leases, heartbeats, idempotency keys, restarts. Whether an item is executed
  by one agent at a time is decided by a coordinator outside this repository.
* **Scheduler, graph, git.** Partition of the items, bound on the makespan, fewer jobs only on learned
  times, closure of dependents, order, termination of deepening.

`PROJECT.json` lists the components with what is left out of each ("components") and every hazard
with its line and the properties that cover it ("hazards").

## 2. Plan

| # | Module | Abstract specification / reference | State |
|---|---|---|---|
| 1 | `PredictionModel` | `BatchReference` | done |
| 2 | `HistoryWorker` (extends 1) | `BatchLedger` | done, proved |
| 3 | `ModelHistory` (extends 1) | `BatchReference` | done, proved |
| 4 | `WorkflowRun` | its own invariants | done, proved |
| 5 | `AffectedGraph` | least closed set of dependents | done, proved |
| 6 | `Orders`, `Revision`, `Scheduler`, and `Planning` (extends them) | partition of the items, the list-scheduling bound | done, proved |
| 7 | `ArtifactHistory` | a chain of models, each of one earlier marker and one batch | done, proved |
| 8 | `Compilation` (extends 1) | the cells straight from the files | done, proved |

"Proved" is said of safety and action properties; liveness stays with TLC. Continuous agents are
not in the plan (section 7).

## 3. Modules and code

**PredictionModel** is `crates/prediction-core/src/lib.rs` as operators. A `ModelState` is a
relation: `buckets` and `recents` hold the rows of all keys, so an entry of the code is the set of
rows with its key. Receipts are the batches themselves (a digest is injective). A child model per
runner environment is one more leaf. `Outcome(model, batch, now)` is the result of `apply_batch`
(applied, duplicate, conflict, ...), `ApplyBatch` the state it returns, in the order of the code:
validate, receipt, watermark, prune and fold, trim to `MAX_BUCKETS` and three summaries, receipts,
environments that the batch mentions, ageing of the others, validation.
`ProjectPredictions` is the served table with its pooled rows, `ValidTable` what its readers check of
it: rows, environments, and `RowTotal`, the rows of the root and of all environments, against
`MAX_KEYS`; `RangeEnvironments` is the set that `environment_range` folds. All limits of lines 6-20 are CONSTANTS. The prediction cached in an
entry is a function of its rows that every write path recomputes; it is derived where it is read.

**Compilation** is `nanoom history` up to the batch: `Load` reads the next measurement file and skips
what `load_measurements` skips, `Group` is the loop that sorts the files by runner environment and
gives the scope up when one execution is told of two, `Compile` the compilation of all observations
together and of each group by itself, with everything `compile_batch_with_preparation` refuses.
`Aggregates` are the cells (key and day) of a sequence of observations, in which an execution counts
at its first report only. A digest of a key or an environment is the key or the environment; the exact
and the fallback key of an execution are of different kinds, so they differ.

**BatchReference** says what a *set* of batches teaches, without order or time: day totals,
summaries, the newest of each. It is what the incremental code is compared with. A sample is a row
together with the batch that reports it, so that two batches which say the same count twice. The code
refuses a model in which a key has two summaries of one moment and one run attempt, even equal ones;
a set cannot hold a summary twice. `OneReport` (section 5), an assumption of HistoryWorker and
ModelHistory, keeps such batches out.

**HistoryWorker** is one scope of the server and its clients. `row` is the `prediction_state` row;
`req[c][k]` the k-th post of client c with what it keeps across awaits (`now` read once, the row
seen, CAS tries); `run[c]` the client loop of `.github/actions/history/run.sh`. An action ends where
the code awaits:

| Action | Code (crates/history-worker/src/lib.rs unless said) |
|---|---|
| `Post`, `Answer`, `Disconnect`, `GiveUp` | history/run.sh 136-164: 200, 5xx or 000, else; a lost answer leaves the request running |
| `Receive` | 347-428: clock, validation |
| `Load` | 430-472: read, receipt, `apply_batch` |
| `Store`, `StoreRaced` | 474-498 with `store_model` 755-795: conditional write, backoff, 503 |
| `StorageFails`, `StoreUnconfirmed` | errors of 732-795, before and after the effect |
| `Cleanup` | 197-215 |
| `Tick` | time, no request outliving `Lifetime` |

`counted` and `merges` are history variables. Reads (`get_snapshot`) change nothing and are left
out; what they serve is checked in ModelHistory. Scopes do not interact: every statement has one key.

**BatchLedger** is the promise to the clients: learned at most once, told "merged" only if so,
forgotten only as a whole. `HistoryWorker!ImplementsLedger` is the refinement, with
`learned <- counted` and `forgotten` the batches that were committed and no longer count.

**ModelHistory** is the sequence of merges that the server's compare-and-swap amounts to, with
runner environments, request clocks that lag, and projection at any time. `OnlyPooledRowsRefuse`
compares two counts: `validate_model` counts the keys of the root and of each environment, the reader
of a table the rows, of which pooling adds one for each key that only environments have learned
(`PooledAnew`).

**WorkflowRun** is one run of a consumer over its attempts. `Plan`/`PlanFails` are the affected
Action (outputs are set before the upload, so it can fail after them); `Prepare`/`PrepareFails` are
select.sh, assignment.sh and `PlanReference.Validate`; `RunItem` and `Finish` are run.sh 68-217;
`Evaluate` is status/run.sh with the default of required jobs; `Publish` the
`continue-on-error` steps after it. GitHub is external: `GateEnds` (another job of the consumer),
`Cancel`, `RerunFailed` (keeps what succeeded, with its outputs), `RerunAll`, `PlanExpires`. The
layouts of a Plan are any partition of the affected items that `Plan.Validate` accepts: which one
the scheduler picks is not the concern of these properties.

**Orders** has sorting by ranks, filtering and sums as functions of functions. The community modules
take an operator for each of them (`SortSeq`, `SelectSeq`, `FoldLeft`), which the provers cannot
reason about; `Orders_proofs` shows once what these return.

**AffectedGraph** is `nanoom run`, from the diff to the report. A project is its index in discovery
order. `declares` is what `topological_sort` sees (names in a manifest), `links` what
`build_dependents` and `dependency_closure_paths` see (`is_internal_link`; globs and version ranges
are inputs). `Diffs` are what git reports: entries that delete, rename, copy or modify files, each file
known by the innermost workspace that holds it and by being a manifest or a global dependency.
`TakeAll` is the early return of `calculate_with_override` for diffs that change the structure or a
global; `Mark`, `Spread`, `SpreadDone` are `calculate_affected` for the others, `Search` and `Reason` are
`explain_affected`. The queue starts as the content of a HashSet, so any element may be next. `Owner`
is the search for the first directory that contains a file, under every way directories can nest.
`Select` is commands/run.rs up to the sort,
`Take` and `TakeRest` the sort of *all* workspaces, `RunOrder` its filter by the selection, `RunTask`
and `RunDone` the loop over it and the report. The affected Action uses the first part alone.

**Revision** is the search for the commit that changes are counted from: `affected/run.sh` 33-40 (the
base is fetched when the checkout lacks it) and `git.rs` 209-289. A clone is `cut`, the commits whose
parents it does not have; `Reach` is what git can see through it, `Boundary` what `git fetch
--depth=d` leaves. `Open` and `OpenFails` are the Action, `CompareMergeBase`, `Deepen`, `Unrelated` and
`Exceeded` the rounds of `try_merge_base_with_deepen`; its last look after the fetch to
`maxFetchDepth` is phase "last". gix and git return one of several merge bases: `CompareMergeBase`
takes any.

**Scheduler** is `scheduler.rs` as operators, without state: `Items` (one per shard), `Tier`, `Predict`
with the fall back over keys and over scopes (`PredictionIndex::estimate`), `Assign` (the predictions,
then `Distribute`: `LongestFirst`, each `Place`d by makespan, checkout and load), `Candidates`, `Score`, `Schedules`. Numbers stand for
names in their order, so that ties fall as in the code. Where only the text of bucket ids would break
a tie of layouts, which `1` and `10` order otherwise than numbers, every tied layout is allowed.

**Planning** composes the two into the affected Action:

| Action | Code |
|---|---|
| `ResolveRevision`, `Calculate`, `CalculateFails` | `calculate_with_override` |
| `WriteCold`, `ColdFails` | `write_affected_plan`: every check precedes the file |
| `ReadServer`, `ReadBundle`, `ReadFails`, `ReadCorrupt` | run.sh 193-304, commands/affected.rs 121-208 |
| `WriteWarm`, `WarmFails`, `TakeWarm` | `nanoom_warm_plan`, 176-191: killed before or after its write, failing, or moved into place |
| `Publish`, `PublishFails` | 316-336 |

`affected` is any set of workspaces; which one a change gives is the matter of `AffectedGraph`. A
server is asked for the scopes that the report names, which are of the Action's own
`timingEnvironment` (`Default`), while the look-up uses the group's (`Environment`): see section 6.

**ArtifactHistory** is the status job with `historyBackend=artifact`, for all runs of a branch and of
pull requests to it. A stream is the runs that may follow one another (a branch; a pull request by
number and head repository), `Branch` what its list is asked for: event and branch name, which pull
requests and forks can share. `run[r].step` is how far the job of r is, `left` the listed runs it has yet to
try, `content` the batches in the model it holds. `List` is `nanoom_previous_successful_runs_for_event`:
the page is of all successful runs of the branch name (`FirstPage(OfBranch(s))`, artifacts.sh 150), and the runs of
the stream are picked from it afterwards (`Shown`, 154). `Reject` and `Take` are `nanoom_try_previous_model`, `Previous` is
`load_previous_states`, `Compile` is `nanoom history`, `UploadModel` and `UploadMarker` are the two
steps of status/action.yml. `Finish` may end an active run anywhere: every failure of these steps
leaves the job successful. `Rerun` keeps the artifacts of the earlier attempts, as GitHub does; a
name that two attempts used is no longer downloadable (`Readable`: two lines in `$size` are a syntax
error of the arithmetic in artifacts.sh 217, and `|| return 1` takes it). `disturbed` is a history
variable that records which of four things happened first: runs of a stream overlapped, a published
run (or one that is not the newest) was run again, a transfer failed, or a list did not show the newest
readable run of its stream (`CutOff`), because as many newer runs of the branch name as a page holds,
of whichever streams, had pushed it off.

## 4. Runs

Every passing run takes less than three minutes with two workers.

| Run | Instance | States | Shows |
|---|---|---|---|
| `repeaters` | 2 clients, 2 posts, 2 CAS attempts, 6 days | 357k | `ExactlyOnce`, `AckedIsMerged`, refinement of `BatchLedger`, under every fault |
| `rivals` | a run, the same run with other bytes, a third, on overlapping days and keys; 7 days | 149k | `OneBodyPerIdentity`, `StoredIsReference`, `LiveReceiptsStay`, `NeverBack` |
| `calm` | 3 clients, no faults, fair isolates | 3k | `EveryBatchLands` |
| `environments` | 8 batches, 2 keys, 3 environments of which 2 fit, 8 days, lag 3 | 5k | `OnlyLimitsRefuse`, `ChildrenAgree`, `EnvironmentsAreReference`, `OnlyPooledRowsRefuse`, `PooledIsBetween` |
| `range` | 3 batches | - | violation: see section 6 |
| `attempts` | 3 items, 2 assignments, 4 layouts, 2 attempts | 129k | `GreenMeansExecuted`, `OneJobPerItem`, `LearnedOnce`, `EveryAttemptIsJudged` |
| `graphs` | every graph of 3 projects, 1 registry dependency, every nesting and change | 392k | `AffectedIsLeast`, `CheckoutHoldsTheChange`, `ReasonsAreChains`, `DependenciesFirst`, `RunIsAccounted`, `Terminates` |
| `internal_order` | as `graphs` | - | violation: see section 6 |
| `planning` | every history of 4 commits, every clone, 3 limits; 3 workspaces, 2 groups, 2 configurations, several hundred tables | 20k | `BaseIsSound`, `RefusalIsDue`, `PublishedTogether`, `EveryItemOnce`, `MakespanIsBounded`, `AutomaticIsLearned`, `EveryStepAdvances` |
| `shallow_base` | as `planning`, limits no shorter than the history | - | violation: see section 6 |
| `compilation` | up to 3 of 8 files that agree, repeat and contradict each other, in every order | 5k | `CompiledIsReference`, `CompiledIsAccepted` |
| `artifacts` | pushes, a pull request and one of a fork with the same branch name, 4 attempts in all, 2 active, pages of 2 | 4.5M | `MarkersTellTheTruth`, `QuietRunsAccumulate` |

**Bounds.** Time is scaled, keeping the order of the code's windows: batches are accepted for 2 days
(7 in the code), receipts live 3 (8), buckets 3 days of which 2 are kept (30 and 7: the horizon and
the count limit both bite), the row is deleted after 4 days without update (45). Five to
eight days of clock let every window open and close, so a late retry meets a model that has
forgotten it. In the server runs a tick is a day and one request may span a tick (`Lifetime`), which
is what a stale `now` needs; in `environments` a tick is half a day, so that dates ahead of the
clock fall on the next day. Two CAS attempts and two posts are the least with a retry that succeeds
and one that is exhausted; `calm` has three writers so that one can lose twice. `MaxReceipts`,
`MaxKeys`, `MaxEnvironments` are low enough to be hit in `environments`: one machine too many, one key
too many for the model, and tables with exactly as many rows as a reader accepts and with one more.
Two attempts are enough for a re-run; one assignment of two items and one of one, in two ways
round, are the least with an order, a partial failure and a conflicting Plan. Three projects are the
least with a dependency through an unselected project and with a project behind a cycle of two;
names are in another order than paths because the sort uses both.

In `planning` the depths are 2, then 4 (32, 128, ... in the code) with limits of 1, 3 and 4, so that the
first fetch is clipped, the last is clipped, and the last is a whole step; four commits hold a merge,
two merge bases, and unrelated roots. Items have weights 1 to 4, one of them may be unknown, every
preparation may be unknown, known or prohibitive for some checkouts; tiers give one, two and three
assignments; `MaxRows` is 5 (256), which one configuration exceeds. In `artifacts` four attempts are
four runs, or three and a re-run, or two and two re-runs; two overlap at most; two
successful runs of the fork's pull request push a run of the other one off a page of two, and so do
two of its own without artifacts. The two pull requests are symmetric (`SYMMETRY`; there is no liveness
property). Runs are within thirty days of each other. In `compilation` three files are the least in which a
third contradicts what two agree on; of one cell four executions are too many, of its total 14
milliseconds the most.

**Deadlock** is checked in `planning`, whose end is a step of its own (`Done`): together with
`EveryStepAdvances`, which lets no step return to an earlier phase or fetch to the same depth, it is
termination without any assumption of fairness. It is not checked where the system stops by itself: clients end, a run's attempts and the
clock are bounded, a command ends, no run need be created. `EveryBatchLands`, `EveryAttemptIsJudged` and `Terminates` say what must happen before.

**Fairness.** `CalmSpec`: weak fairness of each client and, spelled out because the actions of an
isolate enable each other, of each request on the server; the platform does not suspend an isolate
for ever. There are no faults in it, and the posts and attempts together exceed the races that the rivals can
win. `WorkflowRun!Spec`:
weak fairness of the steps of jobs, which GitHub's scheduling and its time limits justify; users
(cancel, re-run) and artifact expiry are never forced. `AffectedGraph!Spec`: weak fairness of the one
process; the tasks it starts are taken to end.

Every property has a mutant in `PROJECT.json`: a plausible bug of a mapped definition that makes TLC
violate it. The mutated definitions stand beside the originals, marked "A mutant".

## 5. Proofs

`PredictionModel_proofs` has the lemmas about one application of a batch, for every value of the
constants under `PolicyAssumption` (shapes; a day has a length, the horizon and the bucket limit are
not zero, a weight within the horizon is positive, as 2^(-d/7) is). They are of three kinds.

* *State*: what `apply_batch` returns is a `ModelState` (`ApplyBatchType`), the dates do not move back
  (`MergeOwnDates`), an applied batch had no receipt and is not older than the watermark
  (`AppliedIsNew`), a duplicate has its receipt (`DuplicateIsKnown`).
* *Validity*: a merge and an ageing keep what `validate_model` checks of the rows (`MergeKeepsSound`,
  `AgeKeepsSound`): one bucket per key and day, its last observation of its day (`FoldedOnce`,
  `FoldedIsObserved`), no more days and summaries than are kept (`NewestDaysAreFew`,
  `NewestSummariesAreFew`). What is served from such rows is a positive count with a time that ends
  after it began (`RowIsServable`); a rounded weighted average lies between the smallest and the
  largest of what it averages (`AverageIsBetween`).
* *Reference*: a batch merged into the rows that the batches S teach gives the rows that S and the
  batch teach (`MergeReflects`). Dropping early must not matter later: a day that is among the kept
  ones of the larger set was among the kept ones of the smaller (`KeptBefore`), so the newest of *what
  was kept and what is new* are the newest of everything (`KeptAfter`), and likewise the summaries,
  although those that lose their day go before the three are taken (`LatelyAfter`). Both are instances of
  `FirstOfFirst`. When the horizon moves without a batch, days leave it and nothing takes their place
  (`ReferenceLater`). A child is looked at from a horizon that its parent may have moved beyond its own:
  `Shows` says the same of its rows, seen from there (`MergeShows`, `AgeShows`).

`HistoryWorker_proofs` proves of `Spec`, for any clients, batches and bounds:

| Theorem | Property |
|---|---|
| `TypeCorrect` | `TypeOK` |
| `CommittedAtMostOnce` | `ExactlyOnce` |
| `AcknowledgedIsMerged` | `AckedIsMerged` |
| `OneBodyCounts` | `OneBodyPerIdentity` |
| `DatesNeverMoveBack` | `NeverBack` |
| `ReceiptsLiveOut` | `LiveReceiptsStay` |
| `ServerImplementsLedger` | `ImplementsLedger` |
| `StoredFollowsFromTheBatches` | `StoredIsReference` |

The assumptions are those of the module: `WorkerAssumption` (shapes, finitely many
rows in a batch, `OneReport`), `RetentionAssumption`
(receipts live at least as long as batches are accepted; a row is deleted only after every batch in
it and every request about it is too old - 45 days against 7 days, five minutes and the life of a
request).

The invariant. `ExactlyOnce` is not inductive: a second `Store` of the same batch is prevented by
what the row says, by the row being the one that was loaded, and by time. `IInv` is three parts.
*BooksAreSound*: every batch that counts is guarded, by its receipt in the row or by the watermark
having passed it (`CountedIsGuarded`); every receipt is of a batch that counts; a batch that was
committed counts or is too old to be accepted by any request that can still run
(`CommittedOnce`, `CountedIsRecent`). *RequestsAreSound*: a running request validated its batch at
the time it read and is at most `Lifetime` old; a request about to store has seen a row to which the
batch applies; an "ok" under way is of a committed batch. *RunsAreSound*: a client that was told
"merged" has a committed batch. A `Store` is then safe because the row equals the one seen, to which
the batch is new (`StoredBatchIsNew`) - so it is neither counted nor, being timely, forgotten. One
lemma per actor shows that its actions keep `IInv`, using `RequestStep`, `ReplyStep` and `RunStep` for
the parts an action does not disturb. The refinement follows step by step from `IInv`: a commit maps
to `Learn`, `Cleanup` to `Forget`, an answer to `TellMerged` or `GiveUp`, everything else to a stutter.

`StoredIsReference` is inductive once it is said with what a fold needs (`RowIsLearned`): the batches
that count are finitely many and each says one thing of a key and a day, none reports a day after
the pruning day, and without a row none counts. Only a commit changes any of it. It folds one batch
into the row it has seen, which is the row (compare and swap), and the batch is not among those that
count (`StoredBatchIsNew`), so `MergeReflects` applies.

`StatusAction_proofs` proves of `WorkflowRun` (`Spec`), for any items, assignments, layouts and number of attempts
(`WorkflowAssumption`: shapes only), `WorkflowTypes` (`TypeOK`), `GreenAlwaysExecuted`
(`GreenMeansExecuted`), `OneJobExecutes` (`OneJobPerItem`) and `LearnedAtMostOnce` (`LearnedOnce`). None
of the last three is inductive: a green run looks at results of jobs, not at executions. `IInv` adds to
them what the results stand for. *LegSound*: a run job exists exactly for the assignments with items; a
running one has executed in this attempt what it counts; a successful one has executed its
assignment since the Plan was made, possibly in an earlier attempt. *ExecutedSound*: what this attempt
executed is of the assignment of its job in the one Plan, so two jobs cannot share an item (a valid
Plan is a partition, without which `RunItem` would not keep `OneJobPerItem`). *LearnedSound*: a batch of
this attempt exists only after it has published. *PlanSound*: a verdict follows only when all jobs
have ended, which is why `Evaluate` may trust what it sees.

The same module proves of `Compilation` (`SpecCompilation`), for any files in any order
(`CompilationAssumption`: shapes only), `CompiledCountsOnce` (`CompiledIsReference`),
`CompiledAlwaysAccepted` (`CompiledIsAccepted`) and `CompiledAlwaysShaped`: what the backends' models assume
of each batch holds of every batch that is compiled; only `OneReport`, which is about two batches of one identity,
remains an assumption. `CompInv` says where the loops stand. *ReadSound*: the files in use are the usable ones of
those looked at. *GroupSound*: a group holds what the sorted files of its environment report, and the
environment of each execution they report is known, which is what the next file is held against.
*BatchSound*: a batch is what all files compile to, and each group alone. The argument about a cell is
`CellIsReference`: the code counts the first report of each execution, in the order of the rows; once no
execution is told in two ways, first reports and observations correspond one to one (`OwnAreOn`), so
number and total are those of the set (`SumOfNamed`: a sum does not depend on how its terms are named).
That nothing in the batch is newer than the batch (`CompiledRows`, `BatchIsNewest`) is why only its age
can be held against it. TLC has checked `CompInv` on the files of `compilation`.

`ModelHistory_proofs` proves of `Spec`, for any batches, limits and lag:

| Theorem | Property |
|---|---|
| `HistoryTypes` | `TypeOK` |
| `ChildrenAlwaysAgree` | `ChildrenAgree` |
| `OnlyLimitsEverRefuse` | `OnlyLimitsRefuse` |
| `OnlyPooledRowsEverRefuse` | `OnlyPooledRowsRefuse` |
| `PooledIsAlwaysBetween` | `PooledIsBetween` |
| `EnvironmentsFollowTheirBatches` | `EnvironmentsAreReference` |

The assumption is `HistoryAssumption`: shapes, finitely many rows and environments in a batch, receipts
that live as long as batches are accepted, and `OneReport`. A run attempt has one batch in the code,
but once its receipt is gone another body with its identity can be applied; a summary is identified by
key, time and run attempt, and `validate_model` refuses a key that has one twice. `OneReport` says
that two bodies of one identity do not report a key at the same moment. Without it a merge can end in
the error of that validation, and the model, whose summaries are a set, would not show it; it takes a
client that reports one execution in two different batches, which `Compilation` excludes.

Three invariants carry the proofs.

* `IInv`. Parent and children age by different paths, so what must be invariant is `Accompanies`: every
  receipt of a child is of a batch whose receipt its parent holds, with the same identity and date,
  and the child's watermark is not ahead of the parent's. A batch that is new to the parent is then
  new to the child; of the child's receipts there are no more than of the parent's
  (`ChildHoldsFewer`), so the child has room when the parent has.
* `LimitInv`: the model is valid, finite, and every summary in it is what some batch says
  (`SoundModel`) - the last because a merge is valid only if no summary it adds contradicts one that
  is there (`SayingsAgree`). What the code checks *after* the merge can then fail only for the
  number of keys and of environments, and every row that is served is valid. The rows of a table are
  of keys that the model holds in the same environment, or are pooled (`RowsAreOfKeys`), so there are
  no more of them than `KeyCount` and the keys that only environments know (`RowsAreNoMore`).
* `LearnedInv`: every batch that was applied still has its receipt, or the watermark has passed it
  (`Remembered`), so none is applied twice; and every environment is in step (`InStep`). The latter is
  where environments are harder than the root. A child that a batch does not mention ages by the
  clock only, while its parent's pruning day may be ahead; a child that merges can be ahead of its
  parent, with observations of tomorrow; a child whose buckets are empty is dropped, and comes back
  without knowing what it held. `Standing` says that a child shows what its batches say from the later
  of the two horizons, *and that it is ahead of its parent only for a day of which something was said*.
  That last clause makes dropping safe: a child is emptied only when nothing that its batches say is
  left in the parent's own horizon (`AgeStands`, by `LastDayIsKept`), and horizons only move on
  (`NothingLeftLater`), so a fresh child is as good as the old one (`FreshShows`).

`Orders_proofs` has what the proofs of the commands rest on. `RankedIsInOrder`: sorting by ranks lists
a finite set once and in order. `OnlyOfKeepsOrder`: filtering keeps what it shall keep, in the order of
the whole. `SumWithout` and what follows from it: a finite sum does not depend on the order in which
it is taken, and is bounded by its summands. `EveryRankIsTaken`: in a finite strict total order some element has
n before it, for every n below their number (a median exists). `FirstOfFirst`: the first n of a set to
which more is added are the first n of *its* first n and the addition, also where the pruning leaves
only an `Upward` part, one that has with an element all that come before it. Each needs induction over a set or along a recursive
function; the induction theorems of the library cannot be instantiated here, so `SetInduction` and
`Recursion` derive what is needed from the least element of a set of naturals.

`AffectedGraph_proofs` proves, for any number of projects, any graph and any order of the queue:

| Theorem | Property |
|---|---|
| `TypesHold` | `TypeOK` |
| `AffectedExactly` | `AffectedIsLeast` |
| `CheckoutAlwaysHoldsTheChange` | `CheckoutHoldsTheChange` |
| `ReasonsAlwaysChains` | `ReasonsAreChains` |
| `DependenciesAlwaysFirst` | `DependenciesFirst` |
| `RunAlwaysAccounted` | `RunIsAccounted` |

`AffectedIsLeast` speaks of the end only; the invariant `Marking` says of every moment that a marked
project is queued or has passed its mark on, and that every closed set around the owners holds what
is marked. `ClosureIsLeast` (the recursive `Closure` returns the least closed set) then makes checkout
and propagation the same relation read from its two ends. `RunInv` is the part of the sort and the
loop: while sorting (`Sorting`), an in-degree counts exactly the dependencies that are not yet in the
order, what is ready has none, and each project is in the order at most once with its acyclic
dependencies before it; afterwards the order lists every project once (`SortedAll`), and the report
holds disjoint parts of the selection (`Executing`). The counts of `RunIsAccounted` are cardinalities
of disjoint sets, which is why nothing may be executed twice. A reason exists because the mark came
along links, every link is declared (`LinksAlwaysDeclared`), and the breadth-first search sees whatever
the declared names reach within N rounds (`SearchFinds`). All rest on `GraphAssumption` (projects are
numbers, names differ).

`Planning_proofs` proves, for any histories, clones, depths, configurations and tables:
`BaseAlwaysSound` (`BaseIsSound`), `RefusalAlwaysDue` (`RefusalIsDue`), `AlwaysPublishedTogether`
(`PublishedTogether`). The first two rest on facts about `Reach`: a clone with a boundary shows less
(`ShallowShowsLess`), a commit reaches only older ones (`ReachIsOlder`, hence a newest common one
exists, `NewestCommit`), so that *no merge base* means *no common commit*
(`BlindMeansNothingShared`); and since a shallow clone shows no commit as common that the whole
history does not (`CommonShrinks`), a complete clone without one means that no fetch will show one.
`RevisionInv` says that phase "last" is a clone of exactly `maxFetchDepth`. `PlanInv` says that what
was printed is of the Plan file, except between the write of the second planner and the move that
takes both; that a written Plan is valid; and, for the base, that "the diff starts at the base" with
a sound merge base makes the base an ancestor. `EveryStepLeadsOn` proves `EveryStepAdvances`: each
action leads to a later phase of `Order` or deepens, and a depth grows because it is multiplied by two
or more (`RevisionAssumption`) or is `maxFetchDepth` itself.

Of the layouts it proves `EveryItemAlwaysOnce` (`EveryItemOnce`), `MakespanAlwaysBounded`
(`MakespanIsBounded`), `AutomaticAlwaysLearned` (`AutomaticIsLearned`), and with them `TypesHold` (`TypeOK`).
`DistributeSpreads` is the argument of list scheduling, for any weights: every item is in one bucket,
and no bucket is loaded beyond an even share and the longest item. The last item of a bucket was
placed where the makespan stayed smallest, and some bucket held at most an even share
(`SomeBucketIsLow`, `BalancedStep`). A bucket may stay empty, and the code then drops it, only when
every load is at most the longest item, so the bound survives with fewer assignments. Without
predictions all weights are one and no bucket stays empty (`EqualItemsFillAll`), so the learned Plan
never has more assignments than the cold one. `LayoutInv` carries this through the Action: the file
and the warm Plan are layouts of `Schedules` for the items that were calculated. The assumptions are
`SchedulerAssumption` and `PlanningAssumption`: finite sets of shapes, shards and tiers from one.

`ArtifactHistory_proofs` proves `MarkersAreTrue` (`MarkersTellTheTruth`) and `ArtifactTypes`
(`TypeOK`) for any streams that only read streams of fewer scopes (`ArtifactAssumption`), sharing
branch names in any way, any page and any number of runs, and `QuietRunsAlwaysAccumulate` (`QuietRunsAccumulate`). The invariant `Sound(r)` says of each run what its markers say, for the model it
holds and the models it has uploaded as well: in the middle of a job the content is what one marker
announced, and the batch of its attempt if that was applied; and no artifact of a run is of a later
attempt (`Dated`), so that a batch cannot be inherited from itself. Artifacts are only added
(`Grows`), so what holds of one run survives the steps of the others (`OthersStaySound`).
`PageIsBounded` shows by induction that the newest of a finite set, up to a page, are no more than
the page.

Accumulation is a statement about one moment, the next run's start; `QuietInv` says what carries it,
for as long as nothing is disturbed: an active run is the newest of its stream, it has at most one
model, and no marker before its upload; a run that still chooses has the newest readable run of its
stream among its candidates (`Shows`), which are runs of its stream only, or there is none; and what it holds once it has chosen contains
everything that the markers of earlier successful runs of its stream (`Kept`) announced. It needs that
a run looks through its own stream first (`ArtifactAssumption`).

Only model-checked: the three violations of section 6 and the liveness properties
(`EveryBatchLands`, `EveryAttemptIsJudged`, `Terminates`). Liveness and `ENABLED` are out of the prover's
reach here and stay with TLC.

## 6. Findings

`range`: docs/prediction-model-spec.md:142 says that a runner environment too old for the pool is
left out of the average *and of its range*. `environment_range` (prediction-core 545-571) recomputes
the cutoff from the pooled row, whose time is the newest of the pool, while the pool's own cutoff is
taken from the newest row of the key, the unclassified root included (1440, 1467). With a root
observation newer than every environment's, an environment that the pool excludes is within the range.

`internal_order`: src/commands/run.rs:155 says "Dependencies must run before dependents", and
README.md:167 that propagation and checkout use one criterion for what is internal.
`topological_sort` (workspace.rs:500-509) does not use it: a dependency whose range only the
registry satisfies is an edge if a workspace has its name. A tool that depends on the published
version of a library, while the library depends on the tool in the repository, makes such a cycle;
both are then appended in path order and the library may run before the tool it links to. The Go
text (internal/workspace/workspace.go, `Topological`) does the same.

`shallow_base`: docs/adr/0011-sparse-checkout-plan.md:22 says that the shallow history the ancestor
check and the merge base need is fetched up to the configured depth. `try_merge_base_with_deepen`
(git.rs:241) takes the first merge base that the clone shows. If the head merged a branch that forked
before the base, the fork can be visible when the path to the base is not: the fork is taken, nothing
deeper is fetched, and the Plan is refused for a base that is not the resolved one although the base
is an ancestor within `maxFetchDepth`. A diff from that commit is still sound (`BaseIsSound`); the run
fails instead of planning.

Observations that no run states:

* `nanoom affected` reports the scopes to ask a server for, and the scopes it accepts in an answer,
  with the Action's `timingEnvironment` (commands/affected.rs 172, 220); the look-up uses the tier's or
  the group's environment. A group with an environment of its own learns nothing from a server
  (docs/adr/0013-configured-runner-labels.md speaks of the configured one). `ReadServer` has it.
* The Rust scheduler keeps buckets that got no item, and `Plan::validate` (plan.rs:342) refuses a Plan
  with one; the Go scheduler (internal/affected/scheduler.go 175-181) drops them. `Filled` is the Go text.
* Runs of events other than push and pull_request publish markers that no list asks for
  (history/run.sh 75-90 lists `event=push` for all of them).
* A run that published in two attempts is passed over by all later ones ("re-run" in `disturbed`).
* The page of twenty runs is asked for by branch name, event and status; head repository and number of
  the pull request are compared afterwards (artifacts.sh 150, 154). Forks like to name their branch
  `patch-1`, or `main`: twenty successful runs of theirs hide every run of a pull request from its next
  run, which then starts from the base ("page" in `disturbed`).
* `project_predictions` compares the bytes of a table with its limit, not its rows (prediction-core 1508). The
  limits of docs/prediction-model-spec.md:146 sum the children in the model (`validate_model` 1545) and in the
  table (522), but a key that only environments have learned is one more row in the table than keys in the
  model: 25,001 such keys of one environment are accepted and give 50,002 rows. With the artifact
  backend `nanoom history` then fails where it validates what it is about to write (commands/history.rs
  234), in this run and in those that follow, and `nanoom affected` would call such a table corrupt and
  plan cold. In a row of the server so many keys meet the limit of 1.9 MB first. `OnlyPooledRowsRefuse`
  says that nothing else is refused; `environments` reaches the refusal.

## 7. Not modelled

* Continuous agents (scheduler=http): run.sh 222-260 claims, heartbeats and completes against a
  coordinator that is not in this repository. When a lease ends, whether a repeated Idempotency-Key is
  answered from a record and what a late completion means are the coordinator's; any property of the
  pair would be an assumption about it. The hazards of those lines are in `PROJECT.json`, without
  properties.
* Authentication, routing and JSON of the server (stateless); byte limits of serialised values
  (1.9 MB, 16 MiB, 8 MiB: TLA+ values have no size), digests (injective). Of `PredictionRow::validate`
  the largest values a field may have (2^53 - 1): a bucket is bounded by them (`MaxSafe` in `ValidLeaf`),
  and what is taken over the at most seven buckets of a key, or pooled over 32 environments, could exceed them only if
  buckets held counts that no client reaches; nor is the arm of `project_predictions` for that overflow.
* Configuration, CLI parsing, install, packaging: parsing and formatting without state between calls.
* Globs and version ranges (`AffectedGraph` takes any graph). `Planning` takes any affected set: which
  one a diff gives is the matter of `AffectedGraph`.

`PROJECT.json` has the reason for each part.
