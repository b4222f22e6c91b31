--------------------------- MODULE ArtifactHistory ---------------------------
(***************************************************************************)
(* The history that is kept in artifacts (historyBackend=artifact).  The   *)
(* status job of a run takes the model that an earlier successful run      *)
(* published, applies the batch of its own attempt, and uploads the new    *)
(* model and then a prediction marker, which names the model by its        *)
(* digest.  Nothing locks, no artifact is ever changed, and a failure at   *)
(* any point leaves the job successful: the history is whatever the next   *)
(* run finds.                                                              *)
(*                                                                         *)
(* A run is the number of its creation.  A model is the set of batches     *)
(* that were applied to it, a batch the run and attempt it was measured    *)
(* in; what applying does to the numbers is the matter of PredictionModel. *)
(* Runs are younger than the thirty days after which runs are no longer    *)
(* considered and artifacts expire.  The rest of the workflow, GitHub's    *)
(* lists of runs and artifacts included, is external.                      *)
(***************************************************************************)
EXTENDS Integers, Sequences, FiniteSets, Functions

CONSTANTS
    Stream,      \* runs that may follow one another: of one event and branch, and
                 \* for pull requests of one number and head repository
    Branch,      \* per stream, the event and branch name that its list is asked for
    Reads,       \* the streams whose runs a run considers, in turn
    Scope,       \* per stream, the prediction scope its runs measure for
    Page,        \* 20 in the code: successful runs that one list holds, of
                 \* whichever streams share the branch name
    MaxAttempts, \* bound: attempts of all runs together
    MaxActive    \* bound: runs that are not finished

\* What a run may know something about: its scope and those it reads.
ScopesOf(s) == {Scope[s]} \cup {Scope[t] : t \in Range(Reads[s])}

\* A push reads pushes of its branch, a pull request first its own runs and
\* then pushes of its base.
ASSUME ArtifactAssumption ==
    /\ Page \in Nat \ {0} /\ MaxAttempts \in Nat
    /\ Reads \in [Stream -> Seq(Stream)]
    /\ DOMAIN Scope = Stream /\ DOMAIN Branch = Stream
    /\ \A s \in Stream : s \in Range(Reads[s]) => Head(Reads[s]) = s
    /\ \A s \in Stream : \A t \in Range(Reads[s]) : ScopesOf(t) \subseteq ScopesOf(s)

VARIABLES
    run,       \* the runs in the order of their creation
    attempts,  \* of all runs, so far
    disturbed  \* history: what happened first that may cost learned batches

vars == <<run, attempts, disturbed>>

Attempt == 1..MaxAttempts \* and the number of a run
Batch == Attempt \X Attempt
Artifact == [attempt : Attempt, content : SUBSET Batch]
Finished == {"success", "failure"}
Run == [ stream : Stream, attempt : Attempt,
         step : Finished \cup {"jobs", "choosing", "compile", "compiled", "model", "idle"},
         sources : Seq(Stream), left : SUBSET Attempt, content : SUBSET Batch,
         models : SUBSET Artifact, markers : SUBSET Artifact ]

Started(s, a) ==
    [ stream |-> s, attempt |-> a,
      step |-> "jobs",                \* what was done last, or how it ended
      sources |-> Reads[s],           \* streams yet to list
      left |-> {},                    \* listed runs yet to try
      content |-> {},                 \* of the model, once it is there
      models |-> {}, markers |-> {} ] \* its artifacts, of all its attempts

\* Nothing but the artifacts outlives the job of an attempt.
Left(r, step) ==
    [run[r] EXCEPT !.step = step, !.sources = << >>, !.left = {}, !.content = {}]

Active == {r \in DOMAIN run : run[r].step \notin Finished}

Own(r) == <<r, run[r].attempt>>
At(r, step) == r \in DOMAIN run /\ run[r].step = step

Init == run = << >> /\ attempts = 0 /\ disturbed = {}

Disturb(what, condition) ==
    disturbed' = IF condition /\ disturbed = {} THEN {what} ELSE disturbed

------------------------------------------------------------------------------
(* A run is created.                                                       *)
Create(s) ==
    /\ attempts < MaxAttempts /\ Cardinality(Active) < MaxActive
    /\ attempts' = attempts + 1
    /\ run' = Append(run, Started(s, 1))
    /\ Disturb("overlap", \E r \in Active : run[r].stream = s)

(* Mutant: the list is not bounded by a page.                              *)
AllPages(runs) == runs

(* nanoom_previous_successful_runs_for_event asks for one page of the      *)
(* successful runs of a branch name, the newest ones, and then picks the   *)
(* runs of the stream from it.  A pull request of another number, or of a  *)
(* fork, whose branch has the same name takes places on the page.          *)
OfBranch(s) ==
    {q \in DOMAIN run : Branch[run[q].stream] = Branch[s] /\ run[q].step = "success"}
FirstPage(runs) == {q \in runs : Cardinality({p \in runs : p > q}) < Page}
Successful(s) == {q \in DOMAIN run : run[q].stream = s /\ run[q].step = "success"}
Shown(r, s) == (FirstPage(OfBranch(s)) \cap Successful(s)) \ {r}

Newest(runs) == CHOOSE q \in runs : \A p \in runs : p <= q

(* nanoom_download_artifact_bounded takes an artifact by its name, and     *)
(* fails if the run has none of it, or one from each of two attempts.      *)
Readable(q) == Cardinality(run[q].markers) = 1 /\ Cardinality(run[q].models) = 1

(* The newest run of the stream that can be read is no longer on the page. *)
CutOff(r, s) ==
    LET readable == {q \in Successful(s) \ {r} : Readable(q)}
    IN  readable # {} /\ Newest(readable) \notin Shown(r, s)

Listed(r, s) ==
    /\ run' = [run EXCEPT ![r].left = Shown(r, s),
                          ![r].sources = Tail(@), ![r].step = "choosing"]
    /\ Disturb("page", CutOff(r, s))

ListFails(r) ==
    /\ run' = [run EXCEPT ![r].sources = Tail(@), ![r].step = "choosing"]
    /\ Disturb("transfer", TRUE)

(* The first list is read when the jobs succeeded and there was work, the  *)
(* next when no run of the first could be used.                            *)
List(r) ==
    /\ At(r, "jobs") \/ At(r, "choosing")
    /\ run[r].left = {} /\ run[r].sources # << >>
    /\ Listed(r, Head(run[r].sources)) \/ ListFails(r)
    /\ UNCHANGED attempts

(* Mutant: the candidates are tried in the order they were created.        *)
OldestCandidate(r) == CHOOSE q \in run[r].left : \A p \in run[r].left : q <= p

Candidate(r) == Newest(run[r].left)

(* The candidate has no usable pair of artifacts, or a transfer fails.     *)
Reject(r) ==
    /\ At(r, "choosing") /\ run[r].left # {}
    /\ run' = [run EXCEPT ![r].left = @ \ {Candidate(r)}]
    /\ Disturb("transfer", Readable(Candidate(r)))
    /\ UNCHANGED attempts

(* load_previous_states: a marker of another model teaches nothing.        *)
Previous(q) ==
    LET marker == CHOOSE m \in run[q].markers : TRUE
        model == CHOOSE m \in run[q].models : TRUE
    IN  IF marker.content = model.content THEN model.content ELSE {}

Take(r) ==
    /\ At(r, "choosing") /\ run[r].left # {}
    /\ Readable(Candidate(r))
    /\ run' = [run EXCEPT ![r].content = Previous(Candidate(r)),
                          ![r].sources = << >>, ![r].left = {}, ![r].step = "compile"]
    /\ UNCHANGED <<attempts, disturbed>>

NothingFound(r) == At(r, "choosing") /\ run[r].left = {} /\ run[r].sources = << >>

(* nanoom history.  The batch of the attempt is applied; if there are no   *)
(* measurements, or the batch is refused, the states stay as they were.    *)
(* Without any state there is nothing to publish.                          *)
Compile(r) ==
    /\ At(r, "compile") \/ NothingFound(r)
    /\ \E applied \in {{}, {Own(r)}} :
          LET content == run[r].content \cup applied
          IN  run' = [run EXCEPT ![r].content = content,
                                 ![r].step = IF content = {} THEN "idle" ELSE "compiled"]
    /\ UNCHANGED <<attempts, disturbed>>

Upload(r) == [attempt |-> run[r].attempt, content |-> run[r].content]

UploadModel(r) ==
    /\ At(r, "compiled")
    /\ run' = [run EXCEPT ![r].models = @ \cup {Upload(r)}, ![r].step = "model"]
    /\ UNCHANGED <<attempts, disturbed>>

(* Mutant: the marker is uploaded whatever became of the model.            *)
UploadAnyMarker(r) ==
    /\ At(r, "model") \/ At(r, "compiled")
    /\ run' = [run EXCEPT ![r] = [Left(r, "idle") EXCEPT !.markers = @ \cup {Upload(r)}]]
    /\ UNCHANGED <<attempts, disturbed>>

(* The marker is uploaded only after the model.                            *)
UploadMarker(r) ==
    /\ At(r, "model")
    /\ run' = [run EXCEPT ![r] = [Left(r, "idle") EXCEPT !.markers = @ \cup {Upload(r)}]]
    /\ UNCHANGED <<attempts, disturbed>>

(* The run ends.  Wherever nanoom, a transfer or an upload failed before,  *)
(* the job went on without the rest, and the run is a success unless       *)
(* something else failed.  A cancelled run may also end anywhere.          *)
Finish(r) ==
    /\ r \in Active
    /\ \E step \in Finished : run' = [run EXCEPT ![r] = Left(r, step)]
    /\ UNCHANGED <<attempts, disturbed>>

(* A run is run again.  What its earlier attempts uploaded is still there. *)
Rerun(r) ==
    /\ r \in DOMAIN run /\ run[r].step \in Finished
    /\ attempts < MaxAttempts /\ Cardinality(Active) < MaxActive
    /\ attempts' = attempts + 1
    /\ run' = [run EXCEPT ![r] =
                  [Started(run[r].stream, run[r].attempt + 1)
                      EXCEPT !.models = run[r].models, !.markers = run[r].markers]]
    /\ Disturb("re-run", \/ run[r].models # {}
                         \/ \E q \in DOMAIN run : q > r /\ run[q].stream = run[r].stream)

Step(r) ==
    \/ List(r) \/ Reject(r) \/ Take(r) \/ Compile(r)
    \/ UploadModel(r) \/ UploadMarker(r) \/ Finish(r) \/ Rerun(r)

Next ==
    \/ \E s \in Stream : Create(s)
    \/ \E r \in Attempt : Step(r)

Spec == Init /\ [][Next]_vars

------------------------------------------------------------------------------
(* The state.  A run tries no more runs than fit in a page, never itself.  *)
TypeOK ==
    /\ disturbed \subseteq {"overlap", "page", "transfer", "re-run"}
    /\ attempts \in 0..MaxAttempts /\ Len(run) <= attempts
    /\ run \in Seq(Run)
    /\ \A r \in DOMAIN run :
          run[r].left \subseteq DOMAIN run \ {r} /\ Cardinality(run[r].left) <= Page

(* A model of a run speaks only of the scopes the run may know of.         *)
Speaks(r, content) ==
    \A b \in content : Scope[run[b[1]].stream] \in ScopesOf(run[r].stream)

(* Attempt a of the run added its batch to what one other marker announced.*)
Inherits(r, a, content) ==
    LET inherited == content \ {<<r, a>>}
    IN  \/ inherited = {}
        \/ \E q \in DOMAIN run : \E n \in run[q].markers :
              /\ run[q].stream \in Range(Reads[run[r].stream])
              /\ n.content = inherited
              /\ <<q, n.attempt>> # <<r, a>>

(* Whatever fails between two uploads and however often a run is repeated: *)
(* a marker names a model of the same run (so the pair of a run with one   *)
(* of each matches, and the fallback of load_previous_states is not        *)
(* needed); the model is what exactly one earlier marker announced, and    *)
(* the batch of its own attempt, which was not yet in it; and it speaks    *)
(* only of the scope of the run and of those the run may inherit.          *)
MarkersTellTheTruth ==
    \A r \in DOMAIN run : \A m \in run[r].markers :
       m \in run[r].models /\ Speaks(r, m.content) /\ Inherits(r, m.attempt, m.content)

(* What the next run of a stream would start from.                         *)
Offered(s) ==
    LET readable == {q \in Successful(s) : Readable(q)}
    IN  IF readable = {} THEN {} ELSE Previous(Newest(readable))

(* As long as the runs of a stream do not overlap, no published run is run *)
(* again, nothing fails in transfer and every list of the stream shows its *)
(* newest readable run (which as many newer runs of the branch name as a   *)
(* page holds, of this or of other streams, would push off), nothing that  *)
(* a successful run of the stream announced is forgotten, although runs    *)
(* fail, are cancelled, have nothing to publish or publish half.           *)
QuietRunsAccumulate ==
    disturbed = {} =>
       \A s \in {t \in Stream : t \in Range(Reads[t])} :
          \A q \in Successful(s) : \A m \in run[q].markers : m.content \subseteq Offered(s)
==============================================================================
