----------------------- MODULE ArtifactHistory_proofs ------------------------
(***************************************************************************)
(* Proofs about ArtifactHistory: for any streams, any size of a page and   *)
(* any number of runs and attempts, the state is well formed, what the     *)
(* published markers say is true, and nothing that was learned is          *)
(* forgotten while nothing is disturbed.                                   *)
(***************************************************************************)
EXTENDS ArtifactHistory, FiniteSetTheorems, WellFoundedInduction, TLAPS

(* The batch of an attempt cannot be in any model yet.                     *)
Early == {"jobs", "choosing", "compile"}

(* A batch in a model is of an attempt that has got as far as compiling.   *)
Dated(b) ==
    /\ b[1] \in DOMAIN run
    /\ b[2] <= run[b[1]].attempt
    /\ b[2] = run[b[1]].attempt => run[b[1]].step \notin Early

(* The strengthening, per run: where its candidates come from, and that    *)
(* what is not published yet already has the properties of a marker.       *)
Sound(r) ==
    /\ run[r].left \subseteq DOMAIN run \ {r}
    /\ \A q \in run[r].left : run[q].stream \in Range(Reads[run[r].stream])
    /\ Range(run[r].sources) \subseteq Range(Reads[run[r].stream])
    /\ \A b \in run[r].content : Dated(b)
    /\ Speaks(r, run[r].content) /\ Inherits(r, run[r].attempt, run[r].content)
    /\ run[r].step = "model" => Upload(r) \in run[r].models
    /\ \A m \in run[r].markers :
          /\ m \in run[r].models
          /\ \A b \in m.content : Dated(b)
          /\ Speaks(r, m.content) /\ Inherits(r, m.attempt, m.content)

Types ==
    /\ attempts \in 0..MaxAttempts /\ Len(run) <= attempts
    /\ run \in Seq(Run)
    /\ \A r \in DOMAIN run : run[r].attempt <= attempts

IInv == Types /\ \A r \in DOMAIN run : Sound(r)

------------------------------------------------------------------------------
(* A run that is there is a record of its type.                            *)
LEMMA RunIsTyped ==
    ASSUME run \in Seq(Run), NEW r \in DOMAIN run
    PROVE  run[r] \in Run /\ r \in Nat /\ r \in 1..Len(run)
OBVIOUS

LEMMA Fields ==
    ASSUME NEW w \in Run
    PROVE  /\ w.stream \in Stream /\ w.attempt \in Attempt /\ w.attempt \in Nat
           /\ w.sources \in Seq(Stream) /\ w.left \subseteq Attempt
           /\ w.content \subseteq Batch /\ w.models \subseteq Artifact /\ w.markers \subseteq Artifact
BY DEF Run, Attempt

LEMMA RangeOfReads ==
    ASSUME NEW s \in Stream
    PROVE  /\ Reads[s] \in Seq(Stream)
           /\ Range(Reads[s]) \subseteq Stream
           /\ \A t \in Range(Reads[s]) : ScopesOf(t) \subseteq ScopesOf(s)
<1>1. Reads[s] \in Seq(Stream)
  BY ArtifactAssumption
<1>2. \A i \in DOMAIN Reads[s] : Reads[s][i] \in Stream
  BY <1>1
<1>3. Range(Reads[s]) \subseteq Stream
  BY <1>2 DEF Range
<1>4. \A t \in Range(Reads[s]) : ScopesOf(t) \subseteq ScopesOf(s)
  BY ArtifactAssumption, Zenon
<1> QED
  BY <1>1, <1>3, <1>4

(* The newest of some runs is one of them.                                 *)
LEMMA NewestIsMember ==
    ASSUME NEW S, S \subseteq Attempt, S # {}
    PROVE  Newest(S) \in S /\ \A p \in S : p <= Newest(S)
<1> DEFINE mirror == {MaxAttempts - q : q \in S}
<1>1. mirror \subseteq Nat /\ mirror # {}
  <2>1. \A q \in S : q \in Int /\ q <= MaxAttempts
    BY ArtifactAssumption DEF Attempt
  <2>2. \A q \in S : MaxAttempts - q \in Nat
    BY <2>1, ArtifactAssumption
  <2> QED
    BY <2>2
<1>2. PICK x \in mirror : \A y \in mirror : ~(<<y, x>> \in OpToRel(<, Nat))
  BY <1>1, NatLessThanWellFounded, WFMin
<1>3. PICK q \in S : x = MaxAttempts - q
  BY <1>2
<1>4. ASSUME NEW p \in S PROVE p <= q
  <2> DEFINE y == MaxAttempts - p
  <2>1. y \in mirror /\ y \in Nat /\ x \in Nat
    BY <1>1, <1>2
  <2>2. <<y, x>> \in Nat \X Nat /\ <<y, x>>[1] = y /\ <<y, x>>[2] = x
    BY <2>1
  <2>3. ~(y < x)
    BY <2>1, <2>2, <1>2 DEF OpToRel
  <2> QED
    BY <2>3, <1>3, ArtifactAssumption DEF Attempt
<1> QED
  BY <1>4 DEF Newest

(* What a run says stays true while other runs are created, repeated and   *)
(* publish.                                                                *)
Grows ==
    /\ DOMAIN run \subseteq DOMAIN run'
    /\ \A q \in DOMAIN run :
          run'[q].stream = run[q].stream /\ run[q].markers \subseteq run'[q].markers
          /\ run[q].attempt <= run'[q].attempt
          /\ (run'[q].attempt = run[q].attempt /\ run[q].step \notin Early
                => run'[q].step \notin Early)

LEMMA DatedStays ==
    ASSUME Grows, Types, Types', NEW b \in Batch, Dated(b)
    PROVE  Dated(b)'
<1>1. run[b[1]] \in Run /\ run'[b[1]] \in Run /\ b[2] \in Nat
  BY DEF Types, Dated, Grows, Batch, Attempt
<1>2. run[b[1]].attempt \in Nat /\ run'[b[1]].attempt \in Nat
  BY <1>1 DEF Run, Attempt
<1> QED
  BY <1>1, <1>2 DEF Dated, Grows

LEMMA SpeaksStays ==
    ASSUME Grows, NEW r \in DOMAIN run, NEW c, Speaks(r, c), \A b \in c : Dated(b)
    PROVE  Speaks(r, c)'
BY DEF Grows, Speaks, Dated

LEMMA InheritsStays ==
    ASSUME Grows, NEW r \in DOMAIN run, NEW a, NEW c, Inherits(r, a, c)
    PROVE  Inherits(r, a, c)'
BY DEF Grows, Inherits

LEMMA PublishedStays ==
    ASSUME Grows, Types, Types', NEW r \in DOMAIN run, Sound(r), NEW m \in run[r].markers
    PROVE  /\ m \in run[r].models
           /\ \A b \in m.content : Dated(b)'
           /\ Speaks(r, m.content)' /\ Inherits(r, m.attempt, m.content)'
<1>1. m.content \subseteq Batch
  BY Fields DEF Types, Artifact
<1> QED
  BY <1>1, DatedStays, SpeaksStays, InheritsStays DEF Sound

LEMMA OthersStaySound ==
    ASSUME Grows, Types, Types', NEW r \in DOMAIN run, Sound(r), run'[r] = run[r]
    PROVE  Sound(r)'
<1>1. run[r] \in Run
  BY DEF Types
<1>2. run[r].content \subseteq Batch /\ \A m \in run[r].markers : m.content \subseteq Batch
  BY <1>1 DEF Run, Artifact
<1>3. \A b \in run[r].content : Dated(b)'
  BY <1>2, DatedStays DEF Sound
<1>4. Speaks(r, run[r].content)' /\ Inherits(r, run[r].attempt, run[r].content)'
  BY SpeaksStays, InheritsStays DEF Sound
<1>5. ASSUME NEW m \in run[r].markers
      PROVE  /\ m \in run[r].models
             /\ \A b \in m.content : Dated(b)'
             /\ Speaks(r, m.content)' /\ Inherits(r, m.attempt, m.content)'
  BY <1>2, DatedStays, SpeaksStays, InheritsStays DEF Sound
<1>6. /\ run[r].left \subseteq DOMAIN run' \ {r}
      /\ \A q \in run[r].left : run'[q].stream \in Range(Reads[run[r].stream])
  BY DEF Sound, Grows
<1> QED
  BY <1>3, <1>4, <1>5, <1>6 DEF Sound, Upload

(* A step that replaces the record of one run.                             *)
LEMMA Update ==
    ASSUME IInv, attempts' \in attempts..MaxAttempts,
           NEW r \in DOMAIN run, NEW v, v \in Run, run' = [run EXCEPT ![r] = v],
           v.stream = run[r].stream, run[r].markers \subseteq v.markers,
           run[r].attempt <= v.attempt, v.attempt <= attempts',
           v.attempt = run[r].attempt /\ run[r].step \notin Early => v.step \notin Early,
           Grows /\ Types' => Sound(r)'
    PROVE  IInv'
<1>1. /\ DOMAIN run' = DOMAIN run /\ Len(run') = Len(run) /\ run' \in Seq(Run)
      /\ run'[r] = v /\ \A q \in DOMAIN run \ {r} : run'[q] = run[q]
  BY DEF IInv, Types
<1>2. \A q \in DOMAIN run : run[q] \in Run /\ run[q].attempt \in Nat
  <2>1. \A q \in DOMAIN run : run[q] \in Run
    BY DEF IInv, Types
  <2>2. \A w \in Run : w.attempt \in Nat
    BY DEF Run, Attempt
  <2> QED
    BY <2>1, <2>2
<1>3. attempts \in Nat /\ attempts' \in Nat /\ attempts <= attempts' /\ Len(run) \in Nat
  BY ArtifactAssumption DEF IInv, Types
<1>4. Types'
  <2>1. \A q \in DOMAIN run' : run'[q].attempt <= attempts'
    BY <1>1, <1>2, <1>3 DEF IInv, Types
  <2> QED
    BY <1>1, <1>3, <2>1, ArtifactAssumption DEF IInv, Types
<1>5. Grows
  BY <1>1, <1>2 DEF Grows
<1>6. ASSUME NEW q \in DOMAIN run' PROVE Sound(q)'
  <2>1. CASE q = r
    BY <2>1, <1>4, <1>5
  <2>2. CASE q # r
    BY <2>2, <1>1, <1>4, <1>5, OthersStaySound DEF IInv
  <2> QED
    BY <2>1, <2>2
<1> QED
  BY <1>4, <1>6 DEF IInv

(* A step of a run's job, which leaves its identity and its markers alone. *)
LEMMA JobStep ==
    ASSUME IInv, UNCHANGED attempts,
           NEW r \in DOMAIN run, NEW v, v \in Run, run' = [run EXCEPT ![r] = v],
           v.stream = run[r].stream, v.attempt = run[r].attempt,
           v.markers = run[r].markers, run[r].models \subseteq v.models,
           run[r].step \notin Early => v.step \notin Early,
           v.left \subseteq run[r].left \/ v.left \subseteq
              {q \in DOMAIN run \ {r} : run[q].stream \in Range(Reads[v.stream])},
           Range(v.sources) \subseteq Range(run[r].sources),
           v.content \in {{}, run[r].content},
           v.step = "model" => [attempt |-> v.attempt, content |-> v.content] \in v.models
    PROVE  IInv'
<1>1. run[r] \in Run /\ run'[r] = v /\ DOMAIN run' = DOMAIN run /\ Sound(r)
  BY DEF IInv, Types
<1>2. /\ attempts' \in attempts..MaxAttempts
      /\ run[r].attempt <= v.attempt /\ v.attempt <= attempts'
      /\ run[r].markers \subseteq v.markers
      /\ v.attempt = run[r].attempt /\ run[r].step \notin Early => v.step \notin Early
  BY <1>1, ArtifactAssumption DEF IInv, Types, Run, Attempt
<1>3. ASSUME Grows, Types' PROVE Sound(r)'
  <2> USE <1>3
  <2>1. v.content \subseteq Batch /\ \A m \in v.markers : m.content \subseteq Batch
    BY DEF Run, Artifact
  <2>2. \A b \in v.content : Dated(b)'
    BY <1>1, <2>1, DatedStays DEF Sound, IInv
  <2>3. Speaks(r, v.content)' /\ Inherits(r, v.attempt, v.content)'
    <3>1. CASE v.content = {}
      BY <3>1 DEF Speaks, Inherits
    <3>2. CASE v.content = run[r].content
      BY <3>2, <1>1, SpeaksStays, InheritsStays DEF Sound
    <3> QED
      BY <3>1, <3>2
  <2>4. ASSUME NEW m \in v.markers
        PROVE  /\ m \in v.models
               /\ \A b \in m.content : Dated(b)'
               /\ Speaks(r, m.content)' /\ Inherits(r, m.attempt, m.content)'
    BY <1>1, <2>1, DatedStays, SpeaksStays, InheritsStays DEF Sound, IInv
  <2>5. /\ v.left \subseteq DOMAIN run' \ {r}
        /\ \A q \in v.left : run'[q].stream \in Range(Reads[v.stream])
    BY <1>1 DEF Sound, Grows
  <2>6. v.step = "model" => Upload(r)' \in v.models
    BY <1>1 DEF Upload
  <2> QED
    BY <1>1, <2>2, <2>3, <2>4, <2>5, <2>6 DEF Sound
<1> QED
  BY <1>1, <1>2, <1>3, Update
------------------------------------------------------------------------------
LEMMA TailInRange ==
    ASSUME NEW S, NEW q \in Seq(S), q # << >>
    PROVE  Tail(q) \in Seq(S) /\ Range(Tail(q)) \subseteq Range(q) /\ Head(q) \in Range(q)
<1>1. Len(q) \in Nat \ {0} /\ Tail(q) \in Seq(S)
  OBVIOUS
<1>2. \A i \in DOMAIN Tail(q) : i + 1 \in DOMAIN q /\ Tail(q)[i] = q[i + 1]
  BY <1>1
<1>3. 1 \in DOMAIN q /\ Head(q) = q[1]
  BY <1>1
<1> QED
  BY <1>1, <1>2, <1>3 DEF Range

LEMMA InitSound == Init => IInv
BY ArtifactAssumption DEF Init, IInv, Types

LEMMA Numbered ==
    ASSUME IInv
    PROVE  DOMAIN run = 1..Len(run) /\ Len(run) \in Nat /\ DOMAIN run \subseteq Attempt
<1>1. DOMAIN run = 1..Len(run) /\ Len(run) \in Nat /\ attempts \in Nat
  BY ArtifactAssumption DEF IInv, Types
<1>2. Len(run) <= MaxAttempts
  BY <1>1, ArtifactAssumption DEF IInv, Types
<1> QED
  BY <1>1, <1>2, ArtifactAssumption DEF Attempt

LEMMA CreateSound ==
    ASSUME IInv, NEW s \in Stream, Create(s)
    PROVE  IInv'
<1> DEFINE v == Started(s, 1)
<1> PICK n : n = Len(run) + 1
  OBVIOUS
<1>1. attempts \in Nat /\ attempts' = attempts + 1 /\ attempts' \in 1..MaxAttempts /\ run' = Append(run, v)
  BY ArtifactAssumption DEF IInv, Types, Create
<1>2. v \in Run
  BY <1>1, RangeOfReads, ArtifactAssumption DEF Started, Run, Attempt
<1>3. /\ run \in Seq(Run) /\ run' \in Seq(Run) /\ Len(run) \in Nat /\ Len(run') = n
      /\ DOMAIN run = 1..Len(run) /\ DOMAIN run' = 1..n
      /\ run'[n] = v /\ \A q \in DOMAIN run : run'[q] = run[q]
  BY <1>1, <1>2 DEF IInv, Types
<1>4. \A q \in DOMAIN run : run[q].attempt \in Nat
  BY <1>3, Fields
<1>5. Types'
  <2>1. \A q \in DOMAIN run' : run'[q].attempt <= attempts'
    <3>1. v.attempt = 1
      BY DEF Started
    <3>2. \A q \in DOMAIN run' : q = n \/ q \in DOMAIN run
      BY <1>3
    <3> QED
      BY <1>1, <1>3, <1>4, <3>1, <3>2 DEF IInv, Types
  <2> QED
    BY <1>1, <1>3, <2>1 DEF IInv, Types
<1>6. Grows
  BY <1>3, <1>4 DEF Grows
<1>7. Sound(n)'
  <2> PICK w : w = v
    OBVIOUS
  <2>1. /\ run'[n] = w /\ w.left = {} /\ w.content = {} /\ w.markers = {}
        /\ w.sources = Reads[s] /\ w.stream = s /\ w.step = "jobs"
    BY <1>3 DEF Started
  <2>2. Speaks(n, run[n].content)' /\ Inherits(n, run[n].attempt, run[n].content)'
    BY <2>1 DEF Speaks, Inherits
  <2> QED
    BY <2>1, <2>2 DEF Sound
<1>8. ASSUME NEW q \in DOMAIN run' PROVE Sound(q)'
  <2>1. CASE q = n
    BY <2>1, <1>7
  <2>2. CASE q \in DOMAIN run
    BY <2>2, <1>3, <1>5, <1>6, OthersStaySound DEF IInv
  <2> QED
    BY <2>1, <2>2, <1>3
<1> QED
  BY <1>5, <1>8 DEF IInv

LEMMA ListSound ==
    ASSUME IInv, NEW r \in Attempt, List(r)
    PROVE  IInv'
<1>1. /\ r \in DOMAIN run /\ run[r] \in Run /\ run[r].sources \in Seq(Stream)
      /\ run[r].sources # << >> /\ run[r].step \in {"jobs", "choosing"}
      /\ UNCHANGED attempts
  <2>1. r \in DOMAIN run /\ run[r] \in Run
    BY DEF IInv, Types, List, At
  <2> QED
    BY <2>1, Fields DEF List, At
<1> DEFINE s == Head(run[r].sources)
<1>2. s \in Range(Reads[run[r].stream])
  BY <1>1, TailInRange DEF IInv, Sound
<1>3. Tail(run[r].sources) \in Seq(Stream) /\ Range(Tail(run[r].sources)) \subseteq Range(run[r].sources)
  BY <1>1, TailInRange
<1>4. CASE Listed(r, s)
  <2> DEFINE page == Shown(r, s)
  <2>1. page \subseteq {q \in DOMAIN run \ {r} : run[q].stream \in Range(Reads[run[r].stream])}
    BY <1>2 DEF Shown, Successful
  <2>2. page \subseteq Attempt
    <3>1. page \subseteq DOMAIN run
      BY <2>1
    <3> QED
      BY <3>1, Numbered
  <2>3. PICK v : v = [run[r] EXCEPT !.left = page, !.sources = Tail(run[r].sources), !.step = "choosing"]
    OBVIOUS
  <2>4. run' = [run EXCEPT ![r] = v]
    BY <1>1, <1>4, <2>3 DEF Listed, IInv, Types
  <2>5. v \in Run
    BY <1>1, <1>3, <2>2, <2>3 DEF Run
  <2>6. /\ v.stream = run[r].stream /\ v.attempt = run[r].attempt /\ v.markers = run[r].markers
        /\ v.models = run[r].models /\ v.left = page /\ v.sources = Tail(run[r].sources)
        /\ v.content = run[r].content /\ v.step = "choosing"
    BY <1>1, <2>3 DEF Run
  <2> QED
    BY <1>1, <1>3, <2>1, <2>4, <2>5, <2>6, JobStep DEF Early
<1>5. CASE ListFails(r)
  <2>3. PICK v : v = [run[r] EXCEPT !.sources = Tail(run[r].sources), !.step = "choosing"]
    OBVIOUS
  <2>4. run' = [run EXCEPT ![r] = v]
    BY <1>1, <1>5, <2>3 DEF ListFails, IInv, Types
  <2>5. v \in Run
    BY <1>1, <1>3, <2>3 DEF Run
  <2>6. /\ v.stream = run[r].stream /\ v.attempt = run[r].attempt /\ v.markers = run[r].markers
        /\ v.models = run[r].models /\ v.left = run[r].left /\ v.sources = Tail(run[r].sources)
        /\ v.content = run[r].content /\ v.step = "choosing"
    BY <1>1, <2>3 DEF Run
  <2> QED
    BY <1>1, <1>3, <2>4, <2>5, <2>6, JobStep DEF Early
<1> QED
  BY <1>4, <1>5 DEF List

LEMMA RejectSound ==
    ASSUME IInv, NEW r \in Attempt, Reject(r)
    PROVE  IInv'
<1>1. r \in DOMAIN run /\ run[r] \in Run /\ run[r].step = "choosing" /\ UNCHANGED attempts
  BY DEF IInv, Types, Reject, At
<1>2. PICK v : v = [run[r] EXCEPT !.left = run[r].left \ {Candidate(r)}]
  OBVIOUS
<1>3. run' = [run EXCEPT ![r] = v]
  BY <1>1, <1>2 DEF Reject, IInv, Types
<1>4. v \in Run
  BY <1>1, <1>2 DEF Run
<1>5. /\ v.stream = run[r].stream /\ v.attempt = run[r].attempt /\ v.markers = run[r].markers
      /\ v.models = run[r].models /\ v.left \subseteq run[r].left /\ v.sources = run[r].sources
      /\ v.content = run[r].content /\ v.step = "choosing"
  BY <1>1, <1>2 DEF Run
<1> QED
  BY <1>1, <1>3, <1>4, <1>5, JobStep DEF Early

LEMMA UploadModelSound ==
    ASSUME IInv, NEW r \in Attempt, UploadModel(r)
    PROVE  IInv'
<1>1. r \in DOMAIN run /\ run[r] \in Run /\ run[r].step = "compiled" /\ UNCHANGED attempts
  BY DEF IInv, Types, UploadModel, At
<1>2. PICK v : v = [run[r] EXCEPT !.models = run[r].models \cup {Upload(r)}, !.step = "model"]
  OBVIOUS
<1>3. run' = [run EXCEPT ![r] = v]
  BY <1>1, <1>2 DEF UploadModel, IInv, Types
<1>4. v \in Run
  <2>1. Upload(r) \in Artifact
    BY <1>1, Fields DEF Upload, Artifact
  <2> QED
    BY <1>1, <1>2, <2>1 DEF Run
<1>5. /\ v.stream = run[r].stream /\ v.attempt = run[r].attempt /\ v.markers = run[r].markers
      /\ v.models = run[r].models \cup {Upload(r)} /\ v.left = run[r].left
      /\ v.sources = run[r].sources /\ v.content = run[r].content /\ v.step = "model"
  BY <1>1, <1>2 DEF Run
<1>6. [attempt |-> v.attempt, content |-> v.content] \in v.models
  BY <1>5 DEF Upload
<1> QED
  BY <1>1, <1>3, <1>4, <1>5, <1>6, JobStep DEF Early

LEMMA FinishSound ==
    ASSUME IInv, NEW r \in Attempt, Finish(r)
    PROVE  IInv'
<1>1. r \in DOMAIN run /\ run[r] \in Run /\ UNCHANGED attempts
  BY DEF IInv, Types, Finish, Active
<1>2. PICK step \in Finished : run' = [run EXCEPT ![r] = Left(r, step)]
  BY DEF Finish
<1>3. PICK v : v = Left(r, step)
  OBVIOUS
<1>4. v \in Run
  <2>1. << >> \in Seq(Stream) /\ {} \subseteq Attempt /\ {} \subseteq Batch
    OBVIOUS
  <2> QED
    BY <1>1, <1>2, <1>3, <2>1 DEF Run, Left
<1>5. /\ v.stream = run[r].stream /\ v.attempt = run[r].attempt /\ v.markers = run[r].markers
      /\ v.models = run[r].models /\ v.left = {} /\ v.sources = << >>
      /\ v.content = {} /\ v.step = step
  BY <1>1, <1>3 DEF Run, Left
<1>6. Range(v.sources) = {} /\ step \notin Early /\ step # "model"
  BY <1>5 DEF Range, Finished, Early
<1> QED
  BY <1>1, <1>2, <1>3, <1>4, <1>5, <1>6, JobStep

(* A candidate hands on what its marker announced, of which the batch of   *)
(* the taking attempt is no part yet.                                      *)
LEMMA TakeSound ==
    ASSUME IInv, NEW r \in Attempt, Take(r)
    PROVE  IInv'
<1>1. /\ r \in DOMAIN run /\ run[r] \in Run /\ Sound(r) /\ run[r].step = "choosing"
      /\ UNCHANGED attempts /\ run[r].left # {}
  BY DEF IInv, Types, Take, At
<1> PICK q : q = Candidate(r)
  OBVIOUS
<1>2. q \in DOMAIN run \ {r} /\ run[q].stream \in Range(Reads[run[r].stream])
  <2>1. run[r].left \subseteq Attempt
    BY <1>1, Fields
  <2>2. q \in run[r].left
    BY <1>1, <2>1, NewestIsMember DEF Candidate
  <2> QED
    BY <1>1, <2>2 DEF Sound
<1>3. run[q] \in Run /\ Sound(q)
  BY <1>2 DEF IInv, Types
<1> PICK c : c = Previous(q)
  OBVIOUS
<1>4. c = {} \/ \E n \in run[q].markers : c = n.content
  <2>1. run[q].markers # {}
    <3>1. Cardinality(run[q].markers) = 1
      BY DEF Take, Readable
    <3>2. Cardinality({}) = 0
      BY FS_EmptySet
    <3> QED
      BY <3>1, <3>2
  <2> QED
    BY <2>1 DEF Previous
<1>5. /\ c \subseteq Batch /\ \A b \in c : Dated(b)
      /\ <<r, run[r].attempt>> \notin c
      /\ Speaks(r, c) /\ Inherits(r, run[r].attempt, c)
  <2>1. CASE c = {}
    BY <2>1 DEF Speaks, Inherits
  <2>2. ASSUME NEW n \in run[q].markers, c = n.content PROVE <1>5
    <3>1. c \subseteq Batch
      BY <1>3, <2>2, Fields DEF Artifact
    <3>2. \A b \in c : Dated(b)
      BY <1>3, <2>2 DEF Sound
    <3>3. <<r, run[r].attempt>> \notin c
      BY <1>1, <3>2 DEF Dated, Early
    <3>4. Speaks(r, c)
      BY <1>1, <1>2, <1>3, <2>2, Fields, RangeOfReads DEF Sound, Speaks
    <3>5. c \ {<<r, run[r].attempt>>} = c
      BY <3>3
    <3>6. <<q, n.attempt>> # <<r, run[r].attempt>>
      BY <1>2
    <3> QED
      BY <1>2, <2>2, <3>1, <3>2, <3>3, <3>4, <3>5, <3>6 DEF Inherits
  <2> QED
    BY <1>4, <2>1, <2>2
<1>6. PICK v : v = [run[r] EXCEPT !.content = c, !.sources = << >>, !.left = {}, !.step = "compile"]
  OBVIOUS
<1>7. run' = [run EXCEPT ![r] = v]
  BY <1>1, <1>6 DEF Take, IInv, Types
<1>8. v \in Run
  <2>1. << >> \in Seq(Stream) /\ {} \subseteq Attempt
    OBVIOUS
  <2> QED
    BY <1>1, <1>5, <1>6, <2>1 DEF Run
<1>9. /\ v.stream = run[r].stream /\ v.attempt = run[r].attempt /\ v.markers = run[r].markers
      /\ v.models = run[r].models /\ v.left = {} /\ v.sources = << >>
      /\ v.content = c /\ v.step = "compile"
  BY <1>1, <1>6 DEF Run
<1>10. ASSUME Grows, Types' PROVE Sound(r)'
  <2>1. run'[r] = v /\ DOMAIN run' = DOMAIN run
    BY <1>1, <1>7 DEF IInv, Types
  <2>2. \A b \in c : Dated(b)'
    BY <1>5, <1>10, DatedStays DEF IInv
  <2>3. Speaks(r, c)' /\ Inherits(r, v.attempt, c)'
    BY <1>1, <1>5, <1>9, <1>10, SpeaksStays, InheritsStays
  <2>4. ASSUME NEW m \in v.markers
        PROVE  /\ m \in v.models
               /\ \A b \in m.content : Dated(b)'
               /\ Speaks(r, m.content)' /\ Inherits(r, m.attempt, m.content)'
    BY <1>1, <1>9, <1>10, PublishedStays DEF IInv
  <2>5. Range(v.sources) = {}
    BY <1>9 DEF Range
  <2> QED
    BY <1>9, <2>1, <2>2, <2>3, <2>4, <2>5 DEF Sound
<1> QED
  <2>1. attempts' \in attempts..MaxAttempts /\ run[r].attempt <= attempts'
    BY <1>1, ArtifactAssumption DEF IInv, Types
  <2>2. run[r].attempt <= v.attempt /\ v.attempt <= attempts'
    BY <1>1, <1>9, <2>1, Fields
  <2> QED
    BY <1>1, <1>7, <1>8, <1>9, <1>10, <2>1, <2>2, Update DEF Early

(* The batch of the attempt is new to the model.                           *)
LEMMA CompileSound ==
    ASSUME IInv, NEW r \in Attempt, Compile(r)
    PROVE  IInv'
<1>1. /\ r \in DOMAIN run /\ run[r] \in Run /\ Sound(r) /\ run[r].step \in {"choosing", "compile"}
      /\ UNCHANGED attempts /\ r \in Attempt /\ run[r].attempt \in Attempt
  <2>1. r \in DOMAIN run /\ run[r] \in Run /\ Sound(r)
    BY DEF IInv, Types, Compile, NothingFound, At
  <2> QED
    BY <2>1, Fields DEF Compile, NothingFound, At
<1> PICK own : own = Own(r)
  OBVIOUS
<1>2. own = <<r, run[r].attempt>> /\ own \in Batch /\ own[1] = r /\ own[2] = run[r].attempt
  BY <1>1 DEF Own, Batch
<1>3. own \notin run[r].content
  BY <1>1, <1>2 DEF Sound, Dated, Early
<1>4. PICK applied \in {{}, {own}} :
         run' = [run EXCEPT ![r].content = run[r].content \cup applied,
                            ![r].step = IF run[r].content \cup applied = {} THEN "idle" ELSE "compiled"]
  BY DEF Compile
<1> PICK c : c = run[r].content \cup applied
  OBVIOUS
<1>5. c \ {own} = run[r].content /\ c \subseteq Batch
  BY <1>1, <1>2, <1>3, Fields
<1>6. PICK v : v = [run[r] EXCEPT !.content = c, !.step = IF c = {} THEN "idle" ELSE "compiled"]
  OBVIOUS
<1>7. run' = [run EXCEPT ![r] = v]
  BY <1>1, <1>4, <1>6 DEF IInv, Types
<1>8. v \in Run
  BY <1>1, <1>5, <1>6 DEF Run
<1>9. /\ v.stream = run[r].stream /\ v.attempt = run[r].attempt /\ v.markers = run[r].markers
      /\ v.models = run[r].models /\ v.left = run[r].left /\ v.sources = run[r].sources
      /\ v.content = c /\ v.step \in {"idle", "compiled"}
  BY <1>1, <1>6 DEF Run
<1>10. ASSUME Grows, Types' PROVE Sound(r)'
  <2>1. run'[r] = v /\ DOMAIN run' = DOMAIN run
    BY <1>1, <1>7 DEF IInv, Types
  <2>2. \A b \in run[r].content : Dated(b)'
    BY <1>1, <1>10, DatedStays, Fields DEF IInv, Sound
  <2>3. Dated(own)'
    <3>1. run[r].attempt \in Nat
      BY <1>1, Fields
    <3> QED
      BY <1>1, <1>2, <1>9, <2>1, <3>1 DEF Dated, Early
  <2>4. \A b \in c : Dated(b)'
    BY <2>2, <2>3
  <2>5. Speaks(r, c)'
    <3>1. Speaks(r, c)
      BY <1>1, <1>2 DEF Sound, Speaks, ScopesOf
    <3>2. \A q \in DOMAIN run : run'[q].stream = run[q].stream
      BY <1>10 DEF Grows
    <3>3. \A b \in c : b[1] \in DOMAIN run
      BY <1>1, <1>2 DEF Sound, Dated
    <3> QED
      BY <1>1, <3>1, <3>2, <3>3 DEF Speaks
  <2>6. Inherits(r, v.attempt, c)'
    <3>1. Inherits(r, run[r].attempt, c)
      <4>1. Inherits(r, run[r].attempt, run[r].content)
        BY <1>1 DEF Sound
      <4>2. run[r].content \ {own} = run[r].content
        BY <1>3
      <4> QED
        BY <1>2, <1>5, <4>1, <4>2 DEF Inherits
    <3> QED
      BY <1>1, <1>9, <1>10, <3>1, InheritsStays
  <2>7. ASSUME NEW m \in v.markers
        PROVE  /\ m \in v.models
               /\ \A b \in m.content : Dated(b)'
               /\ Speaks(r, m.content)' /\ Inherits(r, m.attempt, m.content)'
    BY <1>1, <1>9, <1>10, PublishedStays DEF IInv
  <2>8. /\ v.left \subseteq DOMAIN run' \ {r}
        /\ \A q \in v.left : run'[q].stream \in Range(Reads[v.stream])
    BY <1>1, <1>9, <1>10, <2>1 DEF Sound, Grows
  <2>9. Range(v.sources) \subseteq Range(Reads[v.stream])
    BY <1>1, <1>9 DEF Sound
  <2> QED
    BY <1>9, <2>1, <2>4, <2>5, <2>6, <2>7, <2>8, <2>9 DEF Sound
<1> QED
  <2>1. attempts' \in attempts..MaxAttempts /\ run[r].attempt <= attempts'
    BY <1>1, ArtifactAssumption DEF IInv, Types
  <2>2. run[r].attempt <= v.attempt /\ v.attempt <= attempts'
    BY <1>1, <1>9, <2>1, Fields
  <2> QED
    BY <1>1, <1>7, <1>8, <1>9, <1>10, <2>1, <2>2, Update DEF Early

LEMMA UploadMarkerSound ==
    ASSUME IInv, NEW r \in Attempt, UploadMarker(r)
    PROVE  IInv'
<1>1. /\ r \in DOMAIN run /\ run[r] \in Run /\ Sound(r) /\ run[r].step = "model"
      /\ UNCHANGED attempts
  BY DEF IInv, Types, UploadMarker, At
<1> PICK u : u = Upload(r)
  OBVIOUS
<1>2. /\ u \in Artifact /\ u \in run[r].models
      /\ u.attempt = run[r].attempt /\ u.content = run[r].content
  BY <1>1, Fields DEF Upload, Artifact, Sound
<1>3. PICK v : v = [Left(r, "idle") EXCEPT !.markers = run[r].markers \cup {u}]
  OBVIOUS
<1>4. run' = [run EXCEPT ![r] = v]
  BY <1>1, <1>3 DEF UploadMarker, Left, IInv, Types
<1>5. v \in Run
  <2>1. << >> \in Seq(Stream) /\ {} \subseteq Attempt /\ {} \subseteq Batch
    OBVIOUS
  <2> QED
    BY <1>1, <1>2, <1>3, <2>1 DEF Run, Left
<1>6. /\ v.stream = run[r].stream /\ v.attempt = run[r].attempt /\ v.models = run[r].models
      /\ v.markers = run[r].markers \cup {u} /\ v.left = {} /\ v.sources = << >>
      /\ v.content = {} /\ v.step = "idle"
  BY <1>1, <1>3 DEF Run, Left
<1>7. ASSUME Grows, Types' PROVE Sound(r)'
  <2>1. run'[r] = v /\ DOMAIN run' = DOMAIN run
    BY <1>1, <1>4 DEF IInv, Types
  <2>2. Speaks(r, v.content)' /\ Inherits(r, v.attempt, v.content)'
    BY <1>6 DEF Speaks, Inherits
  <2>3. ASSUME NEW m \in v.markers
        PROVE  /\ m \in v.models
               /\ \A b \in m.content : Dated(b)'
               /\ Speaks(r, m.content)' /\ Inherits(r, m.attempt, m.content)'
    <3>1. CASE m \in run[r].markers
      BY <3>1, <1>1, <1>6, <1>7, PublishedStays DEF IInv
    <3>2. CASE m = u
      <4>1. \A b \in m.content : Dated(b)'
        BY <3>2, <1>1, <1>2, <1>7, DatedStays, Fields DEF IInv, Sound
      <4>2. Speaks(r, m.content)' /\ Inherits(r, m.attempt, m.content)'
        BY <3>2, <1>1, <1>2, <1>7, SpeaksStays, InheritsStays DEF Sound
      <4> QED
        BY <3>2, <1>2, <1>6, <4>1, <4>2
    <3> QED
      BY <3>1, <3>2, <1>6
  <2>4. Range(v.sources) = {}
    BY <1>6 DEF Range
  <2> QED
    BY <1>6, <2>1, <2>2, <2>3, <2>4 DEF Sound
<1> QED
  <2>1. attempts' \in attempts..MaxAttempts /\ run[r].attempt <= attempts'
    BY <1>1, ArtifactAssumption DEF IInv, Types
  <2>2. run[r].attempt <= v.attempt /\ v.attempt <= attempts'
    BY <1>1, <1>6, <2>1, Fields
  <2> QED
    BY <1>1, <1>4, <1>5, <1>6, <1>7, <2>1, <2>2, Update DEF Early

LEMMA RerunSound ==
    ASSUME IInv, NEW r \in Attempt, Rerun(r)
    PROVE  IInv'
<1>1. /\ r \in DOMAIN run /\ run[r] \in Run /\ Sound(r)
      /\ attempts' = attempts + 1 /\ attempts < MaxAttempts /\ attempts \in Nat
      /\ run[r].attempt \in Nat \ {0} /\ run[r].attempt <= attempts
  <2>1. r \in DOMAIN run /\ run[r] \in Run /\ Sound(r)
    BY DEF IInv, Types, Rerun
  <2>2. run[r].attempt \in Nat \ {0}
    BY <2>1, Fields DEF Attempt
  <2> QED
    BY <2>1, <2>2, ArtifactAssumption DEF IInv, Types, Rerun
<1>2. PICK v : v = [Started(run[r].stream, run[r].attempt + 1)
                       EXCEPT !.models = run[r].models, !.markers = run[r].markers]
  OBVIOUS
<1>3. run' = [run EXCEPT ![r] = v]
  BY <1>2 DEF Rerun
<1>4. /\ v.stream = run[r].stream /\ v.attempt = run[r].attempt + 1 /\ v.models = run[r].models
      /\ v.markers = run[r].markers /\ v.left = {} /\ v.sources = Reads[run[r].stream]
      /\ v.content = {} /\ v.step = "jobs"
  BY <1>2 DEF Started
<1>5. v \in Run
  <2>1. /\ Reads[run[r].stream] \in Seq(Stream) /\ {} \subseteq Attempt /\ {} \subseteq Batch
        /\ run[r].attempt + 1 \in Attempt
    BY <1>1, Fields, RangeOfReads, ArtifactAssumption DEF Attempt
  <2> QED
    BY <1>1, <1>2, <2>1, Fields DEF Run, Started
<1>6. ASSUME Grows, Types' PROVE Sound(r)'
  <2>1. run'[r] = v /\ DOMAIN run' = DOMAIN run
    BY <1>1, <1>3 DEF IInv, Types
  <2>2. Speaks(r, v.content)' /\ Inherits(r, v.attempt, v.content)'
    BY <1>4 DEF Speaks, Inherits
  <2>3. ASSUME NEW m \in v.markers
        PROVE  /\ m \in v.models
               /\ \A b \in m.content : Dated(b)'
               /\ Speaks(r, m.content)' /\ Inherits(r, m.attempt, m.content)'
    BY <1>1, <1>4, <1>6, PublishedStays DEF IInv
  <2> QED
    BY <1>4, <2>1, <2>2, <2>3 DEF Sound
<1> QED
  <2>1. attempts' \in attempts..MaxAttempts
    BY <1>1, ArtifactAssumption
  <2>2. run[r].attempt <= v.attempt /\ v.attempt <= attempts' /\ v.attempt # run[r].attempt
    BY <1>1, <1>4
  <2> QED
    BY <1>1, <1>3, <1>4, <1>5, <1>6, <2>1, <2>2, Update

LEMMA StepSound == IInv /\ [Next]_vars => IInv'
<1> SUFFICES ASSUME IInv, [Next]_vars PROVE IInv'
  OBVIOUS
<1>1. CASE UNCHANGED vars
  <2>1. run' = run /\ attempts' = attempts
    BY <1>1 DEF vars
  <2>2. Types' /\ Grows
    BY <2>1, Fields DEF IInv, Types, Grows
  <2> QED
    BY <2>1, <2>2, OthersStaySound DEF IInv
<1>2. ASSUME NEW s \in Stream, Create(s) PROVE IInv'
  BY <1>2, CreateSound
<1>3. ASSUME NEW r \in Attempt, Step(r) PROVE IInv'
  BY <1>3, ListSound, RejectSound, TakeSound, CompileSound, UploadModelSound,
     UploadMarkerSound, FinishSound, RerunSound DEF Step
<1> QED
  BY <1>1, <1>2, <1>3 DEF Next

(* Whatever fails between two uploads, however runs overlap and however    *)
(* often they are run again: a marker names a model of its run, speaks     *)
(* only of what the run may know, and extends one earlier marker by the    *)
(* batch of its own attempt (history.rs, status/action.yml).               *)
THEOREM MarkersAreTrue == Spec => []MarkersTellTheTruth
<1>1. IInv => MarkersTellTheTruth
  BY DEF IInv, Sound, MarkersTellTheTruth
<1> QED
  BY <1>1, InitSound, StepSound, PTL DEF Spec

------------------------------------------------------------------------------
(* A page holds no more runs than its size.                                *)
LEMMA PageIsBounded ==
    ASSUME NEW S, S \subseteq Attempt
    PROVE  IsFiniteSet(FirstPage(S)) /\ Cardinality(FirstPage(S)) <= Page
<1>1. MaxAttempts \in Nat /\ Page \in Nat \ {0}
  BY ArtifactAssumption
<1>2. IsFiniteSet(Attempt)
  BY <1>1, FS_Interval DEF Attempt
<1>3. IsFiniteSet(S)
  BY <1>2, FS_Subset
<1>4. FirstPage(S) \subseteq S /\ IsFiniteSet(FirstPage(S))
  BY <1>3, FS_Subset DEF FirstPage
<1>5. CASE FirstPage(S) = {}
  BY <1>1, <1>5, FS_EmptySet
<1>6. CASE FirstPage(S) # {}
  <2>1. FirstPage(S) \subseteq Nat
    <3>1. Attempt \subseteq Nat
      BY <1>1 DEF Attempt
    <3> QED
      BY <1>4, <3>1
  <2>2. PICK last \in FirstPage(S) : \A y \in FirstPage(S) : ~(<<y, last>> \in OpToRel(<, Nat))
    BY <1>6, <2>1, NatLessThanWellFounded, WFMin
  <2>3. ASSUME NEW y \in FirstPage(S) PROVE y = last \/ y > last
    <3>1. y \in Nat /\ last \in Nat
      BY <2>1
    <3>2. <<y, last>> \in Nat \X Nat /\ <<y, last>>[1] = y /\ <<y, last>>[2] = last
      BY <3>1
    <3>3. ~(y < last)
      BY <3>2, <2>2 DEF OpToRel
    <3> QED
      BY <3>1, <3>3
  <2> DEFINE newer == {p \in S : p > last}
  <2>4. IsFiniteSet(newer) /\ Cardinality(newer) < Page /\ Cardinality(newer) \in Nat
    BY <1>3, <2>2, FS_Subset, FS_CardinalityType DEF FirstPage
  <2>5. FirstPage(S) \subseteq newer \cup {last}
    BY <1>4, <2>3
  <2>6. IsFiniteSet(newer \cup {last}) /\ Cardinality(newer \cup {last}) = Cardinality(newer) + 1
    <3>1. last \notin newer
      BY <2>1
    <3> QED
      BY <2>4, <3>1, FS_AddElement
  <2>7. Cardinality(FirstPage(S)) <= Cardinality(newer \cup {last})
    BY <2>5, <2>6, FS_Subset
  <2> QED
    BY <1>1, <1>4, <2>4, <2>6, <2>7, FS_CardinalityType
<1> QED
  BY <1>5, <1>6

(* What a run has left to try is of one page, and shrinks.                 *)
Bounded(left) == IsFiniteSet(left) /\ Cardinality(left) <= Page
TypeInv == TypeOK /\ \A r \in DOMAIN run : Bounded(run[r].left)

LEMMA BoundedSubset ==
    ASSUME NEW S, Bounded(S), NEW T \in SUBSET S
    PROVE  Bounded(T)
<1>1. IsFiniteSet(T) /\ Cardinality(T) <= Cardinality(S)
  BY FS_Subset DEF Bounded
<1>2. Cardinality(T) \in Nat /\ Cardinality(S) \in Nat /\ Page \in Nat
  BY <1>1, FS_CardinalityType, ArtifactAssumption DEF Bounded
<1> QED
  BY <1>1, <1>2 DEF Bounded

(* How a step changes what the runs have left to try.                      *)
LEMMA LeftIsBounded ==
    ASSUME IInv, TypeInv, [Next]_vars, IInv'
    PROVE  \A r \in DOMAIN run' : Bounded(run'[r].left)
<1> SUFFICES ASSUME NEW q \in DOMAIN run' PROVE Bounded(run'[q].left)
  OBVIOUS
<1>1. Bounded({})
  BY FS_EmptySet, ArtifactAssumption DEF Bounded
<1>2. CASE UNCHANGED vars
  BY <1>2 DEF vars, TypeInv
<1>3. ASSUME NEW s \in Stream, Create(s) PROVE Bounded(run'[q].left)
  <2>1. /\ run \in Seq(Run) /\ run' = Append(run, Started(s, 1)) /\ Started(s, 1).left = {}
    BY <1>3 DEF IInv, Types, Create, Started
  <2>2. \/ q \in DOMAIN run /\ run'[q] = run[q]
        \/ run'[q] = Started(s, 1)
    BY <2>1
  <2> QED
    BY <1>1, <2>1, <2>2 DEF TypeInv
<1>4. ASSUME NEW r \in Attempt, Step(r) PROVE Bounded(run'[q].left)
  <2>1. r \in DOMAIN run /\ run \in Seq(Run) /\ run[r] \in Run
    <3>1. r \in DOMAIN run
      BY <1>4, Zenon DEF Step, List, Reject, Take, Compile, NothingFound, UploadModel,
                         UploadMarker, Finish, Active, Rerun, At
    <3> QED
      BY <3>1 DEF IInv, Types
  <2>2. CASE \E w : run' = [run EXCEPT ![r] = w] /\ Bounded(w.left)
    <3>1. PICK w : run' = [run EXCEPT ![r] = w] /\ Bounded(w.left)
      BY <2>2
    <3>2. q \in DOMAIN run /\ (q # r => run'[q] = run[q]) /\ (q = r => run'[q] = w)
      BY <2>1, <3>1
    <3> QED
      BY <3>1, <3>2 DEF TypeInv
  <2>3. Bounded(run[r].left)
    BY <2>1 DEF TypeInv
  <2>4. CASE List(r)
    <3> DEFINE s == Head(run[r].sources)  page == Shown(r, s)
    <3>1. CASE Listed(r, s)
      <4>1. Bounded(page)
        <5>1. OfBranch(s) \subseteq Attempt
          BY Numbered DEF OfBranch
        <5>2. Bounded(FirstPage(OfBranch(s)))
          BY <5>1, PageIsBounded DEF Bounded
        <5>3. page \in SUBSET FirstPage(OfBranch(s))
          BY DEF Shown
        <5> QED
          BY <5>2, <5>3, BoundedSubset
      <4>2. PICK w : w = [run[r] EXCEPT !.left = page, !.sources = Tail(run[r].sources), !.step = "choosing"]
        OBVIOUS
      <4>3. run' = [run EXCEPT ![r] = w] /\ w.left = page
        BY <2>1, <3>1, <4>2 DEF Listed, Run
      <4> QED
        BY <2>2, <4>1, <4>3
    <3>2. CASE ListFails(r)
      <4>2. PICK w : w = [run[r] EXCEPT !.sources = Tail(run[r].sources), !.step = "choosing"]
        OBVIOUS
      <4>3. run' = [run EXCEPT ![r] = w] /\ w.left = run[r].left
        BY <2>1, <3>2, <4>2 DEF ListFails, Run
      <4> QED
        BY <2>2, <2>3, <4>3
    <3> QED
      BY <2>4, <3>1, <3>2 DEF List
  <2>5. CASE Reject(r)
    <3>1. PICK w : w = [run[r] EXCEPT !.left = run[r].left \ {Candidate(r)}]
      OBVIOUS
    <3>2. run' = [run EXCEPT ![r] = w] /\ w.left \in SUBSET run[r].left
      BY <2>1, <2>5, <3>1 DEF Reject, Run
    <3> QED
      BY <2>2, <2>3, <3>2, BoundedSubset
  <2>6. CASE Take(r)
    <3>1. PICK w : w = [run[r] EXCEPT !.content = Previous(Candidate(r)), !.sources = << >>,
                                      !.left = {}, !.step = "compile"]
      OBVIOUS
    <3>2. run' = [run EXCEPT ![r] = w] /\ w.left = {}
      BY <2>1, <2>6, <3>1 DEF Take, Run
    <3> QED
      BY <1>1, <2>2, <3>2
  <2>7. CASE Compile(r)
    <3>1. PICK c, step : run' = [run EXCEPT ![r].content = c, ![r].step = step]
      BY <2>7 DEF Compile
    <3>2. PICK w : w = [run[r] EXCEPT !.content = c, !.step = step]
      OBVIOUS
    <3>3. run' = [run EXCEPT ![r] = w] /\ w.left = run[r].left
      BY <2>1, <3>1, <3>2 DEF Run
    <3> QED
      BY <2>2, <2>3, <3>3
  <2>8. CASE UploadModel(r)
    <3>1. PICK w : w = [run[r] EXCEPT !.models = run[r].models \cup {Upload(r)}, !.step = "model"]
      OBVIOUS
    <3>2. run' = [run EXCEPT ![r] = w] /\ w.left = run[r].left
      BY <2>1, <2>8, <3>1 DEF UploadModel, Run
    <3> QED
      BY <2>2, <2>3, <3>2
  <2>9. CASE UploadMarker(r)
    <3>1. PICK w : w = [Left(r, "idle") EXCEPT !.markers = run[r].markers \cup {Upload(r)}]
      OBVIOUS
    <3>2. run' = [run EXCEPT ![r] = w] /\ w.left = {}
      BY <2>1, <2>9, <3>1 DEF UploadMarker, Left, Run
    <3> QED
      BY <1>1, <2>2, <3>2
  <2>10. CASE Finish(r)
    <3>1. PICK step \in Finished : run' = [run EXCEPT ![r] = Left(r, step)]
      BY <2>10 DEF Finish
    <3>2. Left(r, step).left = {}
      BY <2>1 DEF Left, Run
    <3> QED
      BY <1>1, <2>2, <3>1, <3>2
  <2>11. CASE Rerun(r)
    <3>1. PICK w : w = [Started(run[r].stream, run[r].attempt + 1)
                           EXCEPT !.models = run[r].models, !.markers = run[r].markers]
      OBVIOUS
    <3>2. run' = [run EXCEPT ![r] = w] /\ w.left = {}
      BY <2>11, <3>1 DEF Rerun, Started
    <3> QED
      BY <1>1, <2>2, <3>2
  <2> QED
    BY <1>4, <2>4, <2>5, <2>6, <2>7, <2>8, <2>9, <2>10, <2>11 DEF Step
<1> QED
  BY <1>2, <1>3, <1>4 DEF Next

LEMMA TypeInvStep == IInv /\ TypeInv /\ [Next]_vars /\ IInv' => TypeInv'
<1> SUFFICES ASSUME IInv, TypeInv, [Next]_vars, IInv' PROVE TypeInv'
  OBVIOUS
<1>1. disturbed' \subseteq {"overlap", "page", "transfer", "re-run"}
  BY DEF TypeInv, TypeOK, Next, vars, Create, Step, List, Listed, ListFails, Reject, Take, Compile,
         UploadModel, UploadMarker, Finish, Rerun, Disturb
<1>2. /\ attempts' \in 0..MaxAttempts /\ Len(run') <= attempts' /\ run' \in Seq(Run)
      /\ \A r \in DOMAIN run' : run'[r].left \subseteq DOMAIN run' \ {r}
  BY DEF IInv, Types, Sound
<1> QED
  BY <1>1, <1>2, LeftIsBounded DEF TypeInv, TypeOK, Bounded

(* The state is well formed; a run tries no more runs than one list holds, *)
(* and never itself.                                                       *)
THEOREM ArtifactTypes == Spec => []TypeOK
<1>1. Init => TypeInv
  BY ArtifactAssumption DEF Init, TypeInv, TypeOK
<1>2. TypeInv => TypeOK
  BY DEF TypeInv
<1> QED
  BY <1>1, <1>2, InitSound, StepSound, TypeInvStep, PTL DEF Spec

------------------------------------------------------------------------------
(* A run and its stream, as long as nothing was disturbed.                 *)
Unpublished == {"jobs", "choosing", "compile", "compiled"}

(* Runs of the stream that succeeded before and left a marker.             *)
Kept(r) ==
    {q \in DOMAIN run : /\ q < r /\ run[q].stream = run[r].stream
                        /\ run[q].step = "success" /\ run[q].markers # {}}

IsNewest(r) == \A q \in DOMAIN run : run[q].stream = run[r].stream => q <= r

Holds(r, content) == \A q \in Kept(r) : \A m \in run[q].markers : m.content \subseteq content

(* The newest of them is still to be tried.                                *)
Shows(r, left) == \E n \in left \cap Kept(r) : \A q \in Kept(r) : q <= n

Seen(r) ==
    /\ run[r].step = "jobs" => run[r].left = {} /\ run[r].sources = Reads[run[r].stream]
    /\ run[r].step = "choosing" =>
          Kept(r) = {} \/ (Shows(r, run[r].left) /\ run[r].left \subseteq Successful(run[r].stream))
    /\ run[r].step \in {"compile", "compiled", "model"} => Holds(r, run[r].content)
    /\ \A m \in run[r].markers : Holds(r, m.content)

Calm(r) ==
    /\ r \in Active => IsNewest(r)
    /\ \A m, n \in run[r].models : m = n
    /\ run[r].step \in Unpublished => run[r].models = {}
    /\ run[r].step = "model" => run[r].markers = {}
    /\ run[r].stream \in Range(Reads[run[r].stream]) => Seen(r)

QuietInv == disturbed = {} => \A r \in DOMAIN run : Calm(r)

------------------------------------------------------------------------------
LEMMA SingleMarkers ==
    ASSUME IInv, NEW q \in DOMAIN run, Calm(q)
    PROVE  /\ run[q].markers # {} <=> Readable(q)
           /\ \A m, n \in run[q].markers : m = n
<1>1. run[q].markers \subseteq run[q].models /\ \A m, n \in run[q].models : m = n
  BY DEF IInv, Sound, Calm
<1>2. ASSUME run[q].markers # {} PROVE Readable(q)
  <2>1. PICK m \in run[q].markers : TRUE
    BY <1>2
  <2>2. run[q].markers = {m} /\ run[q].models = {m}
    BY <1>1, <2>1
  <2>3. Cardinality({m}) = 1
    BY FS_Singleton, Zenon
  <2> QED
    BY <2>2, <2>3 DEF Readable
<1>3. ASSUME Readable(q) PROVE run[q].markers # {}
  BY <1>3, FS_EmptySet DEF Readable
<1> QED
  BY <1>1, <1>2, <1>3

LEMMA KeptAreReadable ==
    ASSUME IInv, NEW r \in DOMAIN run, \A q \in DOMAIN run : Calm(q), NEW q \in Kept(r)
    PROVE  /\ q \in DOMAIN run /\ q < r /\ q # r /\ Readable(q)
           /\ run[q].stream = run[r].stream /\ q \in Successful(run[r].stream)
BY SingleMarkers, Numbered DEF Kept, Successful

(* What the newest of its stream does is not seen by the others.           *)
LEMMA OthersStayCalm ==
    ASSUME IInv, NEW r \in DOMAIN run, IsNewest(r), DOMAIN run' = DOMAIN run,
           \A q \in DOMAIN run \ {r} : run'[q] = run[q],
           run'[r].stream = run[r].stream,
           NEW p \in DOMAIN run, p # r, Calm(p)
    PROVE  Calm(p)'
<1>1. p \in Nat /\ r \in Nat /\ DOMAIN run \subseteq Nat
  BY Numbered
<1>2. run'[p] = run[p] /\ \A q \in DOMAIN run : run'[q].stream = run[q].stream
  OBVIOUS
<1>3. run[p].stream = run[r].stream => p < r
  BY <1>1 DEF IsNewest
<1>4. Kept(p)' = Kept(p)
  <2>1. ~(r < p /\ run[r].stream = run[p].stream)
    BY <1>1, <1>3
  <2>2. ASSUME NEW q \in DOMAIN run PROVE q \in Kept(p)' <=> q \in Kept(p)
    <3>1. CASE q = r
      BY <1>2, <2>1, <3>1 DEF Kept
    <3>2. CASE q # r
      BY <1>2, <3>2 DEF Kept
    <3> QED
      BY <3>1, <3>2
  <2>3. Kept(p) \subseteq DOMAIN run /\ Kept(p)' \subseteq DOMAIN run
    BY DEF Kept
  <2> QED
    BY <2>2, <2>3
<1>5. r \notin Kept(p)
  BY <1>1, <1>3 DEF Kept
<1>6. \A c : Holds(p, c) => Holds(p, c)'
  <2>1. \A q \in Kept(p) : run'[q] = run[q]
    BY <1>5 DEF Kept
  <2> QED
    BY <1>4, <2>1, Zenon DEF Holds
<1>7. p \in Active' => p \in Active /\ run[p].stream # run[r].stream
  <2>1. ASSUME p \in Active, run[p].stream = run[r].stream PROVE FALSE
    <3>1. r <= p
      BY <2>1 DEF Calm, IsNewest
    <3> QED
      BY <1>1, <1>3, <2>1, <3>1
  <2> QED
    BY <1>2, <2>1 DEF Active
<1>8. run[p].stream # run[r].stream => Successful(run[p].stream) \subseteq Successful(run[p].stream)'
  <2>1. ASSUME run[p].stream # run[r].stream, NEW q \in Successful(run[p].stream)
        PROVE  q \in Successful(run[p].stream)'
    <3>1. q \in DOMAIN run /\ run[q].stream = run[p].stream /\ run[q].step = "success" /\ q # r
      BY <2>1 DEF Successful
    <3> QED
      BY <1>2, <3>1 DEF Successful
  <2> QED
    BY <2>1
<1>9. run[p].step = "choosing" => p \in Active
  BY DEF Active, Finished
<1>10. Seen(p) => Seen(p)'
  <2> SUFFICES ASSUME Seen(p) PROVE Seen(p)'
    OBVIOUS
  <2>1. run[p].step = "choosing" =>
          \/ Kept(p)' = {}
          \/ Shows(p, run[p].left)' /\ run[p].left \subseteq Successful(run[p].stream)'
    <3>1. run[p].step = "choosing" => p \in Active'
      BY <1>2 DEF Active, Finished
    <3>2. Shows(p, run[p].left) => Shows(p, run[p].left)'
      BY <1>2, <1>4 DEF Shows
    <3> QED
      BY <1>4, <1>7, <1>8, <3>1, <3>2 DEF Seen
  <2>2. /\ run[p].step \in {"compile", "compiled", "model"} => Holds(p, run[p].content)'
        /\ \A m \in run[p].markers : Holds(p, m.content)'
    BY <1>6 DEF Seen
  <2>3. run[p].step = "jobs" => run[p].left = {} /\ run[p].sources = Reads[run[p].stream]
    BY DEF Seen
  <2> QED
    BY <1>2, <2>1, <2>2, <2>3 DEF Seen
<1>11. p \in Active' => IsNewest(p)'
  BY <1>2, <1>7 DEF Calm, IsNewest
<1> QED
  BY <1>2, <1>10, <1>11 DEF Calm

(* The run that takes a step is the newest of its stream.                  *)
LEMMA CalmStep ==
    ASSUME IInv, \A q \in DOMAIN run : Calm(q),
           NEW r \in DOMAIN run, NEW v, run' = [run EXCEPT ![r] = v],
           v.stream = run[r].stream, IsNewest(r),
           \A m, n \in v.models : m = n,
           v.step \in Unpublished => v.models = {},
           v.step = "model" => v.markers = {},
           run[r].stream \in Range(Reads[run[r].stream]) =>
              /\ v.step = "jobs" => v.left = {} /\ v.sources = Reads[run[r].stream]
              /\ v.step = "choosing" =>
                    Kept(r) = {} \/ (Shows(r, v.left) /\ v.left \subseteq Successful(run[r].stream) \ {r})
              /\ v.step \in {"compile", "compiled", "model"} => Holds(r, v.content)
              /\ \A m \in v.markers : Holds(r, m.content)
    PROVE  \A q \in DOMAIN run' : Calm(q)'
<1>1. /\ DOMAIN run' = DOMAIN run /\ run'[r] = v
      /\ \A q \in DOMAIN run \ {r} : run'[q] = run[q]
  BY DEF IInv, Types
<1>2. \A q \in DOMAIN run : run'[q].stream = run[q].stream
  BY <1>1
<1>3. Kept(r)' = Kept(r) /\ \A q \in Kept(r) : run'[q] = run[q]
  <2>1. r \in Nat
    BY Numbered
  <2>2. \A q \in DOMAIN run : q < r => q # r
    BY <2>1, Numbered
  <2>3. ASSUME NEW q \in DOMAIN run PROVE q \in Kept(r)' <=> q \in Kept(r)
    BY <1>1, <1>2, <2>2 DEF Kept
  <2>4. Kept(r) \subseteq DOMAIN run /\ Kept(r)' \subseteq DOMAIN run
    BY <1>1 DEF Kept
  <2> QED
    BY <1>1, <2>2, <2>3, <2>4 DEF Kept
<1>4. \A c : Holds(r, c) => Holds(r, c)'
  BY <1>3, Zenon DEF Holds
<1>5. Successful(run[r].stream) \ {r} \subseteq Successful(run[r].stream)'
  <2>1. ASSUME NEW q \in Successful(run[r].stream), q # r PROVE q \in Successful(run[r].stream)'
    BY <1>1, <2>1 DEF Successful
  <2> QED
    BY <2>1
<1>6. Calm(r)'
  <2>1. IsNewest(r)'
    BY <1>1, <1>2 DEF IsNewest
  <2>2. run[r].stream \in Range(Reads[run[r].stream]) => Seen(r)'
    <3>1. Shows(r, v.left) => Shows(r, run[r].left)'
      BY <1>1, <1>3 DEF Shows
    <3> QED
      BY <1>1, <1>3, <1>4, <1>5, <3>1 DEF Seen
  <2> QED
    BY <1>1, <2>1, <2>2 DEF Calm
<1> QED
  BY <1>1, <1>6, OthersStayCalm

LEMMA KeptNumbers ==
    ASSUME IInv
    PROVE  /\ DOMAIN run \subseteq Nat /\ DOMAIN run \subseteq Attempt
           /\ \A r \in DOMAIN run : run[r] \in Run
BY Numbered DEF IInv, Types

(* An undisturbed page shows the newest readable run of the stream.        *)
LEMMA CalmList ==
    ASSUME IInv, \A q \in DOMAIN run : Calm(q), NEW r \in Attempt, List(r), disturbed' = {}
    PROVE  \A q \in DOMAIN run' : Calm(q)'
<1>1. /\ r \in DOMAIN run /\ run[r] \in Run /\ run[r].sources \in Seq(Stream)
      /\ run[r].sources # << >> /\ run[r].step \in {"jobs", "choosing"} /\ run[r].left = {}
      /\ r \in Active /\ IsNewest(r) /\ Calm(r) /\ run[r].stream \in Stream
  <2>1. r \in DOMAIN run /\ run[r] \in Run
    BY DEF IInv, Types, List, At
  <2>2. run[r].step \in {"jobs", "choosing"}
    BY DEF List, At
  <2> QED
    BY <2>1, <2>2, Fields DEF List, Active, Finished, Calm
<1> PICK own : own = run[r].stream
  OBVIOUS
<1> PICK s : s = Head(run[r].sources)
  OBVIOUS
<1>2. Listed(r, s)
  BY DEF List, ListFails, Disturb
<1> PICK page : page = Shown(r, s)
  OBVIOUS
<1>3. PICK v : v = [run[r] EXCEPT !.left = page, !.sources = Tail(run[r].sources), !.step = "choosing"]
  OBVIOUS
<1>4. run' = [run EXCEPT ![r] = v]
  BY <1>1, <1>2, <1>3 DEF Listed, IInv, Types
<1>5. /\ v.stream = own /\ v.markers = run[r].markers /\ v.models = run[r].models
      /\ v.left = page /\ v.step = "choosing"
  BY <1>1, <1>3 DEF Run
<1>6. /\ \A m, n \in v.models : m = n
      /\ v.models = {} /\ v.markers = {}
  BY <1>1, <1>5 DEF Calm, Unpublished, IInv, Sound
<1>7. ASSUME own \in Range(Reads[own])
      PROVE  Kept(r) = {} \/ (Shows(r, page) /\ page \subseteq Successful(own) \ {r})
  <2>1. Seen(r)
    BY <1>1, <1>7 DEF Calm
  <2>2. CASE run[r].step = "choosing"
    BY <1>1, <2>1, <2>2 DEF Seen, Shows
  <2>3. CASE run[r].step = "jobs"
    <3>1. s = own
      BY <1>1, <1>7, <2>1, <2>3, ArtifactAssumption DEF Seen
    <3> PICK readable : readable = {q \in Successful(s) \ {r} : Readable(q)}
      OBVIOUS
    <3>2. readable = {} \/ Newest(readable) \in page
      BY <1>2 DEF Listed, Disturb, CutOff
    <3>3. Kept(r) \subseteq readable
      BY <1>1, <3>1, KeptAreReadable
    <3>4. readable \subseteq Attempt
      BY KeptNumbers DEF Successful
    <3>5. ASSUME NEW n \in readable PROVE n \in Kept(r)
      <4>1. n \in DOMAIN run /\ n # r /\ run[n].stream = own /\ run[n].step = "success" /\ Readable(n)
        BY <3>1 DEF Successful
      <4>2. n \in Nat /\ r \in Nat /\ n <= r
        BY <1>1, <4>1, KeptNumbers DEF IsNewest
      <4>3. run[n].markers # {}
        BY <4>1, SingleMarkers
      <4> QED
        BY <4>1, <4>2, <4>3 DEF Kept
    <3>6. CASE Kept(r) # {}
      <4> PICK n : n = Newest(readable)
        OBVIOUS
      <4>1. n \in readable /\ \A q \in readable : q <= n
        BY <3>3, <3>4, <3>6, NewestIsMember
      <4>2. Shows(r, page)
        BY <3>2, <3>3, <3>5, <4>1 DEF Shows
      <4>3. page \subseteq Successful(own) \ {r}
        BY <3>1 DEF Shown
      <4> QED
        BY <4>2, <4>3
    <3> QED
      BY <3>6
  <2> QED
    BY <1>1, <2>2, <2>3
<1> QED
  BY <1>1, <1>4, <1>5, <1>6, <1>7, CalmStep

LEMMA CalmReject ==
    ASSUME IInv, \A q \in DOMAIN run : Calm(q), NEW r \in Attempt, Reject(r), disturbed' = {}
    PROVE  \A q \in DOMAIN run' : Calm(q)'
<1>1. /\ r \in DOMAIN run /\ run[r] \in Run /\ run[r].step = "choosing"
      /\ r \in Active /\ IsNewest(r) /\ Calm(r)
  BY DEF IInv, Types, Reject, At, Active, Finished, Calm
<1> PICK left : left = run[r].left \ {Candidate(r)}
  OBVIOUS
<1>2. PICK v : v = [run[r] EXCEPT !.left = left]
  OBVIOUS
<1>3. run' = [run EXCEPT ![r] = v]
  BY <1>1, <1>2 DEF Reject, IInv, Types
<1>4. /\ v.stream = run[r].stream /\ v.markers = run[r].markers /\ v.models = run[r].models
      /\ v.left = left /\ v.step = "choosing"
  BY <1>1, <1>2 DEF Run
<1>5. v.models = {} /\ v.markers = {}
  BY <1>1, <1>4 DEF Calm, Unpublished, IInv, Sound
<1>6. ~Readable(Candidate(r))
  BY DEF Reject, Disturb
<1>7. \A q \in Kept(r) : q # Candidate(r)
  BY <1>1, <1>6, KeptAreReadable
<1>8. run[r].left \subseteq DOMAIN run \ {r}
  BY <1>1 DEF IInv, Sound
<1>9. run[r].stream \in Range(Reads[run[r].stream]) =>
        Kept(r) = {} \/ (Shows(r, left) /\ left \subseteq Successful(run[r].stream) \ {r})
  <2>1. Shows(r, run[r].left) => Shows(r, left)
    BY <1>7 DEF Shows
  <2> QED
    BY <1>1, <1>8, <2>1 DEF Calm, Seen
<1> QED
  BY <1>1, <1>3, <1>4, <1>5, <1>9, CalmStep

(* The newest readable run of the stream holds what all of them announced. *)
LEMMA NewestHolds ==
    ASSUME IInv, \A q \in DOMAIN run : Calm(q),
           NEW c \in DOMAIN run, Readable(c), run[c].step = "success",
           run[c].stream \in Range(Reads[run[c].stream]),
           NEW q \in DOMAIN run, run[q].stream = run[c].stream, run[q].step = "success", q <= c,
           NEW m \in run[q].markers
    PROVE  m.content \subseteq Previous(c)
<1>1. c \in Nat /\ q \in Nat /\ Calm(c) /\ Seen(c)
  BY KeptNumbers DEF Calm
<1>2. run[c].markers # {} /\ \A x, y \in run[c].markers : x = y
  BY SingleMarkers
<1>3. PICK n \in run[c].markers : n = CHOOSE x \in run[c].markers : TRUE
  BY <1>2
<1>4. n \in run[c].models /\ \A x, y \in run[c].models : x = y
  BY <1>1 DEF IInv, Sound, Calm
<1>5. Previous(c) = n.content
  <2>1. n = CHOOSE x \in run[c].models : TRUE
    BY <1>4
  <2> QED
    BY <1>3, <2>1 DEF Previous
<1>6. CASE q = c
  BY <1>2, <1>5, <1>6
<1>7. CASE q # c
  <2>1. q \in Kept(c)
    BY <1>1, <1>7 DEF Kept
  <2> QED
    BY <1>1, <1>5, <2>1 DEF Seen, Holds
<1> QED
  BY <1>6, <1>7

LEMMA CalmTake ==
    ASSUME IInv, \A q \in DOMAIN run : Calm(q), NEW r \in Attempt, Take(r), disturbed' = {}
    PROVE  \A q \in DOMAIN run' : Calm(q)'
<1>1. /\ r \in DOMAIN run /\ run[r] \in Run /\ run[r].step = "choosing" /\ run[r].left # {}
      /\ r \in Active /\ IsNewest(r) /\ Calm(r)
  BY DEF IInv, Types, Take, At, Active, Finished, Calm
<1> PICK c : c = Candidate(r)
  OBVIOUS
<1>2. PICK v : v = [run[r] EXCEPT !.content = Previous(c), !.sources = << >>, !.left = {}, !.step = "compile"]
  OBVIOUS
<1>3. run' = [run EXCEPT ![r] = v]
  BY <1>1, <1>2 DEF Take, IInv, Types
<1>4. /\ v.stream = run[r].stream /\ v.markers = run[r].markers /\ v.models = run[r].models
      /\ v.content = Previous(c) /\ v.step = "compile"
  BY <1>1, <1>2 DEF Run
<1>5. v.models = {} /\ v.markers = {}
  BY <1>1, <1>4 DEF Calm, Unpublished, IInv, Sound
<1>6. c \in run[r].left /\ (\A p \in run[r].left : p <= c) /\ Readable(c)
  BY <1>1, Fields, NewestIsMember DEF Candidate, Take
<1>7. ASSUME run[r].stream \in Range(Reads[run[r].stream]) PROVE Holds(r, Previous(c))
  <2> SUFFICES ASSUME NEW q \in Kept(r), NEW m \in run[q].markers PROVE m.content \subseteq Previous(c)
    BY DEF Holds
  <2>1. Shows(r, run[r].left) /\ c \in Successful(run[r].stream)
    BY <1>1, <1>6, <1>7 DEF Calm, Seen
  <2>2. /\ q \in DOMAIN run /\ run[q].stream = run[r].stream /\ run[q].step = "success"
        /\ c \in DOMAIN run /\ run[c].stream = run[r].stream /\ run[c].step = "success"
    BY <2>1 DEF Kept, Successful
  <2>3. q <= c
    <3>1. PICK n \in run[r].left \cap Kept(r) : q <= n
      BY <2>1 DEF Shows
    <3>2. n <= c
      BY <1>6
    <3>3. n \in Nat /\ q \in Nat /\ c \in Nat
      BY <2>2, KeptNumbers DEF Kept
    <3> QED
      BY <3>1, <3>2, <3>3
  <2> QED
    BY <1>6, <1>7, <2>2, <2>3, NewestHolds
<1> QED
  BY <1>1, <1>3, <1>4, <1>5, <1>7, CalmStep

LEMMA CalmCompile ==
    ASSUME IInv, \A q \in DOMAIN run : Calm(q), NEW r \in Attempt, Compile(r), disturbed' = {}
    PROVE  \A q \in DOMAIN run' : Calm(q)'
<1>1. /\ r \in DOMAIN run /\ run[r] \in Run /\ run[r].step \in {"choosing", "compile"}
      /\ (run[r].step = "choosing" => run[r].left = {})
      /\ r \in Active /\ IsNewest(r) /\ Calm(r)
  BY DEF IInv, Types, Compile, NothingFound, At, Active, Finished, Calm
<1>2. PICK applied \in {{}, {Own(r)}} :
         run' = [run EXCEPT ![r].content = run[r].content \cup applied,
                            ![r].step = IF run[r].content \cup applied = {} THEN "idle" ELSE "compiled"]
  BY DEF Compile
<1> PICK content : content = run[r].content \cup applied
  OBVIOUS
<1>3. PICK v : v = [run[r] EXCEPT !.content = content, !.step = IF content = {} THEN "idle" ELSE "compiled"]
  OBVIOUS
<1>4. run' = [run EXCEPT ![r] = v]
  BY <1>1, <1>2, <1>3 DEF IInv, Types
<1>5. /\ v.stream = run[r].stream /\ v.markers = run[r].markers /\ v.models = run[r].models
      /\ v.content = content /\ v.step \in {"idle", "compiled"}
  BY <1>1, <1>3 DEF Run
<1>6. v.models = {} /\ v.markers = {}
  BY <1>1, <1>5 DEF Calm, Unpublished, IInv, Sound
<1>7. run[r].stream \in Range(Reads[run[r].stream]) => Holds(r, content)
  <2> SUFFICES ASSUME run[r].stream \in Range(Reads[run[r].stream]) PROVE Holds(r, content)
    OBVIOUS
  <2>1. CASE run[r].step = "choosing"
    <3>1. Kept(r) = {}
      BY <1>1, <2>1 DEF Calm, Seen, Shows
    <3> QED
      BY <3>1 DEF Holds
  <2>2. CASE run[r].step = "compile"
    BY <1>1, <2>2 DEF Calm, Seen, Holds
  <2> QED
    BY <1>1, <2>1, <2>2
<1> QED
  BY <1>1, <1>4, <1>5, <1>6, <1>7, CalmStep

LEMMA CalmUploadModel ==
    ASSUME IInv, \A q \in DOMAIN run : Calm(q), NEW r \in Attempt, UploadModel(r), disturbed' = {}
    PROVE  \A q \in DOMAIN run' : Calm(q)'
<1>1. /\ r \in DOMAIN run /\ run[r] \in Run /\ run[r].step = "compiled"
      /\ r \in Active /\ IsNewest(r) /\ Calm(r)
  BY DEF IInv, Types, UploadModel, At, Active, Finished, Calm
<1> PICK u : u = Upload(r)
  OBVIOUS
<1>2. PICK v : v = [run[r] EXCEPT !.models = run[r].models \cup {u}, !.step = "model"]
  OBVIOUS
<1>3. run' = [run EXCEPT ![r] = v]
  BY <1>1, <1>2 DEF UploadModel, IInv, Types
<1>4. /\ v.stream = run[r].stream /\ v.markers = run[r].markers /\ v.models = run[r].models \cup {u}
      /\ v.content = run[r].content /\ v.step = "model"
  BY <1>1, <1>2 DEF Run
<1>5. run[r].models = {} /\ v.markers = {}
  BY <1>1, <1>4 DEF Calm, Unpublished, IInv, Sound
<1>6. run[r].stream \in Range(Reads[run[r].stream]) => Holds(r, v.content)
  BY <1>1, <1>4 DEF Calm, Seen
<1>7. (\A m, n \in v.models : m = n) /\ v.step \notin Unpublished
  BY <1>4, <1>5 DEF Unpublished
<1> QED
  BY <1>1, <1>3, <1>4, <1>5, <1>6, <1>7, CalmStep

LEMMA CalmUploadMarker ==
    ASSUME IInv, \A q \in DOMAIN run : Calm(q), NEW r \in Attempt, UploadMarker(r), disturbed' = {}
    PROVE  \A q \in DOMAIN run' : Calm(q)'
<1>1. /\ r \in DOMAIN run /\ run[r] \in Run /\ run[r].step = "model"
      /\ r \in Active /\ IsNewest(r) /\ Calm(r)
  BY DEF IInv, Types, UploadMarker, At, Active, Finished, Calm
<1> PICK u : u = Upload(r)
  OBVIOUS
<1>2. PICK v : v = [Left(r, "idle") EXCEPT !.markers = run[r].markers \cup {u}]
  OBVIOUS
<1>3. run' = [run EXCEPT ![r] = v]
  BY <1>1, <1>2 DEF UploadMarker, Left, IInv, Types
<1>4. /\ v.stream = run[r].stream /\ v.markers = run[r].markers \cup {u} /\ v.models = run[r].models
      /\ v.step = "idle"
  BY <1>1, <1>2 DEF Run, Left
<1>5. v.markers = {u} /\ u.content = run[r].content
  BY <1>1, <1>4 DEF Calm, Upload
<1>6. run[r].stream \in Range(Reads[run[r].stream]) => Holds(r, u.content)
  BY <1>1, <1>5 DEF Calm, Seen
<1>7. (\A m, n \in v.models : m = n) /\ v.step \notin Unpublished
  BY <1>1, <1>4 DEF Unpublished, Calm
<1> QED
  BY <1>1, <1>3, <1>4, <1>5, <1>6, <1>7, CalmStep

LEMMA CalmFinish ==
    ASSUME IInv, \A q \in DOMAIN run : Calm(q), NEW r \in Attempt, Finish(r), disturbed' = {}
    PROVE  \A q \in DOMAIN run' : Calm(q)'
<1>1. r \in DOMAIN run /\ run[r] \in Run /\ r \in Active /\ IsNewest(r) /\ Calm(r)
  BY DEF IInv, Types, Finish, Active, Calm
<1>2. PICK step \in Finished : run' = [run EXCEPT ![r] = Left(r, step)]
  BY DEF Finish
<1>3. PICK v : v = Left(r, step)
  OBVIOUS
<1>4. /\ v.stream = run[r].stream /\ v.markers = run[r].markers /\ v.models = run[r].models
      /\ v.step = step
  BY <1>1, <1>3 DEF Run, Left
<1>5. v.step \notin Unpublished \cup {"jobs", "choosing", "compile", "compiled", "model"}
  BY <1>4 DEF Unpublished, Finished
<1>6. \A m, n \in v.models : m = n
  BY <1>1, <1>4 DEF Calm
<1>7. run[r].stream \in Range(Reads[run[r].stream]) => \A m \in v.markers : Holds(r, m.content)
  BY <1>1, <1>4 DEF Calm, Seen
<1> QED
  BY <1>1, <1>2, <1>3, <1>4, <1>5, <1>6, <1>7, CalmStep

LEMMA CalmRerun ==
    ASSUME IInv, \A q \in DOMAIN run : Calm(q), NEW r \in Attempt, Rerun(r), disturbed' = {}
    PROVE  \A q \in DOMAIN run' : Calm(q)'
<1>1. /\ r \in DOMAIN run /\ run[r] \in Run /\ Calm(r)
      /\ run[r].models = {} /\ \A q \in DOMAIN run : ~(q > r /\ run[q].stream = run[r].stream)
  <2>1. r \in DOMAIN run /\ run[r] \in Run /\ Calm(r)
    BY DEF IInv, Types, Rerun
  <2> DEFINE old == \/ run[r].models # {}
                    \/ \E q \in DOMAIN run : q > r /\ run[q].stream = run[r].stream
  <2>2. Disturb("re-run", old)
    BY Zenon DEF Rerun
  <2>3. ~old
    <3> HIDE DEF old
    <3> QED
      BY <2>2 DEF Disturb
  <2> QED
    BY <2>1, <2>3
<1>2. IsNewest(r)
  <2>1. \A q \in DOMAIN run : q \in Nat /\ r \in Nat
    BY <1>1, KeptNumbers
  <2> QED
    BY <1>1, <2>1 DEF IsNewest
<1>3. PICK v : v = [Started(run[r].stream, run[r].attempt + 1)
                       EXCEPT !.models = run[r].models, !.markers = run[r].markers]
  OBVIOUS
<1>4. run' = [run EXCEPT ![r] = v]
  BY <1>3 DEF Rerun
<1>5. /\ v.stream = run[r].stream /\ v.models = {} /\ v.markers = run[r].markers
      /\ v.left = {} /\ v.sources = Reads[run[r].stream] /\ v.step = "jobs"
  BY <1>1, <1>3 DEF Started
<1>6. v.markers = {}
  BY <1>1, <1>5 DEF IInv, Sound
<1> QED
  BY <1>1, <1>2, <1>4, <1>5, <1>6, CalmStep

LEMMA CalmCreate ==
    ASSUME IInv, \A q \in DOMAIN run : Calm(q), NEW s \in Stream, Create(s), disturbed' = {}
    PROVE  \A q \in DOMAIN run' : Calm(q)'
<1> PICK n : n = Len(run) + 1
  OBVIOUS
<1> PICK v : v = Started(s, 1)
  OBVIOUS
<1>1. /\ run \in Seq(Run) /\ Len(run) \in Nat /\ run' = Append(run, v)
      /\ DOMAIN run = 1..Len(run) /\ DOMAIN run' = 1..n
      /\ run'[n] = v /\ \A q \in DOMAIN run : run'[q] = run[q]
  BY DEF IInv, Types, Create
<1>2. /\ v.stream = s /\ v.models = {} /\ v.markers = {} /\ v.left = {} /\ v.sources = Reads[s]
      /\ v.step = "jobs"
  BY DEF Started
<1>3. \A q \in Active : run[q].stream # s
  BY DEF Create, Disturb
<1>4. ASSUME NEW p \in DOMAIN run PROVE Calm(p)'
  <2>1. p \in Nat /\ p < n /\ p # n /\ run'[p] = run[p] /\ Calm(p)
    BY <1>1
  <2>2. Kept(p)' = Kept(p) /\ \A q \in Kept(p) : run'[q] = run[q]
    <3>1. ~(n < p)
      BY <2>1, <1>1
    <3>2. ASSUME NEW q \in DOMAIN run PROVE q \in Kept(p)' <=> q \in Kept(p)
      <4>1. q \in DOMAIN run'
        BY <1>1
      <4> QED
        BY <1>1, <2>1, <4>1 DEF Kept
    <3>3. Kept(p) \subseteq DOMAIN run /\ Kept(p)' \subseteq DOMAIN run
      <4>1. Kept(p)' \subseteq DOMAIN run' /\ n \notin Kept(p)'
        BY <3>1 DEF Kept
      <4>2. \A q \in DOMAIN run' : q = n \/ q \in DOMAIN run
        BY <1>1
      <4> QED
        BY <4>1, <4>2 DEF Kept
    <3> QED
      BY <1>1, <3>2, <3>3 DEF Kept
  <2>3. \A c : Holds(p, c) => Holds(p, c)'
    BY <2>2, Zenon DEF Holds
  <2>4. Successful(run[p].stream) \subseteq Successful(run[p].stream)'
    BY <1>1, <2>1 DEF Successful
  <2>5. Seen(p) => Seen(p)'
    <3>1. Shows(p, run[p].left) => Shows(p, run[p].left)'
      BY <2>1, <2>2 DEF Shows
    <3> QED
      BY <2>1, <2>2, <2>3, <2>4, <3>1 DEF Seen
  <2>6. p \in Active' => p \in Active /\ IsNewest(p)'
    <3> SUFFICES ASSUME p \in Active' PROVE p \in Active /\ IsNewest(p)'
      OBVIOUS
    <3>1. p \in Active
      BY <2>1 DEF Active
    <3>2. IsNewest(p) /\ run[p].stream # s
      BY <1>3, <2>1, <3>1 DEF Calm
    <3>3. \A q \in DOMAIN run' : q = n \/ q \in DOMAIN run
      BY <1>1
    <3> QED
      BY <1>1, <1>2, <2>1, <3>1, <3>2, <3>3 DEF IsNewest
  <2> QED
    BY <2>1, <2>5, <2>6 DEF Calm
<1>5. Calm(n)'
  <2>1. IsNewest(n)'
    BY <1>1 DEF IsNewest
  <2>2. Seen(n)'
    BY <1>1, <1>2 DEF Seen
  <2> QED
    BY <1>1, <1>2, <2>1, <2>2 DEF Calm
<1>6. \A q \in DOMAIN run' : q = n \/ q \in DOMAIN run
  BY <1>1
<1> QED
  BY <1>4, <1>5, <1>6

LEMMA QuietStep == IInv /\ QuietInv /\ [Next]_vars => QuietInv'
<1> SUFFICES ASSUME IInv, QuietInv, [Next]_vars, disturbed' = {} PROVE \A q \in DOMAIN run' : Calm(q)'
  BY DEF QuietInv
<1>1. CASE UNCHANGED vars
  <2>1. run' = run /\ disturbed' = disturbed
    BY <1>1 DEF vars
  <2>2. \A q \in DOMAIN run : Calm(q)
    BY <2>1 DEF QuietInv
  <2> QED
    BY <2>1, <2>2 DEF Calm, Active, IsNewest, Seen, Shows, Kept, Holds, Successful
<1>2. ASSUME Next PROVE disturbed = {}
  <2>1. ASSUME NEW what, NEW condition, Disturb(what, condition) PROVE disturbed = {}
    BY <2>1 DEF Disturb
  <2>2. ASSUME NEW s \in Stream, Create(s) PROVE disturbed = {}
    BY <2>2, <2>1 DEF Create
  <2>3. ASSUME NEW r \in Attempt, Step(r) PROVE disturbed = {}
    <3>1. CASE List(r)
      BY <3>1, <2>1 DEF List, Listed, ListFails
    <3>2. CASE Reject(r)
      BY <3>2, <2>1 DEF Reject
    <3>3. CASE Rerun(r)
      BY <3>3, <2>1 DEF Rerun
    <3> QED
      BY <2>3, <3>1, <3>2, <3>3 DEF Step, Take, Compile, UploadModel, UploadMarker, Finish
  <2> QED
    BY <1>2, <2>2, <2>3 DEF Next
<1>3. ASSUME Next PROVE \A q \in DOMAIN run : Calm(q)
  BY <1>2, <1>3 DEF QuietInv
<1>4. ASSUME NEW s \in Stream, Create(s) PROVE \A q \in DOMAIN run' : Calm(q)'
  BY <1>3, <1>4, CalmCreate DEF Next
<1>5. ASSUME NEW r \in Attempt, Step(r) PROVE \A q \in DOMAIN run' : Calm(q)'
  <2>1. \A q \in DOMAIN run : Calm(q)
    BY <1>3, <1>5 DEF Next
  <2> QED
    BY <1>5, <2>1, CalmList, CalmReject, CalmTake, CalmCompile, CalmUploadModel,
       CalmUploadMarker, CalmFinish, CalmRerun DEF Step
<1> QED
  BY <1>1, <1>4, <1>5 DEF Next

(* While nothing is disturbed, no run of a stream forgets what an earlier  *)
(* successful one announced (history/run.sh, artifacts.sh).                *)
THEOREM QuietRunsAlwaysAccumulate == Spec => []QuietRunsAccumulate
<1>1. Init => QuietInv
  BY DEF Init, QuietInv
<1>2. IInv /\ QuietInv => QuietRunsAccumulate
  <2> SUFFICES ASSUME IInv, \A q \in DOMAIN run : Calm(q),
                      NEW s \in Stream, s \in Range(Reads[s]),
                      NEW q \in Successful(s), NEW m \in run[q].markers
               PROVE  m.content \subseteq Offered(s)
    BY DEF QuietInv, QuietRunsAccumulate
  <2> PICK readable : readable = {p \in Successful(s) : Readable(p)}
    OBVIOUS
  <2>1. q \in readable
    BY SingleMarkers DEF Successful
  <2>2. readable \subseteq Attempt
    BY KeptNumbers DEF Successful
  <2> PICK c : c = Newest(readable)
    OBVIOUS
  <2>3. c \in readable /\ q <= c
    BY <2>1, <2>2, NewestIsMember
  <2>4. Offered(s) = Previous(c)
    BY <2>1 DEF Offered
  <2>5. /\ c \in DOMAIN run /\ run[c].stream = s /\ run[c].step = "success" /\ Readable(c)
        /\ q \in DOMAIN run /\ run[q].stream = s /\ run[q].step = "success"
    BY <2>3 DEF Successful
  <2> QED
    BY <2>3, <2>4, <2>5, NewestHolds
<1> QED
  BY <1>1, <1>2, InitSound, StepSound, QuietStep, PTL DEF Spec
==============================================================================
