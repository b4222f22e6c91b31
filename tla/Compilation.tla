----------------------------- MODULE Compilation -----------------------------
(***************************************************************************)
(* `nanoom history' on one scope: the measurement files that the status    *)
(* Action downloaded are read in turn, those that cannot be used are       *)
(* skipped, and compile_measurements turns the rest into the one           *)
(* ObservationBatch of the run: an execution counts once however many      *)
(* files report it, the machines are kept apart, and files that contradict *)
(* each other leave the scope without a batch.                             *)
(*                                                                         *)
(* An observation carries its two prediction keys, which differ because    *)
(* their kinds do (TaskExact and TaskFallback, say); the digest of a       *)
(* runner environment is the environment.                                  *)
(***************************************************************************)
EXTENDS PredictionModel, Sequences, Functions

CONSTANTS
    Inputs,        \* the sequences of files a run may be given
    RunId,         \* run and attempt that compiles
    NoEnvironment, \* the file names no runner environment
    MaxBatchCount, \* MAX_BATCH_COUNT
    MaxDuration    \* MAX_DURATION_MS

Observation ==
    {o \in [ id : Nat, kind : {"task", "preparation"}, exact : Keys, fallback : Keys,
             at : Nat, duration : Nat ] : o.exact # o.fallback}

Places == Envs \cup {NoEnvironment}

MeasurementArtifact == [run : Nat, environment : Places, rows : Seq(Observation)]

ASSUME CompilationAssumption ==
    /\ Inputs \subseteq Seq(MeasurementArtifact)
    /\ RunId \in Nat /\ MaxBatchCount \in Nat /\ MaxDuration \in Nat
    /\ NoEnvironment \notin Envs

VARIABLES
    inputs,     \* the files of this run
    read,       \* how many of them were looked at
    artifacts,  \* the files that are used
    grouped,    \* how many of these are sorted by environment
    identities, \* the environment of every execution met so far
    groups,     \* observations per environment
    phase,
    batch

varsCompilation == <<inputs, read, artifacts, grouped, identities, groups, phase, batch>>

NoBatch == [id |-> RunId, produced |-> 0, aggregates |-> {},
            environments |-> [e \in {} |-> {}]]

------------------------------------------------------------------------------
(* A preparation may take no measurable time, a task may not. *)
ValidObservation(o, produced) ==
    /\ o.kind = "task" => o.duration > 0
    /\ o.duration <= MaxDuration
    /\ o.at <= MaxSafe
    /\ o.at <= produced + FutureTolerance
    /\ Minus(produced, o.at) < BatchMaxAge

(* A mutant: a file is as old as its first observation. *)
ProducedFirst(rows) == Min({o.at : o \in Range(rows)})

Produced(rows) == Max({o.at : o \in Range(rows)})

ValidMeasurement(f) ==
    /\ f.rows # << >>
    /\ Len(f.rows) <= MaxBatchCount
    /\ \A o \in Range(f.rows) : ValidObservation(o, Produced(f.rows))
    /\ \A i, j \in DOMAIN f.rows : f.rows[i].id = f.rows[j].id => i = j

(* A mutant: every report of an execution counts. *)
EveryReport(rows) == DOMAIN rows

(* The first report of each execution. *)
Unique(rows) ==
    {i \in DOMAIN rows : \A j \in 1..i - 1 : rows[j].id # rows[i].id}

(* The cell of a key and a day: the executions of that day, under their    *)
(* exact key and once more under the fallback key.                         *)
InCell(o, key, day) == key \in {o.exact, o.fallback} /\ DayOf(o.at) = day

Cell(rows, key, day) ==
    LET own == {i \in Unique(rows) : InCell(rows[i], key, day)}
    IN  [ key |-> key, last |-> Max({rows[i].at : i \in own}),
          count |-> Cardinality(own),
          total |-> Plus(own, LAMBDA i : rows[i].duration) ]

Aggregates(rows) ==
    UNION {{Cell(rows, o.exact, DayOf(o.at)), Cell(rows, o.fallback, DayOf(o.at))} :
             o \in Range(rows)}

(* What compile_batch_with_preparation refuses. *)
Compilable(rows, produced) ==
    /\ rows # << >>
    /\ \A o \in Range(rows) : ValidObservation(o, produced)
    /\ \A o, p \in Range(rows) : o.id = p.id => o = p
    /\ \A a \in Aggregates(rows) : a.count <= MaxBatchCount /\ a.total <= MaxSafe
    /\ Cardinality(Aggregates(rows)) <= MaxKeys

------------------------------------------------------------------------------
InitCompilation ==
    /\ inputs \in Inputs
    /\ read = 0 /\ grouped = 0
    /\ artifacts = << >>
    /\ identities = [x \in {} |-> NoEnvironment]
    /\ groups = [e \in Places |-> << >>]
    /\ phase = "load"
    /\ batch = NoBatch

(* The next file is used, or skipped: it is another run's, or invalid. *)
Load ==
    /\ phase = "load" /\ read < Len(inputs)
    /\ read' = read + 1
    /\ LET f == inputs[read + 1]
       IN  artifacts' = IF f.run = RunId /\ ValidMeasurement(f)
                        THEN Append(artifacts, f) ELSE artifacts
    /\ UNCHANGED <<inputs, grouped, identities, groups, phase, batch>>

(* A scope that no file is left for gets no batch. *)
Loaded ==
    /\ phase = "load" /\ read = Len(inputs)
    /\ phase' = IF artifacts = << >> THEN "empty" ELSE "group"
    /\ UNCHANGED <<inputs, read, artifacts, grouped, identities, groups, batch>>

(* The next file joins the group of its environment, unless one of its     *)
(* executions is known from another environment.                           *)
Ids(f) == {o.id : o \in Range(f.rows)}

Group ==
    /\ phase = "group" /\ grouped < Len(artifacts)
    /\ LET f == artifacts[grouped + 1]
       IN  IF \E x \in Ids(f) \cap DOMAIN identities : identities[x] # f.environment
           THEN phase' = "degraded" /\ UNCHANGED <<grouped, identities, groups>>
           ELSE /\ identities' = [x \in Ids(f) \cup DOMAIN identities |->
                                    IF x \in Ids(f) THEN f.environment ELSE identities[x]]
                /\ groups' = [groups EXCEPT ![f.environment] = @ \o f.rows]
                /\ grouped' = grouped + 1
                /\ UNCHANGED phase
    /\ UNCHANGED <<inputs, read, artifacts, batch>>

(* All observations together must compile, and each group by itself; the   *)
(* batch is dated by its newest observation.                               *)
Rows ==
    LET all[n \in 0..Len(artifacts)] ==
          IF n = 0 THEN << >> ELSE all[n - 1] \o artifacts[n].rows
    IN  all[Len(artifacts)]

Assembled(produced) ==
    [ id |-> RunId, produced |-> produced,
      aggregates |-> Aggregates(groups[NoEnvironment]),
      environments |->
        [e \in {x \in Envs : groups[x] # << >>} |->
           [id |-> RunId, produced |-> produced, aggregates |-> Aggregates(groups[e])]] ]

Compile ==
    /\ phase = "group" /\ grouped = Len(artifacts)
    /\ LET produced == Produced(Rows)
       IN  IF /\ Compilable(Rows, produced)
              /\ \A e \in Places : groups[e] # << >> => Compilable(groups[e], produced)
              /\ ValidBatch(Assembled(produced), produced)
           THEN phase' = "compiled" /\ batch' = Assembled(produced)
           ELSE phase' = "degraded" /\ UNCHANGED batch
    /\ UNCHANGED <<inputs, read, artifacts, grouped, identities, groups>>

NextCompilation == Load \/ Loaded \/ Group \/ Compile

SpecCompilation == InitCompilation /\ [][NextCompilation]_varsCompilation

------------------------------------------------------------------------------
(* The files that count, straight from the inputs. *)
Used == {f \in Range(inputs) : f.run = RunId /\ ValidMeasurement(f)}

Reported(e) == UNION {Range(f.rows) : f \in {x \in Used : x.environment = e}}

(* One cell per key and day of some observations, in no order. *)
ReferenceCells(own) ==
    LET On(key, day) == {o \in own : InCell(o, key, day)}
    IN  {[ key |-> c[1], last |-> Max({o.at : o \in On(c[1], c[2])}),
           count |-> Cardinality({o.id : o \in On(c[1], c[2])}),
           total |-> Plus(On(c[1], c[2]), LAMBDA o : o.duration) ] :
           c \in {<<o.exact, DayOf(o.at)>> : o \in own}
                   \cup {<<o.fallback, DayOf(o.at)>> : o \in own}}

CompiledFor(e) ==
    IF e = NoEnvironment THEN batch.aggregates
    ELSE IF e \in DOMAIN batch.environments THEN batch.environments[e].aggregates
    ELSE {}

(* Whatever the order of the files and however often they repeat an        *)
(* execution: each cell of the batch counts every execution of its key,    *)
(* day and environment once and there is no other cell; no execution is    *)
(* told in two ways, or of two environments.                               *)
CompiledIsReference ==
    phase = "compiled" =>
      /\ \A e \in Places : CompiledFor(e) = ReferenceCells(Reported(e))
      /\ \A e, d \in Places : \A o \in Reported(e), p \in Reported(d) :
            o.id = p.id => o = p /\ e = d

(* The backends refuse a compiled batch for its age only: at no time does  *)
(* ObservationBatch::validate find another fault with it.                  *)
CompiledIsAccepted ==
    phase = "compiled" =>
      \A now \in 0..batch.produced + BatchMaxAge :
         TimelyBatch(batch, now) => ValidBatch(batch, now)
==============================================================================
