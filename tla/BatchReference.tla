--------------------------- MODULE BatchReference ---------------------------
(***************************************************************************)
(* What a set of batches teaches, with no order, retry or history: the     *)
(* buckets and summaries a model must hold once it has learned exactly the *)
(* batches S and pruned up to a day.  A batch here is anything with an id  *)
(* and aggregates, so it serves for a model and for a child alike.         *)
(***************************************************************************)
EXTENDS PredictionModel

Samples(S, key, today) ==
    UNION {{[batch |-> b, row |-> a] :
              a \in {x \in b.aggregates :
                       x.key = key /\ InHorizon(DayOf(x.last), today)}} : b \in S}

KeptDays(samples) ==
    LET days == {DayOf(s.row.last) : s \in samples}
    IN  {d \in days : Cardinality({x \in days : x > d}) < MaxBuckets}

DayTotal(key, d, samples) ==
    [ key |-> key, day |-> d,
      count |-> Plus(samples, LAMBDA s : s.row.count),
      total |-> Plus(samples, LAMBDA s : s.row.total),
      last |-> Max({s.row.last : s \in samples}) ]

Summary(s) ==
    [ key |-> s.row.key, at |-> s.row.last, id |-> s.batch.id,
      mean |-> HalfUp(s.row.total, s.row.count) ]

ReferenceBuckets(S, today) ==
    UNION {LET samples == Samples(S, key, today)
               On(d) == {s \in samples : DayOf(s.row.last) = d}
           IN  {DayTotal(key, d, On(d)) : d \in KeptDays(samples)} : key \in Keys}

ReferenceRecents(S, today) ==
    UNION {LET samples == Samples(S, key, today)
               kept == {Summary(s) : s \in
                          {x \in samples : DayOf(x.row.last) \in KeptDays(samples)}}
           IN  {r \in kept :
                  Cardinality({x \in kept : NewerSummary(x, r)}) < MaxRecents} :
           key \in Keys}
==============================================================================
