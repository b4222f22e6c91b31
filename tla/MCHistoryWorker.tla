--------------------------- MODULE MCHistoryWorker ---------------------------
(* HistoryWorker on small instances. *)
EXTENDS HistoryWorker
CONSTANTS alice, alices_rerun, bob, carol, task, fallback

Agg(key, last, count, total) ==
    [key |-> key, last |-> last, count |-> count, total |-> total]
Batch(id, produced, rows) ==
    [id |-> id, produced |-> produced, aggregates |-> rows,
     environments |-> [e \in {} |-> {}]]

MCWeight(days) == CASE days = 0 -> 4 [] days = 1 -> 2 [] OTHER -> 1

First == Batch(1, 1, {Agg(task, 1, 1, 5), Agg(fallback, 1, 1, 5)})
Second == Batch(2, 2, {Agg(task, 1, 2, 3), Agg(task, 2, 1, 4)})

(* Two runs whose answers are lost and whose posts are repeated. *)
Repeaters == [c \in {alice, bob} |-> CASE c = alice -> First [] c = bob -> Second]

(* A run, a repeated job of the same run attempt that compiled other       *)
(* bytes, and a newer batch of an earlier run, on overlapping days of the  *)
(* same keys.                                                              *)
Rivals == [c \in {alice, alices_rerun, carol} |->
             CASE c = alice -> Batch(2, 1, {Agg(task, 1, 1, 5), Agg(fallback, 1, 1, 5)})
               [] c = alices_rerun -> Batch(2, 2, {Agg(task, 2, 2, 7)})
               [] c = carol -> Batch(1, 3, {Agg(task, 2, 1, 9), Agg(fallback, 3, 1, 2)})]

(* Three runs whose batches are all timely from the first tick. *)
Crowd == [c \in {alice, bob, carol} |->
             CASE c = alice -> First
               [] c = bob -> Batch(2, 1, {Agg(task, 1, 2, 3)})
               [] c = carol -> Batch(3, 1, {Agg(task, 0, 1, 4)})]

NoEnvironments == {}
==============================================================================
