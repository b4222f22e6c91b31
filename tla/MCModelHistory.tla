---------------------------- MODULE MCModelHistory ----------------------------
(* ModelHistory on small sets of batches. *)
EXTENDS ModelHistory
CONSTANTS linux, mac, arm, task, fallback

Agg(key, last, count, total) ==
    [key |-> key, last |-> last, count |-> count, total |-> total]
Child(id, produced, rows) == [id |-> id, produced |-> produced, aggregates |-> rows]
NoEnvironments == [e \in {} |-> {}]

MCWeight(days) == CASE days = 0 -> 4 [] days = 1 -> 2 [] OTHER -> 1

(* One batch: its root rows, and its rows per environment. *)
Batch(id, produced, root, rows) ==
    [ id |-> id, produced |-> produced, aggregates |-> root,
      environments |-> [e \in DOMAIN rows |-> Child(id, produced, rows[e])] ]
Nowhere == [e \in {} |-> {}]
On(e, rows) == [x \in {e} |-> rows]
OnBoth(onLinux, onMac) == [e \in {linux, mac} |-> IF e = linux THEN onLinux ELSE onMac]

(* Batches that mix machines and days: late observations, observations     *)
(* stamped with tomorrow, a machine that goes quiet and comes back, one    *)
(* machine too many, keys that only machines know, as many as fit or more. *)
Mixed == {
    Batch(1, 1, {Agg(task, 1, 2, 5)}, On(linux, {Agg(task, 1, 1, 3)})),
    Batch(2, 3, {Agg(task, 0, 1, 1), Agg(task, 3, 1, 8)},
          OnBoth({Agg(task, 0, 1, 2), Agg(task, 2, 2, 5)}, {Agg(task, 3, 3, 20)})),
    Batch(3, 5, {Agg(task, 2, 1, 4)},
          On(linux, {Agg(task, 5, 2, 9), Agg(task, 2, 1, 1), Agg(fallback, 5, 1, 2)})),
    Batch(4, 8, {}, On(mac, {Agg(task, 8, 1, 7), Agg(task, 5, 2, 1)})),
    Batch(5, 9, {Agg(task, 9, 3, 4)},
          OnBoth({Agg(task, 9, 1, 30), Agg(task, 7, 2, 1)}, {Agg(task, 6, 1, 2)})),
    Batch(6, 11, {}, On(linux, {Agg(task, 11, 1, 6), Agg(task, 8, 1, 6), Agg(fallback, 9, 1, 4)})),
    Batch(7, 11, {Agg(task, 12, 1, 6)},
          On(mac, {Agg(task, 11, 4, 5), Agg(task, 9, 1, 9), Agg(fallback, 9, 2, 3)})),
    Batch(8, 10, {}, On(arm, {Agg(task, 9, 1, 2)})) }

(* A machine that was measured last, one before it and one long before.    *)
Drifting == {
    Batch(1, 4, {}, On(mac, {Agg(task, 4, 1, 9)})),
    Batch(2, 7, {Agg(fallback, 7, 1, 1)}, On(linux, {Agg(task, 6, 1, 2)})),
    Batch(3, 8, {Agg(task, 8, 1, 5)}, Nowhere) }
==============================================================================
