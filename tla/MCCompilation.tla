---------------------------- MODULE MCCompilation ----------------------------
(* Up to three of eight files: two machines and one that is not named, a   *)
(* repeated report, one that contradicts it, one that moves an execution to*)
(* another machine, a preparation, an old observation and a foreign run.   *)
EXTENDS Compilation
CONSTANTS linux, arm, lint_a, lint_b, lint, setup, setup_any

Task(id, key, at, duration) ==
    [id |-> id, kind |-> "task", exact |-> key, fallback |-> lint, at |-> at,
     duration |-> duration]
Setup(id, at, duration) ==
    [id |-> id, kind |-> "preparation", exact |-> setup, fallback |-> setup_any,
     at |-> at, duration |-> duration]
Measured(environment, rows) ==
    [run |-> RunId, environment |-> environment, rows |-> rows]

Files == {
    Measured(linux, <<Task(1, lint_a, 4, 3), Task(2, lint_b, 5, 5)>>),
    Measured(linux, <<Task(2, lint_b, 5, 5), Task(3, lint_b, 4, 2)>>),
    Measured(linux, <<Task(2, lint_b, 5, 6)>>),
    Measured(arm, <<Task(2, lint_b, 5, 5)>>),
    Measured(arm, <<Task(4, lint_a, 6, 4), Setup(5, 6, 0)>>),
    Measured(NoEnvironment, <<Setup(6, 4, 2), Task(7, lint_a, 6, 1)>>),
    Measured(NoEnvironment, <<Task(8, lint_a, 1, 1)>>),
    [Measured(linux, <<Task(9, lint_a, 4, 3)>>) EXCEPT !.run = 2] }

MCInputs == UNION {[1..n -> Files] : n \in 0..3}
MCWeight(days) == 1
==============================================================================
