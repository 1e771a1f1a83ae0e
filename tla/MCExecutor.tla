------------------------------ MODULE MCExecutor ------------------------------
(* Two tasks, one on each of two levels, so that the urgent one could starve *)
(* the other, with slices small enough to run out.                           *)
EXTENDS Executor

CONSTANTS a, b, x, y

Priorities == [t \in {a, b} |-> IF t = a THEN 0 ELSE 1]
Slices == <<1, 1>>
Holding == [z \in {x, y} |-> IF z = x THEN {a, b} ELSE {a, Root}]

=============================================================================
