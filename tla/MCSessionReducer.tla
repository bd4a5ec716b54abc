-------------------------- MODULE MCSessionReducer --------------------------
(* Every log over one run_code call, one other call and two turns: enough    *)
(* for a code node beside its parent, for two uncertain calls at once, and   *)
(* for a call of a finished turn to be there while the next turn runs.       *)
EXTENDS SessionReducer

CONSTANTS t1, t2, c1, c2

MCTurn == {t1, t2}
MCCall == {c1, c2}
MCTool == [c \in MCCall |-> IF c = c1 THEN "run_code" ELSE "effect"]
=============================================================================
