----------------------------- MODULE MCSession -----------------------------
(* One program of three calls: a run_code call, an effect and a read, each   *)
(* of the last two asked for by the model or planned as a node.              *)
EXTENDS Session

CONSTANT t1

MCTurn == {t1}
MCCall == 1 .. 3
MCTool == <<"run_code", "effect", "read">>
=============================================================================
