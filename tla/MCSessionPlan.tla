--------------------------- MODULE MCSessionPlan ---------------------------
(* One turn over plan mode: a call that leaves it, an effect and a search,  *)
(* one more than the batch limit admits, so a batch may exceed the limit.   *)
EXTENDS Session

CONSTANT t1

MCTurn == {t1}
MCCall == 1 .. 3
MCTool == <<"exit_plan_mode", "effect", "grep">>
=============================================================================
