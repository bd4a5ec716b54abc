----------------------------- MODULE MCCodeRun -----------------------------
(* Three nodes: more than the host takes when it takes two, and more than    *)
(* run at once when it takes three.  The first and the last write one file.  *)
EXTENDS CodeRun

CONSTANT f1

MCNode == 1 .. 3
MCSettings == {<<2, 1>>, <<3, 2>>}
MCTarget == <<f1, NoFile, f1>>
=============================================================================
