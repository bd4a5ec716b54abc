---------------------------- MODULE MCManagedUndo ----------------------------
(* Three files of a turn: two that it changed and one that it created in a  *)
(* directory of its own.                                                    *)
EXTENDS ManagedUndo

CONSTANT typed

MCExisting == {1, 3}
MCInside == {2}
MCEditContent == {typed}
=============================================================================
