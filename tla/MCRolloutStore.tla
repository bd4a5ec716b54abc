--------------------------- MODULE MCRolloutStore ---------------------------
(* Two processes that compete for the session, and four appends: those that *)
(* are promised, torn and durable but unpromised, and one after a repair.    *)
EXTENDS RolloutStore

CONSTANTS p1, p2

MCProcess == {p1, p2}
=============================================================================
