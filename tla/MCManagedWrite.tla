--------------------------- MODULE MCManagedWrite ---------------------------
(* Two writes of one new file, and one of another in the same new directory. *)
EXTENDS ManagedWrite, TLC

CONSTANTS c1, c2, c3, p, q, e

MCCall == {c1, c2, c3}
MCPath == {p, q}
MCEdit == {e}
MCPathOf == (c1 :> p) @@ (c2 :> p) @@ (c3 :> q)
=============================================================================
