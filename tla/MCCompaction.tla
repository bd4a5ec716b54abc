---------------------------- MODULE MCCompaction ----------------------------
(* Two calls a batch and a tail of one group: a second compaction drops what *)
(* the first one kept.  A large result is shortened for the summary.         *)
EXTENDS Compaction

CONSTANTS a, b

MCCalls == {a, b}
MCToolSizes == {1, 4}
=============================================================================
