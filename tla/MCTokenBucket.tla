--------------------------- MODULE MCTokenBucket ---------------------------
(* Two clients of a small bucket for TLC. *)
EXTENDS TokenBucket

CONSTANTS c1, c2, c3
=============================================================================
