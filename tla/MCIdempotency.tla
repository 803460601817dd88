---------------------------- MODULE MCIdempotency ----------------------------
(* One logical request with overlapping calls.                              *)
EXTENDS Idempotency, TLC

CONSTANTS c1, c2, c3, k1

MCOneKey == [c \in Calls |-> k1]

=============================================================================
