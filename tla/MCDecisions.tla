---------------------------- MODULE MCDecisions -----------------------------
(* A decision d2 that supersedes d1, two voters.                           *)
EXTENDS Decisions, TLC

CONSTANTS d1, d2, v1, v2, b1, b2, b3, k1, k2

MCSupersedes == d1 :> NoDecision @@ d2 :> d1
MCVoterOf == b1 :> v1 @@ b2 :> v2 @@ b3 :> v1

=============================================================================
