------------------------------ MODULE MCTunnel ------------------------------
(* A request r1, an upgrade w1 and two connections of the daemon.           *)
EXTENDS Tunnel, TLC

CONSTANTS r1, w1

(* Bound: each request alone does everything, with a body frame one way or   *)
(* the other once its daemon has opened a second stream; when both are made, *)
(* either r1 is on the first stream and w1 on its successor, no context is   *)
(* cancelled and no body frame is sent; or both are on the first stream,     *)
(* which is not lost, and w1's response holds up that of r1.                 *)
Scenario ==
    \/ /\ \E r \in Requests : handler[r] = "new"
       /\ \/ exchange[2] = "none"
          \/ \A r \in Requests : sent[r] = 0 \/ uploaded[r] = 0
    \/ /\ on[r1] = 1 /\ on[w1] = 2
       /\ left \cup canceled = {}
       /\ \A r \in Requests : sent[r] = 0 /\ uploaded[r] = 0
    \/ /\ on[r1] = 1 /\ on[w1] = 1
       /\ left \cup broken = {}
       /\ sent[r1] = 0 /\ uploaded[w1] = 0

=============================================================================
