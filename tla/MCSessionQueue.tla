--------------------------- MODULE MCSessionQueue ---------------------------
(* Small instances of SessionQueue.  Requests r1, r2 and r4 share a session  *)
(* and r3 has one of its own; a channel holds one request, so a send blocks. *)
EXTENDS SessionQueue, TLC

CONSTANTS r1, r2, r3, r4, k1, k2

MCKeyOf == [r \in Requests |-> IF r = r3 THEN k2 ELSE k1]

SessionMates == {r1, r2, r4}

RequestSlotSymmetry == Permutations(Slots) \cup Permutations(SessionMates)

Unused(rs) == \A r \in rs : caller[r] = "new" /\ r \notin ctxDone

(* Bound: either three requests of one session and no abort, or one request  *)
(* of each session and a goroutine that aborts.                              *)
Scenario ==
    \/ Unused({r3}) /\ \A a \in Aborters : aborter[a] = "idle"
    \/ \E r \in SessionMates : Unused(SessionMates \ {r})

=============================================================================
