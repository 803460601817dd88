----------------------------- MODULE MCConsole ------------------------------
(* An instance of the four parts of module Console.                          *)
(* Three calls under one idempotency key; a decision d2 that supersedes d1,  *)
(* and three votes of two voters; two tunnels and two connections of their   *)
(* computer; a text, the commands of a chat and a text to an open endpoint.  *)
EXTENDS Console, TLC

CONSTANTS c1, c2, c3, k1, d1, d2, v1, v2, b1, b2, b3, m1, m2, m3, m4, m5,
          t1, t2, x1, x2, e1, e2, e3, a1, a2

MCOneKey == [c \in Calls |-> k1]
MCSupersedes == d1 :> NoDecision @@ d2 :> d1
MCVoterOf == b1 :> v1 @@ b2 :> v2 @@ b3 :> v1
MCContentOf == m1 :> "text" @@ m2 :> "subscribe" @@ m3 :> "unsubscribe"
                   @@ m4 :> "verbose" @@ m5 :> "text"

(* The parts share no variable, so each one is explored with the others in  *)
(* their initial states: every behaviour of a part is one of ConsoleSpec     *)
(* with the other parts idle.                                                *)
OneAtATime ==
    \/ /\ DecisionInit /\ TunnelRecordInit /\ ImInit
       /\ Next
       /\ UNCHANGED <<decisionVars, tunnelRecordVars, imVars>>
    \/ /\ Init /\ TunnelRecordInit /\ ImInit
       /\ DecisionNext
       /\ UNCHANGED <<vars, tunnelRecordVars, imVars>>
    \/ /\ Init /\ DecisionInit /\ ImInit
       /\ TunnelRecordNext
       /\ UNCHANGED <<vars, decisionVars, imVars>>
    \/ /\ Init /\ DecisionInit /\ TunnelRecordInit
       /\ ImNext
       /\ UNCHANGED <<vars, decisionVars, tunnelRecordVars>>

OneAtATimeSpec == ConsoleInit /\ [][OneAtATime]_consoleVars

(* Bounds: calls of a kind are interchangeable and begin in the order of     *)
(* their names, and two reviewers meet at most two deliveries.               *)
Scenario ==
    /\ call[c2] # "idle" => call[c1] # "idle"
    /\ call[c3] # "idle" => call[c2] # "idle"
    /\ tunnel[t2] # "none" => tunnel[t1] # "none"
    /\ exchange[x2] # "new" => exchange[x1] # "new"
    /\ delivery[e2].pc # "idle" => delivery[e1].pc # "idle"
    /\ delivery[e3].pc # "idle" => delivery[e2].pc # "idle"
    /\ reviewer[a2].pc # "idle" => reviewer[a1].pc # "idle" /\ delivery[e3].pc = "idle"

=============================================================================
