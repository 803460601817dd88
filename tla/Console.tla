------------------------------ MODULE Console -------------------------------
(***************************************************************************)
(* Four parts of the server that run in one process and share no state: RPC *)
(* idempotency, channel decisions, the tunnel rows of a computer and the    *)
(* messages from chat platforms.  Their handlers interleave freely.         *)
(***************************************************************************)
EXTENDS Idempotency, Decisions, TunnelRecords, ImInbound

consoleVars == <<vars, decisionVars, tunnelRecordVars, imVars>>

ConsoleInit == Init /\ DecisionInit /\ TunnelRecordInit /\ ImInit

ConsoleNext ==
    \/ Next /\ UNCHANGED <<decisionVars, tunnelRecordVars, imVars>>
    \/ DecisionNext /\ UNCHANGED <<vars, tunnelRecordVars, imVars>>
    \/ TunnelRecordNext /\ UNCHANGED <<vars, decisionVars, imVars>>
    \/ ImNext /\ UNCHANGED <<vars, decisionVars, tunnelRecordVars>>

ConsoleSpec == ConsoleInit /\ [][ConsoleNext]_consoleVars

(* The variables of the four parts have their types: the statuses, counts    *)
(* and handler states are ones the code knows.                               *)
ConsoleTypeOK == TypeOK /\ DecisionTypeOK /\ TunnelRecordTypeOK /\ ImTypeOK
=============================================================================
