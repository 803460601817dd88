-------------------------- MODULE MCRunSupervisor ---------------------------
(* Small instances of RunSupervisor: one computer, one agent, a run of a     *)
(* task, a direct message, and a control operation.                          *)
EXTENDS RunSupervisor, TLC

CONSTANTS r1, m1, o1, v1, a1, d1, p1

MCAgentOf == [i \in Runs \cup Ops |-> a1]
MCComputerOf == [i \in Runs \cup Ops |-> d1]
MCPollerDaemon == [p \in Pollers |-> d1]

(* Bound: beside the run there is either the direct message, or the control  *)
(* operation and the death of the daemon.                                    *)
Scenario == m1 \notin issued \/ (o1 \notin issued /\ restarts = 0)

(* Bound: a delivery is announced first, then the direct message, whose run, *)
(* once reported, polling may fetch for ever, then the run of the task.  A   *)
(* lost call and a broken stream both, or the death of the daemon, happen to *)
(* the message alone; one lost call or one broken stream to both of them.    *)
CrowdedOut ==
    /\ issued = {} \/ v1 \in issued
    /\ r1 \in issued => m1 \in issued /\ faults + breaks <= 1 /\ restarts = 0
    /\ restarts > 0 => faults + breaks = 0

=============================================================================
