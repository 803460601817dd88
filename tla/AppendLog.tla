------------------------------ MODULE AppendLog ------------------------------
(***************************************************************************)
(* What the collaboration event log promises: one totally ordered log that *)
(* only grows at its end, with the sequence numbers 1, 2, 3, ...; an append *)
(* that is acknowledged is in the log, and no event id is in it twice.     *)
(***************************************************************************)
EXTENDS Naturals, Sequences

CONSTANTS
    Appends,         \* calls of AppendCollaborationEvent
    EventIdOf        \* EventIdOf[a]: the id of the event to append

VARIABLES
    log,             \* the events, by sequence number
    reply            \* what each call returned: "none", "ok" or "error"

absVars == <<log, reply>>

InLog(a) == \E i \in 1..Len(log) : EventIdOf[log[i]] = EventIdOf[a]

Init ==
    /\ log = <<>>
    /\ reply = [a \in Appends |-> "none"]

(* The event is appended; an error reported at the commit may be wrong. *)
Append1(a) ==
    /\ reply[a] = "none" /\ ~InLog(a)
    /\ log' = Append(log, a)
    /\ \E v \in {"ok", "error"} : reply' = [reply EXCEPT ![a] = v]

(* The call is refused and leaves nothing behind. *)
Refuse(a) ==
    /\ reply[a] = "none"
    /\ reply' = [reply EXCEPT ![a] = "error"]
    /\ UNCHANGED log

Next == \E a \in Appends : Append1(a) \/ Refuse(a)

Spec == Init /\ [][Next]_absVars

=============================================================================
