----------------------------- MODULE MCEventLog -----------------------------
(* Three writers, two of which supply the same event id for different       *)
(* targets, and a reader of one target: the log may hold two events for it, *)
(* or one behind an event it has to pass over.  Two attempts per append, so *)
(* that one can run out.  Readers have no state in common: one is enough.   *)
EXTENDS EventLog, TLC

CONSTANTS e1, e2, e3, t1, t2, i1, i2, one

MCTargetOf == e1 :> t1 @@ e2 :> t1 @@ e3 :> t2

MCEventIdOf == e1 :> i1 @@ e2 :> i2 @@ e3 :> i1

MCFilterOf == one :> t1

=============================================================================
