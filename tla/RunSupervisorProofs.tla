------------------------ MODULE RunSupervisorProofs -------------------------
(***************************************************************************)
(* Proofs about module RunSupervisor, for any number of daemons, polling   *)
(* goroutines, runs, messages and operations, and any number of lost calls, *)
(* broken streams and dying daemons.                                       *)
(***************************************************************************)
EXTENDS RunSupervisor, TLAPS

-----------------------------------------------------------------------------
(* The inductive invariant *)

(* A goroutine in executeRun executes a run. *)
ExecutesRun == \A w \in Workers : pc[w] \in Executing => cur[w] \in Runs

(* OneGoroutinePerRun, goroutine by goroutine. *)
RunIsReserved ==
    \A w \in Workers : pc[w] \in Executing => cur[w] \in running[DaemonOf(w)]

ReservedIsExecuted ==
    \A d \in Daemons : \A r \in running[d] :
        \E w \in Workers : DaemonOf(w) = d /\ pc[w] \in Executing /\ cur[w] = r

RunIsExecutedOnce ==
    \A v, w \in Workers :
        /\ DaemonOf(v) = DaemonOf(w) /\ cur[v] = cur[w]
        /\ pc[v] \in Executing /\ pc[w] \in Executing
        => v = w

(* Whoever reported a run as running has yet to report its end. *)
EndToReport == Executing \ {"release", "returned"}

RunningIsHeld ==
    \A r \in Runs :
        runState[r] = "running"
        => r \in orphaned \/ \E w \in Workers : pc[w] \in EndToReport /\ cur[w] = r

SupervisorInv ==
    /\ TypeOK
    /\ ExecutesRun
    /\ RunIsReserved
    /\ ReservedIsExecuted
    /\ RunIsExecutedOnce
    /\ RunningIsHeld
    /\ PermitsReturned

-----------------------------------------------------------------------------
(* Facts used by several actions *)

LEMMA WorkersHaveDaemons ==
    /\ \A w \in Workers : DaemonOf(w) \in Daemons
    /\ \A d \in Daemons : d \in Workers /\ DaemonOf(d) = d
    /\ Pollers \subseteq Workers
  BY SupervisorAssumption DEF Workers, DaemonOf

(* The invariant's parts say what OneGoroutinePerRun says. *)
LEMMA GoroutinesAgree ==
    ASSUME RunIsReserved, ReservedIsExecuted, RunIsExecutedOnce
    PROVE  OneGoroutinePerRun
<1> SUFFICES ASSUME NEW d \in Daemons
             PROVE  LET mine == {w \in Workers : DaemonOf(w) = d /\ pc[w] \in Executing} IN
                    /\ running[d] = {cur[w] : w \in mine}
                    /\ \A v, w \in mine : cur[v] = cur[w] => v = w
  BY DEF OneGoroutinePerRun
<1> DEFINE mine == {w \in Workers : DaemonOf(w) = d /\ pc[w] \in Executing}
<1>1. \A w \in mine : cur[w] \in running[d]
  BY DEF RunIsReserved
<1>2. \A r \in running[d] : \E w \in mine : cur[w] = r
  BY DEF ReservedIsExecuted
<1>3. \A v, w \in mine : cur[v] = cur[w] => v = w
  BY DEF RunIsExecutedOnce
<1> HIDE DEF mine
<1>4. running[d] = {cur[w] : w \in mine}
  BY <1>1, <1>2
<1> QED BY <1>3, <1>4 DEF mine

(* Steps that take up no run and give none back. *)
LEMMA GoroutinesStay ==
    ASSUME SupervisorInv, UNCHANGED <<running, cur>>,
           \A w \in Workers : pc'[w] \in Executing <=> pc[w] \in Executing
    PROVE  ExecutesRun' /\ RunIsReserved' /\ ReservedIsExecuted' /\ RunIsExecutedOnce'
<1>1. ExecutesRun' /\ RunIsReserved' /\ RunIsExecutedOnce'
  BY DEF SupervisorInv, ExecutesRun, RunIsReserved, RunIsExecutedOnce, DaemonOf
<1>2. ReservedIsExecuted'
  BY DEF SupervisorInv, ReservedIsExecuted, DaemonOf
<1> QED BY <1>1, <1>2

(* serverEventLocked: the sequence grows and what is recorded as sent stays  *)
(* within it.                                                                *)
LEMMA EmitTypes ==
    ASSUME TypeOK, NEW i, NEW st, Emit(i, st), UNCHANGED sentTo,
           [seq |-> eventSeq + 1, id |-> i, state |-> st] \in EventRecords
    PROVE  /\ eventSeq' \in Nat /\ events' \subseteq EventRecords
           /\ sentTo' \in [Daemons -> 0..eventSeq']
<1>1. eventSeq' = eventSeq + 1 /\ eventSeq \in Nat /\ eventSeq' \in Nat
  BY DEF Emit, TypeOK
<1>2. events' \subseteq EventRecords
  BY DEF Emit, TypeOK
<1>3. sentTo \in [Daemons -> 0..eventSeq']
  BY <1>1 DEF TypeOK
<1> QED BY <1>1, <1>2, <1>3

LEMMA RunEvents ==
    ASSUME TypeOK, NEW r \in Runs,
           NEW st \in {"queued", "message", "running", "completed", "failed"}
    PROVE  [seq |-> eventSeq + 1, id |-> r, state |-> st] \in EventRecords
  BY DEF TypeOK, EventRecords

LEMMA OpEvents ==
    ASSUME TypeOK, NEW o \in Ops
    PROVE  [seq |-> eventSeq + 1, id |-> o, state |-> "control"] \in EventRecords
  BY DEF TypeOK, EventRecords

LEMMA DeliveryEvents ==
    ASSUME TypeOK, NEW v \in Deliveries
    PROVE  [seq |-> eventSeq + 1, id |-> v, state |-> "outbound"] \in EventRecords
  BY DEF TypeOK, EventRecords

LEMMA UnackedTypes ==
    ASSUME TypeOK, NEW d \in Daemons, NotAcknowledged(d)
    PROVE  unacked' \in [Daemons -> SUBSET Nat]
<1>1. event[d].seq \in Nat
  BY DEF TypeOK, EventRecords, NoEvent
<1> QED BY <1>1 DEF TypeOK, NotAcknowledged

-----------------------------------------------------------------------------
(* Initially, and the server's own steps *)

LEMMA SupervisorInit == Init => SupervisorInv
<1> SUFFICES ASSUME Init PROVE SupervisorInv
  OBVIOUS
<1> USE SupervisorAssumption
<1>1. TypeOK
  BY DEF Init, TypeOK, Executing
<1>2. ExecutesRun /\ RunIsReserved /\ ReservedIsExecuted /\ RunIsExecutedOnce
  BY WorkersHaveDaemons DEF Init, ExecutesRun, RunIsReserved, ReservedIsExecuted,
                            RunIsExecutedOnce, Executing
<1>3. RunningIsHeld /\ PermitsReturned
  BY DEF Init, RunningIsHeld, PermitsReturned
<1> QED BY <1>1, <1>2, <1>3 DEF SupervisorInv

LEMMA ServerStepKeeps ==
    ASSUME SupervisorInv, ServerStep
    PROVE  SupervisorInv'
<1> USE SupervisorAssumption
<1>1. UNCHANGED <<permits, sentTo, inflight, unacked, running, armed, canceled, pc, todo, cur, event,
                  executions, orphaned, leaked, faults, breaks, restarts>>
  BY DEF ServerStep, AssignRun, SendDirectMessage, ControlAgent, EmitOutboundDelivery,
         streamVars, procVars, localVars, historyVars
<1>2. ExecutesRun' /\ RunIsReserved' /\ ReservedIsExecuted' /\ RunIsExecutedOnce'
  BY <1>1, GoroutinesStay
<1>3. PermitsReturned'
  BY <1>1 DEF SupervisorInv, PermitsReturned
<1>4. ASSUME NEW r \in Runs, AssignRun(r) PROVE TypeOK' /\ RunningIsHeld'
  <2>1. /\ eventSeq' \in Nat /\ events' \subseteq EventRecords
        /\ sentTo' \in [Daemons -> 0..eventSeq']
    BY <1>1, <1>4, EmitTypes, RunEvents DEF AssignRun, SupervisorInv
  <2>2. runState' = [runState EXCEPT ![r] = "queued"] /\ issued' = issued \cup {r}
    BY <1>4 DEF AssignRun
  <2>3. TypeOK'
    BY <1>1, <2>1, <2>2 DEF SupervisorInv, TypeOK
  <2>4. RunningIsHeld'
    BY <1>1, <2>2 DEF SupervisorInv, RunningIsHeld, TypeOK
  <2> QED BY <2>3, <2>4
<1>5. ASSUME NEW m \in Runs, SendDirectMessage(m) PROVE TypeOK' /\ RunningIsHeld'
  <2>1. /\ eventSeq' \in Nat /\ events' \subseteq EventRecords
        /\ sentTo' \in [Daemons -> 0..eventSeq']
    BY <1>1, <1>5, EmitTypes, RunEvents DEF SendDirectMessage, SupervisorInv
  <2>2. runState' = runState /\ issued' = issued \cup {m}
    BY <1>5 DEF SendDirectMessage
  <2>3. TypeOK'
    BY <1>1, <2>1, <2>2 DEF SupervisorInv, TypeOK
  <2>4. RunningIsHeld'
    BY <1>1, <2>2 DEF SupervisorInv, RunningIsHeld
  <2> QED BY <2>3, <2>4
<1>6. ASSUME NEW o \in Ops, ControlAgent(o) PROVE TypeOK' /\ RunningIsHeld'
  <2>1. /\ eventSeq' \in Nat /\ events' \subseteq EventRecords
        /\ sentTo' \in [Daemons -> 0..eventSeq']
    BY <1>1, <1>6, EmitTypes, OpEvents DEF ControlAgent, SupervisorInv
  <2>2. runState' = runState /\ issued' = issued \cup {o}
    BY <1>6 DEF ControlAgent
  <2>3. TypeOK'
    BY <1>1, <2>1, <2>2 DEF SupervisorInv, TypeOK
  <2>4. RunningIsHeld'
    BY <1>1, <2>2 DEF SupervisorInv, RunningIsHeld
  <2> QED BY <2>3, <2>4
<1>7. ASSUME NEW v \in Deliveries, EmitOutboundDelivery(v) PROVE TypeOK' /\ RunningIsHeld'
  <2>1. /\ eventSeq' \in Nat /\ events' \subseteq EventRecords
        /\ sentTo' \in [Daemons -> 0..eventSeq']
    BY <1>1, <1>7, EmitTypes, DeliveryEvents DEF EmitOutboundDelivery, SupervisorInv
  <2>2. runState' = runState /\ issued' = issued \cup {v}
    BY <1>7 DEF EmitOutboundDelivery
  <2>3. TypeOK'
    BY <1>1, <2>1, <2>2 DEF SupervisorInv, TypeOK
  <2>4. RunningIsHeld'
    BY <1>1, <2>2 DEF SupervisorInv, RunningIsHeld
  <2> QED BY <2>3, <2>4
<1> QED BY <1>2, <1>3, <1>4, <1>5, <1>6, <1>7 DEF ServerStep, SupervisorInv

LEMMA StreamStepKeeps ==
    ASSUME SupervisorInv, NEW d \in Daemons, StreamTick(d) \/ StreamBreak(d)
    PROVE  SupervisorInv'
<1>1. UNCHANGED <<runState, issued, events, eventSeq, permits, running, armed, canceled,
                  pc, todo, cur, event, executions, orphaned, leaked, faults, restarts>>
  BY DEF StreamTick, StreamBreak, serverVars, procVars, localVars, historyVars
<1>2. ExecutesRun' /\ RunIsReserved' /\ ReservedIsExecuted' /\ RunIsExecutedOnce'
  BY <1>1, GoroutinesStay
<1>3. PermitsReturned' /\ RunningIsHeld'
  BY <1>1 DEF SupervisorInv, PermitsReturned, RunningIsHeld
<1>4. CASE StreamTick(d)
  <2>1. /\ inflight' = [inflight EXCEPT ![d] = @ \cup pendingServerEvents(d)]
        /\ sentTo' = [sentTo EXCEPT ![d] = eventSeq] /\ UNCHANGED <<breaks, unacked>>
    BY <1>4 DEF StreamTick
  <2>2. pendingServerEvents(d) \subseteq EventRecords
    BY DEF pendingServerEvents, SupervisorInv, TypeOK
  <2>3. TypeOK'
    BY <1>1, <2>1, <2>2 DEF SupervisorInv, TypeOK
  <2> QED BY <1>2, <1>3, <2>3 DEF SupervisorInv
<1>5. CASE StreamBreak(d)
  <2>1. /\ inflight' = [inflight EXCEPT ![d] = {}]
        /\ sentTo' = [sentTo EXCEPT ![d] = 0] /\ breaks' = breaks + 1
        /\ unacked' = [unacked EXCEPT ![d] = {}]
    BY <1>5 DEF StreamBreak
  <2>2. TypeOK'
    BY <1>1, <2>1 DEF SupervisorInv, TypeOK
  <2> QED BY <1>2, <1>3, <2>2 DEF SupervisorInv
<1> QED BY <1>4, <1>5

-----------------------------------------------------------------------------
(* Taking up a run and giving it back *)

LEMMA ReserveRunKeeps ==
    ASSUME SupervisorInv, NEW w \in Workers, NEW r \in Runs,
           pc[w] \notin Executing, ReserveRun(w, r),
           UNCHANGED <<runState, permits, orphaned, leaked>>
    PROVE  /\ running' \in [Daemons -> SUBSET Runs]
           /\ pc' \in [Workers -> Executing \cup {"idle", "next", "control", "ack"}]
           /\ cur' \in [Workers -> Runs \cup {NoRun}]
           /\ ExecutesRun' /\ RunIsReserved' /\ ReservedIsExecuted' /\ RunIsExecutedOnce'
           /\ RunningIsHeld' /\ PermitsReturned'
<1> DEFINE d == DaemonOf(w)
<1>1. d \in Daemons /\ r \notin running[d]
  BY WorkersHaveDaemons DEF ReserveRun
<1>2. /\ running' \in [Daemons -> SUBSET Runs]
      /\ running'[d] = running[d] \cup {r} /\ \A e \in Daemons \ {d} : running'[e] = running[e]
  BY <1>1 DEF ReserveRun, SupervisorInv, TypeOK
<1>3. /\ pc' \in [Workers -> Executing \cup {"idle", "next", "control", "ack"}]
      /\ pc'[w] = "permit" /\ \A v \in Workers \ {w} : pc'[v] = pc[v]
  BY DEF ReserveRun, SupervisorInv, TypeOK, Executing
<1>4. /\ cur' \in [Workers -> Runs \cup {NoRun}]
      /\ cur'[w] = r /\ \A v \in Workers \ {w} : cur'[v] = cur[v]
  BY DEF ReserveRun, SupervisorInv, TypeOK
<1>5. "permit" \in Executing /\ "permit" \in EndToReport /\ "permit" \notin HoldingPermit
      /\ HoldingPermit \subseteq Executing /\ EndToReport \subseteq Executing
  BY DEF Executing, EndToReport, HoldingPermit
<1>6. ExecutesRun'
  BY <1>3, <1>4 DEF SupervisorInv, ExecutesRun
<1>7. RunIsReserved'
  <2> SUFFICES ASSUME NEW v \in Workers, pc'[v] \in Executing
               PROVE  cur'[v] \in running'[DaemonOf(v)]
    BY DEF RunIsReserved, DaemonOf
  <2>1. CASE v = w
    BY <2>1, <1>2, <1>4
  <2>2. CASE v # w
    BY <2>2, <1>2, <1>3, <1>4, WorkersHaveDaemons DEF SupervisorInv, RunIsReserved
  <2> QED BY <2>1, <2>2
<1>8. ReservedIsExecuted'
  <2> SUFFICES ASSUME NEW e \in Daemons, NEW q \in running'[e]
               PROVE  \E v \in Workers : DaemonOf(v) = e /\ pc'[v] \in Executing /\ cur'[v] = q
    BY DEF ReservedIsExecuted, DaemonOf
  <2>1. CASE e = d /\ q = r
    BY <2>1, <1>3, <1>4, <1>5
  <2>2. CASE q \in running[e]
    <3>1. PICK v \in Workers : DaemonOf(v) = e /\ pc[v] \in Executing /\ cur[v] = q
      BY <2>2 DEF SupervisorInv, ReservedIsExecuted
    <3>2. v # w
      BY <3>1
    <3> QED BY <3>1, <3>2, <1>3, <1>4
  <2> QED BY <2>1, <2>2, <1>2
<1>9. RunIsExecutedOnce'
  <2>1. ASSUME NEW v \in Workers \ {w}, DaemonOf(v) = d, pc[v] \in Executing
        PROVE  cur[v] # r
    BY <2>1, <1>1 DEF SupervisorInv, RunIsReserved
  <2>2. ASSUME NEW u \in Workers, NEW v \in Workers, DaemonOf(u) = DaemonOf(v),
               cur'[u] = cur'[v], pc'[u] \in Executing, pc'[v] \in Executing
        PROVE  u = v
    BY <2>1, <2>2, <1>3, <1>4 DEF SupervisorInv, RunIsExecutedOnce
  <2> QED BY <2>2 DEF RunIsExecutedOnce, DaemonOf
<1>10. RunningIsHeld'
  <2>1. ASSUME NEW v \in Workers, NEW q, pc[v] \in EndToReport, cur[v] = q
        PROVE  pc'[v] \in EndToReport /\ cur'[v] = q
    BY <2>1, <1>3, <1>4, <1>5
  <2> QED BY <2>1 DEF SupervisorInv, RunningIsHeld
<1>11. PermitsReturned'
  BY <1>3, <1>5 DEF SupervisorInv, PermitsReturned, TypeOK
<1> QED BY <1>2, <1>3, <1>4, <1>6, <1>7, <1>8, <1>9, <1>10, <1>11

LEMMA ReleaseRunKeeps ==
    ASSUME SupervisorInv, NEW w \in Workers, NEW nxt \in {"idle", "next", "ack"},
           pc[w] = "returned", ReleaseRun(w, nxt),
           UNCHANGED <<runState, permits, orphaned, leaked>>
    PROVE  /\ running' \in [Daemons -> SUBSET Runs]
           /\ armed' \cup canceled' \subseteq Workers
           /\ pc' \in [Workers -> Executing \cup {"idle", "next", "control", "ack"}]
           /\ cur' \in [Workers -> Runs \cup {NoRun}]
           /\ ExecutesRun' /\ RunIsReserved' /\ ReservedIsExecuted' /\ RunIsExecutedOnce'
           /\ RunningIsHeld' /\ PermitsReturned'
<1> DEFINE d == DaemonOf(w)
<1>1. d \in Daemons
  BY WorkersHaveDaemons
<1>2. /\ running' \in [Daemons -> SUBSET Runs]
      /\ running'[d] = running[d] \ {cur[w]}
      /\ \A e \in Daemons \ {d} : running'[e] = running[e]
      /\ armed' \cup canceled' \subseteq Workers
  BY <1>1 DEF ReleaseRun, SupervisorInv, TypeOK
<1>3. /\ pc' \in [Workers -> Executing \cup {"idle", "next", "control", "ack"}]
      /\ pc'[w] = nxt /\ \A v \in Workers \ {w} : pc'[v] = pc[v]
  BY DEF ReleaseRun, SupervisorInv, TypeOK
<1>4. /\ cur' \in [Workers -> Runs \cup {NoRun}]
      /\ \A v \in Workers \ {w} : cur'[v] = cur[v]
  BY DEF ReleaseRun, SupervisorInv, TypeOK
<1>5. /\ "returned" \in Executing /\ nxt \notin Executing
      /\ "returned" \notin HoldingPermit /\ "returned" \notin EndToReport
  BY DEF Executing, EndToReport, HoldingPermit
<1>6. ExecutesRun'
  BY <1>3, <1>4, <1>5 DEF SupervisorInv, ExecutesRun
<1>7. \A v \in Workers \ {w} : DaemonOf(v) = d /\ pc[v] \in Executing => cur[v] # cur[w]
  BY <1>5 DEF SupervisorInv, RunIsExecutedOnce
<1>8. RunIsReserved'
  <2> SUFFICES ASSUME NEW v \in Workers, pc'[v] \in Executing
               PROVE  cur'[v] \in running'[DaemonOf(v)]
    BY DEF RunIsReserved, DaemonOf
  <2>1. v # w /\ pc[v] \in Executing /\ cur[v] \in running[DaemonOf(v)]
    BY <1>3, <1>5 DEF SupervisorInv, RunIsReserved
  <2> QED BY <2>1, <1>2, <1>4, <1>7, WorkersHaveDaemons
<1>9. ReservedIsExecuted'
  <2> SUFFICES ASSUME NEW e \in Daemons, NEW q \in running'[e]
               PROVE  \E v \in Workers : DaemonOf(v) = e /\ pc'[v] \in Executing /\ cur'[v] = q
    BY DEF ReservedIsExecuted, DaemonOf
  <2>1. q \in running[e] /\ (e = d => q # cur[w])
    BY <1>2
  <2>2. PICK v \in Workers : DaemonOf(v) = e /\ pc[v] \in Executing /\ cur[v] = q
    BY <2>1 DEF SupervisorInv, ReservedIsExecuted
  <2>3. v # w
    BY <2>1, <2>2
  <2> QED BY <2>2, <2>3, <1>3, <1>4
<1>10. RunIsExecutedOnce'
  <2>1. ASSUME NEW u \in Workers, NEW v \in Workers, DaemonOf(u) = DaemonOf(v),
               cur'[u] = cur'[v], pc'[u] \in Executing, pc'[v] \in Executing
        PROVE  u = v
    BY <2>1, <1>3, <1>4, <1>5 DEF SupervisorInv, RunIsExecutedOnce
  <2> QED BY <2>1 DEF RunIsExecutedOnce, DaemonOf
<1>11. RunningIsHeld'
  <2>1. ASSUME NEW v \in Workers, NEW q, pc[v] \in EndToReport, cur[v] = q
        PROVE  pc'[v] \in EndToReport /\ cur'[v] = q
    BY <2>1, <1>3, <1>4, <1>5
  <2> QED BY <2>1 DEF SupervisorInv, RunningIsHeld
<1>12. PermitsReturned'
  BY <1>3, <1>5 DEF SupervisorInv, PermitsReturned, TypeOK
<1> QED BY <1>2, <1>3, <1>4, <1>6, <1>8, <1>9, <1>10, <1>11, <1>12

(* A goroutine that is not in executeRun holds no permit it could return. *)
LEMMA IdleHoldsNothing ==
    ASSUME SupervisorInv, NEW w \in Workers, pc[w] \notin Executing, NEW nxt,
           nxt \in {"idle", "next", "control", "ack"}, pc' = [pc EXCEPT ![w] = nxt],
           UNCHANGED <<runState, permits, running, cur, orphaned, leaked>>
    PROVE  /\ pc' \in [Workers -> Executing \cup {"idle", "next", "control", "ack"}]
           /\ ExecutesRun' /\ RunIsReserved' /\ ReservedIsExecuted' /\ RunIsExecutedOnce'
           /\ RunningIsHeld' /\ PermitsReturned'
<1>1. nxt \notin Executing /\ HoldingPermit \subseteq Executing /\ EndToReport \subseteq Executing
  BY DEF Executing, HoldingPermit, EndToReport
<1>2. /\ pc' \in [Workers -> Executing \cup {"idle", "next", "control", "ack"}]
      /\ pc'[w] = nxt /\ \A v \in Workers \ {w} : pc'[v] = pc[v]
  BY DEF SupervisorInv, TypeOK
<1>3. ExecutesRun' /\ RunIsReserved' /\ ReservedIsExecuted' /\ RunIsExecutedOnce'
  <2>1. \A v \in Workers : pc'[v] \in Executing <=> pc[v] \in Executing
    BY <1>1, <1>2
  <2> QED BY <2>1, GoroutinesStay
<1>4. RunningIsHeld'
  <2>1. \A v \in Workers : pc[v] \in EndToReport => pc'[v] \in EndToReport
    BY <1>1, <1>2
  <2> QED BY <2>1 DEF SupervisorInv, RunningIsHeld
<1>5. PermitsReturned'
  BY <1>1, <1>2 DEF SupervisorInv, PermitsReturned, TypeOK
<1> QED BY <1>2, <1>3, <1>4, <1>5

-----------------------------------------------------------------------------
(* The steps of pollers and streams outside executeRun *)

LEMMA NotExecuting ==
    {"idle", "next", "control", "ack"} \cap Executing = {}
  BY DEF Executing

LEMMA PollKeeps ==
    ASSUME SupervisorInv, NEW w \in Workers, Poll(w)
    PROVE  SupervisorInv'
<1>1. /\ w \in Pollers /\ pc[w] = "idle" /\ pc' = [pc EXCEPT ![w] = "next"]
      /\ UNCHANGED <<runState, issued, events, eventSeq, permits, sentTo, inflight, unacked, running,
                     armed, canceled, cur, event, executions, orphaned, leaked,
                     faults, breaks, restarts>>
  BY DEF Poll, serverVars, streamVars, procVars, historyVars
<1>2. todo' \in [Pollers -> SUBSET Runs]
  <2>1. PICK S \in FetchAssignedRuns(DaemonOf(w)) :
          todo' = [todo EXCEPT ![w] = {r \in S : shouldStartRun(runState[r])}]
    BY DEF Poll
  <2>2. S \subseteq Runs
    BY DEF FetchAssignedRuns
  <2>3. {r \in S : shouldStartRun(runState[r])} \in SUBSET Runs
    BY <2>2
  <2> QED BY <2>1, <2>3 DEF SupervisorInv, TypeOK
<1>3. /\ pc' \in [Workers -> Executing \cup {"idle", "next", "control", "ack"}]
      /\ ExecutesRun' /\ RunIsReserved' /\ ReservedIsExecuted' /\ RunIsExecutedOnce'
      /\ RunningIsHeld' /\ PermitsReturned'
  BY <1>1, NotExecuting, IdleHoldsNothing
<1>4. TypeOK'
  BY <1>1, <1>2, <1>3 DEF SupervisorInv, TypeOK
<1> QED BY <1>3, <1>4 DEF SupervisorInv

LEMMA NextRunKeeps ==
    ASSUME SupervisorInv, NEW w \in Pollers, NextRun(w)
    PROVE  SupervisorInv'
<1>1. w \in Workers /\ pc[w] = "next" /\ pc[w] \notin Executing
  BY WorkersHaveDaemons, NotExecuting DEF NextRun
<1>2. UNCHANGED <<runState, issued, events, eventSeq, permits, sentTo, inflight, unacked,
                  armed, canceled, event, executions, orphaned, leaked,
                  faults, breaks, restarts>>
  BY DEF NextRun, serverVars, streamVars, historyVars
<1>3. PICK r \in todo[w] :
        /\ todo' = [todo EXCEPT ![w] = @ \ {r}]
        /\ ReserveRun(w, r) \/ UNCHANGED <<running, cur, pc>>
  BY DEF NextRun
<1>4. r \in Runs /\ todo' \in [Pollers -> SUBSET Runs]
  BY <1>3 DEF SupervisorInv, TypeOK
<1>5. /\ running' \in [Daemons -> SUBSET Runs]
      /\ pc' \in [Workers -> Executing \cup {"idle", "next", "control", "ack"}]
      /\ cur' \in [Workers -> Runs \cup {NoRun}]
      /\ ExecutesRun' /\ RunIsReserved' /\ ReservedIsExecuted' /\ RunIsExecutedOnce'
      /\ RunningIsHeld' /\ PermitsReturned'
  <2>1. CASE ReserveRun(w, r)
    BY <2>1, <1>1, <1>2, <1>4, ReserveRunKeeps
  <2>2. CASE UNCHANGED <<running, cur, pc>>
    <3>1. ExecutesRun' /\ RunIsReserved' /\ ReservedIsExecuted' /\ RunIsExecutedOnce'
      BY <2>2, GoroutinesStay
    <3>2. RunningIsHeld' /\ PermitsReturned'
      BY <1>2, <2>2 DEF SupervisorInv, RunningIsHeld, PermitsReturned
    <3> QED BY <2>2, <3>1, <3>2 DEF SupervisorInv, TypeOK
  <2> QED BY <1>3, <2>1, <2>2
<1>6. TypeOK'
  BY <1>2, <1>4, <1>5 DEF SupervisorInv, TypeOK
<1> QED BY <1>5, <1>6 DEF SupervisorInv

LEMMA PollDoneKeeps ==
    ASSUME SupervisorInv, NEW w \in Pollers, PollDone(w)
    PROVE  SupervisorInv'
<1>1. /\ w \in Workers /\ pc[w] = "next" /\ pc' = [pc EXCEPT ![w] = "idle"]
      /\ UNCHANGED <<runState, issued, events, eventSeq, permits, sentTo, inflight, unacked, running,
                     armed, canceled, todo, cur, event, executions, orphaned, leaked,
                     faults, breaks, restarts>>
  BY WorkersHaveDaemons DEF PollDone, serverVars, streamVars, procVars, historyVars
<1>2. /\ pc' \in [Workers -> Executing \cup {"idle", "next", "control", "ack"}]
      /\ ExecutesRun' /\ RunIsReserved' /\ ReservedIsExecuted' /\ RunIsExecutedOnce'
      /\ RunningIsHeld' /\ PermitsReturned'
  BY <1>1, NotExecuting, IdleHoldsNothing
<1>3. TypeOK'
  BY <1>1, <1>2 DEF SupervisorInv, TypeOK
<1> QED BY <1>2, <1>3 DEF SupervisorInv

LEMMA HandleServerEventKeeps ==
    ASSUME SupervisorInv, NEW d \in Daemons, HandleServerEvent(d)
    PROVE  SupervisorInv'
<1>1. d \in Workers /\ pc[d] = "idle" /\ pc[d] \notin Executing
  BY WorkersHaveDaemons, NotExecuting DEF HandleServerEvent
<1>2. UNCHANGED <<runState, issued, events, eventSeq, permits, sentTo, unacked, armed, todo,
                  executions, orphaned, leaked, faults, breaks, restarts>>
  BY DEF HandleServerEvent, serverVars, historyVars
<1>3. PICK e \in inflight[d] :
        /\ inflight' = [inflight EXCEPT ![d] = @ \ {e}]
        /\ event' = [event EXCEPT ![d] = e]
        /\ \/ /\ CancelAgentRuns(d, AgentOf[e.id])
              /\ pc' = [pc EXCEPT ![d] = "control"]
              /\ UNCHANGED <<running, cur>>
           \/ shouldStartRun(e.state) /\ ReserveRun(d, e.id) /\ UNCHANGED canceled
           \/ pc' = [pc EXCEPT ![d] = "ack"] /\ UNCHANGED <<running, cur, canceled>>
  BY DEF HandleServerEvent
<1>4. e \in EventRecords /\ inflight' \in [Daemons -> SUBSET EventRecords]
      /\ event' \in [Daemons -> EventRecords \cup {NoEvent}]
  BY <1>3 DEF SupervisorInv, TypeOK
<1>5. /\ running' \in [Daemons -> SUBSET Runs] /\ armed' \cup canceled' \subseteq Workers
      /\ pc' \in [Workers -> Executing \cup {"idle", "next", "control", "ack"}]
      /\ cur' \in [Workers -> Runs \cup {NoRun}]
      /\ ExecutesRun' /\ RunIsReserved' /\ ReservedIsExecuted' /\ RunIsExecutedOnce'
      /\ RunningIsHeld' /\ PermitsReturned'
  <2>1. CASE /\ CancelAgentRuns(d, AgentOf[e.id])
             /\ pc' = [pc EXCEPT ![d] = "control"]
             /\ UNCHANGED <<running, cur>>
    <3>1. armed' \cup canceled' \subseteq Workers
      BY <1>2, <2>1 DEF CancelAgentRuns, SupervisorInv, TypeOK
    <3>2. /\ pc' \in [Workers -> Executing \cup {"idle", "next", "control", "ack"}]
          /\ ExecutesRun' /\ RunIsReserved' /\ ReservedIsExecuted' /\ RunIsExecutedOnce'
          /\ RunningIsHeld' /\ PermitsReturned'
      BY <1>1, <1>2, <2>1, IdleHoldsNothing
    <3> QED BY <2>1, <3>1, <3>2 DEF SupervisorInv, TypeOK
  <2>2. CASE shouldStartRun(e.state) /\ ReserveRun(d, e.id) /\ UNCHANGED canceled
    <3>1. e.id \in Runs
      BY <1>4, <2>2 DEF EventRecords, shouldStartRun
    <3>2. /\ running' \in [Daemons -> SUBSET Runs]
          /\ pc' \in [Workers -> Executing \cup {"idle", "next", "control", "ack"}]
          /\ cur' \in [Workers -> Runs \cup {NoRun}]
          /\ ExecutesRun' /\ RunIsReserved' /\ ReservedIsExecuted' /\ RunIsExecutedOnce'
          /\ RunningIsHeld' /\ PermitsReturned'
      BY <1>1, <1>2, <2>2, <3>1, ReserveRunKeeps
    <3> QED BY <1>2, <2>2, <3>2 DEF SupervisorInv, TypeOK
  <2>3. CASE pc' = [pc EXCEPT ![d] = "ack"] /\ UNCHANGED <<running, cur, canceled>>
    <3>1. /\ pc' \in [Workers -> Executing \cup {"idle", "next", "control", "ack"}]
          /\ ExecutesRun' /\ RunIsReserved' /\ ReservedIsExecuted' /\ RunIsExecutedOnce'
          /\ RunningIsHeld' /\ PermitsReturned'
      BY <1>1, <1>2, <2>3, IdleHoldsNothing
    <3> QED BY <1>2, <2>3, <3>1 DEF SupervisorInv, TypeOK
  <2> QED BY <1>3, <2>1, <2>2, <2>3
<1>6. TypeOK'
  BY <1>2, <1>4, <1>5 DEF SupervisorInv, TypeOK
<1> QED BY <1>5, <1>6 DEF SupervisorInv

LEMMA AcknowledgeKeeps ==
    ASSUME SupervisorInv, NEW d \in Daemons, ReportControlStatus(d) \/ AckServerEvent(d)
    PROVE  SupervisorInv'
<1>1. d \in Workers /\ pc[d] \notin Executing
  BY WorkersHaveDaemons, NotExecuting DEF ReportControlStatus, AckServerEvent
<1>2. UNCHANGED <<runState, issued, eventSeq, permits, sentTo, inflight, running, armed,
                  canceled, todo, cur, executions, orphaned, leaked, breaks, restarts>>
  BY DEF ReportControlStatus, AckServerEvent, serverVars, streamVars, procVars, historyVars
<1>3. \E nxt \in {"idle", "ack"} : pc' = [pc EXCEPT ![d] = nxt]
  BY DEF ReportControlStatus, AckServerEvent, Answered, Unanswered
<1>4. faults' = faults \/ faults' = faults + 1
  BY DEF ReportControlStatus, AckServerEvent, Answered, Unanswered
<1>5. /\ events' \subseteq events
      /\ event' = event \/ event' = [event EXCEPT ![d] = NoEvent]
  BY DEF ReportControlStatus, AckServerEvent, serverVars
<1>6. /\ pc' \in [Workers -> Executing \cup {"idle", "next", "control", "ack"}]
      /\ ExecutesRun' /\ RunIsReserved' /\ ReservedIsExecuted' /\ RunIsExecutedOnce'
      /\ RunningIsHeld' /\ PermitsReturned'
  <2>1. PICK nxt \in {"idle", "ack"} : pc' = [pc EXCEPT ![d] = nxt]
    BY <1>3
  <2> QED BY <2>1, <1>1, <1>2, IdleHoldsNothing
<1>7. TypeOK'
  <2>1. event' \in [Daemons -> EventRecords \cup {NoEvent}] /\ events' \subseteq EventRecords
    BY <1>5 DEF SupervisorInv, TypeOK
  <2>2. faults' \in Nat
    BY <1>4 DEF SupervisorInv, TypeOK
  <2>3. unacked' \in [Daemons -> SUBSET Nat]
    <3>1. unacked' = unacked \/ NotAcknowledged(d)
      BY DEF ReportControlStatus, AckServerEvent
    <3> QED BY <3>1, UnackedTypes DEF SupervisorInv, TypeOK
  <2> QED BY <1>2, <1>6, <2>1, <2>2, <2>3 DEF SupervisorInv, TypeOK
<1> QED BY <1>6, <1>7 DEF SupervisorInv

-----------------------------------------------------------------------------
(* executeRun *)

(* An RPC or a local step takes a goroutine from one place in executeRun to  *)
(* another, and costs at most one fault.                                     *)
LEMMA MovesWithin ==
    ASSUME SupervisorInv, NEW w \in Workers, pc[w] \in Executing,
           NEW nxt \in Executing, pc' = [pc EXCEPT ![w] = nxt],
           UNCHANGED <<running, cur>>
    PROVE  /\ pc' \in [Workers -> Executing \cup {"idle", "next", "control", "ack"}]
           /\ pc'[w] = nxt /\ \A v \in Workers \ {w} : pc'[v] = pc[v]
           /\ ExecutesRun' /\ RunIsReserved' /\ ReservedIsExecuted' /\ RunIsExecutedOnce'
<1>1. /\ pc' \in [Workers -> Executing \cup {"idle", "next", "control", "ack"}]
      /\ pc'[w] = nxt /\ \A v \in Workers \ {w} : pc'[v] = pc[v]
  BY DEF SupervisorInv, TypeOK
<1>2. \A v \in Workers : pc'[v] \in Executing <=> pc[v] \in Executing
  BY <1>1
<1> QED BY <1>1, <1>2, GoroutinesStay

LEMMA AcquirePermitKeeps ==
    ASSUME SupervisorInv, NEW w \in Workers, AcquirePermit(w)
    PROVE  SupervisorInv'
<1>1. /\ pc[w] = "permit"
      /\ UNCHANGED <<runState, issued, events, eventSeq, sentTo, inflight, unacked, running, armed,
                     canceled, todo, cur, event, executions, orphaned, breaks, restarts>>
  BY DEF AcquirePermit, streamVars, procVars
<1>2. PICK nxt \in {"start", "fail"} : pc' = [pc EXCEPT ![w] = nxt]
  BY DEF AcquirePermit, Answered, Unanswered
<1>3. faults' = faults \/ faults' = faults + 1
  BY DEF AcquirePermit, Answered, Unanswered
<1>4. /\ permits' \subseteq permits \cup {w} /\ leaked \subseteq leaked'
      /\ leaked' \subseteq leaked \cup {w}
      /\ w \in permits' /\ w \notin permits => nxt = "start" \/ w \in leaked'
  <2>1. CASE permits' = permits \cup {w} /\ UNCHANGED leaked /\ Answered(w, "start")
    BY <1>2, <2>1 DEF Answered, SupervisorInv, TypeOK
  <2>2. CASE permits' = permits \cup {w} /\ leaked' = leaked \cup {w} /\ Unanswered(w, "fail")
    BY <2>2
  <2>3. CASE UNCHANGED <<permits, leaked>> /\ Unanswered(w, "fail")
    BY <2>3
  <2> QED BY <2>1, <2>2, <2>3 DEF AcquirePermit
<1>5. pc[w] \in Executing /\ nxt \in Executing /\ pc[w] \notin HoldingPermit
      /\ nxt \in EndToReport /\ (nxt = "start" => nxt \in HoldingPermit)
  BY <1>1 DEF Executing, EndToReport, HoldingPermit
<1>6. /\ pc' \in [Workers -> Executing \cup {"idle", "next", "control", "ack"}]
      /\ pc'[w] = nxt /\ \A v \in Workers \ {w} : pc'[v] = pc[v]
      /\ ExecutesRun' /\ RunIsReserved' /\ ReservedIsExecuted' /\ RunIsExecutedOnce'
  BY <1>1, <1>2, <1>5, MovesWithin
<1>7. RunningIsHeld'
  <2>1. \A v \in Workers : pc[v] \in EndToReport => pc'[v] \in EndToReport
    BY <1>5, <1>6
  <2> QED BY <1>1, <2>1 DEF SupervisorInv, RunningIsHeld
<1>8. PermitsReturned'
  BY <1>4, <1>5, <1>6 DEF SupervisorInv, PermitsReturned, TypeOK
<1>9. TypeOK'
  <2>1. permits' \subseteq Workers /\ leaked' \subseteq Workers
    BY <1>4 DEF SupervisorInv, TypeOK
  <2>2. faults' \in Nat
    BY <1>3 DEF SupervisorInv, TypeOK
  <2> QED BY <1>1, <1>6, <2>1, <2>2 DEF SupervisorInv, TypeOK
<1> QED BY <1>6, <1>7, <1>8, <1>9 DEF SupervisorInv

LEMMA ReportStartKeeps ==
    ASSUME SupervisorInv, NEW w \in Workers, ReportStart(w)
    PROVE  SupervisorInv'
<1>1. /\ pc[w] = "start"
      /\ UNCHANGED <<issued, permits, sentTo, inflight, unacked, running, armed, canceled, todo, cur,
                     event, executions, orphaned, leaked, breaks, restarts>>
  BY DEF ReportStart, UpdateRunStatus, serverVars, streamVars, procVars, historyVars
<1>2. PICK nxt \in {"prepare", "failHeld"} : pc' = [pc EXCEPT ![w] = nxt]
  BY DEF ReportStart, Answered, Unanswered
<1>3. faults' = faults \/ faults' = faults + 1
  BY DEF ReportStart, Answered, Unanswered
<1>4. \/ runState' = [runState EXCEPT ![cur[w]] = "running"] /\ Emit(cur[w], "running")
      \/ UNCHANGED <<runState, events, eventSeq>>
  BY DEF ReportStart, UpdateRunStatus, serverVars
<1>5. pc[w] \in Executing /\ nxt \in Executing /\ nxt \in EndToReport /\ nxt \in HoldingPermit
  BY <1>1 DEF Executing, EndToReport, HoldingPermit
<1>6. /\ pc' \in [Workers -> Executing \cup {"idle", "next", "control", "ack"}]
      /\ pc'[w] = nxt /\ \A v \in Workers \ {w} : pc'[v] = pc[v]
      /\ ExecutesRun' /\ RunIsReserved' /\ ReservedIsExecuted' /\ RunIsExecutedOnce'
  BY <1>1, <1>2, <1>5, MovesWithin
<1>7. cur[w] \in Runs
  BY <1>5 DEF SupervisorInv, ExecutesRun
<1>8. /\ eventSeq' \in Nat /\ events' \subseteq EventRecords
      /\ sentTo' \in [Daemons -> 0..eventSeq']
      /\ runState' \in [Runs -> {"absent", "queued", "running", "completed", "failed"}]
  <2>1. CASE UNCHANGED <<runState, events, eventSeq>>
    BY <2>1, <1>1 DEF SupervisorInv, TypeOK
  <2>2. CASE runState' = [runState EXCEPT ![cur[w]] = "running"] /\ Emit(cur[w], "running")
    <3>1. /\ eventSeq' \in Nat /\ events' \subseteq EventRecords
          /\ sentTo' \in [Daemons -> 0..eventSeq']
      BY <1>1, <1>7, <2>2, EmitTypes, RunEvents DEF SupervisorInv
    <3> QED BY <2>2, <3>1 DEF SupervisorInv, TypeOK
  <2> QED BY <1>4, <2>1, <2>2
<1>9. TypeOK'
  <2>1. faults' \in Nat
    BY <1>3 DEF SupervisorInv, TypeOK
  <2> QED BY <1>1, <1>6, <1>8, <2>1 DEF SupervisorInv, TypeOK
<1>10. RunningIsHeld'
  <2>1. \A v \in Workers : pc[v] \in EndToReport => pc'[v] \in EndToReport
    BY <1>5, <1>6
  <2>2. \A r \in Runs \ {cur[w]} : runState'[r] = runState[r]
    BY <1>4 DEF SupervisorInv, TypeOK
  <2> QED BY <1>1, <1>5, <1>6, <2>1, <2>2 DEF SupervisorInv, RunningIsHeld
<1>11. PermitsReturned'
  BY <1>1, <1>5, <1>6 DEF SupervisorInv, PermitsReturned, TypeOK
<1> QED BY <1>6, <1>9, <1>10, <1>11 DEF SupervisorInv

LEMMA LocalStepKeeps ==
    ASSUME SupervisorInv, NEW w \in Workers,
           Prepare(w) \/ SetProcessCommand(w) \/ CommandHangs(w) \/ CommandReturns(w)
    PROVE  SupervisorInv'
<1>1. /\ pc[w] \in {"prepare", "arm", "exec", "hung"}
      /\ UNCHANGED <<runState, issued, events, eventSeq, permits, sentTo, inflight, unacked, running,
                     canceled, todo, cur, event, orphaned, leaked, faults, breaks, restarts>>
  BY DEF Prepare, SetProcessCommand, CommandHangs, CommandReturns, serverVars, streamVars, procVars,
         historyVars
<1>2. PICK nxt \in {"arm", "failHeld", "exec", "hung", "complete"} : pc' = [pc EXCEPT ![w] = nxt]
  BY DEF Prepare, SetProcessCommand, CommandHangs, CommandReturns
<1>3. /\ armed' = armed \/ armed' = armed \cup {w}
      /\ executions' = executions \/ executions' = [executions EXCEPT ![cur[w]] = @ + 1]
  BY DEF Prepare, SetProcessCommand, CommandHangs, CommandReturns, procVars, historyVars
<1>4. /\ pc[w] \in Executing /\ nxt \in Executing /\ nxt \in EndToReport
      /\ nxt \in HoldingPermit
  BY <1>1 DEF Executing, EndToReport, HoldingPermit
<1>5. /\ pc' \in [Workers -> Executing \cup {"idle", "next", "control", "ack"}]
      /\ pc'[w] = nxt /\ \A v \in Workers \ {w} : pc'[v] = pc[v]
      /\ ExecutesRun' /\ RunIsReserved' /\ ReservedIsExecuted' /\ RunIsExecutedOnce'
  BY <1>1, <1>2, <1>4, MovesWithin
<1>6. TypeOK'
  <2>1. cur[w] \in Runs
    BY <1>4 DEF SupervisorInv, ExecutesRun
  <2>2. executions' \in [Runs -> Nat] /\ armed' \cup canceled' \subseteq Workers
    BY <1>1, <1>3, <2>1 DEF SupervisorInv, TypeOK
  <2> QED BY <1>1, <1>5, <2>2 DEF SupervisorInv, TypeOK
<1>7. RunningIsHeld'
  <2>1. \A v \in Workers : pc[v] \in EndToReport => pc'[v] \in EndToReport
    BY <1>4, <1>5
  <2> QED BY <1>1, <2>1 DEF SupervisorInv, RunningIsHeld
<1>8. PermitsReturned'
  BY <1>1, <1>4, <1>5 DEF SupervisorInv, PermitsReturned, TypeOK
<1> QED BY <1>5, <1>6, <1>7, <1>8 DEF SupervisorInv

LEMMA ReportEndKeeps ==
    ASSUME SupervisorInv, NEW w \in Workers, ReportEnd(w)
    PROVE  SupervisorInv'
<1> DEFINE st == IF pc[w] = "complete" THEN "completed" ELSE "failed"
           nxt == IF pc[w] = "fail" THEN "returned" ELSE "release"
<1>1. /\ pc[w] \in {"complete", "failHeld", "fail"}
      /\ UNCHANGED <<issued, permits, sentTo, inflight, unacked, running, armed, canceled, todo, cur,
                     event, executions, leaked, breaks, restarts>>
  BY DEF ReportEnd, UpdateRunStatus, serverVars, streamVars, procVars
<1>2. pc' = [pc EXCEPT ![w] = nxt]
  BY DEF ReportEnd, Answered, Unanswered
<1>3. faults' = faults \/ faults' = faults + 1
  BY DEF ReportEnd, Answered, Unanswered
<1>4. \/ /\ runState' = [runState EXCEPT ![cur[w]] = st] /\ Emit(cur[w], st)
         /\ UNCHANGED orphaned
      \/ UNCHANGED <<runState, events, eventSeq>> /\ orphaned' = orphaned \cup {cur[w]}
  BY DEF ReportEnd, UpdateRunStatus, serverVars
<1>5. /\ pc[w] \in Executing /\ nxt \in Executing
      /\ pc[w] \in HoldingPermit => nxt \in HoldingPermit
      /\ st \in {"completed", "failed"}
  BY <1>1 DEF Executing, HoldingPermit
<1> HIDE DEF st, nxt
<1>6. /\ pc' \in [Workers -> Executing \cup {"idle", "next", "control", "ack"}]
      /\ pc'[w] = nxt /\ \A v \in Workers \ {w} : pc'[v] = pc[v]
      /\ ExecutesRun' /\ RunIsReserved' /\ ReservedIsExecuted' /\ RunIsExecutedOnce'
  BY <1>1, <1>2, <1>5, MovesWithin
<1>7. cur[w] \in Runs
  BY <1>5 DEF SupervisorInv, ExecutesRun
<1>8. /\ eventSeq' \in Nat /\ events' \subseteq EventRecords
      /\ sentTo' \in [Daemons -> 0..eventSeq'] /\ orphaned' \subseteq Runs
      /\ runState' \in [Runs -> {"absent", "queued", "running", "completed", "failed"}]
  <2>1. CASE UNCHANGED <<runState, events, eventSeq>> /\ orphaned' = orphaned \cup {cur[w]}
    BY <2>1, <1>1, <1>7 DEF SupervisorInv, TypeOK
  <2>2. CASE /\ runState' = [runState EXCEPT ![cur[w]] = st] /\ Emit(cur[w], st)
             /\ UNCHANGED orphaned
    <3>1. /\ eventSeq' \in Nat /\ events' \subseteq EventRecords
          /\ sentTo' \in [Daemons -> 0..eventSeq']
      BY <1>1, <1>5, <1>7, <2>2, EmitTypes, RunEvents DEF SupervisorInv
    <3> QED BY <1>5, <2>2, <3>1 DEF SupervisorInv, TypeOK
  <2> QED BY <1>4, <2>1, <2>2
<1>9. TypeOK'
  <2>1. faults' \in Nat
    BY <1>3 DEF SupervisorInv, TypeOK
  <2> QED BY <1>1, <1>6, <1>8, <2>1 DEF SupervisorInv, TypeOK
<1>10. RunningIsHeld'
  <2>1. runState'[cur[w]] # "running" \/ cur[w] \in orphaned'
    BY <1>4, <1>5, <1>7 DEF SupervisorInv, TypeOK
  <2>2. \A r \in Runs \ {cur[w]} : runState'[r] = runState[r]
    BY <1>4 DEF SupervisorInv, TypeOK
  <2>3. orphaned \subseteq orphaned'
    BY <1>4
  <2> QED BY <1>1, <1>6, <2>1, <2>2, <2>3 DEF SupervisorInv, RunningIsHeld
<1>11. PermitsReturned'
  BY <1>1, <1>5, <1>6 DEF SupervisorInv, PermitsReturned, TypeOK
<1> QED BY <1>6, <1>9, <1>10, <1>11 DEF SupervisorInv

LEMMA ReleasePermitKeeps ==
    ASSUME SupervisorInv, NEW w \in Workers, ReleasePermit(w)
    PROVE  SupervisorInv'
<1>1. /\ pc[w] = "release" /\ pc' = [pc EXCEPT ![w] = "returned"]
      /\ UNCHANGED <<runState, issued, events, eventSeq, sentTo, inflight, unacked, running, armed,
                     canceled, todo, cur, event, executions, orphaned, breaks, restarts>>
  BY DEF ReleasePermit, Answered, Unanswered, streamVars, procVars
<1>2. faults' = faults \/ faults' = faults + 1
  BY DEF ReleasePermit, Answered, Unanswered
<1>3. /\ permits' \subseteq permits /\ leaked \subseteq leaked'
      /\ leaked' \subseteq leaked \cup {w}
      /\ w \notin permits' \/ w \in leaked'
  BY DEF ReleasePermit
<1>4. "release" \in Executing /\ "returned" \in Executing /\ "release" \notin EndToReport
  BY DEF Executing, EndToReport
<1>5. /\ pc' \in [Workers -> Executing \cup {"idle", "next", "control", "ack"}]
      /\ pc'[w] = "returned" /\ \A v \in Workers \ {w} : pc'[v] = pc[v]
      /\ ExecutesRun' /\ RunIsReserved' /\ ReservedIsExecuted' /\ RunIsExecutedOnce'
  BY <1>1, <1>4, MovesWithin
<1>6. RunningIsHeld'
  BY <1>1, <1>4, <1>5 DEF SupervisorInv, RunningIsHeld
<1>7. PermitsReturned'
  BY <1>3, <1>5 DEF SupervisorInv, PermitsReturned, TypeOK
<1>8. TypeOK'
  <2>1. permits' \subseteq Workers /\ leaked' \subseteq Workers
    BY <1>3 DEF SupervisorInv, TypeOK
  <2>2. faults' \in Nat
    BY <1>2 DEF SupervisorInv, TypeOK
  <2> QED BY <1>1, <1>5, <2>1, <2>2 DEF SupervisorInv, TypeOK
<1> QED BY <1>5, <1>6, <1>7, <1>8 DEF SupervisorInv

LEMMA ReturnedKeeps ==
    ASSUME SupervisorInv, NEW w \in Workers, Returned(w)
    PROVE  SupervisorInv'
<1>1. /\ pc[w] = "returned"
      /\ UNCHANGED <<runState, issued, events, eventSeq, permits, sentTo, inflight, todo,
                     event, executions, orphaned, leaked, breaks, restarts>>
  BY DEF Returned, serverVars, streamVars, historyVars
<1>2. faults' = faults \/ faults' = faults + 1
  BY DEF Returned
<1>3. PICK nxt \in {"idle", "next", "ack"} : ReleaseRun(w, nxt)
  BY DEF Returned
<1>4. /\ running' \in [Daemons -> SUBSET Runs]
      /\ armed' \cup canceled' \subseteq Workers
      /\ pc' \in [Workers -> Executing \cup {"idle", "next", "control", "ack"}]
      /\ cur' \in [Workers -> Runs \cup {NoRun}]
      /\ ExecutesRun' /\ RunIsReserved' /\ ReservedIsExecuted' /\ RunIsExecutedOnce'
      /\ RunningIsHeld' /\ PermitsReturned'
  BY <1>1, <1>3, ReleaseRunKeeps
<1>5. TypeOK'
  <2>1. faults' \in Nat
    BY <1>2 DEF SupervisorInv, TypeOK
  <2>2. unacked' \in [Daemons -> SUBSET Nat]
    <3>1. CASE unacked' = unacked
      BY <3>1 DEF SupervisorInv, TypeOK
    <3>2. CASE w \in Daemons /\ NotAcknowledged(w)
      BY <3>2, UnackedTypes DEF SupervisorInv
    <3> QED BY <3>1, <3>2 DEF Returned
  <2> QED BY <1>1, <1>4, <2>1, <2>2 DEF SupervisorInv, TypeOK
<1> QED BY <1>4, <1>5 DEF SupervisorInv

-----------------------------------------------------------------------------
(* The death of a daemon *)

LEMMA DaemonRestartKeeps ==
    ASSUME SupervisorInv, NEW d \in Daemons, DaemonRestart(d)
    PROVE  SupervisorInv'
<1> DEFINE mine == {w \in Workers : DaemonOf(w) = d}
<1>1. /\ restarts' = restarts + 1
      /\ event' = [event EXCEPT ![d] = NoEvent]
      /\ running' = [running EXCEPT ![d] = {}]
      /\ armed' = armed \ mine /\ canceled' = canceled \ mine
      /\ sentTo' = [sentTo EXCEPT ![d] = 0]
      /\ inflight' = [inflight EXCEPT ![d] = {}]
      /\ unacked' = [unacked EXCEPT ![d] = {}]
      /\ orphaned' = orphaned \cup running[d]
      /\ leaked' = leaked \cup (permits \cap mine)
      /\ UNCHANGED <<runState, issued, events, eventSeq, permits, executions, faults, breaks>>
  BY DEF DaemonRestart, serverVars
<1>2. /\ pc' = [w \in Workers |-> IF w \in mine THEN "idle" ELSE pc[w]]
      /\ cur' = [w \in Workers |-> IF w \in mine THEN NoRun ELSE cur[w]]
      /\ todo' = [w \in Pollers |-> IF w \in mine THEN {} ELSE todo[w]]
  BY DEF DaemonRestart
<1>3. /\ \A w \in Workers : DaemonOf(w) = d => pc'[w] = "idle"
      /\ \A w \in Workers : DaemonOf(w) # d => pc'[w] = pc[w] /\ cur'[w] = cur[w]
      /\ "idle" \notin Executing
      /\ running'[d] = {} /\ \A e \in Daemons \ {d} : running'[e] = running[e]
  BY <1>1, <1>2, NotExecuting DEF SupervisorInv, TypeOK
<1>4. TypeOK'
  <2>1. /\ pc' \in [Workers -> Executing \cup {"idle", "next", "control", "ack"}]
        /\ cur' \in [Workers -> Runs \cup {NoRun}]
        /\ todo' \in [Pollers -> SUBSET Runs]
    BY <1>2 DEF SupervisorInv, TypeOK
  <2>2. /\ running' \in [Daemons -> SUBSET Runs]
        /\ event' \in [Daemons -> EventRecords \cup {NoEvent}]
        /\ inflight' \in [Daemons -> SUBSET EventRecords]
        /\ unacked' \in [Daemons -> SUBSET Nat]
        /\ sentTo' \in [Daemons -> 0..eventSeq']
    BY <1>1 DEF SupervisorInv, TypeOK
  <2>3. /\ armed' \cup canceled' \subseteq Workers /\ orphaned' \subseteq Runs
        /\ leaked' \subseteq Workers /\ {faults', breaks', restarts'} \subseteq Nat
    BY <1>1 DEF SupervisorInv, TypeOK
  <2> QED BY <1>1, <2>1, <2>2, <2>3 DEF SupervisorInv, TypeOK
<1>5. ExecutesRun'
  BY <1>3 DEF SupervisorInv, ExecutesRun
<1>6. RunIsReserved'
  <2> SUFFICES ASSUME NEW w \in Workers, pc'[w] \in Executing
               PROVE  cur'[w] \in running'[DaemonOf(w)]
    BY DEF RunIsReserved, DaemonOf
  <2>1. DaemonOf(w) # d /\ pc[w] \in Executing
    BY <1>3
  <2> QED BY <1>3, <2>1, WorkersHaveDaemons DEF SupervisorInv, RunIsReserved
<1>7. ReservedIsExecuted'
  <2> SUFFICES ASSUME NEW e \in Daemons, NEW r \in running'[e]
               PROVE  \E w \in Workers : DaemonOf(w) = e /\ pc'[w] \in Executing /\ cur'[w] = r
    BY DEF ReservedIsExecuted, DaemonOf
  <2>1. e # d /\ r \in running[e]
    BY <1>3
  <2>2. PICK w \in Workers : DaemonOf(w) = e /\ pc[w] \in Executing /\ cur[w] = r
    BY <2>1 DEF SupervisorInv, ReservedIsExecuted
  <2> QED BY <1>3, <2>1, <2>2
<1>8. RunIsExecutedOnce'
  <2>1. ASSUME NEW v \in Workers, NEW w \in Workers, DaemonOf(v) = DaemonOf(w),
               cur'[v] = cur'[w], pc'[v] \in Executing, pc'[w] \in Executing
        PROVE  v = w
    BY <2>1, <1>3 DEF SupervisorInv, RunIsExecutedOnce
  <2> QED BY <2>1 DEF RunIsExecutedOnce, DaemonOf
<1>9. RunningIsHeld'
  <2> SUFFICES ASSUME NEW r \in Runs, runState[r] = "running", r \notin orphaned'
               PROVE  \E w \in Workers : pc'[w] \in EndToReport /\ cur'[w] = r
    BY <1>1 DEF RunningIsHeld
  <2>1. PICK w \in Workers : pc[w] \in EndToReport /\ cur[w] = r
    BY <1>1 DEF SupervisorInv, RunningIsHeld
  <2>2. DaemonOf(w) # d
    BY <1>1, <2>1 DEF SupervisorInv, RunIsReserved, EndToReport
  <2> QED BY <1>3, <2>1, <2>2
<1>10. PermitsReturned'
  <2> SUFFICES ASSUME NEW w \in permits PROVE pc'[w] \in HoldingPermit \/ w \in leaked'
    BY <1>1 DEF PermitsReturned
  <2>1. w \in Workers
    BY DEF SupervisorInv, TypeOK
  <2>2. CASE DaemonOf(w) = d
    BY <1>1, <2>1, <2>2
  <2>3. CASE DaemonOf(w) # d
    BY <1>1, <1>3, <2>1, <2>3 DEF SupervisorInv, PermitsReturned
  <2> QED BY <2>2, <2>3
<1> QED BY <1>4, <1>5, <1>6, <1>7, <1>8, <1>9, <1>10 DEF SupervisorInv

-----------------------------------------------------------------------------
(* The theorems *)

LEMMA SupervisorStutter ==
    ASSUME SupervisorInv, UNCHANGED vars
    PROVE  SupervisorInv'
<1>1. UNCHANGED <<runState, issued, events, eventSeq, permits, sentTo, inflight, unacked, running,
                  armed, canceled, pc, todo, cur, event, executions, orphaned, leaked,
                  faults, breaks, restarts>>
  BY DEF vars, serverVars, streamVars, procVars, localVars, historyVars
<1>2. TypeOK'
  BY <1>1 DEF SupervisorInv, TypeOK
<1>3. ExecutesRun' /\ RunIsReserved' /\ ReservedIsExecuted' /\ RunIsExecutedOnce'
  BY <1>1, GoroutinesStay
<1>4. RunningIsHeld' /\ PermitsReturned'
  BY <1>1 DEF SupervisorInv, RunningIsHeld, PermitsReturned
<1> QED BY <1>2, <1>3, <1>4 DEF SupervisorInv

LEMMA SupervisorStep == SupervisorInv /\ [Next]_vars => SupervisorInv'
<1> SUFFICES ASSUME SupervisorInv, [Next]_vars PROVE SupervisorInv'
  OBVIOUS
<1>1. ASSUME NEW w \in Workers, ExecuteRun(w) PROVE SupervisorInv'
  BY <1>1, AcquirePermitKeeps, ReportStartKeeps, LocalStepKeeps, ReportEndKeeps,
     ReleasePermitKeeps, ReturnedKeeps DEF ExecuteRun
<1>2. ASSUME NEW w \in Workers, WorkerStep(w) PROVE SupervisorInv'
  BY <1>1, <1>2, NextRunKeeps, PollDoneKeeps, HandleServerEventKeeps, AcknowledgeKeeps
     DEF WorkerStep
<1> QED BY <1>2, ServerStepKeeps, PollKeeps, StreamStepKeeps, LocalStepKeeps,
           DaemonRestartKeeps, SupervisorStutter DEF Next

LEMMA SupervisorInductive == Spec => []SupervisorInv
  BY SupervisorInit, SupervisorStep, PTL DEF Spec

(* The supervisor's maps, the server's events and every goroutine's place    *)
(* stay well formed; a stream never counts as sent what was not announced.   *)
THEOREM SupervisorTypes == Spec => []TypeOK
<1>1. SupervisorInv => TypeOK
  BY DEF SupervisorInv
<1> QED BY <1>1, SupervisorInductive, PTL

(* reserveRun and releaseRun keep two goroutines of a daemon off one run and *)
(* the map of running processes exact, for any number of pollers.            *)
THEOREM RunsAreExecutedOnce == Spec => []OneGoroutinePerRun
<1>1. SupervisorInv => OneGoroutinePerRun
  BY GoroutinesAgree DEF SupervisorInv
<1> QED BY <1>1, SupervisorInductive, PTL

(* Every path of executeRun that reported a run as running reports its end:  *)
(* only a lost report or a dead daemon leaves a run running for ever.        *)
THEOREM RunningMeansExecuted == Spec => []NoOrphanRunning
<1>1. SupervisorInv => NoOrphanRunning
  BY DEF SupervisorInv, RunningIsHeld, NoOrphanRunning, EndToReport
<1> QED BY <1>1, SupervisorInductive, PTL

(* Every path out of executeRun releases the start permit it acquired. *)
THEOREM PermitsAreReturned == Spec => []PermitsReturned
<1>1. SupervisorInv => PermitsReturned
  BY DEF SupervisorInv
<1> QED BY <1>1, SupervisorInductive, PTL

=============================================================================
