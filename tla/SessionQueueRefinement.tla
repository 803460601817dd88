----------------------- MODULE SessionQueueRefinement -----------------------
(***************************************************************************)
(* The session queue implements SerialSessions: what its callers can see   *)
(* is a serial server per session.  Making, deleting and re-making slots   *)
(* is invisible, because a slot is empty whenever it enters or leaves the  *)
(* map.                                                                    *)
(***************************************************************************)
EXTENDS SessionQueueProofs

(* The refinement mapping of Serial. *)
PendingOf(k) == IF sessions[k] = NoSlot THEN <<>> ELSE queue[sessions[k]]
ServingOf(k) == IF sessions[k] = NoSlot THEN NoRequest ELSE taken[sessions[k]]

Inv == TypeInv /\ MapInv /\ RefInv /\ KeyInv /\ TransitInv

LEMMA RefinesInit == Init => Serial!Init
  BY DEF Init, Serial!Init

(* What each abstract step amounts to, key by key. *)
LEMMA StutterByKey ==
    ASSUME \A k \in Keys : PendingOf(k)' = PendingOf(k) /\ ServingOf(k)' = ServingOf(k),
           UNCHANGED resultC
    PROVE  UNCHANGED Serial!absVars
  BY DEF PendingOf, ServingOf, Serial!absVars

LEMMA AcceptByKey ==
    ASSUME NEW r \in Requests, KeyOf[r] \in Keys, resultC[r] = "none",
           PendingOf(KeyOf[r])' = Append(PendingOf(KeyOf[r]), r),
           \A k \in Keys \ {KeyOf[r]} : PendingOf(k)' = PendingOf(k),
           \A k \in Keys : ServingOf(k)' = ServingOf(k),
           UNCHANGED resultC
    PROVE  Serial!Accept(r)
  BY ZenonT(30) DEF PendingOf, ServingOf, Serial!Accept

LEMMA TakeUpByKey ==
    ASSUME NEW k \in Keys, ServingOf(k) = NoRequest, PendingOf(k) # <<>>,
           ServingOf(k)' = Head(PendingOf(k)), PendingOf(k)' = Tail(PendingOf(k)),
           \A j \in Keys \ {k} : PendingOf(j)' = PendingOf(j) /\ ServingOf(j)' = ServingOf(j),
           UNCHANGED resultC
    PROVE  Serial!TakeUp(k)
  BY DEF PendingOf, ServingOf, Serial!TakeUp

LEMMA AnswerByKey ==
    ASSUME NEW k \in Keys, ServingOf(k) # NoRequest, resultC[ServingOf(k)] = "none",
           NEW a \in {"ok", "err"},
           resultC' = [resultC EXCEPT ![ServingOf(k)] = a],
           ServingOf(k)' = NoRequest,
           \A j \in Keys : PendingOf(j)' = PendingOf(j),
           \A j \in Keys \ {k} : ServingOf(j)' = ServingOf(j)
    PROVE  Serial!Answer(k)
  BY ZenonT(30) DEF PendingOf, ServingOf, Serial!Answer, Serial!Answers

(* A live slot stands for its key, and for no other. *)
LEMMA SlotOfKey ==
    ASSUME NEW s \in Slots, Live(s), Inv
    PROVE  /\ slotKey[s] \in Keys /\ sessions[slotKey[s]] = s
           /\ \A k \in Keys : sessions[k] = s => k = slotKey[s]
  BY SessionAssumption DEF Inv, MapInv, MapSound, LiveMapped, TypeInv, TypeOK

LEMMA RefinesStep == Inv /\ [Next]_vars => [Serial!Next]_(Serial!absVars)
<1> SUFFICES ASSUME Inv, [Next]_vars PROVE Serial!Next \/ UNCHANGED Serial!absVars
  OBVIOUS
<1> USE SessionAssumption
<1>1. ASSUME UNCHANGED <<sessions, queue, taken, resultC>>
      PROVE  UNCHANGED Serial!absVars
  <2>1. \A k \in Keys : PendingOf(k)' = PendingOf(k) /\ ServingOf(k)' = ServingOf(k)
    BY <1>1 DEF PendingOf, ServingOf
  <2> QED BY <1>1, <2>1, StutterByKey
<1>2. ASSUME NEW r \in Requests, NEW s \in Slots, CreateSlot(r, s)
      PROVE  UNCHANGED Serial!absVars
  <2>1. runner[s] = "none" /\ taken[s] = NoRequest
    BY <1>2 DEF CreateSlot, Inv, TypeInv, TypeOK, KeyedWhenMade, TakenWhileBusy, Busy
  <2>2. queue[s] = <<>>
    BY <2>1 DEF Inv, RefInv, HeldLive, Live
  <2>3. /\ sessions[KeyOf[r]] = NoSlot
        /\ sessions' = [sessions EXCEPT ![KeyOf[r]] = s]
        /\ UNCHANGED <<queue, taken, resultC>>
    BY <1>2 DEF CreateSlot
  <2>4. \A k \in Keys : PendingOf(k)' = PendingOf(k) /\ ServingOf(k)' = ServingOf(k)
    BY <2>1, <2>2, <2>3 DEF PendingOf, ServingOf, Inv, TypeInv, TypeOK
  <2> QED BY <2>3, <2>4, StutterByKey
<1>3. ASSUME NEW r \in Requests, Send(r) PROVE Serial!Accept(r)
  <2>1. PICK s \in Slots : s = callerSlot[r] /\ r \in Holders(s) /\ slotKey[s] = KeyOf[r]
    BY <1>3 DEF Send, Holders, Inv, TypeInv, TypeOK, CallerHasSlot, KeyInv, KeysMatch
  <2>2. Live(s)
    BY <2>1 DEF Inv, RefInv, HeldLive
  <2>3. sessions[KeyOf[r]] = s /\ \A k \in Keys : sessions[k] = s => k = KeyOf[r]
    BY <2>1, <2>2, SlotOfKey
  <2>4. /\ queue' = [queue EXCEPT ![s] = Append(@, r)] /\ caller[r] = "sending"
        /\ UNCHANGED <<sessions, taken, resultC>>
    BY <1>3, <2>1 DEF Send
  <2>5. resultC[r] = "none"
    BY <2>4 DEF Inv, TransitInv, UnsentUnanswered
  <2>6. PendingOf(KeyOf[r])' = Append(PendingOf(KeyOf[r]), r)
    BY <2>3, <2>4 DEF PendingOf, Inv, TypeInv, TypeOK
  <2>7. \A k \in Keys \ {KeyOf[r]} : PendingOf(k)' = PendingOf(k)
    BY <2>3, <2>4 DEF PendingOf, Inv, TypeInv, TypeOK
  <2>8. \A k \in Keys : ServingOf(k)' = ServingOf(k)
    BY <2>4 DEF ServingOf
  <2> QED BY <2>4, <2>5, <2>6, <2>7, <2>8, AcceptByKey
<1>4. ASSUME NEW s \in Slots, Receive(s) PROVE \E k \in Keys : Serial!TakeUp(k)
  <2>1. PICK k \in Keys : sessions[k] = s /\ \A j \in Keys : sessions[j] = s => j = k
    BY <1>4, SlotOfKey DEF Receive, Live
  <2>2. /\ taken' = [taken EXCEPT ![s] = Head(queue[s])]
        /\ queue' = [queue EXCEPT ![s] = Tail(@)]
        /\ queue[s] # <<>> /\ taken[s] = NoRequest
        /\ UNCHANGED <<sessions, resultC>>
    BY <1>4 DEF Receive, Inv, TypeInv, TypeOK, TakenWhileBusy, Busy
  <2>3. /\ ServingOf(k) = NoRequest /\ PendingOf(k) # <<>>
        /\ ServingOf(k)' = Head(PendingOf(k)) /\ PendingOf(k)' = Tail(PendingOf(k))
    BY <2>1, <2>2 DEF PendingOf, ServingOf, Inv, TypeInv, TypeOK
  <2>4. \A j \in Keys \ {k} : PendingOf(j)' = PendingOf(j) /\ ServingOf(j)' = ServingOf(j)
    BY <2>1, <2>2 DEF PendingOf, ServingOf, Inv, TypeInv, TypeOK
  <2> QED BY <2>2, <2>3, <2>4, TakeUpByKey
<1>5. ASSUME NEW s \in Slots, runner[s] \in Busy, NEW a \in {"ok", "err"},
             taken' = [taken EXCEPT ![s] = NoRequest],
             resultC' = [resultC EXCEPT ![taken[s]] = a],
             UNCHANGED <<sessions, queue>>
      PROVE  \E k \in Keys : Serial!Answer(k)
  <2>1. PICK k \in Keys : sessions[k] = s /\ \A j \in Keys : sessions[j] = s => j = k
    BY <1>5, SlotOfKey DEF Live, Busy
  <2>2. taken[s] # NoRequest /\ resultC[taken[s]] = "none"
    BY <1>5 DEF Inv, TypeInv, TakenWhileBusy, TransitInv, TakenOnce, Pending
  <2>3. ServingOf(k) = taken[s] /\ ServingOf(k)' = NoRequest
    BY <1>5, <2>1 DEF ServingOf, Inv, TypeInv, TypeOK
  <2>4. /\ \A j \in Keys : PendingOf(j)' = PendingOf(j)
        /\ \A j \in Keys \ {k} : ServingOf(j)' = ServingOf(j)
    BY <1>5, <2>1 DEF PendingOf, ServingOf, Inv, TypeInv, TypeOK
  <2> QED BY <1>5, <2>2, <2>3, <2>4, AnswerByKey
<1>6. ASSUME NEW s \in Slots, DeleteCheckRefs(s) PROVE UNCHANGED Serial!absVars
  <2>1. CASE UNCHANGED sessions
    BY <1>1, <1>6, <2>1 DEF DeleteCheckRefs
  <2>2. CASE refs[s] = 0 /\ sessions' = [sessions EXCEPT ![slotKey[s]] = NoSlot]
    <3>1. runner[s] = "deleting" /\ taken[s] = NoRequest /\ UNCHANGED <<queue, taken, resultC>>
      BY <1>6 DEF DeleteCheckRefs, Inv, TypeInv, TypeOK, TakenWhileBusy, Busy
    <3>2. Holders(s) = {}
      BY <2>2, FS_EmptySet DEF Inv, RefInv, RefsExact
    <3>3. queue[s] = <<>>
      BY <3>1, <3>2 DEF Inv, RefInv, DeletingHeld
    <3>4. slotKey[s] \in Keys /\ sessions[slotKey[s]] = s
      BY <3>1, SlotOfKey DEF Live
    <3>5. \A k \in Keys : PendingOf(k)' = PendingOf(k) /\ ServingOf(k)' = ServingOf(k)
      BY <2>2, <3>1, <3>3, <3>4 DEF PendingOf, ServingOf, Inv, TypeInv, TypeOK
    <3> QED BY <3>1, <3>5, StutterByKey
  <2> QED BY <1>6, <2>1, <2>2 DEF DeleteCheckRefs
<1>7. ASSUME NEW r \in Requests, CallerStep(r) \/ ContextDone(r)
      PROVE  Serial!Next \/ UNCHANGED Serial!absVars
  <2>1. CASE \/ JoinSlot(r) \/ SendGivenUp(r) \/ Release(r) \/ ReceiveResult(r)
             \/ StopWaiting(r) \/ ContextDone(r)
    BY <1>1, <2>1 DEF JoinSlot, SendGivenUp, Release, ReceiveResult, StopWaiting,
                      ContextDone, slotVars
  <2> QED BY <1>2, <1>3, <1>7, <2>1 DEF CallerStep, Serial!Next
<1>8. ASSUME NEW s \in Slots, RunnerStep(s) \/ IdleTimer(s)
      PROVE  Serial!Next \/ UNCHANGED Serial!absVars
  <2>1. CASE \/ Arm(s) \/ FnStart(s) \/ FnReturn(s) \/ Disarm(s) \/ IdleTimer(s)
             \/ DeleteCheckQueue(s)
    BY <1>1, <2>1 DEF Arm, FnStart, FnReturn, Disarm, IdleTimer, DeleteCheckQueue
  <2>2. CASE CheckContext(s)
    <3>1. CASE UNCHANGED taken /\ UNCHANGED resultC
      BY <1>1, <2>2, <3>1 DEF CheckContext
    <3>2. CASE /\ resultC' = [resultC EXCEPT ![taken[s]] = "err"]
               /\ taken' = [taken EXCEPT ![s] = NoRequest]
      BY <1>5, <2>2, <3>2 DEF CheckContext, Busy, Serial!Next
    <3> QED BY <2>2, <3>1, <3>2 DEF CheckContext
  <2>3. CASE Reply(s)
    <3>1. outcome[s] \in {"ok", "err"}
      BY <2>3 DEF Reply, Inv, TransitInv, OutcomeReady
    <3> QED BY <1>5, <2>3, <3>1 DEF Reply, Busy, Serial!Next
  <2> QED BY <1>4, <1>6, <1>8, <2>1, <2>2, <2>3 DEF RunnerStep, Serial!Next
<1>9. ASSUME NEW a \in Aborters, AbortStep(a) PROVE UNCHANGED Serial!absVars
  BY <1>1, <1>9, AbortFrame DEF slotVars
<1>10. CASE UNCHANGED vars
  BY <1>1, <1>10 DEF vars, slotVars
<1> QED BY <1>7, <1>8, <1>9, <1>10 DEF Next

(* Every behaviour of the session queue is one of a serial server per       *)
(* session: requests are served in the order they were accepted, one at a   *)
(* time, and answered once.                                                 *)
THEOREM SerialSpecHolds == Spec => SerialSpec
<1>1. Spec => []Inv
  BY TypeInvariant, MapInvariant, RefInvariant, KeyInvariant, TransitInvariant, PTL DEF Inv
<1> QED BY <1>1, RefinesInit, RefinesStep, PTL DEF Spec, SerialSpec, Serial!Spec

=============================================================================
