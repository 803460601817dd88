------------------------- MODULE SessionQueueProofs -------------------------
(***************************************************************************)
(* Proofs about SessionQueue, for any sets of requests, keys, slots and    *)
(* aborters and any channel capacity.  The invariant is built in layers:   *)
(* types, the map of sessions, the reference counts, the session keys, the *)
(* requests in transit; each layer uses only the ones before it.           *)
(***************************************************************************)
EXTENDS SessionQueue, FiniteSetTheorems, TLAPS

-----------------------------------------------------------------------------
(* Types *)

(* The goroutine has a request in hand exactly while it is busy. *)
TakenWhileBusy ==
    \A s \in Slots : runner[s] \in Busy <=> taken[s] # NoRequest

(* A slot has a key as soon as it exists. *)
KeyedWhenMade == \A s \in Slots : slotKey[s] = NoKey <=> runner[s] = "none"

(* A caller past getOrCreate has a slot. *)
CallerHasSlot ==
    \A r \in Requests : caller[r] # "new" <=> callerSlot[r] # NoSlot

(* An aborter has what its next step uses. *)
AborterHasTarget ==
    \A a \in Aborters :
        /\ aborter[a] = "call" => abortCancel[a] # NoRequest
        /\ aborter[a] = "read" => abortSlot[a] # NoSlot

TypeInv ==
    /\ TypeOK
    /\ TakenWhileBusy
    /\ KeyedWhenMade
    /\ CallerHasSlot
    /\ AborterHasTarget

LEMMA TypeInit == Init => TypeInv
<1> SUFFICES ASSUME Init PROVE TypeInv
  OBVIOUS
<1>1. <<>> \in Seq(Requests)
  OBVIOUS
<1> QED BY <1>1, SessionAssumption
        DEF Init, TypeInv, TypeOK, TakenWhileBusy, KeyedWhenMade, CallerHasSlot,
            AborterHasTarget, Busy, RunnerStates, CallerStates

(* What the actors leave alone. *)
LEMMA CallerFrame ==
    ASSUME NEW r \in Requests, CallerStep(r) \/ ContextDone(r)
    PROVE  /\ UNCHANGED <<taken, outcome, activeCancel, canceled, resultC, abortVars, qmu>>
           /\ UNCHANGED <<slotKey, runner, sessions>>
              \/ \E s \in Slots : CreateSlot(r, s)
  BY DEF CallerStep, JoinSlot, CreateSlot, Send, SendGivenUp, Release,
         ReceiveResult, StopWaiting, ContextDone, slotVars

LEMMA RunnerFrame ==
    ASSUME NEW s \in Slots, RunnerStep(s) \/ IdleTimer(s)
    PROVE  UNCHANGED <<slotKey, refs, callVars, abortVars>>
  BY DEF RunnerStep, Receive, CheckContext, Arm, FnStart, FnReturn, Disarm,
         Reply, IdleTimer, DeleteCheckQueue, DeleteCheckRefs

LEMMA AbortFrame ==
    ASSUME NEW a \in Aborters, AbortStep(a)
    PROVE  UNCHANGED <<sessions, qmu, slotKey, refs, slotVars, callVars, resultC>>
  BY DEF AbortStep, AbortLookup, AbortRead, AbortCall

(* The goroutine's state after a step of it. *)
LEMMA RunnerMoves ==
    ASSUME NEW s \in Slots, RunnerStep(s) \/ IdleTimer(s), TypeInv
    PROVE  \E x \in RunnerStates \ {"none"} : runner' = [runner EXCEPT ![s] = x]
<1> USE DEF RunnerStates
<1>1. CASE DeleteCheckQueue(s) \/ DeleteCheckRefs(s)
  BY <1>1 DEF DeleteCheckQueue, DeleteCheckRefs
<1>2. CASE CheckContext(s) \/ FnStart(s)
  BY <1>2 DEF CheckContext, FnStart
<1>3. CASE Receive(s) \/ Arm(s) \/ FnReturn(s) \/ Disarm(s) \/ Reply(s) \/ IdleTimer(s)
  BY <1>3 DEF Receive, Arm, FnReturn, Disarm, Reply, IdleTimer
<1> QED BY <1>1, <1>2, <1>3 DEF RunnerStep

LEMMA CallerTypes ==
    ASSUME NEW r \in Requests, CallerStep(r) \/ ContextDone(r), TypeInv
    PROVE  TypeOK'
<1> USE SessionAssumption DEF TypeInv, TypeOK, CallerStates, callVars, abortVars, slotVars
<1>1. CASE JoinSlot(r)
  <2>1. sessions[KeyOf[r]] \in Slots BY <1>1 DEF JoinSlot
  <2> QED BY <1>1, <2>1 DEF JoinSlot
<1>2. ASSUME NEW s \in Slots, CreateSlot(r, s) PROVE TypeOK'
  BY <1>2 DEF CreateSlot, RunnerStates
<1>3. CASE Send(r)
  <2>1. callerSlot[r] \in Slots BY <1>3 DEF Send, CallerHasSlot
  <2>2. Append(queue[callerSlot[r]], r) \in Seq(Requests) BY <2>1
  <2> QED BY <1>3, <2>1, <2>2 DEF Send
<1>4. CASE Release(r)
  <2>1. refs' \in [Slots -> Nat]
    <3>1. CASE refs' = refs BY <3>1
    <3>2. CASE refs[callerSlot[r]] # 0 /\ refs' = [refs EXCEPT ![callerSlot[r]] = @ - 1]
      <4>1. callerSlot[r] \in Slots BY <1>4 DEF Release, CallerHasSlot
      <4>2. refs[callerSlot[r]] - 1 \in Nat BY <3>2, <4>1
      <4> QED BY <3>2, <4>2
    <3> QED BY <1>4, <3>1, <3>2 DEF Release, DropRef
  <2>2. caller' \in [Requests -> CallerStates] BY <1>4 DEF Release
  <2> QED BY <1>4, <2>1, <2>2 DEF Release
<1>5. CASE SendGivenUp(r) \/ ReceiveResult(r) \/ StopWaiting(r)
  <2>1. \E x \in CallerStates : caller' = [caller EXCEPT ![r] = x]
    BY <1>5 DEF SendGivenUp, ReceiveResult, StopWaiting
  <2>2. UNCHANGED <<sessions, qmu, slotKey, refs, slotVars, callerSlot, ctxDone,
                    canceled, resultC, abortVars>>
    BY <1>5 DEF SendGivenUp, ReceiveResult, StopWaiting
  <2> QED BY <2>1, <2>2
<1>6. CASE ContextDone(r)
  BY <1>6 DEF ContextDone
<1> QED BY <1>1, <1>2, <1>3, <1>4, <1>5, <1>6 DEF CallerStep

LEMMA RunnerTypes ==
    ASSUME NEW s \in Slots, RunnerStep(s) \/ IdleTimer(s), TypeInv
    PROVE  TypeOK'
<1> USE SessionAssumption
<1>1. /\ slotKey' \in [Slots -> Keys \cup {NoKey}]
      /\ refs' \in [Slots -> Nat]
      /\ caller' \in [Requests -> CallerStates]
      /\ callerSlot' \in [Requests -> Slots \cup {NoSlot}]
      /\ ctxDone' \subseteq Requests
      /\ aborter' \in [Aborters -> {"idle", "read", "call", "missed", "aborted"}]
      /\ abortKey' \in [Aborters -> Keys \cup {NoKey}]
      /\ abortSlot' \in [Aborters -> Slots \cup {NoSlot}]
      /\ abortCancel' \in [Aborters -> Requests \cup {NoRequest}]
  BY RunnerFrame DEF callVars, abortVars, TypeInv, TypeOK
<1>2. runner' \in [Slots -> RunnerStates]
  BY RunnerMoves DEF TypeInv, TypeOK
<1>3. CASE Receive(s)
  <2>1. Head(queue[s]) \in Requests /\ Tail(queue[s]) \in Seq(Requests)
    BY <1>3 DEF Receive, TypeInv, TypeOK
  <2> QED BY <1>1, <1>2, <1>3, <2>1 DEF Receive, TypeInv, TypeOK
<1>4. CASE CheckContext(s)
  <2>1. /\ UNCHANGED <<sessions, qmu, queue, activeCancel, outcome, canceled>>
        /\ \/ UNCHANGED <<resultC, taken>>
           \/ /\ resultC' = [resultC EXCEPT ![taken[s]] = "err"]
              /\ taken' = [taken EXCEPT ![s] = NoRequest]
    BY <1>4 DEF CheckContext
  <2>2. /\ resultC' \in [Requests -> {"none", "ok", "err"}]
        /\ taken' \in [Slots -> Requests \cup {NoRequest}]
    BY <2>1 DEF TypeInv, TypeOK
  <2> QED BY <1>1, <1>2, <2>1, <2>2 DEF TypeInv, TypeOK
<1>5. CASE Arm(s)
  BY <1>1, <1>2, <1>5 DEF Arm, TypeInv, TypeOK
<1>6. CASE Disarm(s) \/ IdleTimer(s)
  <2>1. /\ UNCHANGED <<sessions, qmu, queue, taken, outcome, canceled, resultC>>
        /\ \/ UNCHANGED activeCancel
           \/ activeCancel' = [activeCancel EXCEPT ![s] = NoRequest]
    BY <1>6 DEF Disarm, IdleTimer
  <2> QED BY <1>1, <1>2, <2>1 DEF TypeInv, TypeOK
<1>7. CASE FnStart(s) \/ FnReturn(s)
  <2>1. taken[s] \in Requests
    BY <1>7 DEF FnStart, FnReturn, TypeInv, TypeOK, TakenWhileBusy, Busy
  <2>2. /\ UNCHANGED <<sessions, qmu, queue, activeCancel, taken, resultC>>
        /\ canceled' = canceled \/ canceled' = canceled \cup {taken[s]}
        /\ \/ outcome' = outcome
           \/ \E o \in {"ok", "err"} : outcome' = [outcome EXCEPT ![s] = o]
    BY <1>7 DEF FnStart, FnReturn
  <2> QED BY <1>1, <1>2, <2>1, <2>2 DEF TypeInv, TypeOK
<1>8. CASE Reply(s)
  <2>1. outcome[s] \in {"none", "ok", "err"} BY DEF TypeInv, TypeOK
  <2>2. resultC' \in [Requests -> {"none", "ok", "err"}]
    BY <1>8, <2>1 DEF Reply, TypeInv, TypeOK
  <2> QED BY <1>1, <1>2, <1>8, <2>2 DEF Reply, TypeInv, TypeOK
<1>9. CASE DeleteCheckQueue(s)
  <2>1. /\ UNCHANGED <<sessions, queue, activeCancel, taken, outcome, canceled, resultC>>
        /\ qmu' \in {qmu, s}
    BY <1>9 DEF DeleteCheckQueue
  <2> QED BY <1>1, <1>2, <2>1 DEF TypeInv, TypeOK
<1>10. CASE DeleteCheckRefs(s)
  <2>1. /\ UNCHANGED <<queue, activeCancel, taken, outcome, canceled, resultC>>
        /\ qmu' = NoSlot
        /\ \/ UNCHANGED sessions
           \/ sessions' = [sessions EXCEPT ![slotKey[s]] = NoSlot]
    BY <1>10 DEF DeleteCheckRefs
  <2> QED BY <1>1, <1>2, <2>1 DEF TypeInv, TypeOK
<1> QED BY <1>3, <1>4, <1>5, <1>6, <1>7, <1>8, <1>9, <1>10 DEF RunnerStep

LEMMA AbortTypes ==
    ASSUME NEW a \in Aborters, AbortStep(a), TypeInv
    PROVE  TypeOK'
<1> USE SessionAssumption DEF TypeInv, TypeOK, callVars, slotVars
<1>1. ASSUME NEW k \in Keys, AbortLookup(a, k) PROVE TypeOK'
  BY <1>1 DEF AbortLookup
<1>2. CASE AbortRead(a)
  <2>1. activeCancel[abortSlot[a]] \in Requests \cup {NoRequest}
    BY <1>2 DEF AbortRead, AborterHasTarget
  <2> QED BY <1>2, <2>1 DEF AbortRead
<1>3. CASE AbortCall(a)
  <2>1. abortCancel[a] \in Requests
    BY <1>3 DEF AbortCall, AborterHasTarget
  <2> QED BY <1>3, <2>1 DEF AbortCall
<1> QED BY <1>1, <1>2, <1>3 DEF AbortStep

(* The relations between the variables that the types rest on. *)
LEMMA CallerLinks ==
    ASSUME NEW r \in Requests, CallerStep(r) \/ ContextDone(r), TypeInv
    PROVE  (TakenWhileBusy /\ KeyedWhenMade /\ CallerHasSlot /\ AborterHasTarget)'
<1>1. AborterHasTarget'
  BY CallerFrame DEF TypeInv, AborterHasTarget, abortVars
<1>2. TakenWhileBusy' /\ KeyedWhenMade'
  <2>1. CASE UNCHANGED <<slotKey, runner, sessions>>
    BY <2>1, CallerFrame DEF TypeInv, TakenWhileBusy, KeyedWhenMade
  <2>2. ASSUME NEW s \in Slots, CreateSlot(r, s) PROVE TakenWhileBusy' /\ KeyedWhenMade'
    <3>1. runner[s] = "none" /\ taken[s] = NoRequest
      BY <2>2 DEF CreateSlot, TypeInv, TypeOK, TakenWhileBusy, KeyedWhenMade, Busy
    <3>2. /\ runner' = [runner EXCEPT ![s] = "select"]
          /\ slotKey' = [slotKey EXCEPT ![s] = KeyOf[r]]
          /\ taken' = taken
      BY <2>2 DEF CreateSlot
    <3>3. TakenWhileBusy'
      BY <3>1, <3>2 DEF TypeInv, TypeOK, TakenWhileBusy, Busy
    <3>4. KeyOf[r] # NoKey
      BY SessionAssumption
    <3>5. KeyedWhenMade'
      BY <3>1, <3>2, <3>4 DEF TypeInv, TypeOK, KeyedWhenMade
    <3> QED BY <3>3, <3>5
  <2> QED BY <2>1, <2>2, CallerFrame
<1>3. CallerHasSlot'
  <2> USE SessionAssumption DEF TypeInv, TypeOK, CallerHasSlot
  <2>1. CASE JoinSlot(r) BY <2>1 DEF JoinSlot
  <2>2. ASSUME NEW s \in Slots, CreateSlot(r, s) PROVE CallerHasSlot'
    BY <2>2 DEF CreateSlot
  <2>3. CASE Send(r) \/ SendGivenUp(r) BY <2>3 DEF Send, SendGivenUp
  <2>4. CASE Release(r) BY <2>4 DEF Release
  <2>5. CASE ReceiveResult(r) \/ StopWaiting(r) \/ ContextDone(r)
    BY <2>5 DEF ReceiveResult, StopWaiting, ContextDone
  <2> QED BY <2>1, <2>2, <2>3, <2>4, <2>5 DEF CallerStep
<1> QED BY <1>1, <1>2, <1>3

LEMMA RunnerLinks ==
    ASSUME NEW s \in Slots, RunnerStep(s) \/ IdleTimer(s), TypeInv
    PROVE  (TakenWhileBusy /\ KeyedWhenMade /\ CallerHasSlot /\ AborterHasTarget)'
<1>1. CallerHasSlot' /\ AborterHasTarget'
  BY RunnerFrame DEF TypeInv, CallerHasSlot, AborterHasTarget, callVars, abortVars
<1>2. KeyedWhenMade'
  <2>1. runner[s] # "none"
    BY DEF RunnerStep, Receive, CheckContext, Arm, FnStart, FnReturn, Disarm,
           Reply, IdleTimer, DeleteCheckQueue, DeleteCheckRefs
  <2> QED BY <2>1, RunnerFrame, RunnerMoves DEF TypeInv, TypeOK, KeyedWhenMade
<1>3. TakenWhileBusy'
  <2> USE SessionAssumption DEF TypeInv, TypeOK, TakenWhileBusy, Busy
  <2>1. CASE Receive(s)
    <3>1. Head(queue[s]) \in Requests BY <2>1 DEF Receive
    <3> QED BY <2>1, <3>1 DEF Receive
  <2>2. CASE CheckContext(s)
    <3>1. CASE taken[s] \in ctxDone
      <4>1. /\ taken' = [taken EXCEPT ![s] = NoRequest]
            /\ runner' = [runner EXCEPT ![s] = "select"]
        BY <2>2, <3>1 DEF CheckContext
      <4> QED BY <4>1
    <3>2. CASE taken[s] \notin ctxDone
      <4>1. runner' = [runner EXCEPT ![s] = "arm"] /\ UNCHANGED taken /\ runner[s] = "check"
        BY <2>2, <3>2 DEF CheckContext
      <4> QED BY <4>1
    <3> QED BY <3>1, <3>2
  <2>3. CASE Arm(s) \/ FnReturn(s) \/ Disarm(s)
    BY <2>3 DEF Arm, FnReturn, Disarm
  <2>4. CASE FnStart(s)
    <3>1. UNCHANGED taken /\ \E x \in {"disarm", "fn"} : runner' = [runner EXCEPT ![s] = x]
      BY <2>4 DEF FnStart
    <3> QED BY <2>4, <3>1 DEF FnStart
  <2>5. CASE Reply(s) BY <2>5 DEF Reply
  <2>6. CASE IdleTimer(s) BY <2>6 DEF IdleTimer
  <2>7. CASE DeleteCheckQueue(s) \/ DeleteCheckRefs(s)
    <3>1. /\ UNCHANGED taken
          /\ runner[s] \notin Busy
          /\ \E x \in {"select", "deleting", "exited"} : runner' = [runner EXCEPT ![s] = x]
      BY <2>7 DEF DeleteCheckQueue, DeleteCheckRefs
    <3> QED BY <3>1
  <2> QED BY <2>1, <2>2, <2>3, <2>4, <2>5, <2>6, <2>7 DEF RunnerStep
<1> QED BY <1>1, <1>2, <1>3

LEMMA AbortLinks ==
    ASSUME NEW a \in Aborters, AbortStep(a), TypeInv
    PROVE  (TakenWhileBusy /\ KeyedWhenMade /\ CallerHasSlot /\ AborterHasTarget)'
<1>1. TakenWhileBusy' /\ KeyedWhenMade' /\ CallerHasSlot'
  BY AbortFrame DEF TypeInv, TakenWhileBusy, KeyedWhenMade, CallerHasSlot, slotVars, callVars
<1>2. AborterHasTarget'
  <2> USE SessionAssumption DEF TypeInv, TypeOK, AborterHasTarget
  <2>1. ASSUME NEW k \in Keys, AbortLookup(a, k) PROVE AborterHasTarget'
    BY <2>1 DEF AbortLookup
  <2>2. CASE AbortRead(a) BY <2>2 DEF AbortRead
  <2>3. CASE AbortCall(a) BY <2>3 DEF AbortCall
  <2> QED BY <2>1, <2>2, <2>3 DEF AbortStep
<1> QED BY <1>1, <1>2

LEMMA TypeStep == TypeInv /\ [Next]_vars => TypeInv'
<1> SUFFICES ASSUME TypeInv, [Next]_vars PROVE TypeInv'
  OBVIOUS
<1>1. CASE UNCHANGED vars
  BY <1>1 DEF vars, callVars, abortVars, slotVars, TypeInv, TypeOK,
              TakenWhileBusy, KeyedWhenMade, CallerHasSlot, AborterHasTarget
<1>2. CASE Next
  BY <1>2, CallerTypes, RunnerTypes, AbortTypes, CallerLinks, RunnerLinks, AbortLinks
  DEF Next, TypeInv
<1> QED BY <1>1, <1>2

LEMMA TypeInvariant == Spec => []TypeInv
  BY TypeInit, TypeStep, PTL DEF Spec

(* Every variable keeps its type. *)
THEOREM TypeOKHolds == Spec => []TypeOK
<1>1. TypeInv => TypeOK BY DEF TypeInv
<1> QED BY <1>1, TypeInvariant, PTL

-----------------------------------------------------------------------------
(* The map of sessions *)

Live(s) == runner[s] \notin {"none", "exited"}

(* The map names live slots of the right key, and every live slot.          *)
MapSound ==
    \A k \in Keys : sessions[k] # NoSlot =>
        slotKey[sessions[k]] = k /\ Live(sessions[k])

LiveMapped ==
    \A s \in Slots : Live(s) => slotKey[s] \in Keys /\ sessions[slotKey[s]] = s

MapInv == MapSound /\ LiveMapped

LEMMA MapInit == Init => MapInv
  BY SessionAssumption DEF Init, MapInv, MapSound, LiveMapped, Live

LEMMA MapStep == TypeInv /\ MapInv /\ [Next]_vars => MapInv'
<1> SUFFICES ASSUME TypeInv, MapInv, [Next]_vars PROVE MapInv'
  OBVIOUS
<1> USE SessionAssumption DEF MapInv, MapSound, LiveMapped, Live
<1>1. CASE UNCHANGED <<sessions, slotKey, runner>>
  BY <1>1
<1>2. ASSUME NEW r \in Requests, NEW s \in Slots, CreateSlot(r, s) PROVE MapInv'
  BY <1>2 DEF CreateSlot, TypeInv, TypeOK, KeyedWhenMade
<1>3. ASSUME NEW s \in Slots, RunnerStep(s) \/ IdleTimer(s) PROVE MapInv'
  <2>1. Live(s)
    BY <1>3 DEF RunnerStep, Receive, CheckContext, Arm, FnStart, FnReturn, Disarm,
           Reply, IdleTimer, DeleteCheckQueue, DeleteCheckRefs
  <2>2. CASE UNCHANGED sessions /\ runner'[s] \notin {"none", "exited"}
    <3>0. PICK x : runner' = [runner EXCEPT ![s] = x]
      BY <1>3, RunnerMoves
    <3>1. \A t \in Slots : Live(t)' <=> Live(t)
      BY <2>1, <2>2, <3>0 DEF TypeInv, TypeOK
    <3>2. UNCHANGED <<sessions, slotKey>>
      BY <1>3, <2>2, RunnerFrame
    <3> QED BY <3>1, <3>2 DEF TypeInv, TypeOK
  <2>3. CASE /\ sessions' = [sessions EXCEPT ![slotKey[s]] = NoSlot]
             /\ runner' = [runner EXCEPT ![s] = "exited"]
    BY <1>3, <2>1, <2>3, RunnerFrame DEF TypeInv, TypeOK
  <2>4. CASE DeleteCheckRefs(s)
    BY <2>2, <2>3, <2>4 DEF DeleteCheckRefs, TypeInv, TypeOK
  <2>5. CASE DeleteCheckQueue(s)
    BY <2>2, <2>5 DEF DeleteCheckQueue, TypeInv, TypeOK
  <2>6. CASE CheckContext(s) \/ FnStart(s)
    BY <2>2, <2>6 DEF CheckContext, FnStart, TypeInv, TypeOK
  <2>7. CASE Receive(s) \/ Arm(s) \/ FnReturn(s) \/ Disarm(s) \/ Reply(s) \/ IdleTimer(s)
    BY <2>2, <2>7 DEF Receive, Arm, FnReturn, Disarm, Reply, IdleTimer, TypeInv, TypeOK
  <2> QED BY <1>3, <2>4, <2>5, <2>6, <2>7 DEF RunnerStep
<1>4. ASSUME NEW a \in Aborters, AbortStep(a)
      PROVE  UNCHANGED <<sessions, slotKey, runner>>
  BY <1>4, AbortFrame DEF slotVars
<1> QED BY <1>1, <1>2, <1>3, <1>4, CallerFrame DEF Next, vars, slotVars

LEMMA MapInvariant == Spec => []MapInv
  BY MapInit, MapStep, TypeInvariant, PTL DEF Spec

(* Two requests of one session are never handled at the same time, however  *)
(* many slots the session has had.                                          *)
THEOREM SerialPerSessionHolds == Spec => []SerialPerSession
<1>1. MapInv => SerialPerSession
  BY DEF MapInv, LiveMapped, Live, SerialPerSession, Busy
<1> QED BY <1>1, MapInvariant, PTL

-----------------------------------------------------------------------------
(* References and deletion *)

(* A slot's reference count is the number of its holders. *)
RefsExact ==
    \A s \in Slots : IsFiniteSet(Holders(s)) /\ refs[s] = Cardinality(Holders(s))

(* A slot that is held, or has a request in its channel, is live. *)
HeldLive == \A s \in Slots : Holders(s) # {} \/ queue[s] # <<>> => Live(s)

(* While a slot is being deleted its goroutine has the lock, and a request   *)
(* that has arrived since the look at the channel still has its sender's     *)
(* reference.                                                                *)
DeletingHeld ==
    \A s \in Slots : runner[s] = "deleting" =>
        qmu = s /\ (queue[s] # <<>> => Holders(s) # {})

RefInv == RefsExact /\ HeldLive /\ DeletingHeld

LEMMA RefInit == Init => RefInv
<1> SUFFICES ASSUME Init PROVE RefInv
  OBVIOUS
<1>1. ASSUME NEW s \in Slots PROVE Holders(s) = {} /\ refs[s] = 0 /\ queue[s] = <<>>
                                   /\ runner[s] = "none"
  BY DEF Init, Holders
<1> QED BY <1>1, FS_EmptySet DEF RefInv, RefsExact, HeldLive, DeletingHeld

(* The callers' steps move them in and out of Holders. *)
LEMMA RefUnderCaller ==
    ASSUME NEW r \in Requests, CallerStep(r) \/ ContextDone(r),
           TypeInv, MapInv, RefInv
    PROVE  RefInv'
<1> USE SessionAssumption
<1>1. CASE JoinSlot(r)
  <2>1. PICK s0 \in Slots : s0 = sessions[KeyOf[r]] /\ Live(s0)
    BY <1>1 DEF JoinSlot, TypeInv, TypeOK, MapInv, MapSound
  <2>2. /\ refs' = [refs EXCEPT ![s0] = @ + 1]
        /\ callerSlot' = [callerSlot EXCEPT ![r] = s0]
        /\ caller' = [caller EXCEPT ![r] = "sending"]
        /\ caller[r] = "new" /\ qmu = NoSlot
        /\ UNCHANGED <<queue, runner, qmu>>
    BY <1>1, <2>1 DEF JoinSlot, slotVars
  <2>3. r \notin Holders(s0) /\ Holders(s0)' = Holders(s0) \cup {r}
    BY <2>1, <2>2 DEF Holders, TypeInv, TypeOK
  <2>4. ASSUME NEW t \in Slots, t # s0 PROVE Holders(t)' = Holders(t) /\ refs'[t] = refs[t]
    BY <2>1, <2>2, <2>4 DEF Holders, TypeInv, TypeOK
  <2>5. IsFiniteSet(Holders(s0)') /\ refs'[s0] = Cardinality(Holders(s0)')
    <3>1. IsFiniteSet(Holders(s0)) /\ refs[s0] = Cardinality(Holders(s0))
      BY DEF RefInv, RefsExact
    <3>2. refs'[s0] = refs[s0] + 1
      BY <2>2 DEF TypeInv, TypeOK
    <3> QED BY <2>3, <3>1, <3>2, FS_AddElement
  <2>6. RefsExact'
    BY <2>4, <2>5 DEF RefInv, RefsExact
  <2>7. HeldLive'
    BY <2>1, <2>2, <2>4 DEF RefInv, HeldLive, Live
  <2>8. DeletingHeld'
    BY <2>1, <2>2 DEF RefInv, DeletingHeld
  <2> QED BY <2>6, <2>7, <2>8 DEF RefInv
<1>2. ASSUME NEW s \in Slots, CreateSlot(r, s) PROVE RefInv'
  <2>1. runner[s] = "none"
    BY <1>2 DEF CreateSlot, TypeInv, KeyedWhenMade
  <2>2. Holders(s) = {} /\ queue[s] = <<>>
    BY <2>1 DEF RefInv, HeldLive, Live
  <2>3. /\ refs' = [refs EXCEPT ![s] = 1]
        /\ callerSlot' = [callerSlot EXCEPT ![r] = s]
        /\ caller' = [caller EXCEPT ![r] = "sending"]
        /\ runner' = [runner EXCEPT ![s] = "select"]
        /\ caller[r] = "new"
        /\ UNCHANGED <<queue, qmu>>
    BY <1>2 DEF CreateSlot
  <2>4. Holders(s)' = {r}
    BY <2>2, <2>3 DEF Holders, TypeInv, TypeOK
  <2>5. ASSUME NEW t \in Slots, t # s
        PROVE  Holders(t)' = Holders(t) /\ refs'[t] = refs[t] /\ runner'[t] = runner[t]
    BY <2>3, <2>5 DEF Holders, TypeInv, TypeOK
  <2>6. refs'[s] = 1 /\ runner'[s] = "select"
    BY <2>3 DEF TypeInv, TypeOK
  <2>7. RefsExact'
    <3>1. IsFiniteSet({r}) /\ Cardinality({r}) = 1
      BY FS_Singleton
    <3> QED BY <2>4, <2>5, <2>6, <3>1 DEF RefInv, RefsExact
  <2>8. HeldLive'
    BY <2>3, <2>5, <2>6 DEF RefInv, HeldLive, Live
  <2>9. DeletingHeld'
    BY <2>3, <2>5, <2>6 DEF RefInv, DeletingHeld
  <2> QED BY <2>7, <2>8, <2>9 DEF RefInv
<1>3. CASE Send(r)
  <2>1. PICK s0 \in Slots : s0 = callerSlot[r] /\ r \in Holders(s0)
    BY <1>3 DEF Send, Holders, TypeInv, TypeOK, CallerHasSlot
  <2>2. /\ queue' = [queue EXCEPT ![s0] = Append(@, r)]
        /\ caller' = [caller EXCEPT ![r] = "sent"]
        /\ caller[r] = "sending"
        /\ UNCHANGED <<refs, runner, callerSlot, qmu>>
    BY <1>3, <2>1 DEF Send
  <2>3. \A t \in Slots : Holders(t)' = Holders(t)
    BY <2>2 DEF Holders, TypeInv, TypeOK
  <2>4. \A t \in Slots : t # s0 => queue'[t] = queue[t]
    BY <2>2 DEF TypeInv, TypeOK
  <2>5. RefsExact'
    BY <2>2, <2>3 DEF RefInv, RefsExact
  <2>6. HeldLive'
    BY <2>1, <2>2, <2>3, <2>4 DEF RefInv, HeldLive, Live
  <2>7. DeletingHeld'
    BY <2>1, <2>2, <2>3, <2>4 DEF RefInv, DeletingHeld
  <2> QED BY <2>5, <2>6, <2>7 DEF RefInv
<1>4. CASE Release(r)
  <2>1. PICK s0 \in Slots : s0 = callerSlot[r] /\ r \in Holders(s0)
    BY <1>4 DEF Release, Holders, TypeInv, TypeOK, CallerHasSlot
  <2>2. Live(s0) /\ sessions[slotKey[s0]] = s0
    BY <2>1 DEF RefInv, HeldLive, MapInv, LiveMapped
  <2>3. refs[s0] # 0
    BY <2>1, FS_EmptySet DEF RefInv, RefsExact
  <2>4. /\ refs' = [refs EXCEPT ![s0] = @ - 1]
        /\ qmu = NoSlot
        /\ caller' = [caller EXCEPT ![r] = IF @ = "sent" THEN "waiting" ELSE "gaveup"]
        /\ UNCHANGED <<queue, runner, callerSlot, qmu>>
    BY <1>4, <2>1, <2>2, <2>3 DEF Release, DropRef, slotVars
  <2>5. caller'[r] \notin {"sending", "sent", "failed"} /\ \A q \in Requests \ {r} : caller'[q] = caller[q]
    BY <2>4 DEF TypeInv, TypeOK
  <2>6. Holders(s0)' = Holders(s0) \ {r}
    BY <2>4, <2>5 DEF Holders
  <2>7. ASSUME NEW t \in Slots, t # s0 PROVE Holders(t)' = Holders(t) /\ refs'[t] = refs[t]
    BY <2>1, <2>4, <2>5, <2>7 DEF Holders, TypeInv, TypeOK
  <2>8. IsFiniteSet(Holders(s0)') /\ refs'[s0] = Cardinality(Holders(s0)')
    BY <2>1, <2>4, <2>6, FS_RemoveElement DEF RefInv, RefsExact, TypeInv, TypeOK
  <2>9. RefsExact'
    BY <2>7, <2>8 DEF RefInv, RefsExact
  <2>10. HeldLive'
    BY <2>2, <2>4, <2>7 DEF RefInv, HeldLive, Live
  <2>11. DeletingHeld'
    BY <2>4 DEF RefInv, DeletingHeld
  <2> QED BY <2>9, <2>10, <2>11 DEF RefInv
<1>5. CASE SendGivenUp(r) \/ ReceiveResult(r) \/ StopWaiting(r) \/ ContextDone(r)
  <2>1. /\ UNCHANGED <<refs, queue, runner, callerSlot, qmu>>
        /\ \/ UNCHANGED caller
           \/ caller[r] = "sending" /\ caller' = [caller EXCEPT ![r] = "failed"]
           \/ caller[r] = "waiting" /\ \E x \in {"answered", "gaveup"} :
                                         caller' = [caller EXCEPT ![r] = x]
    BY <1>5 DEF SendGivenUp, ReceiveResult, StopWaiting, ContextDone, slotVars
  <2>2. \A t \in Slots : Holders(t)' = Holders(t)
    BY <2>1 DEF Holders, TypeInv, TypeOK
  <2>3. RefsExact'
    BY <2>1, <2>2 DEF RefInv, RefsExact
  <2>4. HeldLive' /\ DeletingHeld'
    BY <2>1, <2>2 DEF RefInv, HeldLive, DeletingHeld, Live
  <2> QED BY <2>3, <2>4 DEF RefInv
<1> QED BY <1>1, <1>2, <1>3, <1>4, <1>5 DEF CallerStep

(* The goroutine leaves the references alone, and exits only when there are *)
(* none.                                                                    *)
LEMMA RefUnderRunner ==
    ASSUME NEW s \in Slots, RunnerStep(s) \/ IdleTimer(s),
           TypeInv, MapInv, RefInv
    PROVE  RefInv'
<1> USE SessionAssumption
<1>1. \A t \in Slots : Holders(t)' = Holders(t)
  BY RunnerFrame DEF Holders, callVars
<1>2. RefsExact'
  BY <1>1, RunnerFrame DEF RefInv, RefsExact
<1>3. PICK x \in RunnerStates \ {"none"} : runner' = [runner EXCEPT ![s] = x]
  BY RunnerMoves
<1>4. runner'[s] = x /\ \A t \in Slots \ {s} : runner'[t] = runner[t]
  BY <1>3 DEF TypeInv, TypeOK
<1>5. Live(s)
  BY DEF Live, RunnerStep, Receive, CheckContext, Arm, FnStart, FnReturn, Disarm,
         Reply, IdleTimer, DeleteCheckQueue, DeleteCheckRefs
<1>6. CASE /\ qmu' = qmu
           /\ \A t \in Slots : queue'[t] # <<>> => queue[t] # <<>>
           /\ x \notin {"deleting", "exited"}
  <2>1. HeldLive'
    BY <1>1, <1>3, <1>4, <1>6 DEF RefInv, HeldLive, Live
  <2>2. DeletingHeld'
    BY <1>1, <1>4, <1>6 DEF RefInv, DeletingHeld
  <2> QED BY <1>2, <2>1, <2>2 DEF RefInv
<1>7. CASE Receive(s)
  <2>1. /\ queue' = [queue EXCEPT ![s] = Tail(@)] /\ queue[s] # <<>>
        /\ runner' = [runner EXCEPT ![s] = "check"] /\ qmu' = qmu
    BY <1>7 DEF Receive
  <2>2. \A t \in Slots : queue'[t] # <<>> => queue[t] # <<>>
    BY <2>1 DEF TypeInv, TypeOK
  <2>3. x = "check"
    BY <1>4, <2>1 DEF TypeInv, TypeOK
  <2> QED BY <1>6, <2>1, <2>2, <2>3
<1>8. CASE CheckContext(s) \/ FnStart(s)
  <2>1. UNCHANGED <<qmu, queue>> /\ \E y \in {"select", "arm", "fn", "disarm"} :
                                      runner' = [runner EXCEPT ![s] = y]
    BY <1>8 DEF CheckContext, FnStart
  <2>2. x \in {"select", "arm", "fn", "disarm"}
    BY <1>4, <2>1 DEF TypeInv, TypeOK
  <2> QED BY <1>6, <2>1, <2>2
<1>9. CASE Arm(s) \/ FnReturn(s) \/ Disarm(s) \/ Reply(s) \/ IdleTimer(s)
  <2>1. UNCHANGED <<qmu, queue>> /\ \E y \in {"start", "disarm", "reply", "select", "idle"} :
                                      runner' = [runner EXCEPT ![s] = y]
    BY <1>9 DEF Arm, FnReturn, Disarm, Reply, IdleTimer
  <2>2. x \in {"start", "disarm", "reply", "select", "idle"}
    BY <1>4, <2>1 DEF TypeInv, TypeOK
  <2> QED BY <1>6, <2>1, <2>2
<1>10. CASE DeleteCheckQueue(s)
  <2>1. CASE UNCHANGED <<qmu, queue>> /\ runner' = [runner EXCEPT ![s] = "select"]
    <3>1. x = "select"
      BY <1>4, <2>1 DEF TypeInv, TypeOK
    <3> QED BY <1>6, <2>1, <3>1
  <2>2. CASE /\ queue' = queue /\ Len(queue[s]) = 0 /\ qmu = NoSlot /\ qmu' = s
             /\ runner' = [runner EXCEPT ![s] = "deleting"]
    <3>1. queue[s] = <<>>
      BY <2>2 DEF TypeInv, TypeOK
    <3>2. x = "deleting"
      BY <1>4, <2>2 DEF TypeInv, TypeOK
    <3>3. HeldLive'
      BY <1>1, <1>3, <1>4, <2>2, <3>2 DEF RefInv, HeldLive, Live
    <3>4. DeletingHeld'
      BY <1>1, <1>4, <2>2, <3>1 DEF RefInv, DeletingHeld
    <3> QED BY <1>2, <3>3, <3>4 DEF RefInv
  <2> QED BY <1>10, <2>1, <2>2 DEF DeleteCheckQueue
<1>11. CASE DeleteCheckRefs(s)
  <2>1. runner[s] = "deleting" /\ qmu' = NoSlot /\ queue' = queue
    BY <1>11 DEF DeleteCheckRefs
  <2>2. \A t \in Slots \ {s} : runner[t] # "deleting"
    BY <2>1 DEF RefInv, DeletingHeld
  <2>3. x \in {"select", "exited"} /\ (x = "exited" => refs[s] = 0)
    BY <1>4, <1>11 DEF DeleteCheckRefs, TypeInv, TypeOK
  <2>4. x = "exited" => Holders(s) = {} /\ queue[s] = <<>>
    BY <2>1, <2>3, FS_EmptySet DEF RefInv, RefsExact, DeletingHeld
  <2>5. HeldLive'
    BY <1>1, <1>4, <2>1, <2>3, <2>4 DEF RefInv, HeldLive, Live
  <2>6. DeletingHeld'
    BY <1>4, <2>2, <2>3 DEF DeletingHeld
  <2> QED BY <1>2, <2>5, <2>6 DEF RefInv
<1> QED BY <1>7, <1>8, <1>9, <1>10, <1>11 DEF RunnerStep

LEMMA RefStep == TypeInv /\ MapInv /\ RefInv /\ [Next]_vars => RefInv'
<1> SUFFICES ASSUME TypeInv, MapInv, RefInv, [Next]_vars PROVE RefInv'
  OBVIOUS
<1>1. CASE UNCHANGED <<refs, queue, runner, caller, callerSlot, qmu>>
  <2>1. \A t \in Slots : Holders(t)' = Holders(t)
    BY <1>1 DEF Holders
  <2> QED BY <1>1, <2>1 DEF RefInv, RefsExact, HeldLive, DeletingHeld, Live
<1>2. ASSUME NEW a \in Aborters, AbortStep(a) PROVE RefInv'
  BY <1>1, <1>2, AbortFrame DEF slotVars, callVars
<1> QED BY <1>1, <1>2, RefUnderCaller, RefUnderRunner DEF Next, vars, slotVars, callVars

LEMMA RefInvariant == Spec => []RefInv
  BY RefInit, RefStep, TypeInvariant, MapInvariant, PTL DEF Spec

(* Deletion strands no request: what is in a channel, or about to be sent   *)
(* there, has a live goroutine behind it that the map names.                *)
THEOREM NoStrandedRequestHolds == Spec => []NoStrandedRequest
<1>1. MapInv /\ RefInv => NoStrandedRequest
  BY DEF MapInv, LiveMapped, RefInv, HeldLive, Live, NoStrandedRequest
<1> QED BY <1>1, MapInvariant, RefInvariant, PTL

-----------------------------------------------------------------------------
(* Sessions *)

(* The session of everything that passes through a slot is the slot's. *)
KeysMatch ==
    /\ \A r \in Requests :
         callerSlot[r] # NoSlot => slotKey[callerSlot[r]] = KeyOf[r]
    /\ \A s \in Slots :
         /\ \A i \in 1..Len(queue[s]) : KeyOf[queue[s][i]] = slotKey[s]
         /\ taken[s] # NoRequest => KeyOf[taken[s]] = slotKey[s]
         /\ activeCancel[s] # NoRequest => KeyOf[activeCancel[s]] = slotKey[s]

(* An aborter's slot is of the session it was called for, and so is the     *)
(* request whose cancel function it read.                                   *)
AbortKeysMatch ==
    \A a \in Aborters :
        /\ aborter[a] = "idle" => abortCancel[a] = NoRequest
        /\ abortSlot[a] # NoSlot =>
             abortKey[a] \in Keys /\ slotKey[abortSlot[a]] = abortKey[a]
        /\ abortCancel[a] # NoRequest =>
             abortSlot[a] # NoSlot /\ KeyOf[abortCancel[a]] = abortKey[a]

KeyInv == KeysMatch /\ AbortKeysMatch

LEMMA KeyInit == Init => KeyInv
  BY DEF Init, KeyInv, KeysMatch, AbortKeysMatch

(* The callers' steps: a slot is found, made, or sent to. *)
LEMMA KeyUnderCaller ==
    ASSUME NEW r \in Requests, CallerStep(r) \/ ContextDone(r),
           TypeInv, MapInv, KeyInv
    PROVE  KeyInv'
<1> USE SessionAssumption
<1>1. CASE JoinSlot(r)
  <2>1. slotKey[sessions[KeyOf[r]]] = KeyOf[r]
    BY <1>1 DEF JoinSlot, MapInv, MapSound
  <2>2. /\ callerSlot' = [callerSlot EXCEPT ![r] = sessions[KeyOf[r]]]
        /\ UNCHANGED <<slotKey, queue, taken, activeCancel, abortVars>>
    BY <1>1 DEF JoinSlot, slotVars
  <2> QED BY <2>1, <2>2 DEF KeyInv, KeysMatch, AbortKeysMatch, TypeInv, TypeOK, abortVars
<1>2. ASSUME NEW s \in Slots, CreateSlot(r, s) PROVE KeyInv'
  <2>1. slotKey[s] = NoKey
    BY <1>2 DEF CreateSlot
  <2>2. /\ callerSlot' = [callerSlot EXCEPT ![r] = s]
        /\ slotKey' = [slotKey EXCEPT ![s] = KeyOf[r]]
        /\ UNCHANGED <<queue, taken, activeCancel, abortVars>>
    BY <1>2 DEF CreateSlot
  <2>3. /\ slotKey'[s] = KeyOf[r] /\ callerSlot'[r] = s
        /\ \A t \in Slots \ {s} : slotKey'[t] = slotKey[t]
        /\ \A q \in Requests \ {r} : callerSlot'[q] = callerSlot[q]
    BY <2>2 DEF TypeInv, TypeOK
  <2>4. ASSUME NEW q \in Requests, callerSlot'[q] # NoSlot
        PROVE  slotKey'[callerSlot'[q]] = KeyOf[q]
    <3>1. CASE q = r
      BY <2>3, <3>1
    <3>2. CASE q # r
      <4>1. callerSlot'[q] = callerSlot[q] /\ callerSlot[q] \in Slots
        BY <2>3, <2>4, <3>2 DEF TypeInv, TypeOK
      <4>2. slotKey[callerSlot[q]] = KeyOf[q] /\ KeyOf[q] # NoKey
        BY <2>4, <4>1 DEF KeyInv, KeysMatch
      <4> QED BY <2>1, <2>3, <4>1, <4>2
    <3> QED BY <3>1, <3>2
  <2>5. ASSUME NEW t \in Slots
        PROVE  /\ \A i \in 1..Len(queue[t]) : KeyOf[queue[t][i]] = slotKey'[t]
               /\ taken[t] # NoRequest => KeyOf[taken[t]] = slotKey'[t]
               /\ activeCancel[t] # NoRequest => KeyOf[activeCancel[t]] = slotKey'[t]
    <3>1. /\ \A i \in 1..Len(queue[t]) : queue[t][i] \in Requests
          /\ taken[t] # NoRequest => taken[t] \in Requests
          /\ activeCancel[t] # NoRequest => activeCancel[t] \in Requests
      BY DEF TypeInv, TypeOK
    <3>2. \A q \in Requests : KeyOf[q] # NoKey
      OBVIOUS
    <3> QED BY <2>1, <2>3, <3>1, <3>2 DEF KeyInv, KeysMatch
  <2>6. KeysMatch'
    BY <2>2, <2>4, <2>5 DEF KeysMatch
  <2>7. AbortKeysMatch'
    BY <2>1, <2>2, <2>3 DEF KeyInv, AbortKeysMatch, abortVars, TypeInv, TypeOK
  <2> QED BY <2>6, <2>7 DEF KeyInv
<1>3. CASE Send(r)
  <2>1. PICK s \in Slots : s = callerSlot[r] /\ slotKey[s] = KeyOf[r]
    BY <1>3 DEF Send, TypeInv, TypeOK, CallerHasSlot, KeyInv, KeysMatch
  <2>2. /\ queue' = [queue EXCEPT ![s] = Append(@, r)]
        /\ UNCHANGED <<slotKey, callerSlot, taken, activeCancel, abortVars>>
    BY <1>3, <2>1 DEF Send
  <2>3. ASSUME NEW t \in Slots, NEW i \in 1..Len(queue'[t])
        PROVE  KeyOf[queue'[t][i]] = slotKey[t]
    <3>1. CASE t # s
      BY <2>2, <2>3, <3>1 DEF KeyInv, KeysMatch, TypeInv, TypeOK
    <3>2. CASE t = s
      <4>1. queue[s] \in Seq(Requests) /\ queue'[s] = Append(queue[s], r)
        BY <2>2 DEF TypeInv, TypeOK
      <4>2. queue'[s][i] = r \/ (i \in 1..Len(queue[s]) /\ queue'[s][i] = queue[s][i])
        BY <2>3, <3>2, <4>1
      <4> QED BY <2>1, <3>2, <4>2 DEF KeyInv, KeysMatch
    <3> QED BY <3>1, <3>2
  <2>4. KeysMatch'
    BY <2>2, <2>3 DEF KeyInv, KeysMatch
  <2>5. AbortKeysMatch'
    BY <2>2 DEF KeyInv, AbortKeysMatch, abortVars
  <2> QED BY <2>4, <2>5 DEF KeyInv
<1>4. CASE SendGivenUp(r) \/ Release(r) \/ ReceiveResult(r) \/ StopWaiting(r) \/ ContextDone(r)
  <2>1. UNCHANGED <<slotKey, callerSlot, queue, taken, activeCancel, abortVars>>
    BY <1>4 DEF SendGivenUp, Release, ReceiveResult, StopWaiting, ContextDone, slotVars
  <2> QED BY <2>1 DEF KeyInv, KeysMatch, AbortKeysMatch, abortVars
<1> QED BY <1>1, <1>2, <1>3, <1>4 DEF CallerStep

(* The goroutine hands a request from the channel to itself, and its cancel *)
(* function to the slot.                                                    *)
LEMMA KeyUnderRunner ==
    ASSUME NEW s \in Slots, RunnerStep(s) \/ IdleTimer(s), TypeInv, KeyInv
    PROVE  KeyInv'
<1> USE SessionAssumption
<1>1. UNCHANGED <<slotKey, callerSlot>> /\ UNCHANGED abortVars
  BY RunnerFrame DEF callVars
<1>2. AbortKeysMatch'
  BY <1>1 DEF KeyInv, AbortKeysMatch, abortVars
<1>3. CASE UNCHANGED <<queue, taken, activeCancel>>
  BY <1>1, <1>2, <1>3 DEF KeyInv, KeysMatch
<1>4. CASE /\ UNCHANGED <<queue, activeCancel>>
           /\ taken' = [taken EXCEPT ![s] = NoRequest]
  BY <1>1, <1>2, <1>4 DEF KeyInv, KeysMatch, TypeInv, TypeOK
<1>5. CASE Receive(s)
  <2>1. /\ queue[s] \in Seq(Requests) /\ queue[s] # <<>>
        /\ taken' = [taken EXCEPT ![s] = Head(queue[s])]
        /\ queue' = [queue EXCEPT ![s] = Tail(@)]
        /\ UNCHANGED activeCancel
    BY <1>5 DEF Receive, TypeInv, TypeOK
  <2>2. /\ 1 \in 1..Len(queue[s]) /\ Head(queue[s]) = queue[s][1]
        /\ \A i \in 1..Len(Tail(queue[s])) :
             i + 1 \in 1..Len(queue[s]) /\ Tail(queue[s])[i] = queue[s][i + 1]
    BY <2>1
  <2>3. /\ queue'[s] = Tail(queue[s]) /\ taken'[s] = Head(queue[s])
        /\ \A t \in Slots \ {s} : queue'[t] = queue[t] /\ taken'[t] = taken[t]
    BY <2>1 DEF TypeInv, TypeOK
  <2>4. KeysMatch'
    BY <1>1, <2>1, <2>2, <2>3 DEF KeyInv, KeysMatch
  <2> QED BY <1>2, <2>4 DEF KeyInv
<1>6. CASE Arm(s)
  <2>1. UNCHANGED <<queue, taken>> /\ activeCancel' = [activeCancel EXCEPT ![s] = taken[s]]
    BY <1>6 DEF Arm
  <2>2. KeysMatch'
    BY <1>1, <2>1 DEF KeyInv, KeysMatch, TypeInv, TypeOK
  <2> QED BY <1>2, <2>2 DEF KeyInv
<1>7. CASE Disarm(s)
  <2>1. UNCHANGED <<queue, taken>> /\ activeCancel' = [activeCancel EXCEPT ![s] = NoRequest]
    BY <1>7 DEF Disarm
  <2>2. KeysMatch'
    BY <1>1, <2>1 DEF KeyInv, KeysMatch, TypeInv, TypeOK
  <2> QED BY <1>2, <2>2 DEF KeyInv
<1>8. CASE CheckContext(s) \/ Reply(s)
  BY <1>3, <1>4, <1>8 DEF CheckContext, Reply
<1>9. CASE FnStart(s) \/ FnReturn(s) \/ IdleTimer(s) \/ DeleteCheckQueue(s) \/ DeleteCheckRefs(s)
  BY <1>3, <1>9 DEF FnStart, FnReturn, IdleTimer, DeleteCheckQueue, DeleteCheckRefs
<1> QED BY <1>5, <1>6, <1>7, <1>8, <1>9 DEF RunnerStep

LEMMA KeyUnderAbort ==
    ASSUME NEW a \in Aborters, AbortStep(a), TypeInv, MapInv, KeyInv
    PROVE  KeyInv'
<1> USE SessionAssumption
<1>1. UNCHANGED <<sessions, slotKey, queue, taken, activeCancel, callerSlot>>
  BY AbortFrame DEF slotVars, callVars
<1>2. KeysMatch'
  BY <1>1 DEF KeyInv, KeysMatch
<1>3. ASSUME NEW k \in Keys, AbortLookup(a, k) PROVE AbortKeysMatch'
  <2>1. /\ aborter[a] = "idle" /\ UNCHANGED abortCancel
        /\ abortKey' = [abortKey EXCEPT ![a] = k]
        /\ abortSlot' = [abortSlot EXCEPT ![a] = sessions[k]]
        /\ \E x \in {"missed", "read"} : aborter' = [aborter EXCEPT ![a] = x]
    BY <1>3 DEF AbortLookup
  <2>2. abortCancel[a] = NoRequest
    BY <2>1 DEF KeyInv, AbortKeysMatch
  <2> QED BY <1>1, <2>1, <2>2 DEF KeyInv, AbortKeysMatch, MapInv, MapSound, TypeInv, TypeOK
<1>4. CASE AbortRead(a)
  <2>1. /\ abortCancel' = [abortCancel EXCEPT ![a] = activeCancel[abortSlot[a]]]
        /\ \E x \in {"missed", "call"} : aborter' = [aborter EXCEPT ![a] = x]
        /\ UNCHANGED <<abortKey, abortSlot>> /\ aborter[a] = "read"
    BY <1>4 DEF AbortRead
  <2>2. abortSlot[a] \in Slots
    BY <2>1 DEF TypeInv, TypeOK, AborterHasTarget
  <2>3. AbortKeysMatch'
    BY <1>1, <2>1, <2>2 DEF KeyInv, KeysMatch, AbortKeysMatch, TypeInv, TypeOK
  <2> QED BY <1>2, <2>3 DEF KeyInv
<1>5. CASE AbortCall(a)
  BY <1>1, <1>2, <1>5 DEF AbortCall, KeyInv, AbortKeysMatch, TypeInv, TypeOK
<1> QED BY <1>2, <1>3, <1>4, <1>5 DEF AbortStep, KeyInv

LEMMA KeyStep == TypeInv /\ MapInv /\ KeyInv /\ [Next]_vars => KeyInv'
<1> SUFFICES ASSUME TypeInv, MapInv, KeyInv, [Next]_vars PROVE KeyInv'
  OBVIOUS
<1>1. CASE UNCHANGED vars
  BY <1>1 DEF vars, slotVars, callVars, abortVars, KeyInv, KeysMatch, AbortKeysMatch
<1>2. CASE Next
  BY <1>2, KeyUnderCaller, KeyUnderRunner, KeyUnderAbort DEF Next
<1> QED BY <1>1, <1>2

LEMMA KeyInvariant == Spec => []KeyInv
  BY KeyInit, KeyStep, TypeInvariant, MapInvariant, PTL DEF Spec

(* An abort cancels a request of its own session or nothing, however long   *)
(* it waits between reading the cancel function and calling it.             *)
THEOREM AbortStaysInSessionHolds == Spec => []AbortStaysInSession
<1>1. TypeInv /\ KeyInv => AbortStaysInSession
  BY DEF TypeInv, AborterHasTarget, KeyInv, AbortKeysMatch, AbortStaysInSession
<1> QED BY <1>1, TypeInvariant, KeyInvariant, PTL

-----------------------------------------------------------------------------
(* Requests in transit *)

(* A request that is in a channel or in a goroutine's hands was sent, is    *)
(* not answered, and is in one place only.                                  *)
Pending(r) == resultC[r] = "none" /\ caller[r] \notin {"new", "sending"}

QueuedOnce ==
    \A s \in Slots : \A i \in 1..Len(queue[s]) :
        /\ Pending(queue[s][i])
        /\ \A t \in Slots : taken[t] # queue[s][i]
        /\ \A t \in Slots : \A j \in 1..Len(queue[t]) :
             queue[t][j] = queue[s][i] => t = s /\ j = i

TakenOnce ==
    \A s \in Slots : taken[s] # NoRequest =>
        /\ Pending(taken[s])
        /\ \A t \in Slots : taken[t] = taken[s] => t = s

UnsentUnanswered ==
    \A r \in Requests : caller[r] \in {"new", "sending"} => resultC[r] = "none"

(* fn's outcome is there when it is sent. *)
OutcomeReady ==
    \A s \in Slots : runner[s] \in {"disarm", "reply"} => outcome[s] \in {"ok", "err"}

TransitInv == QueuedOnce /\ TakenOnce /\ UnsentUnanswered /\ OutcomeReady

LEMMA TransitInit == Init => TransitInv
<1> SUFFICES ASSUME Init PROVE TransitInv
  OBVIOUS
<1>1. \A s \in Slots : Len(queue[s]) = 0
  BY DEF Init
<1> QED BY <1>1 DEF Init, TransitInv, QueuedOnce, TakenOnce, UnsentUnanswered, OutcomeReady

LEMMA TransitUnderCaller ==
    ASSUME NEW r \in Requests, CallerStep(r) \/ ContextDone(r), TypeInv, TransitInv
    PROVE  TransitInv'
<1> USE SessionAssumption
<1>1. UNCHANGED <<taken, outcome, resultC>>
  BY CallerFrame
<1>2. OutcomeReady'
  <2>1. CASE UNCHANGED runner
    BY <1>1, <2>1 DEF TransitInv, OutcomeReady
  <2>2. ASSUME NEW s \in Slots, CreateSlot(r, s) PROVE OutcomeReady'
    BY <1>1, <2>2 DEF CreateSlot, TransitInv, OutcomeReady, TypeInv, TypeOK
  <2> QED BY <2>1, <2>2, CallerFrame
<1>3. ASSUME UNCHANGED queue,
             \A q \in Requests : Pending(q) => Pending(q)',
             \A q \in Requests : caller'[q] \in {"new", "sending"}
                                 => caller[q] \in {"new", "sending"}
      PROVE  TransitInv'
  <2>1. \A s \in Slots : \A i \in 1..Len(queue[s]) : queue[s][i] \in Requests
    BY DEF TypeInv, TypeOK
  <2>2. QueuedOnce'
    BY <1>1, <1>3, <2>1 DEF TransitInv, QueuedOnce
  <2>3. TakenOnce'
    BY <1>1, <1>3 DEF TransitInv, TakenOnce, TypeInv, TypeOK
  <2>4. UnsentUnanswered'
    BY <1>1, <1>3 DEF TransitInv, UnsentUnanswered
  <2> QED BY <1>2, <2>2, <2>3, <2>4 DEF TransitInv
<1>4. CASE JoinSlot(r) \/ \E s \in Slots : CreateSlot(r, s)
  <2>1. caller[r] = "new" /\ caller' = [caller EXCEPT ![r] = "sending"] /\ UNCHANGED queue
    BY <1>4 DEF JoinSlot, CreateSlot, slotVars
  <2> QED BY <1>1, <1>3, <2>1 DEF Pending, TypeInv, TypeOK
<1>5. CASE SendGivenUp(r) \/ Release(r) \/ ReceiveResult(r) \/ StopWaiting(r) \/ ContextDone(r)
  <2>1. /\ UNCHANGED queue
        /\ \/ UNCHANGED caller
           \/ \E x \in {"failed", "waiting", "gaveup", "answered"} :
                caller' = [caller EXCEPT ![r] = x]
    BY <1>5 DEF SendGivenUp, Release, ReceiveResult, StopWaiting, ContextDone, slotVars
  <2> QED BY <1>1, <1>3, <2>1 DEF Pending, TypeInv, TypeOK
<1>6. CASE Send(r)
  <2>1. PICK s \in Slots :
          /\ queue' = [queue EXCEPT ![s] = Append(@, r)]
          /\ caller[r] = "sending" /\ caller' = [caller EXCEPT ![r] = "sent"]
    BY <1>6 DEF Send, TypeInv, TypeOK, CallerHasSlot
  <2>2. /\ \A t \in Slots \ {s} : queue'[t] = queue[t]
        /\ Len(queue'[s]) = Len(queue[s]) + 1 /\ Len(queue[s]) \in Nat
        /\ queue'[s][Len(queue[s]) + 1] = r
        /\ \A i \in 1..Len(queue[s]) : queue'[s][i] = queue[s][i]
    <3>1. queue[s] \in Seq(Requests) /\ queue'[s] = Append(queue[s], r)
      BY <2>1 DEF TypeInv, TypeOK
    <3> QED BY <2>1, <3>1 DEF TypeInv, TypeOK
  <2>3. \A q \in Requests : caller'[q] = IF q = r THEN "sent" ELSE caller[q]
    BY <2>1 DEF TypeInv, TypeOK
  <2>4. ~Pending(r) /\ Pending(r)' /\ \A q \in Requests : Pending(q) => Pending(q)'
    BY <1>1, <2>1, <2>3 DEF Pending, TransitInv, UnsentUnanswered
  <2>5. \A t \in Slots : \A i \in 1..Len(queue'[t]) :
          \/ i \in 1..Len(queue[t]) /\ queue'[t][i] = queue[t][i]
          \/ t = s /\ i = Len(queue[s]) + 1 /\ queue'[t][i] = r
    BY <2>2
  <2>6. ASSUME NEW t \in Slots, NEW i \in 1..Len(queue[t])
        PROVE  /\ queue[t][i] \in Requests /\ queue[t][i] # r
               /\ Pending(queue[t][i]) /\ \A u \in Slots : taken[u] # queue[t][i]
    BY <2>4 DEF TransitInv, QueuedOnce, TypeInv, TypeOK
  <2>7. \A u \in Slots : taken[u] # r
    BY <2>4 DEF TransitInv, TakenOnce
  <2>8. ASSUME NEW t \in Slots, NEW i \in 1..Len(queue'[t])
        PROVE  /\ resultC'[queue'[t][i]] = "none" /\ caller'[queue'[t][i]] \notin {"new", "sending"}
               /\ \A u \in Slots : taken[u] # queue'[t][i]
               /\ \A u \in Slots : \A j \in 1..Len(queue'[u]) :
                    queue'[u][j] = queue'[t][i] => u = t /\ j = i
    <3>1. CASE i \in 1..Len(queue[t]) /\ queue'[t][i] = queue[t][i]
      <4>1. /\ resultC'[queue'[t][i]] = "none"
            /\ caller'[queue'[t][i]] \notin {"new", "sending"}
            /\ \A u \in Slots : taken[u] # queue'[t][i]
        BY <2>4, <2>6, <3>1 DEF Pending
      <4>2. ASSUME NEW u \in Slots, NEW j \in 1..Len(queue'[u]), queue'[u][j] = queue'[t][i]
            PROVE  u = t /\ j = i
        <5>1. j \in 1..Len(queue[u]) /\ queue[u][j] = queue[t][i]
          BY <2>5, <2>6, <3>1, <4>2
        <5> QED BY <3>1, <5>1 DEF TransitInv, QueuedOnce
      <4> QED BY <4>1, <4>2
    <3>2. CASE t = s /\ i = Len(queue[s]) + 1 /\ queue'[t][i] = r
      <4>1. resultC'[r] = "none" /\ caller'[r] \notin {"new", "sending"}
        BY <2>4 DEF Pending
      <4>2. ASSUME NEW u \in Slots, NEW j \in 1..Len(queue'[u]), queue'[u][j] = r
            PROVE  u = t /\ j = i
        BY <2>5, <2>6, <3>2, <4>2
      <4> QED BY <2>7, <3>2, <4>1, <4>2
    <3> QED BY <2>5, <3>1, <3>2
  <2>9. QueuedOnce'
    BY <1>1, <2>8 DEF QueuedOnce, Pending
  <2>10. TakenOnce'
    BY <1>1, <2>4 DEF TransitInv, TakenOnce, TypeInv, TypeOK
  <2>11. UnsentUnanswered'
    BY <1>1, <2>3 DEF TransitInv, UnsentUnanswered
  <2> QED BY <1>2, <2>9, <2>10, <2>11 DEF TransitInv
<1> QED BY <1>4, <1>5, <1>6 DEF CallerStep

(* The goroutine takes the head of its channel and answers what it took. *)
LEMMA TransitUnderRunner ==
    ASSUME NEW s \in Slots, RunnerStep(s) \/ IdleTimer(s), TypeInv, TransitInv
    PROVE  TransitInv'
<1> USE SessionAssumption
<1>1. UNCHANGED caller
  BY RunnerFrame DEF callVars
<1>2. OutcomeReady'
  <2>1. CASE Receive(s) \/ CheckContext(s) \/ Arm(s) \/ IdleTimer(s)
             \/ DeleteCheckQueue(s) \/ DeleteCheckRefs(s)
    <3>1. UNCHANGED outcome /\ \E x \in {"check", "select", "arm", "start", "idle",
                                         "deleting", "exited"} :
                                 runner' = [runner EXCEPT ![s] = x]
      BY <2>1 DEF Receive, CheckContext, Arm, IdleTimer, DeleteCheckQueue, DeleteCheckRefs
    <3> QED BY <3>1 DEF TransitInv, OutcomeReady, TypeInv, TypeOK
  <2>2. CASE FnStart(s)
    <3>1. \/ UNCHANGED outcome /\ runner' = [runner EXCEPT ![s] = "fn"]
          \/ /\ outcome' = [outcome EXCEPT ![s] = "err"]
             /\ runner' = [runner EXCEPT ![s] = "disarm"]
      BY <2>2 DEF FnStart
    <3> QED BY <3>1 DEF TransitInv, OutcomeReady, TypeInv, TypeOK
  <2>3. CASE FnReturn(s)
    BY <2>3 DEF FnReturn, TransitInv, OutcomeReady, TypeInv, TypeOK
  <2>4. CASE Disarm(s)
    BY <2>4 DEF Disarm, TransitInv, OutcomeReady, TypeInv, TypeOK
  <2>5. CASE Reply(s)
    BY <2>5 DEF Reply, TransitInv, OutcomeReady, TypeInv, TypeOK
  <2> QED BY <2>1, <2>2, <2>3, <2>4, <2>5 DEF RunnerStep
<1>3. CASE UNCHANGED <<queue, taken, resultC>>
  BY <1>1, <1>2, <1>3 DEF TransitInv, QueuedOnce, TakenOnce, UnsentUnanswered, Pending
<1>4. CASE /\ UNCHANGED queue /\ taken[s] # NoRequest
           /\ taken' = [taken EXCEPT ![s] = NoRequest]
           /\ \E x : resultC' = [resultC EXCEPT ![taken[s]] = x]
  <2>1. \A q \in Requests : q # taken[s] /\ Pending(q) => Pending(q)'
    BY <1>1, <1>4 DEF Pending, TypeInv, TypeOK
  <2>2. \A t \in Slots : taken'[t] = IF t = s THEN NoRequest ELSE taken[t]
    BY <1>4 DEF TypeInv, TypeOK
  <2>3. \A t \in Slots : \A i \in 1..Len(queue[t]) : queue[t][i] \in Requests
    BY DEF TypeInv, TypeOK
  <2>4. QueuedOnce'
    BY <1>4, <2>1, <2>2, <2>3 DEF TransitInv, QueuedOnce
  <2>5. TakenOnce'
    BY <2>1, <2>2 DEF TransitInv, TakenOnce, TypeInv, TypeOK
  <2>6. UnsentUnanswered'
    BY <1>1, <1>4 DEF TransitInv, TakenOnce, UnsentUnanswered, Pending, TypeInv, TypeOK
  <2> QED BY <1>2, <2>4, <2>5, <2>6 DEF TransitInv
<1>5. CASE Receive(s)
  <2>1. /\ queue[s] \in Seq(Requests) /\ queue[s] # <<>>
        /\ taken' = [taken EXCEPT ![s] = Head(queue[s])]
        /\ queue' = [queue EXCEPT ![s] = Tail(@)]
        /\ runner[s] = "select" /\ UNCHANGED resultC
    BY <1>5 DEF Receive, TypeInv, TypeOK
  <2>2. /\ 1 \in 1..Len(queue[s]) /\ Head(queue[s]) = queue[s][1]
        /\ \A i \in 1..Len(Tail(queue[s])) :
             i + 1 \in 1..Len(queue[s]) /\ i + 1 # 1 /\ Tail(queue[s])[i] = queue[s][i + 1]
    BY <2>1
  <2>3. /\ queue'[s] = Tail(queue[s]) /\ taken'[s] = queue[s][1]
        /\ \A t \in Slots \ {s} : queue'[t] = queue[t] /\ taken'[t] = taken[t]
    BY <2>1, <2>2 DEF TypeInv, TypeOK
  <2>4. \A q : Pending(q)' <=> Pending(q)
    BY <1>1, <2>1 DEF Pending
  <2> DEFINE from(t, i) == IF t = s THEN i + 1 ELSE i
  <2>5. ASSUME NEW t \in Slots, NEW i \in 1..Len(queue'[t])
        PROVE  /\ from(t, i) \in 1..Len(queue[t]) /\ queue'[t][i] = queue[t][from(t, i)]
               /\ t = s => from(t, i) # 1
    BY <2>2, <2>3
  <2>6. \A t \in Slots : \A i, j \in 1..Len(queue'[t]) : from(t, i) = from(t, j) => i = j
    <3>1. \A t \in Slots : queue[t] \in Seq(Requests)
      BY DEF TypeInv, TypeOK
    <3>2. \A t \in Slots : Len(queue'[t]) \in Nat
      BY <2>1, <2>3, <3>1
    <3> QED BY <3>2
  <2> HIDE DEF from
  <2>7. ASSUME NEW t \in Slots, NEW i \in 1..Len(queue'[t])
        PROVE  /\ resultC'[queue'[t][i]] = "none" /\ caller'[queue'[t][i]] \notin {"new", "sending"}
               /\ \A u \in Slots : taken'[u] # queue'[t][i]
               /\ \A u \in Slots : \A j \in 1..Len(queue'[u]) :
                    queue'[u][j] = queue'[t][i] => u = t /\ j = i
    <3>1. resultC'[queue'[t][i]] = "none" /\ caller'[queue'[t][i]] \notin {"new", "sending"}
      BY <1>1, <2>1, <2>5 DEF TransitInv, QueuedOnce, Pending
    <3>2. \A u \in Slots : taken'[u] # queue'[t][i]
      BY <2>2, <2>3, <2>5 DEF TransitInv, QueuedOnce
    <3>3. ASSUME NEW u \in Slots, NEW j \in 1..Len(queue'[u]), queue'[u][j] = queue'[t][i]
          PROVE  u = t /\ j = i
      <4>1. queue[u][from(u, j)] = queue[t][from(t, i)]
        BY <2>5, <3>3
      <4>2. u = t /\ from(u, j) = from(t, i)
        BY <2>5, <4>1 DEF TransitInv, QueuedOnce
      <4> QED BY <2>6, <4>2
    <3> QED BY <3>1, <3>2, <3>3
  <2>8. QueuedOnce'
    BY <2>7 DEF QueuedOnce, Pending
  <2>9. TakenOnce'
    <3>1. \A t \in Slots : taken[t] # queue[s][1]
      BY <2>2 DEF TransitInv, QueuedOnce
    <3>2. Pending(queue[s][1])
      BY <2>2 DEF TransitInv, QueuedOnce
    <3> QED BY <2>3, <2>4, <3>1, <3>2 DEF TransitInv, TakenOnce
  <2>10. UnsentUnanswered'
    BY <1>1, <2>1 DEF TransitInv, UnsentUnanswered
  <2> QED BY <1>2, <2>8, <2>9, <2>10 DEF TransitInv
<1>6. CASE CheckContext(s) \/ Reply(s)
  <2>1. taken[s] # NoRequest
    BY <1>6 DEF CheckContext, Reply, TypeInv, TakenWhileBusy, Busy
  <2> QED BY <1>3, <1>4, <1>6, <2>1 DEF CheckContext, Reply
<1>7. CASE \/ Arm(s) \/ FnStart(s) \/ FnReturn(s) \/ Disarm(s) \/ IdleTimer(s)
           \/ DeleteCheckQueue(s) \/ DeleteCheckRefs(s)
  BY <1>3, <1>7 DEF Arm, FnStart, FnReturn, Disarm, IdleTimer, DeleteCheckQueue, DeleteCheckRefs
<1> QED BY <1>5, <1>6, <1>7 DEF RunnerStep

LEMMA TransitStep == TypeInv /\ TransitInv /\ [Next]_vars => TransitInv'
<1> SUFFICES ASSUME TypeInv, TransitInv, [Next]_vars PROVE TransitInv'
  OBVIOUS
<1>1. CASE UNCHANGED <<queue, taken, resultC, caller, runner, outcome>>
  BY <1>1 DEF TransitInv, QueuedOnce, TakenOnce, UnsentUnanswered, Pending, OutcomeReady
<1>2. ASSUME NEW a \in Aborters, AbortStep(a) PROVE TransitInv'
  BY <1>1, <1>2, AbortFrame DEF slotVars, callVars
<1> QED BY <1>1, <1>2, TransitUnderCaller, TransitUnderRunner DEF Next, vars, slotVars, callVars

LEMMA TransitInvariant == Spec => []TransitInv
  BY TransitInit, TransitStep, TypeInvariant, PTL DEF Spec

(* No request is answered twice, so the goroutine never blocks on resultC. *)
THEOREM ReplyNeverBlocksHolds == Spec => []ReplyNeverBlocks
<1>1. TypeInv /\ TransitInv => ReplyNeverBlocks
  BY DEF TypeInv, TakenWhileBusy, TransitInv, TakenOnce, Pending, ReplyNeverBlocks
<1> QED BY <1>1, TypeInvariant, TransitInvariant, PTL

=============================================================================
