---------------------------- MODULE TunnelProofs ----------------------------
(***************************************************************************)
(* Proofs about module Tunnel, for any number of preview requests and      *)
(* connections and any capacities.  The registry is treated first: which   *)
(* responders are registered, on which streams, in whatever order receive   *)
(* loops attach and detach.  Then the frames: what is in transit for a      *)
(* request, from the daemon's worker to the browser.                        *)
(***************************************************************************)
EXTENDS Tunnel, FiniteSetTheorems, SequenceTheorems, TLAPS

-----------------------------------------------------------------------------
(* The registry: the inductive invariant *)

ExchangeStates == {"none", "attach", "replace", "recv", "push", "detach", "closing", "done"}
HandlerStates == {"new", "start", "pump", "await", "drain", "relay", "finish", "join",
                  "unregister", "done"}

RegistryTypes ==
    /\ current \in Streams \cup {NoStream}
    /\ registered \subseteq Requests /\ closed \subseteq Requests
    /\ broken \subseteq Streams
    /\ stale \in [Streams -> SUBSET Requests]
    /\ exchange \in [Streams -> ExchangeStates]
    /\ handler \in [Requests -> HandlerStates]
    /\ on \in [Requests -> Streams \cup {NoStream}]

(* The computer's stream has a receive loop that has yet to run Detach. *)
CurrentIsServed ==
    current # NoStream => exchange[current] \in {"recv", "push", "detach"}

(* Only the handler of a request under way keeps a responder registered, on  *)
(* a stream.                                                                 *)
RegisteredIsUnderWay ==
    \A r \in registered : handler[r] \notin {"new", "done"} /\ on[r] \in Streams

(* A receive loop leaves because its connection is lost; what its Detach has *)
(* taken out was registered on it.                                           *)
DetachedIsBroken ==
    /\ \A s \in Streams : exchange[s] \in {"detach", "closing"} => s \in broken
    /\ \A s \in Streams : \A r \in stale[s] :
        on[r] = s /\ s \in broken /\ handler[r] # "new"

(* A request that has not been registered has no closed responder. *)
ClosedHasReason ==
    \A r \in closed : handler[r] # "new"

(* While the receive loop of its stream attends to it, a waiting request's   *)
(* responder is registered and open, so no frame of it is dropped.           *)
AttendedIsRegistered ==
    /\ \A r \in Requests :
        Waiting(r) /\ exchange[on[r]] \in {"recv", "push", "detach"} =>
            r \in registered /\ r \notin closed
    /\ \A r \in Requests : on[r] \in Streams => exchange[on[r]] \notin {"none", "attach", "replace"}
    /\ \A r \in Requests : Waiting(r) => on[r] \in Streams
    /\ \A s \in Streams : stale[s] # {} => exchange[s] = "closing"

RegistryInv ==
    /\ RegistryTypes
    /\ CurrentIsServed
    /\ RegisteredIsUnderWay
    /\ DetachedIsBroken
    /\ ClosedHasReason
    /\ NoOrphanResponder
    /\ SoundStreamKeepsRequests
    /\ AttendedIsRegistered

(* What the registry's invariant is about. *)
registryView == <<current, registered, stale, closed, exchange, handler, on, broken>>

LEMMA RegistryInit == Init => RegistryInv
BY DEF Init, RegistryInv, RegistryTypes, CurrentIsServed, RegisteredIsUnderWay,
       DetachedIsBroken, ClosedHasReason, NoOrphanResponder, SoundStreamKeepsRequests,
       AttendedIsRegistered, Waiting, ExchangeStates, HandlerStates, Streams, NoStream

LEMMA RegistryUnchanged ==
    ASSUME RegistryInv, UNCHANGED registryView
    PROVE  RegistryInv'
BY DEF registryView, RegistryInv, RegistryTypes, CurrentIsServed, RegisteredIsUnderWay,
       DetachedIsBroken, ClosedHasReason, NoOrphanResponder, SoundStreamKeepsRequests,
       AttendedIsRegistered, Waiting

(* A handler moves on: it stays under way, and does not wait again once it   *)
(* has stopped waiting.                                                      *)
LEMMA HandlerMoves ==
    ASSUME RegistryInv, NEW r \in Requests, InFlight(r),
           NEW to \in HandlerStates \ {"new", "done"},
           to \in {"start", "pump", "await", "drain", "relay"} => Waiting(r),
           Goto(r, to),
           UNCHANGED <<current, registered, stale, closed, exchange, on, broken>>
    PROVE  RegistryInv'
<1>1. /\ handler' \in [Requests -> HandlerStates]
      /\ handler'[r] = to
      /\ \A q \in Requests : q # r => handler'[q] = handler[q]
  BY DEF RegistryInv, RegistryTypes, Goto
<1>2. RegistryTypes' /\ CurrentIsServed' /\ NoOrphanResponder'
  BY <1>1 DEF RegistryInv, RegistryTypes, CurrentIsServed, NoOrphanResponder
<1>3. RegisteredIsUnderWay' /\ DetachedIsBroken' /\ ClosedHasReason'
  BY <1>1 DEF RegistryInv, RegistryTypes, RegisteredIsUnderWay, DetachedIsBroken,
              ClosedHasReason, InFlight
<1>4. SoundStreamKeepsRequests'
  BY <1>1 DEF RegistryInv, SoundStreamKeepsRequests, Waiting
<1>5. AttendedIsRegistered'
  BY <1>1 DEF RegistryInv, AttendedIsRegistered, Waiting
<1> QED
  BY <1>2, <1>3, <1>4, <1>5 DEF RegistryInv

(* A receive loop moves on, and what it reads of the registry stays. *)
LEMMA LoopMoves ==
    ASSUME RegistryInv, NEW s \in Streams, NEW to \in ExchangeStates, At(s, to),
           to \in {"recv", "push", "detach"} <=> exchange[s] \in {"recv", "push", "detach"},
           to \in {"detach", "closing"} => s \in broken,
           to \in {"none", "attach", "replace"} =>
                exchange[s] \in {"none", "attach", "replace"},
           exchange[s] # "closing",
           UNCHANGED <<current, registered, stale, closed, handler, on, broken>>
    PROVE  RegistryInv'
<1>1. /\ exchange' \in [Streams -> ExchangeStates]
      /\ exchange'[s] = to
      /\ \A t \in Streams : t # s => exchange'[t] = exchange[t]
  BY DEF RegistryInv, RegistryTypes, At
<1>2. RegistryTypes' /\ CurrentIsServed'
  BY <1>1 DEF RegistryInv, RegistryTypes, CurrentIsServed
<1>3. NoOrphanResponder'
  BY <1>1 DEF RegistryInv, RegisteredIsUnderWay, NoOrphanResponder
<1>4. RegisteredIsUnderWay' /\ DetachedIsBroken' /\ ClosedHasReason'
  BY <1>1 DEF RegistryInv, RegisteredIsUnderWay, DetachedIsBroken, ClosedHasReason
<1>5. SoundStreamKeepsRequests'
  BY DEF RegistryInv, SoundStreamKeepsRequests, Waiting
<1>6. AttendedIsRegistered'
  BY <1>1 DEF RegistryInv, RegistryTypes, AttendedIsRegistered, Waiting
<1> QED
  BY <1>2, <1>3, <1>4, <1>5, <1>6 DEF RegistryInv

-----------------------------------------------------------------------------
(* The registry: its steps *)

LEMMA RegisterKeepsRegistry ==
    ASSUME TunnelAssumption, RegistryInv, NEW r \in Requests, Register(r)
    PROVE  RegistryInv'
<1>1. UNCHANGED <<current, stale, closed, exchange, broken>>
  BY DEF Register, loopVars, netVars
<1>2. CASE current = NoStream
  <2>1. handler' = [handler EXCEPT ![r] = "done"] /\ UNCHANGED <<registered, on>>
    BY <1>2 DEF Register, Goto
  <2>2. /\ handler' \in [Requests -> HandlerStates]
        /\ handler'[r] = "done" /\ handler[r] = "new"
        /\ \A q \in Requests : q # r => handler'[q] = handler[q]
    BY <2>1 DEF Register, RegistryInv, RegistryTypes, HandlerStates
  <2>3. r \notin registered
    BY <2>2 DEF RegistryInv, RegisteredIsUnderWay
  <2>4. RegistryTypes' /\ CurrentIsServed' /\ NoOrphanResponder'
    BY <1>1, <2>1, <2>2 DEF RegistryInv, RegistryTypes, CurrentIsServed, NoOrphanResponder
  <2>5. RegisteredIsUnderWay' /\ DetachedIsBroken' /\ ClosedHasReason'
    BY <1>1, <2>1, <2>2, <2>3 DEF RegistryInv, RegistryTypes, RegisteredIsUnderWay,
                                  DetachedIsBroken, ClosedHasReason
  <2>6. SoundStreamKeepsRequests'
    BY <1>1, <2>1, <2>2 DEF RegistryInv, SoundStreamKeepsRequests, Waiting
  <2>7. AttendedIsRegistered'
    BY <1>1, <2>1, <2>2 DEF RegistryInv, AttendedIsRegistered, Waiting
  <2> QED
    BY <2>4, <2>5, <2>6, <2>7 DEF RegistryInv
<1>3. CASE current # NoStream
  <2>1. /\ handler' = [handler EXCEPT ![r] = "start"]
        /\ registered' = registered \cup {r}
        /\ on' = [on EXCEPT ![r] = current]
    BY <1>3 DEF Register, Goto
  <2>2. /\ handler' \in [Requests -> HandlerStates]
        /\ handler'[r] = "start" /\ handler[r] = "new"
        /\ \A q \in Requests : q # r => handler'[q] = handler[q]
    BY <2>1 DEF Register, RegistryInv, RegistryTypes, HandlerStates
  <2>3. /\ current \in Streams
        /\ on' \in [Requests -> Streams \cup {NoStream}]
        /\ on'[r] = current
        /\ \A q \in Requests : q # r => on'[q] = on[q]
    BY <1>3, <2>1 DEF RegistryInv, RegistryTypes
  <2>4. r \notin registered /\ r \notin closed /\ \A s \in Streams : r \notin stale[s]
    BY <2>2 DEF RegistryInv, RegisteredIsUnderWay, ClosedHasReason, DetachedIsBroken
  <2>5. RegistryTypes' /\ CurrentIsServed'
    BY <1>1, <2>1, <2>2, <2>3 DEF RegistryInv, RegistryTypes, CurrentIsServed
  <2>6. NoOrphanResponder'
    BY <1>1, <1>3, <2>1, <2>3
    DEF RegistryInv, RegistryTypes, CurrentIsServed, NoOrphanResponder
  <2>7. RegisteredIsUnderWay' /\ ClosedHasReason'
    BY <1>1, <2>1, <2>2, <2>3
    DEF RegistryInv, RegistryTypes, RegisteredIsUnderWay, ClosedHasReason
  <2>8. DetachedIsBroken'
    BY <1>1, <2>2, <2>3, <2>4 DEF RegistryInv, RegistryTypes, DetachedIsBroken
  <2>9. SoundStreamKeepsRequests'
    BY <1>1, <2>1, <2>2, <2>3, <2>4 DEF RegistryInv, SoundStreamKeepsRequests, Waiting
  <2>10. AttendedIsRegistered'
    BY <1>1, <1>3, <2>1, <2>2, <2>3, <2>4
    DEF RegistryInv, AttendedIsRegistered, CurrentIsServed, Waiting
  <2> QED
    BY <2>5, <2>6, <2>7, <2>8, <2>9, <2>10 DEF RegistryInv
<1> QED
  BY <1>2, <1>3

(* The deferred calls of the handler. *)
LEMMA DeferredKeepsRegistry ==
    ASSUME RegistryInv, NEW r \in Requests, CloseResponder(r) \/ Unregister(r)
    PROVE  RegistryInv'
<1>1. UNCHANGED <<current, stale, exchange, on, broken>>
  BY DEF CloseResponder, Unregister, loopVars, netVars
<1>2. PICK to \in {"unregister", "done"} :
        /\ handler[r] \in {"join", "unregister"}
        /\ handler' = [handler EXCEPT ![r] = to]
        /\ \/ to = "unregister" /\ closed' = closed \cup {r} /\ UNCHANGED registered
           \/ to = "done" /\ registered' = registered \ {r} /\ UNCHANGED closed
  BY DEF CloseResponder, Unregister, Goto
<1>3. /\ handler' \in [Requests -> HandlerStates]
      /\ handler'[r] = to
      /\ \A q \in Requests : q # r => handler'[q] = handler[q]
  BY <1>2 DEF RegistryInv, RegistryTypes, HandlerStates
<1>4. /\ \A q \in Requests : q # r =>
            (q \in registered' <=> q \in registered) /\ (q \in closed' <=> q \in closed)
      /\ to = "done" => r \notin registered'
      /\ registered' \subseteq registered /\ closed' \subseteq closed \cup {r}
  BY <1>2
<1>5. RegistryTypes' /\ CurrentIsServed' /\ NoOrphanResponder'
  BY <1>1, <1>3, <1>4 DEF RegistryInv, RegistryTypes, CurrentIsServed, NoOrphanResponder
<1>6. RegisteredIsUnderWay' /\ ClosedHasReason'
  BY <1>1, <1>3, <1>4
  DEF RegistryInv, RegistryTypes, RegisteredIsUnderWay, ClosedHasReason
<1>7. DetachedIsBroken'
  BY <1>1, <1>3 DEF RegistryInv, RegistryTypes, DetachedIsBroken
<1>8. SoundStreamKeepsRequests'
  BY <1>1, <1>3, <1>4 DEF RegistryInv, SoundStreamKeepsRequests, Waiting
<1>9. AttendedIsRegistered'
  BY <1>1, <1>3, <1>4 DEF RegistryInv, AttendedIsRegistered, Waiting
<1> QED
  BY <1>5, <1>6, <1>7, <1>8, <1>9 DEF RegistryInv

LEMMA AttachKeepsRegistry ==
    ASSUME RegistryInv, NEW s \in Streams, Attach(s)
    PROVE  RegistryInv'
<1>1. UNCHANGED <<registered, stale, closed, handler, on, broken>>
  BY DEF Attach, handlerVars, netVars
<1>2. /\ exchange[s] \in {"attach", "replace"} /\ exchange'[s] = "recv"
      /\ exchange' \in [Streams -> ExchangeStates]
      /\ \A t \in Streams : t # s => exchange'[t] = exchange[t]
      /\ current' = s
  BY DEF Attach, At, RegistryInv, RegistryTypes, ExchangeStates
<1>3. RegistryTypes' /\ CurrentIsServed'
  BY <1>1, <1>2 DEF RegistryInv, RegistryTypes, CurrentIsServed
<1>4. NoOrphanResponder'
  BY <1>1, <1>2 DEF RegistryInv, RegisteredIsUnderWay, NoOrphanResponder
<1>5. RegisteredIsUnderWay' /\ DetachedIsBroken' /\ ClosedHasReason'
  BY <1>1, <1>2 DEF RegistryInv, RegisteredIsUnderWay, DetachedIsBroken, ClosedHasReason
<1>6. SoundStreamKeepsRequests'
  BY <1>1 DEF RegistryInv, SoundStreamKeepsRequests, Waiting
<1>7. AttendedIsRegistered'
  BY <1>1, <1>2 DEF RegistryInv, AttendedIsRegistered, Waiting
<1> QED
  BY <1>3, <1>4, <1>5, <1>6, <1>7 DEF RegistryInv

(* Detach takes the responders of its own stream, which is broken. *)
LEMMA DetachKeepsRegistry ==
    ASSUME TunnelAssumption, RegistryInv, NEW s \in Streams, Detach(s)
    PROVE  RegistryInv'
<1> DEFINE owned == {r \in registered : on[r] = s}
<1>1. UNCHANGED <<closed, handler, on, broken>>
  BY DEF Detach, TakeOut, handlerVars, netVars
<1>2. /\ exchange[s] = "detach" /\ exchange'[s] \in {"done", "closing"}
      /\ exchange' \in [Streams -> ExchangeStates]
      /\ \A t \in Streams : t # s => exchange'[t] = exchange[t]
  BY DEF Detach, TakeOut, At, RegistryInv, RegistryTypes, ExchangeStates
<1>3. /\ current' = IF current = s THEN NoStream ELSE current
      /\ registered' = registered \ owned
  BY DEF Detach, TakeOut
<1>4. /\ stale'[s] = owned
      /\ stale' \in [Streams -> SUBSET Requests]
      /\ \A t \in Streams : t # s => stale'[t] = stale[t]
  BY DEF Detach, TakeOut, RegistryInv, RegistryTypes
<1>5. s \in broken
  BY <1>2 DEF RegistryInv, DetachedIsBroken
<1>6. RegistryTypes' /\ CurrentIsServed'
  BY <1>1, <1>2, <1>3, <1>4 DEF RegistryInv, RegistryTypes, CurrentIsServed
<1>7. NoOrphanResponder'
  BY <1>1, <1>2, <1>3 DEF RegistryInv, RegisteredIsUnderWay, NoOrphanResponder
<1>8. RegisteredIsUnderWay' /\ ClosedHasReason'
  BY <1>1, <1>3 DEF RegistryInv, RegisteredIsUnderWay, ClosedHasReason
<1>9. DetachedIsBroken'
  BY <1>1, <1>2, <1>4, <1>5 DEF RegistryInv, RegisteredIsUnderWay, DetachedIsBroken
<1>10. SoundStreamKeepsRequests'
  BY <1>1, <1>3, <1>5 DEF RegistryInv, SoundStreamKeepsRequests, Waiting
<1>11. AttendedIsRegistered'
  <2>1. owned # {} => exchange'[s] = "closing"
    BY DEF Detach, TakeOut, At, RegistryInv, RegistryTypes
  <2> QED
    BY <1>1, <1>2, <1>3, <1>4, <2>1 DEF RegistryInv, AttendedIsRegistered, Waiting
<1> QED
  BY <1>6, <1>7, <1>8, <1>9, <1>10, <1>11 DEF RegistryInv

LEMMA CloseStaleKeepsRegistry ==
    ASSUME RegistryInv, NEW s \in Streams, CloseStale(s)
    PROVE  RegistryInv'
<1>1. UNCHANGED <<current, registered, handler, on, broken>>
  BY DEF CloseStale, handlerVars, netVars
<1>2. PICK r \in stale[s] :
        /\ closed' = closed \cup {r}
        /\ stale' = [stale EXCEPT ![s] = @ \ {r}]
        /\ At(s, IF stale[s] = {r} THEN "done" ELSE "closing")
  BY DEF CloseStale
<1>3. /\ exchange[s] = "closing" /\ exchange'[s] \in {"done", "closing"}
      /\ exchange' \in [Streams -> ExchangeStates]
      /\ \A t \in Streams : t # s => exchange'[t] = exchange[t]
  BY <1>2 DEF CloseStale, At, RegistryInv, RegistryTypes, ExchangeStates
<1>4. /\ stale' \in [Streams -> SUBSET Requests]
      /\ \A t \in Streams : stale'[t] \subseteq stale[t]
      /\ r \in Requests
  BY <1>2 DEF RegistryInv, RegistryTypes
<1>5. on[r] = s /\ s \in broken /\ handler[r] # "new"
  BY <1>2 DEF RegistryInv, DetachedIsBroken
<1>6. RegistryTypes' /\ CurrentIsServed'
  BY <1>1, <1>2, <1>3, <1>4 DEF RegistryInv, RegistryTypes, CurrentIsServed
<1>7. NoOrphanResponder'
  BY <1>1, <1>3 DEF RegistryInv, RegisteredIsUnderWay, NoOrphanResponder
<1>8. RegisteredIsUnderWay' /\ ClosedHasReason'
  BY <1>1, <1>2, <1>5 DEF RegistryInv, RegisteredIsUnderWay, ClosedHasReason
<1>9. DetachedIsBroken'
  BY <1>1, <1>3, <1>4, <1>5 DEF RegistryInv, DetachedIsBroken
<1>10. SoundStreamKeepsRequests'
  BY <1>1, <1>2, <1>5 DEF RegistryInv, SoundStreamKeepsRequests, Waiting
<1>11. AttendedIsRegistered'
  <2>1. stale'[s] # {} => exchange'[s] = "closing"
    BY <1>2 DEF At, RegistryInv, RegistryTypes
  <2>2. \A t \in Streams : t # s => stale'[t] = stale[t]
    BY <1>2 DEF RegistryInv, RegistryTypes
  <2> QED
    BY <1>1, <1>2, <1>3, <1>5, <2>1, <2>2 DEF RegistryInv, AttendedIsRegistered, Waiting
<1> QED
  BY <1>6, <1>7, <1>8, <1>9, <1>10, <1>11 DEF RegistryInv

LEMMA BreakKeepsRegistry ==
    ASSUME RegistryInv, NEW s \in Streams, Break(s)
    PROVE  RegistryInv'
<1>1. /\ UNCHANGED <<current, registered, stale, closed, exchange, handler, on>>
      /\ broken' = broken \cup {s}
  BY DEF Break, serverVars, registryVars, handlerVars, loopVars
<1>2. RegistryTypes' /\ CurrentIsServed' /\ NoOrphanResponder'
  BY <1>1 DEF RegistryInv, RegistryTypes, CurrentIsServed, NoOrphanResponder
<1>3. RegisteredIsUnderWay' /\ DetachedIsBroken' /\ ClosedHasReason'
  BY <1>1 DEF RegistryInv, RegisteredIsUnderWay, DetachedIsBroken, ClosedHasReason
<1>4. SoundStreamKeepsRequests'
  BY <1>1 DEF RegistryInv, SoundStreamKeepsRequests, Waiting
<1>5. AttendedIsRegistered'
  BY <1>1 DEF RegistryInv, AttendedIsRegistered, Waiting
<1> QED
  BY <1>2, <1>3, <1>4, <1>5 DEF RegistryInv

(* The steps of a handler between Register and its deferred calls. *)
LEMMA HandlerKeepsRegistry ==
    ASSUME RegistryInv, NEW r \in Requests,
           \/ SendStart(r) \/ PumpStops(r) \/ PumpFrame(r) \/ AwaitStops(r)
           \/ AwaitFrame(r) \/ RelayFrame(r) \/ RelayStops(r) \/ Finish(r)
    PROVE  RegistryInv'
<1>1. UNCHANGED <<current, registered, stale, closed, exchange, on, broken>>
  BY DEF SendStart, PumpStops, PumpFrame, AwaitStops, AwaitFrame, RelayFrame, RelayStops,
         Finish, registryVars, loopVars, netVars
<1>2. InFlight(r)
  BY DEF SendStart, PumpStops, PumpFrame, AwaitStops, AwaitFrame, RelayFrame, RelayStops,
         Finish, InFlight
<1>3. \/ UNCHANGED handler
      \/ \E to \in {"pump", "await", "drain", "relay"} : Waiting(r) /\ Goto(r, to)
      \/ \E to \in {"finish", "join"} : Goto(r, to)
  <2>1. CASE SendStart(r)
    BY <2>1 DEF SendStart, Waiting
  <2>2. CASE PumpStops(r) \/ PumpFrame(r)
    BY <2>2 DEF PumpStops, PumpFrame
  <2>3. CASE AwaitStops(r) \/ AwaitFrame(r)
    BY <2>3 DEF AwaitStops, AwaitFrame, Waiting
  <2>4. CASE RelayFrame(r) \/ RelayStops(r) \/ Finish(r)
    BY <2>4 DEF RelayFrame, RelayStops, Finish
  <2> QED
    BY <2>1, <2>2, <2>3, <2>4
<1>4. CASE UNCHANGED handler
  BY <1>1, <1>4, RegistryUnchanged DEF registryView
<1>5. CASE \E to \in {"pump", "await", "drain", "relay"} : Waiting(r) /\ Goto(r, to)
  BY <1>1, <1>2, <1>5, HandlerMoves DEF HandlerStates
<1>6. CASE \E to \in {"finish", "join"} : Goto(r, to)
  BY <1>1, <1>2, <1>6, HandlerMoves DEF HandlerStates
<1> QED
  BY <1>3, <1>4, <1>5, <1>6

(* The steps of a receive loop that only move it. *)
LEMMA LoopKeepsRegistry ==
    ASSUME RegistryInv, NEW s \in Streams,
           \/ AttachWaits(s) \/ AttachLost(s) \/ Dispatch(s) \/ Push(s) \/ RecvFails(s)
           \/ Connect(s)
    PROVE  RegistryInv'
<1>1. UNCHANGED <<current, registered, stale, closed, handler, on, broken>>
  BY DEF AttachWaits, AttachLost, Dispatch, Push, Pushed, RecvFails, Connect,
         serverVars, registryVars, handlerVars, netVars
<1>2. \/ UNCHANGED exchange
      \/ \E to \in ExchangeStates :
            /\ At(s, to)
            /\ to \in {"recv", "push", "detach"} <=> exchange[s] \in {"recv", "push", "detach"}
            /\ to \in {"detach", "closing"} => s \in broken
            /\ to \in {"none", "attach", "replace"} =>
                    exchange[s] \in {"none", "attach", "replace"}
            /\ exchange[s] # "closing"
  BY DEF AttachWaits, AttachLost, Dispatch, Push, Pushed, RecvFails, Connect, loopVars,
         ExchangeStates
<1>3. CASE UNCHANGED exchange
  BY <1>1, <1>3, RegistryUnchanged DEF registryView
<1> QED
  BY <1>1, <1>2, <1>3, LoopMoves

(* A step moves something, or leaves all but the streams' mutexes alone. *)
LEMMA NextMoves ==
    ASSUME [Next]_vars
    PROVE  Move \/ UNCHANGED settledVars
BY DEF Next, SendBlocks, vars, settledVars, netVars

LEMMA RegistryStep ==
    ASSUME TunnelAssumption, RegistryInv, [Next]_vars
    PROVE  RegistryInv'
<1>1. CASE UNCHANGED settledVars
  BY <1>1, RegistryUnchanged
  DEF settledVars, serverVars, registryVars, handlerVars, loopVars, netVars, registryView
<1>2. ASSUME NEW r \in Requests, Register(r) PROVE RegistryInv'
  BY <1>2, RegisterKeepsRegistry
<1>3. ASSUME NEW r \in Requests, HandlerStep(r) PROVE RegistryInv'
  BY <1>3, HandlerKeepsRegistry, DeferredKeepsRegistry DEF HandlerStep
<1>4. ASSUME NEW r \in Requests,
             \/ Leave(r) \/ Timeout(r) \/ UploadChunk(r) \/ UploadOver(r) \/ UploadEnd(r)
             \/ RelayChunk(r) \/ RelayReadEnds(r)
      PROVE RegistryInv'
  <2>1. UNCHANGED registryView
    BY <1>4 DEF Leave, Timeout, UploadChunk, UploadOver, UploadEnd, RelayChunk,
                RelayReadEnds, serverVars, registryVars, handlerVars, loopVars, netVars,
                registryView
  <2> QED
    BY <2>1, RegistryUnchanged
<1>5. ASSUME NEW r \in Requests, WorkerStep(r) \/ UpstreamCloses(r) PROVE RegistryInv'
  <2>1. UNCHANGED registryView
    BY <1>5 DEF WorkerStep, Dial, SendHead, SendSwitch, SendBody, BodyOver, SendEnd,
                RelayDown, RelayOver, UpstreamCloses, serverVars, registryVars,
                handlerVars, loopVars, netVars, registryView
  <2> QED
    BY <2>1, RegistryUnchanged
<1>6. ASSUME NEW s \in Streams, ExchangeStep(s) \/ Connect(s) PROVE RegistryInv'
  BY <1>6, LoopKeepsRegistry, AttachKeepsRegistry, DetachKeepsRegistry,
     CloseStaleKeepsRegistry DEF ExchangeStep
<1>7. ASSUME NEW s \in Streams, Break(s) PROVE RegistryInv'
  BY <1>7, BreakKeepsRegistry
<1>8. ASSUME NEW s \in Streams, DaemonRecv(s) \/ ServeOneEnds(s) PROVE RegistryInv'
  <2>1. UNCHANGED registryView
    BY <1>8 DEF DaemonRecv, ServeOneEnds, serverVars, registryVars, handlerVars, loopVars,
                netVars, registryView
  <2> QED
    BY <2>1, RegistryUnchanged
<1> QED
  BY <1>1, <1>2, <1>3, <1>4, <1>5, <1>6, <1>7, <1>8, NextMoves DEF Move

(* In whatever order the receive loops of old and new connections attach and *)
(* detach, the registry's invariant holds.                                   *)
LEMMA RegistryAlways == Spec => []RegistryInv
<1>1. RegistryInv /\ [Next]_vars => RegistryInv'
  BY RegistryStep, TunnelAssumption
<1> QED
  BY <1>1, RegistryInit, PTL DEF Spec

(* Detach (registry.go) of a stale stream never takes a request off a sound  *)
(* one: its responder stays registered and open.                             *)
THEOREM SoundStreamsKeepRequests == Spec => []SoundStreamKeepsRequests
<1>1. RegistryInv => SoundStreamKeepsRequests
  BY DEF RegistryInv
<1> QED
  BY <1>1, RegistryAlways, PTL

(* Every registered responder has a receive loop that will still feed it or  *)
(* run the Detach that closes it, even when its stream was replaced.         *)
THEOREM RespondersAreServed == Spec => []NoOrphanResponder
<1>1. RegistryInv => NoOrphanResponder
  BY DEF RegistryInv
<1> QED
  BY <1>1, RegistryAlways, PTL

-----------------------------------------------------------------------------
(* Types and addresses: every frame in transit is on the stream that Register *)
(* gave its request, and REQUEST_START is received once.                      *)

(* TypeOK without what RegistryTypes says, by the part of the system. *)
ContextTypes ==
    /\ serving \in Streams \cup {NoStream}
    /\ canceled \subseteq Requests /\ left \subseteq Requests /\ marked \subseteq Streams

ServerTypes ==
    /\ upload \in [Requests -> {"none", "read", "end", "relay", "done"}]
    /\ uploaded \in [Requests -> 0 .. MaxUpload]
    /\ written \in [Requests -> Nat]
    /\ answer \in [Requests -> {"none", "no daemon", "send failed", "disconnected",
                                "open", "cut", "ended", "upstream error"}]

DaemonTypes ==
    /\ eof \subseteq Requests
    /\ piped \in [Requests -> Nat]
    /\ worker \in [Requests -> {"none", "dial", "head", "switch", "body", "end", "error",
                                "relay", "done"}]
    /\ pumps \in [Requests -> SUBSET {"down", "up"}]
    /\ sent \in [Requests -> 0 .. MaxDownload]

BufferTypes ==
    /\ buffer \in [Requests -> Seq(UpKinds)]
    /\ \A r \in Requests : Len(buffer[r]) <= BufCap
    /\ pushing \in [Streams -> {<<>>} \cup (Requests \X UpKinds)]

StreamTypes ==
    /\ up \in [Streams -> Seq(Requests \X UpKinds)]
    /\ \A s \in Streams : Len(up[s]) <= UpCap
    /\ down \in [Streams -> Seq(Requests \X DownKinds)]
    /\ \A s \in Streams : Len(down[s]) <= DownCap

SendingTypes == sending \in [Streams -> {<<>>} \cup (Requests \X DownKinds)]

(* A request has a stream from Register on. *)
RequestsHaveStreams ==
    \A r \in Requests :
        /\ handler[r] = "new" => on[r] = NoStream
        /\ handler[r] \notin {"new", "done"} => on[r] \in Streams
        /\ upload[r] # "none" => on[r] \in Streams
        /\ worker[r] # "none" => on[r] \in Streams

(* The relay goroutines of an upgrade run only while its worker waits for    *)
(* them.                                                                     *)
PumpsRelay ==
    \A r \in Requests : pumps[r] # {} => worker[r] = "relay"

(* A receive loop holds a frame exactly while it is pushing it. *)
PushingIsAddressed ==
    \A s \in Streams :
        IF exchange[s] = "push"
          THEN pushing[s] \in Requests \X UpKinds /\ on[pushing[s][1]] = s
          ELSE pushing[s] = <<>>

FramesAreAddressed ==
    \A s \in Streams :
        /\ \A i \in 1 .. Len(down[s]) : on[down[s][i][1]] = s
        /\ \A i \in 1 .. Len(up[s]) : on[up[s][i][1]] = s

(* A request is started once: until its REQUEST_START is received it has no  *)
(* worker, and there is one such frame at most.                              *)
StartedOnce ==
    /\ \A r \in Requests : handler[r] \in {"new", "start"} => worker[r] = "none"
    /\ \A s \in Streams : \A i \in 1 .. Len(down[s]) :
        down[s][i][2] = "start" =>
            /\ worker[down[s][i][1]] = "none"
            /\ handler[down[s][i][1]] \notin {"new", "start"}
            /\ \A j \in 1 .. Len(down[s]) : j # i => down[s][j] # down[s][i]

AddressInv ==
    /\ ContextTypes /\ ServerTypes /\ DaemonTypes /\ BufferTypes /\ StreamTypes
    /\ SendingTypes
    /\ RequestsHaveStreams
    /\ PumpsRelay
    /\ PushingIsAddressed
    /\ FramesAreAddressed
    /\ StartedOnce

LEMMA AddressTypes == RegistryInv /\ AddressInv => TypeOK
BY DEF RegistryInv, RegistryTypes, ExchangeStates, HandlerStates, AddressInv, ContextTypes,
       ServerTypes, DaemonTypes, BufferTypes, StreamTypes, SendingTypes,
       TypeOK

LEMMA AddressInit == TunnelAssumption /\ Init => AddressInv
BY DEF TunnelAssumption, Init, AddressInv, ContextTypes, ServerTypes, DaemonTypes,
       BufferTypes, StreamTypes, SendingTypes, RequestsHaveStreams, PumpsRelay,
       PushingIsAddressed, FramesAreAddressed, StartedOnce

(* A counter of a request is increased. *)
LEMMA Counted ==
    ASSUME NEW D, NEW f \in [D -> Nat], NEW d \in D
    PROVE  LET g == [f EXCEPT ![d] = @ + 1] IN
           /\ g \in [D -> Nat] /\ g[d] = f[d] + 1
           /\ \A e \in D : e # d => g[e] = f[e]
<1>1. f[d] + 1 \in Nat
  OBVIOUS
<1> QED
  BY <1>1

LEMMA CountedTo ==
    ASSUME NEW D, NEW N \in Nat, NEW f \in [D -> 0 .. N], NEW d \in D, f[d] < N
    PROVE  LET g == [f EXCEPT ![d] = @ + 1] IN
           /\ g \in [D -> 0 .. N] /\ g[d] = f[d] + 1
           /\ \A e \in D : e # d => g[e] = f[e]
<1>1. f[d] + 1 \in 0 .. N
  OBVIOUS
<1> QED
  BY <1>1

LEMMA ContextTypesStep ==
    ASSUME TunnelAssumption, RegistryInv, AddressInv, [Next]_vars
    PROVE  ContextTypes'
<1> DEFINE v == <<canceled, left, marked, serving>>
<1>1. CASE UNCHANGED settledVars
  BY <1>1 DEF settledVars, serverVars, registryVars, contextVars, daemonVars, AddressInv,
              ContextTypes
<1>2. ASSUME NEW r \in Requests, Register(r) \/ HandlerStep(r) PROVE UNCHANGED v
  BY <1>2 DEF Register, HandlerStep, SendStart, PumpStops, PumpFrame, CloseResponder,
              Unregister, AwaitStops, AwaitFrame, RelayFrame, RelayStops, Finish,
              registryVars, contextVars, daemonVars
<1>3. ASSUME NEW r \in Requests, Leave(r) \/ Timeout(r) PROVE ContextTypes'
  BY <1>3 DEF Leave, Timeout, serverVars, registryVars, daemonVars, AddressInv,
              ContextTypes
<1>4. ASSUME NEW r \in Requests,
             UploadChunk(r) \/ UploadOver(r) \/ UploadEnd(r) \/ RelayChunk(r)
                \/ RelayReadEnds(r)
      PROVE  UNCHANGED v
  BY <1>4 DEF UploadChunk, UploadOver, UploadEnd, RelayChunk, RelayReadEnds,
              registryVars, contextVars, daemonVars
<1>5. ASSUME NEW r \in Requests, WorkerStep(r) \/ UpstreamCloses(r) PROVE UNCHANGED v
  BY <1>5 DEF WorkerStep, Dial, SendHead, SendSwitch, SendBody, BodyOver, SendEnd,
              RelayDown, RelayOver, UpstreamCloses, serverVars, registryVars, contextVars
<1>6. ASSUME NEW s \in Streams, ExchangeStep(s) PROVE ContextTypes'
  <2>1. UNCHANGED <<canceled, left, serving>>
    BY <1>6 DEF ExchangeStep, AttachWaits, Attach, AttachLost, Dispatch, Push, Pushed,
                RecvFails, Detach, TakeOut, CloseStale, contextVars, daemonVars
  <2>2. marked' \subseteq marked \cup ({current, s} \ {NoStream})
    BY <1>6 DEF ExchangeStep, AttachWaits, Attach, AttachLost, Dispatch, Push, Pushed,
                RecvFails, Detach, TakeOut, CloseStale, serverVars, registryVars,
                NoStream, Streams, TunnelAssumption
  <2> QED
    BY <2>1, <2>2 DEF AddressInv, ContextTypes, RegistryInv, RegistryTypes
<1>7. ASSUME NEW s \in Streams,
             Break(s) \/ Connect(s) \/ DaemonRecv(s) \/ ServeOneEnds(s)
      PROVE  ContextTypes'
  BY <1>7 DEF Break, Connect, DaemonRecv, ServeOneEnds, serverVars, registryVars,
              contextVars, daemonVars, AddressInv, ContextTypes
<1>8. CASE UNCHANGED v
  BY <1>8 DEF AddressInv, ContextTypes
<1> QED
  BY <1>1, <1>2, <1>3, <1>4, <1>5, <1>6, <1>7, <1>8, NextMoves DEF Move

LEMMA ServerTypesStep ==
    ASSUME TunnelAssumption, RegistryInv, AddressInv, [Next]_vars
    PROVE  ServerTypes'
<1> DEFINE v == <<uploadVars, written, answer>>
<1>1. CASE UNCHANGED settledVars
  BY <1>1 DEF settledVars, serverVars, handlerVars, uploadVars, AddressInv, ServerTypes
<1>2. ASSUME NEW r \in Requests, Register(r) \/ HandlerStep(r) PROVE ServerTypes'
  <2>1. UNCHANGED uploaded
    BY <1>2 DEF Register, HandlerStep, SendStart, PumpStops, PumpFrame, CloseResponder,
                Unregister, AwaitStops, AwaitFrame, RelayFrame, RelayStops, Finish,
                uploadVars
  <2>2. \/ UNCHANGED written
        \/ written' = [written EXCEPT ![r] = @ + 1]
    BY <1>2 DEF Register, HandlerStep, SendStart, PumpStops, PumpFrame, CloseResponder,
                Unregister, AwaitStops, AwaitFrame, RelayFrame, RelayStops, Finish
  <2>3. \/ UNCHANGED upload
        \/ \E to \in {"none", "end", "read", "relay"} : SetUpload(r, to)
    BY <1>2 DEF Register, HandlerStep, SendStart, PumpStops, PumpFrame, CloseResponder,
                Unregister, AwaitStops, AwaitFrame, RelayFrame, RelayStops, Finish,
                uploadVars
  <2>4. \/ UNCHANGED answer
        \/ \E to \in {"no daemon", "send failed", "disconnected", "open", "cut", "ended",
                      "upstream error"} : SetAnswer(r, to)
    BY <1>2 DEF Register, HandlerStep, SendStart, PumpStops, PumpFrame, CloseResponder,
                Unregister, AwaitStops, AwaitFrame, RelayFrame, RelayStops, Finish
  <2>5. written' \in [Requests -> Nat]
    <3>1. written \in [Requests -> Nat]
      BY DEF AddressInv, ServerTypes
    <3>2. CASE written' = [written EXCEPT ![r] = @ + 1]
      BY <3>1, <3>2, Counted
    <3> QED
      BY <2>2, <3>1, <3>2
  <2>6. upload' \in [Requests -> {"none", "read", "end", "relay", "done"}]
    BY <2>3 DEF SetUpload, AddressInv, ServerTypes
  <2>7. answer' \in [Requests -> {"none", "no daemon", "send failed", "disconnected",
                                 "open", "cut", "ended", "upstream error"}]
    BY <2>4 DEF SetAnswer, AddressInv, ServerTypes
  <2> QED
    BY <2>1, <2>5, <2>6, <2>7 DEF AddressInv, ServerTypes
<1>3. ASSUME NEW r \in Requests, Leave(r) \/ Timeout(r) PROVE UNCHANGED v
  BY <1>3 DEF Leave, Timeout, serverVars, handlerVars
<1>4. ASSUME NEW r \in Requests,
             UploadChunk(r) \/ UploadOver(r) \/ UploadEnd(r) \/ RelayChunk(r)
                \/ RelayReadEnds(r)
      PROVE  ServerTypes'
  <2>1. UNCHANGED <<written, answer>>
    BY <1>4 DEF UploadChunk, UploadOver, UploadEnd, RelayChunk, RelayReadEnds, handlerVars
  <2>2. \/ UNCHANGED uploaded
        \/ uploaded[r] < MaxUpload /\ uploaded' = [uploaded EXCEPT ![r] = @ + 1]
    BY <1>4 DEF UploadChunk, UploadOver, UploadEnd, RelayChunk, RelayReadEnds
  <2>3. \/ UNCHANGED upload
        \/ \E to \in {"read", "end", "done"} : SetUpload(r, to)
    BY <1>4 DEF UploadChunk, UploadOver, UploadEnd, RelayChunk, RelayReadEnds
  <2>4. uploaded' \in [Requests -> 0 .. MaxUpload]
    <3>1. uploaded \in [Requests -> 0 .. MaxUpload] /\ MaxUpload \in Nat
      BY DEF AddressInv, ServerTypes, TunnelAssumption
    <3>2. CASE uploaded[r] < MaxUpload /\ uploaded' = [uploaded EXCEPT ![r] = @ + 1]
      BY <3>1, <3>2, CountedTo
    <3> QED
      BY <2>2, <3>1, <3>2
  <2>5. upload' \in [Requests -> {"none", "read", "end", "relay", "done"}]
    BY <2>3 DEF SetUpload, AddressInv, ServerTypes
  <2> QED
    BY <2>1, <2>4, <2>5 DEF AddressInv, ServerTypes
<1>5. ASSUME NEW r \in Requests, WorkerStep(r) \/ UpstreamCloses(r) PROVE UNCHANGED v
  BY <1>5 DEF WorkerStep, Dial, SendHead, SendSwitch, SendBody, BodyOver, SendEnd,
              RelayDown, RelayOver, UpstreamCloses, serverVars, handlerVars
<1>6. ASSUME NEW s \in Streams,
             ExchangeStep(s) \/ Break(s) \/ Connect(s) \/ DaemonRecv(s) \/ ServeOneEnds(s)
      PROVE  UNCHANGED v
  BY <1>6 DEF ExchangeStep, AttachWaits, Attach, AttachLost, Dispatch, Push, Pushed,
              RecvFails, Detach, TakeOut, CloseStale, Break, Connect, DaemonRecv,
              ServeOneEnds, serverVars, handlerVars
<1>7. CASE UNCHANGED v
  BY <1>7 DEF uploadVars, AddressInv, ServerTypes
<1> QED
  BY <1>1, <1>2, <1>3, <1>4, <1>5, <1>6, <1>7, NextMoves DEF Move

LEMMA AppendFacts ==
    ASSUME NEW S, NEW q \in Seq(S), NEW e \in S
    PROVE  /\ Append(q, e) \in Seq(S)
           /\ Len(q) \in Nat /\ Len(Append(q, e)) = Len(q) + 1
           /\ \A i \in 1 .. Len(q) : q[i] \in S /\ Append(q, e)[i] = q[i]
           /\ Append(q, e)[Len(q) + 1] = e
OBVIOUS

LEMMA TailFacts ==
    ASSUME NEW S, NEW q \in Seq(S), q # <<>>
    PROVE  /\ Tail(q) \in Seq(S)
           /\ Len(q) \in Nat \ {0} /\ Len(Tail(q)) = Len(q) - 1
           /\ \A i \in 1 .. Len(q) - 1 : Tail(q)[i] = q[i + 1]
           /\ \A i \in 1 .. Len(q) : q[i] \in S
           /\ Head(q) = q[1] /\ q[1] \in S
OBVIOUS

(* The frame at the head of a stream, as the daemon's and the server's       *)
(* receive loops take it.                                                    *)
LEMMA HeadOfDown ==
    ASSUME AddressInv, NEW s \in Streams, down[s] # <<>>
    PROVE  /\ Head(down[s]) = down[s][1] /\ 1 \in 1 .. Len(down[s])
           /\ down[s][1][1] \in Requests /\ down[s][1][2] \in DownKinds
           /\ down[s][1] = <<down[s][1][1], down[s][1][2]>>
           /\ on[down[s][1][1]] = s
<1>1. down[s] \in Seq(Requests \X DownKinds)
  BY DEF AddressInv, StreamTypes
<1>2. Head(down[s]) = down[s][1] /\ 1 \in 1 .. Len(down[s])
      /\ down[s][1] \in Requests \X DownKinds
  BY <1>1, TailFacts
<1> QED
  BY <1>2 DEF AddressInv, FramesAreAddressed

LEMMA HeadOfUp ==
    ASSUME AddressInv, NEW s \in Streams, up[s] # <<>>
    PROVE  /\ Head(up[s]) = up[s][1] /\ 1 \in 1 .. Len(up[s])
           /\ up[s][1] \in Requests \X UpKinds
           /\ up[s][1][1] \in Requests /\ up[s][1][2] \in UpKinds
           /\ up[s][1] = <<up[s][1][1], up[s][1][2]>>
           /\ on[up[s][1][1]] = s
<1>1. up[s] \in Seq(Requests \X UpKinds)
  BY DEF AddressInv, StreamTypes
<1>2. Head(up[s]) = up[s][1] /\ 1 \in 1 .. Len(up[s])
      /\ up[s][1] \in Requests \X UpKinds
  BY <1>1, TailFacts
<1> QED
  BY <1>2 DEF AddressInv, FramesAreAddressed

LEMMA DaemonTypesStep ==
    ASSUME TunnelAssumption, RegistryInv, AddressInv, [Next]_vars
    PROVE  DaemonTypes'
<1>0. DaemonTypes
  BY DEF AddressInv
<1>1. CASE UNCHANGED settledVars
  BY <1>0, <1>1 DEF settledVars, daemonVars, workVars, DaemonTypes
<1>2. ASSUME NEW r \in Requests, Register(r) \/ HandlerStep(r) PROVE UNCHANGED workVars
  BY <1>2 DEF Register, HandlerStep, SendStart, PumpStops, PumpFrame, CloseResponder,
              Unregister, AwaitStops, AwaitFrame, RelayFrame, RelayStops, Finish,
              daemonVars
<1>3. ASSUME NEW r \in Requests,
             \/ Leave(r) \/ Timeout(r) \/ UploadChunk(r) \/ UploadOver(r) \/ UploadEnd(r)
             \/ RelayChunk(r) \/ RelayReadEnds(r)
      PROVE  UNCHANGED workVars
  BY <1>3 DEF Leave, Timeout, UploadChunk, UploadOver, UploadEnd, RelayChunk,
              RelayReadEnds, daemonVars
<1>4. ASSUME NEW r \in Requests, WorkerStep(r) \/ UpstreamCloses(r) PROVE DaemonTypes'
  <2>1. UNCHANGED eof
    BY <1>4 DEF WorkerStep, Dial, SendHead, SendSwitch, SendBody, BodyOver, SendEnd,
                RelayDown, RelayOver, UpstreamCloses
  <2>2. \/ UNCHANGED worker
        \/ \E to \in {"head", "error", "switch", "body", "relay", "end", "done"} : Work(r, to)
    BY <1>4 DEF WorkerStep, Dial, SendHead, SendSwitch, SendBody, BodyOver, SendEnd,
                RelayDown, RelayOver, UpstreamCloses
  <2>3. \/ UNCHANGED pumps
        \/ pumps' = [pumps EXCEPT ![r] = {"down", "up"}]
        \/ \E p \in {"down", "up"} : PumpEnds(r, p)
    BY <1>4 DEF WorkerStep, Dial, SendHead, SendSwitch, SendBody, BodyOver, SendEnd,
                RelayDown, RelayOver, UpstreamCloses
  <2>4. UNCHANGED piped \/ (piped[r] > 0 /\ piped' = [piped EXCEPT ![r] = @ - 1])
    BY <1>4 DEF WorkerStep, Dial, SendHead, SendSwitch, SendBody, BodyOver, SendEnd,
                RelayDown, RelayOver, UpstreamCloses
  <2>5. UNCHANGED sent \/ (sent[r] < MaxDownload /\ sent' = [sent EXCEPT ![r] = @ + 1])
    BY <1>4 DEF WorkerStep, Dial, SendHead, SendSwitch, SendBody, BodyOver, SendEnd,
                RelayDown, RelayOver, UpstreamCloses
  <2>6. worker' \in [Requests -> {"none", "dial", "head", "switch", "body", "end", "error",
                                  "relay", "done"}]
    BY <1>0, <2>2 DEF Work, DaemonTypes
  <2>7. pumps' \in [Requests -> SUBSET {"down", "up"}]
    BY <1>0, <2>3 DEF PumpEnds, DaemonTypes
  <2>8. piped' \in [Requests -> Nat]
    <3>1. piped \in [Requests -> Nat]
      BY <1>0 DEF DaemonTypes
    <3>2. CASE piped[r] > 0 /\ piped' = [piped EXCEPT ![r] = @ - 1]
      <4>1. piped[r] - 1 \in Nat
        BY <3>1, <3>2
      <4> QED
        BY <3>1, <3>2, <4>1
    <3> QED
      BY <2>4, <3>1, <3>2
  <2>9. sent' \in [Requests -> 0 .. MaxDownload]
    <3>1. sent \in [Requests -> 0 .. MaxDownload] /\ MaxDownload \in Nat
      BY <1>0 DEF DaemonTypes, TunnelAssumption
    <3>2. CASE sent[r] < MaxDownload /\ sent' = [sent EXCEPT ![r] = @ + 1]
      BY <3>1, <3>2, CountedTo
    <3> QED
      BY <2>5, <3>1, <3>2
  <2> QED
    BY <1>0, <2>1, <2>6, <2>7, <2>8, <2>9 DEF DaemonTypes
<1>5. ASSUME NEW s \in Streams, ExchangeStep(s) \/ Break(s) \/ Connect(s)
      PROVE  UNCHANGED workVars
  BY <1>5 DEF ExchangeStep, AttachWaits, Attach, AttachLost, Dispatch, Push, Pushed,
              RecvFails, Detach, TakeOut, CloseStale, Break, Connect, daemonVars
<1>6. ASSUME NEW s \in Streams, DaemonRecv(s) PROVE DaemonTypes'
  <2> DEFINE r == down[s][1][1]
  <2>1. r \in Requests /\ down[s][1] = Head(down[s])
    BY <1>6, HeadOfDown DEF DaemonRecv
  <2>2. /\ worker' = worker \/ worker' = [worker EXCEPT ![r] = "dial"]
        /\ eof' = eof \/ eof' = eof \cup {r}
        /\ piped' = piped \/ piped' = [piped EXCEPT ![r] = @ + 1]
        /\ UNCHANGED <<pumps, sent>>
    BY <1>6, <2>1 DEF DaemonRecv
  <2> HIDE DEF r
  <2>3. piped' \in [Requests -> Nat]
    <3>1. piped \in [Requests -> Nat]
      BY <1>0 DEF DaemonTypes
    <3>2. CASE piped' = [piped EXCEPT ![r] = @ + 1]
      BY <2>1, <3>1, <3>2, Counted
    <3> QED
      BY <2>2, <3>1, <3>2
  <2>4. worker' \in [Requests -> {"none", "dial", "head", "switch", "body", "end", "error",
                                  "relay", "done"}]
    BY <1>0, <2>1, <2>2 DEF DaemonTypes
  <2> QED
    BY <1>0, <2>1, <2>2, <2>3, <2>4 DEF DaemonTypes
<1>7. ASSUME NEW s \in Streams, ServeOneEnds(s) PROVE DaemonTypes'
  BY <1>0, <1>7 DEF ServeOneEnds, DaemonTypes
<1>8. CASE UNCHANGED workVars
  BY <1>0, <1>8 DEF workVars, DaemonTypes
<1> QED
  BY <1>1, <1>2, <1>3, <1>4, <1>5, <1>6, <1>7, <1>8, NextMoves DEF Move

LEMMA BufferTypesStep ==
    ASSUME TunnelAssumption, RegistryInv, AddressInv, [Next]_vars
    PROVE  BufferTypes'
<1> DEFINE v == <<buffer, pushing>>
<1>0. BufferTypes
  BY DEF AddressInv
<1>1. CASE UNCHANGED settledVars
  BY <1>0, <1>1 DEF settledVars, serverVars, loopVars, BufferTypes
<1>2. ASSUME NEW r \in Requests, Register(r) \/ HandlerStep(r) PROVE BufferTypes'
  <2>1. UNCHANGED pushing /\ (UNCHANGED buffer \/ NextFrame(r))
    BY <1>2 DEF Register, HandlerStep, SendStart, PumpStops, PumpFrame, CloseResponder,
                Unregister, AwaitStops, AwaitFrame, RelayFrame, RelayStops, Finish,
                loopVars
  <2>2. CASE NextFrame(r)
    <3>1. /\ Tail(buffer[r]) \in Seq(UpKinds) /\ Len(Tail(buffer[r])) = Len(buffer[r]) - 1
          /\ Len(buffer[r]) \in Nat
      BY <1>0, <2>2, TailFacts DEF NextFrame, BufferTypes
    <3>2. /\ buffer' \in [Requests -> Seq(UpKinds)]
          /\ \A q \in Requests : Len(buffer'[q]) <= BufCap
      BY <1>0, <2>2, <3>1 DEF NextFrame, BufferTypes, TunnelAssumption
    <3> QED
      BY <1>0, <2>1, <3>2 DEF BufferTypes
  <2> QED
    BY <1>0, <2>1, <2>2 DEF BufferTypes
<1>3. ASSUME NEW r \in Requests,
             \/ Leave(r) \/ Timeout(r) \/ UploadChunk(r) \/ UploadOver(r) \/ UploadEnd(r)
             \/ RelayChunk(r) \/ RelayReadEnds(r)
      PROVE  UNCHANGED v
  BY <1>3 DEF Leave, Timeout, UploadChunk, UploadOver, UploadEnd, RelayChunk,
              RelayReadEnds, serverVars, loopVars
<1>4. ASSUME NEW r \in Requests, WorkerStep(r) \/ UpstreamCloses(r) PROVE UNCHANGED v
  BY <1>4 DEF WorkerStep, Dial, SendHead, SendSwitch, SendBody, BodyOver, SendEnd,
              RelayDown, RelayOver, UpstreamCloses, serverVars, loopVars
<1>5. ASSUME NEW s \in Streams,
             \/ AttachWaits(s) \/ Attach(s) \/ AttachLost(s) \/ RecvFails(s) \/ Detach(s)
             \/ CloseStale(s) \/ Break(s) \/ Connect(s) \/ DaemonRecv(s) \/ ServeOneEnds(s)
      PROVE  UNCHANGED v
  BY <1>5 DEF AttachWaits, Attach, AttachLost, RecvFails, Detach, TakeOut, CloseStale,
              Break, Connect, DaemonRecv, ServeOneEnds, serverVars, loopVars
<1>6. ASSUME NEW s \in Streams, Dispatch(s) PROVE BufferTypes'
  <2>1. UNCHANGED buffer
        /\ (UNCHANGED pushing \/ pushing' = [pushing EXCEPT ![s] = Head(up[s])])
    BY <1>6 DEF Dispatch, serverVars, loopVars
  <2>2. Head(up[s]) \in Requests \X UpKinds
    BY <1>6, HeadOfUp DEF Dispatch
  <2> QED
    BY <1>0, <2>1, <2>2 DEF BufferTypes
<1>7. ASSUME NEW s \in Streams, Push(s) PROVE BufferTypes'
  <2> DEFINE r == pushing[s][1]  k == pushing[s][2]
  <2>1. pushing' \in [Streams -> {<<>>} \cup (Requests \X UpKinds)]
    BY <1>0, <1>7 DEF Push, Pushed, BufferTypes
  <2>2. r \in Requests /\ k \in UpKinds
    BY <1>7 DEF Push, Pushed, AddressInv, PushingIsAddressed
  <2>3. \/ UNCHANGED buffer
        \/ Len(buffer[r]) < BufCap /\ buffer' = [buffer EXCEPT ![r] = Append(@, k)]
    BY <1>7 DEF Push, Fits
  <2> HIDE DEF r, k
  <2>4. CASE Len(buffer[r]) < BufCap /\ buffer' = [buffer EXCEPT ![r] = Append(@, k)]
    <3>1. /\ Append(buffer[r], k) \in Seq(UpKinds)
          /\ Len(Append(buffer[r], k)) = Len(buffer[r]) + 1
          /\ Len(buffer[r]) \in Nat
      BY <1>0, <2>2, AppendFacts DEF BufferTypes
    <3>2. /\ buffer' \in [Requests -> Seq(UpKinds)]
          /\ \A q \in Requests : Len(buffer'[q]) <= BufCap
      BY <1>0, <2>2, <2>4, <3>1 DEF BufferTypes, TunnelAssumption
    <3> QED
      BY <2>1, <3>2 DEF BufferTypes
  <2> QED
    BY <1>0, <2>1, <2>3, <2>4 DEF BufferTypes
<1>8. CASE UNCHANGED v
  BY <1>0, <1>8 DEF BufferTypes
<1> QED
  BY <1>1, <1>2, <1>3, <1>4, <1>5, <1>6, <1>7, <1>8, NextMoves DEF Move, ExchangeStep

(* What a step does to the frames under way to the daemon. *)
DownGrows(r, k) ==
    /\ down' = [down EXCEPT ![on[r]] = Append(@, <<r, k>>)]
    /\ on[r] \in Streams /\ Len(down[on[r]]) < DownCap
    /\ k = "start" => handler[r] = "start" /\ \E to \in {"pump", "await"} : Goto(r, to)
    /\ k # "start" => UNCHANGED handler \/ Goto(r, "join")
    /\ UNCHANGED <<worker, on>>

LEMMA DownEffects ==
    ASSUME RegistryInv, AddressInv, [Next]_vars
    PROVE  \/ UNCHANGED down
           \/ \E r \in Requests, k \in DownKinds : DownGrows(r, k)
           \/ \E s \in Streams : DaemonRecv(s) \/ Break(s)
<1> DEFINE Grows == \E r \in Requests, k \in DownKinds : DownGrows(r, k)
<1>1. CASE UNCHANGED settledVars
  BY <1>1 DEF settledVars, netVars
<1>2. ASSUME NEW r \in Requests,
             \/ Register(r) \/ PumpStops(r) \/ PumpFrame(r) \/ CloseResponder(r)
             \/ Unregister(r) \/ AwaitStops(r) \/ AwaitFrame(r) \/ RelayFrame(r)
             \/ RelayStops(r) \/ Leave(r) \/ Timeout(r) \/ UploadOver(r)
             \/ RelayReadEnds(r)
      PROVE  UNCHANGED down
  BY <1>2 DEF Register, PumpStops, PumpFrame, CloseResponder, Unregister, AwaitStops,
              AwaitFrame, RelayFrame, RelayStops, Leave, Timeout, UploadOver,
              RelayReadEnds, netVars
<1>3. ASSUME NEW r \in Requests,
             SendStart(r) \/ Finish(r) \/ UploadChunk(r) \/ UploadEnd(r) \/ RelayChunk(r)
      PROVE  UNCHANGED down \/ Grows
  <2>1. UNCHANGED <<worker, on>>
    BY <1>3 DEF SendStart, Finish, UploadChunk, UploadEnd, RelayChunk, handlerVars,
                daemonVars, workVars
  <2>2. on[r] \in Streams
    BY <1>3 DEF SendStart, Finish, UploadChunk, UploadEnd, RelayChunk, AddressInv,
                RequestsHaveStreams
  <2>3. CASE SendStart(r)
    <3>1. \/ UNCHANGED down
          \/ /\ ToDaemon(on[r], r, "start") /\ handler[r] = "start"
             /\ \E to \in {"pump", "await"} : Goto(r, to)
      BY <2>3 DEF SendStart
    <3> QED
      BY <2>1, <2>2, <3>1 DEF ToDaemon, DownGrows, DownKinds
  <2>4. CASE Finish(r)
    BY <2>1, <2>2, <2>4 DEF Finish, ToDaemon, DownGrows, DownKinds
  <2>5. CASE UploadChunk(r) \/ UploadEnd(r) \/ RelayChunk(r)
    <3>1. UNCHANGED down \/ \E k \in {"chunk", "end"} : ToDaemon(on[r], r, k)
      BY <2>5 DEF UploadChunk, UploadEnd, RelayChunk
    <3>2. UNCHANGED handler
      BY <2>5 DEF UploadChunk, UploadEnd, RelayChunk, handlerVars
    <3> QED
      BY <2>1, <2>2, <3>1, <3>2 DEF ToDaemon, DownGrows, DownKinds
  <2> QED
    BY <1>3, <2>3, <2>4, <2>5
<1>4. ASSUME NEW r \in Requests, WorkerStep(r) \/ UpstreamCloses(r) PROVE UNCHANGED down
  BY <1>4 DEF WorkerStep, Dial, SendHead, SendSwitch, SendBody, BodyOver, SendEnd,
              RelayDown, RelayOver, UpstreamCloses, netVars
<1>5. ASSUME NEW s \in Streams, ExchangeStep(s) \/ Connect(s) \/ ServeOneEnds(s)
      PROVE  UNCHANGED down
  BY <1>5 DEF ExchangeStep, AttachWaits, Attach, AttachLost, Dispatch, Push, Pushed,
              RecvFails, Detach, TakeOut, CloseStale, Connect, ServeOneEnds, netVars
<1> QED
  BY <1>1, <1>2, <1>3, <1>4, <1>5, NextMoves DEF Move, HandlerStep

(* What a step does to the frames under way to the server: SendHead,         *)
(* SendSwitch, SendBody and SendEnd append one, Dispatch takes one.          *)
UpGrows(r, k) ==
    /\ on[r] \in Streams
    /\ worker[r] \notin {"none", "done"}
    /\ ToServer(r, k)
    /\ UNCHANGED <<registryVars, buffer, handlerVars, loopVars>>
    /\ \/ k = "head" /\ SendHead(r)
       \/ k = "switch" /\ SendSwitch(r)
       \/ k = "body" /\ SendBody(r)
       \/ k \in {"end", "error"} /\ SendEnd(r)

LEMMA SendingStep ==
    ASSUME AddressInv, NEW r \in Requests, WorkerStep(r) \/ UpstreamCloses(r)
    PROVE  \/ Dial(r) \/ BodyOver(r) \/ RelayDown(r) \/ RelayOver(r) \/ UpstreamCloses(r)
           \/ \E k \in UpKinds : UpGrows(r, k)
<1>1. ASSUME SendHead(r) \/ SendSwitch(r) \/ SendBody(r) \/ SendEnd(r)
      PROVE  \E k \in UpKinds : UpGrows(r, k)
  <2>1. worker[r] \notin {"none", "done"}
    BY <1>1 DEF SendHead, SendSwitch, SendBody, SendEnd, AddressInv, PumpsRelay
  <2>2. on[r] \in Streams
    BY <2>1 DEF AddressInv, RequestsHaveStreams
  <2>3. UNCHANGED <<registryVars, buffer, handlerVars, loopVars>>
    BY <1>1 DEF SendHead, SendSwitch, SendBody, SendEnd, serverVars
  <2>4. \E k \in UpKinds :
            /\ ToServer(r, k)
            /\ \/ k = "head" /\ SendHead(r)
               \/ k = "switch" /\ SendSwitch(r)
               \/ k = "body" /\ SendBody(r)
               \/ k \in {"end", "error"} /\ SendEnd(r)
    BY <1>1 DEF SendHead, SendSwitch, SendBody, SendEnd, UpKinds
  <2> QED
    BY <2>1, <2>2, <2>3, <2>4 DEF UpGrows
<1> QED
  BY <1>1 DEF WorkerStep

LEMMA UpEffects ==
    ASSUME RegistryInv, AddressInv, [Next]_vars
    PROVE  \/ UNCHANGED up
           \/ \E r \in Requests, k \in UpKinds : UpGrows(r, k)
           \/ \E s \in Streams : Dispatch(s)
<1>1. CASE UNCHANGED settledVars
  BY <1>1 DEF settledVars, netVars
<1>2. ASSUME NEW r \in Requests, Register(r) \/ HandlerStep(r) PROVE UNCHANGED up
  BY <1>2 DEF Register, HandlerStep, SendStart, PumpStops, PumpFrame, CloseResponder,
              Unregister, AwaitStops, AwaitFrame, RelayFrame, RelayStops, Finish, netVars
<1>3. ASSUME NEW r \in Requests,
             \/ Leave(r) \/ Timeout(r) \/ UploadChunk(r) \/ UploadOver(r) \/ UploadEnd(r)
             \/ RelayChunk(r) \/ RelayReadEnds(r)
      PROVE  UNCHANGED up
  BY <1>3 DEF Leave, Timeout, UploadChunk, UploadOver, UploadEnd, RelayChunk,
              RelayReadEnds, netVars
<1>4. ASSUME NEW r \in Requests,
             Dial(r) \/ BodyOver(r) \/ RelayDown(r) \/ RelayOver(r) \/ UpstreamCloses(r)
      PROVE  UNCHANGED up
  BY <1>4 DEF Dial, BodyOver, RelayDown, RelayOver, UpstreamCloses, netVars
<1>5. ASSUME NEW r \in Requests, WorkerStep(r) \/ UpstreamCloses(r)
      PROVE  UNCHANGED up \/ \E k \in UpKinds : UpGrows(r, k)
  BY <1>4, <1>5, SendingStep
<1>6. ASSUME NEW s \in Streams,
             \/ AttachWaits(s) \/ Attach(s) \/ AttachLost(s) \/ Push(s) \/ RecvFails(s)
             \/ Detach(s) \/ CloseStale(s) \/ Break(s) \/ Connect(s) \/ DaemonRecv(s)
             \/ ServeOneEnds(s)
      PROVE  UNCHANGED up
  BY <1>6 DEF AttachWaits, Attach, AttachLost, Push, Pushed, RecvFails, Detach, TakeOut,
              CloseStale, Break, Connect, DaemonRecv, ServeOneEnds, netVars
<1> QED
  BY <1>1, <1>2, <1>3, <1>5, <1>6, NextMoves DEF Move, ExchangeStep

(* Pointwise: the frames after DownGrows, DaemonRecv, Break, UpGrows and     *)
(* Dispatch.                                                                 *)
LEMMA DownGrown ==
    ASSUME TunnelAssumption, AddressInv, NEW r \in Requests, NEW k \in DownKinds, DownGrows(r, k)
    PROVE  /\ down' \in [Streams -> Seq(Requests \X DownKinds)]
           /\ \A t \in Streams : Len(down'[t]) <= DownCap
           /\ \A s \in Streams : s # on[r] => down'[s] = down[s]
           /\ Len(down[on[r]]) \in Nat /\ Len(down'[on[r]]) = Len(down[on[r]]) + 1
           /\ \A i \in 1 .. Len(down[on[r]]) : down'[on[r]][i] = down[on[r]][i]
           /\ down'[on[r]][Len(down[on[r]]) + 1] = <<r, k>>
<1> DEFINE s == on[r]  e == <<r, k>>
<1>1. /\ s \in Streams /\ down' = [down EXCEPT ![s] = Append(@, e)]
      /\ down \in [Streams -> Seq(Requests \X DownKinds)]
      /\ \A t \in Streams : Len(down[t]) <= DownCap
      /\ Len(down[s]) < DownCap /\ DownCap \in Nat
      /\ e \in Requests \X DownKinds
  BY DEF DownGrows, AddressInv, StreamTypes, TunnelAssumption
<1> HIDE DEF s, e
<1>2. /\ Append(down[s], e) \in Seq(Requests \X DownKinds)
      /\ Len(down[s]) \in Nat /\ Len(Append(down[s], e)) = Len(down[s]) + 1
      /\ \A i \in 1 .. Len(down[s]) : Append(down[s], e)[i] = down[s][i]
      /\ Append(down[s], e)[Len(down[s]) + 1] = e
  BY <1>1, AppendFacts
<1>3. down'[s] = Append(down[s], e) /\ \A t \in Streams : t # s => down'[t] = down[t]
  BY <1>1
<1>4. down' \in [Streams -> Seq(Requests \X DownKinds)]
  BY <1>1, <1>2
<1>5. \A t \in Streams : Len(down'[t]) <= DownCap
  BY <1>1, <1>2, <1>3
<1> QED
  BY <1>2, <1>3, <1>4, <1>5 DEF s, e

LEMMA DownTaken ==
    ASSUME TunnelAssumption, AddressInv, NEW s \in Streams, DaemonRecv(s)
    PROVE  /\ down' \in [Streams -> Seq(Requests \X DownKinds)]
           /\ \A t \in Streams : Len(down'[t]) <= DownCap
           /\ \A t \in Streams : t # s => down'[t] = down[t]
           /\ Len(down[s]) \in Nat \ {0} /\ Len(down'[s]) = Len(down[s]) - 1
           /\ \A i \in 1 .. Len(down'[s]) :
                i + 1 \in 2 .. Len(down[s]) /\ down'[s][i] = down[s][i + 1]
<1>1. /\ down' = [down EXCEPT ![s] = Tail(@)] /\ down[s] # <<>>
      /\ down \in [Streams -> Seq(Requests \X DownKinds)]
      /\ \A t \in Streams : Len(down[t]) <= DownCap
      /\ DownCap \in Nat
  BY DEF DaemonRecv, AddressInv, StreamTypes, TunnelAssumption
<1>2. /\ Tail(down[s]) \in Seq(Requests \X DownKinds)
      /\ Len(down[s]) \in Nat \ {0} /\ Len(Tail(down[s])) = Len(down[s]) - 1
      /\ \A i \in 1 .. Len(down[s]) - 1 : Tail(down[s])[i] = down[s][i + 1]
  BY <1>1, TailFacts
<1>3. down'[s] = Tail(down[s]) /\ \A t \in Streams : t # s => down'[t] = down[t]
  BY <1>1
<1>4. down' \in [Streams -> Seq(Requests \X DownKinds)]
  BY <1>1, <1>2
<1>5. \A t \in Streams : Len(down'[t]) <= DownCap
  BY <1>1, <1>2, <1>3
<1> QED
  BY <1>2, <1>3, <1>4, <1>5

LEMMA DownLost ==
    ASSUME TunnelAssumption, AddressInv, NEW s \in Streams, Break(s)
    PROVE  /\ down' \in [Streams -> Seq(Requests \X DownKinds)]
           /\ \A t \in Streams : Len(down'[t]) <= DownCap
           /\ \A t \in Streams : t # s => down'[t] = down[t]
           /\ down'[s] = <<>> /\ Len(down'[s]) = 0
           /\ UNCHANGED <<on, worker, handler>>
<1>1. <<>> \in Seq(Requests \X DownKinds)
  OBVIOUS
<1>2. /\ down' = [down EXCEPT ![s] = <<>>]
      /\ down \in [Streams -> Seq(Requests \X DownKinds)]
      /\ \A t \in Streams : Len(down[t]) <= DownCap
      /\ UNCHANGED <<on, worker, handler>>
  BY DEF Break, AddressInv, StreamTypes, serverVars, handlerVars, daemonVars, workVars
<1>3. /\ down'[s] = <<>> /\ Len(down'[s]) = 0
      /\ \A t \in Streams : t # s => down'[t] = down[t]
  BY <1>2
<1>4. \A t \in Streams : Len(down'[t]) <= DownCap
  BY <1>2, <1>3 DEF TunnelAssumption
<1> QED
  BY <1>1, <1>2, <1>3, <1>4

LEMMA UpGrown ==
    ASSUME TunnelAssumption, AddressInv, NEW r \in Requests, NEW k \in UpKinds, UpGrows(r, k)
    PROVE  /\ up' \in [Streams -> Seq(Requests \X UpKinds)]
           /\ \A s \in Streams : Len(up'[s]) <= UpCap
           /\ \A s \in Streams : s # on[r] => up'[s] = up[s]
           /\ up'[on[r]] = Append(up[on[r]], <<r, k>>)
           /\ Len(up[on[r]]) \in Nat /\ Len(up'[on[r]]) = Len(up[on[r]]) + 1
           /\ \A i \in 1 .. Len(up[on[r]]) : up'[on[r]][i] = up[on[r]][i]
           /\ up'[on[r]][Len(up[on[r]]) + 1] = <<r, k>>
           /\ UNCHANGED on
<1> DEFINE s == on[r]  e == <<r, k>>
<1>1. /\ s \in Streams /\ up' = [up EXCEPT ![s] = Append(@, e)] /\ Len(up[s]) < UpCap
      /\ up \in [Streams -> Seq(Requests \X UpKinds)]
      /\ \A t \in Streams : Len(up[t]) <= UpCap
      /\ e \in Requests \X UpKinds /\ UpCap \in Nat
      /\ UNCHANGED on
  BY DEF UpGrows, ToServer, handlerVars, AddressInv, StreamTypes, TunnelAssumption
<1> HIDE DEF s, e
<1>2. /\ Append(up[s], e) \in Seq(Requests \X UpKinds)
      /\ Len(up[s]) \in Nat /\ Len(Append(up[s], e)) = Len(up[s]) + 1
      /\ \A i \in 1 .. Len(up[s]) : Append(up[s], e)[i] = up[s][i]
      /\ Append(up[s], e)[Len(up[s]) + 1] = e
  BY <1>1, AppendFacts
<1>3. up'[s] = Append(up[s], e) /\ \A t \in Streams : t # s => up'[t] = up[t]
  BY <1>1
<1>4. up' \in [Streams -> Seq(Requests \X UpKinds)]
  BY <1>1, <1>2
<1>5. \A t \in Streams : Len(up'[t]) <= UpCap
  BY <1>1, <1>2, <1>3
<1> QED
  BY <1>1, <1>2, <1>3, <1>4, <1>5 DEF s, e

LEMMA UpTaken ==
    ASSUME TunnelAssumption, AddressInv, NEW s \in Streams, Dispatch(s)
    PROVE  /\ up' \in [Streams -> Seq(Requests \X UpKinds)]
           /\ \A t \in Streams : Len(up'[t]) <= UpCap
           /\ \A t \in Streams : t # s => up'[t] = up[t]
           /\ up'[s] = Tail(up[s]) /\ up[s] # <<>>
           /\ Len(up[s]) \in Nat \ {0} /\ Len(up'[s]) = Len(up[s]) - 1
           /\ \A i \in 1 .. Len(up'[s]) :
                i + 1 \in 2 .. Len(up[s]) /\ up'[s][i] = up[s][i + 1]
           /\ UNCHANGED <<on, worker, handler, registered, closed, stale, buffer>>
           /\ UNCHANGED <<written, sent, answer, pumps>>
<1>1. /\ up' = [up EXCEPT ![s] = Tail(@)] /\ up[s] # <<>>
      /\ up \in [Streams -> Seq(Requests \X UpKinds)]
      /\ \A t \in Streams : Len(up[t]) <= UpCap
      /\ UpCap \in Nat
  BY DEF Dispatch, AddressInv, StreamTypes, TunnelAssumption
<1>2. /\ UNCHANGED <<on, worker, handler, registered, closed, stale, buffer>>
      /\ UNCHANGED <<written, sent, answer, pumps>>
  BY DEF Dispatch, serverVars, registryVars, handlerVars, daemonVars, workVars
<1>3. /\ Tail(up[s]) \in Seq(Requests \X UpKinds)
      /\ Len(up[s]) \in Nat \ {0} /\ Len(Tail(up[s])) = Len(up[s]) - 1
      /\ \A i \in 1 .. Len(up[s]) - 1 : Tail(up[s])[i] = up[s][i + 1]
  BY <1>1, TailFacts
<1>4. up'[s] = Tail(up[s]) /\ \A t \in Streams : t # s => up'[t] = up[t]
  BY <1>1
<1>5. up' \in [Streams -> Seq(Requests \X UpKinds)]
  BY <1>1, <1>3
<1>6. \A t \in Streams : Len(up'[t]) <= UpCap
  BY <1>1, <1>3, <1>4
<1> QED
  BY <1>1, <1>2, <1>3, <1>4, <1>5, <1>6

LEMMA StreamTypesStep ==
    ASSUME TunnelAssumption, RegistryInv, AddressInv, [Next]_vars
    PROVE  StreamTypes'
<1>1. /\ down' \in [Streams -> Seq(Requests \X DownKinds)]
      /\ \A s \in Streams : Len(down'[s]) <= DownCap
  BY DownEffects, DownGrown, DownTaken, DownLost DEF AddressInv, StreamTypes
<1>2. /\ up' \in [Streams -> Seq(Requests \X UpKinds)]
      /\ \A s \in Streams : Len(up'[s]) <= UpCap
  BY UpEffects, UpGrown, UpTaken DEF AddressInv, StreamTypes
<1> QED
  BY <1>1, <1>2 DEF StreamTypes

(* Whoever has the mutex of a stream, blocked in Send, gives it back when    *)
(* Send returns.                                                             *)
LEMMA SendingEffects ==
    ASSUME [Next]_vars
    PROVE  \/ UNCHANGED sending
           \/ \E r \in Requests : sending' = [sending EXCEPT ![on[r]] = <<>>]
           \/ \E r \in Requests, k \in DownKinds : SendBlocks(r, k)
<1>1. CASE UNCHANGED vars
  BY <1>1 DEF vars, netVars
<1>2. ASSUME NEW r \in Requests,
             SendStart(r) \/ Finish(r) \/ UploadChunk(r) \/ UploadEnd(r) \/ RelayChunk(r)
      PROVE  sending' = [sending EXCEPT ![on[r]] = <<>>]
  BY <1>2 DEF SendStart, Finish, UploadChunk, UploadEnd, RelayChunk, SendReturns
<1>3. ASSUME NEW r \in Requests,
             \/ Register(r) \/ PumpStops(r) \/ PumpFrame(r) \/ CloseResponder(r)
             \/ Unregister(r) \/ AwaitStops(r) \/ AwaitFrame(r) \/ RelayFrame(r)
             \/ RelayStops(r) \/ Leave(r) \/ Timeout(r) \/ UploadOver(r)
             \/ RelayReadEnds(r)
      PROVE  UNCHANGED sending
  BY <1>3 DEF Register, PumpStops, PumpFrame, CloseResponder, Unregister, AwaitStops,
              AwaitFrame, RelayFrame, RelayStops, Leave, Timeout, UploadOver,
              RelayReadEnds, netVars
<1>4. ASSUME NEW r \in Requests, WorkerStep(r) \/ UpstreamCloses(r)
      PROVE  UNCHANGED sending
  BY <1>4 DEF WorkerStep, Dial, SendHead, SendSwitch, SendBody, BodyOver, SendEnd,
              RelayDown, RelayOver, UpstreamCloses, netVars
<1>5. ASSUME NEW s \in Streams,
             ExchangeStep(s) \/ Break(s) \/ Connect(s) \/ DaemonRecv(s) \/ ServeOneEnds(s)
      PROVE  UNCHANGED sending
  BY <1>5 DEF ExchangeStep, AttachWaits, Attach, AttachLost, Dispatch, Push, Pushed,
              RecvFails, Detach, TakeOut, CloseStale, Break, Connect, DaemonRecv,
              ServeOneEnds, netVars
<1> QED
  BY <1>1, <1>2, <1>3, <1>4, <1>5 DEF Next, Move, HandlerStep

LEMMA SendingTypesStep ==
    ASSUME AddressInv, [Next]_vars
    PROVE  SendingTypes'
<1>0. SendingTypes
  BY DEF AddressInv
<1>1. CASE UNCHANGED sending
  BY <1>0, <1>1 DEF SendingTypes
<1>2. ASSUME NEW r \in Requests, sending' = [sending EXCEPT ![on[r]] = <<>>]
      PROVE  SendingTypes'
  BY <1>0, <1>2 DEF SendingTypes
<1>3. ASSUME NEW r \in Requests, NEW k \in DownKinds, SendBlocks(r, k)
      PROVE  SendingTypes'
  BY <1>0, <1>3 DEF SendingTypes, SendBlocks
<1> QED
  BY <1>1, <1>2, <1>3, SendingEffects

(* What a step does to the progress of handlers, uploads and workers: after  *)
(* Register it concerns a request that has a stream.                         *)
LEMMA ProgressEffects ==
    ASSUME TunnelAssumption, RegistryInv, AddressInv, [Next]_vars
    PROVE  \/ \E r \in Requests : Register(r)
           \/ /\ UNCHANGED on
              /\ \A q \in Requests :
                    \/ on[q] \in Streams /\ handler'[q] # "new"
                    \/ /\ handler'[q] = handler[q] /\ upload'[q] = upload[q]
                       /\ worker'[q] = worker[q]
<1> DEFINE Stays(q) == /\ handler'[q] = handler[q] /\ upload'[q] = upload[q]
                       /\ worker'[q] = worker[q]
           Moves(q) == on[q] \in Streams /\ handler'[q] # "new"
           Others(r) == UNCHANGED on /\ \A q \in Requests : q # r => Stays(q)
           Goal == UNCHANGED on /\ \A q \in Requests : Moves(q) \/ Stays(q)
<1>0. /\ handler \in [Requests -> HandlerStates]
      /\ upload \in [Requests -> {"none", "read", "end", "relay", "done"}]
      /\ worker \in [Requests -> {"none", "dial", "head", "switch", "body", "end", "error",
                                  "relay", "done"}]
  BY DEF RegistryInv, RegistryTypes, AddressInv, ServerTypes, DaemonTypes
<1>1. CASE UNCHANGED settledVars
  BY <1>1 DEF settledVars, serverVars, handlerVars, uploadVars, daemonVars, workVars
<1>2. ASSUME NEW r \in Requests, HandlerStep(r) PROVE Goal
  <2>1. UNCHANGED <<on, worker>>
    BY <1>2 DEF HandlerStep, SendStart, PumpStops, PumpFrame, CloseResponder,
                Unregister, AwaitStops, AwaitFrame, RelayFrame, RelayStops, Finish,
                daemonVars, workVars
  <2>2. on[r] \in Streams
    <3>1. handler[r] \notin {"new", "done"}
      BY <1>2 DEF HandlerStep, SendStart, PumpStops, PumpFrame, CloseResponder,
                  Unregister, AwaitStops, AwaitFrame, RelayFrame, RelayStops, Finish
    <3> QED
      BY <3>1 DEF AddressInv, RequestsHaveStreams
  <2>3. \/ UNCHANGED handler /\ handler[r] # "new"
        \/ \E to \in HandlerStates \ {"new"} : Goto(r, to)
    BY <1>2 DEF HandlerStep, SendStart, PumpStops, PumpFrame, CloseResponder,
                Unregister, AwaitStops, AwaitFrame, RelayFrame, RelayStops, Finish,
                HandlerStates
  <2>4. \/ UNCHANGED upload
        \/ \E to \in {"none", "end", "read", "relay"} : SetUpload(r, to)
    BY <1>2 DEF HandlerStep, SendStart, PumpStops, PumpFrame, CloseResponder,
                Unregister, AwaitStops, AwaitFrame, RelayFrame, RelayStops, Finish,
                uploadVars
  <2>5. /\ handler'[r] # "new"
        /\ \A q \in Requests : q # r => handler'[q] = handler[q] /\ upload'[q] = upload[q]
    BY <1>0, <2>3, <2>4 DEF Goto, SetUpload
  <2> QED
    BY <2>1, <2>2, <2>5
<1>3. ASSUME NEW r \in Requests, Leave(r) \/ Timeout(r) PROVE Goal
  BY <1>3 DEF Leave, Timeout, serverVars, handlerVars, uploadVars, daemonVars, workVars
<1>4. ASSUME NEW r \in Requests,
             UploadChunk(r) \/ UploadOver(r) \/ UploadEnd(r) \/ RelayChunk(r)
                \/ RelayReadEnds(r)
      PROVE  Goal
  <2>1. UNCHANGED <<on, worker, handler>> /\ upload[r] # "none"
    BY <1>4 DEF UploadChunk, UploadOver, UploadEnd, RelayChunk, RelayReadEnds,
                handlerVars, daemonVars, workVars
  <2>2. UNCHANGED upload \/ \E to \in {"read", "end", "done"} : SetUpload(r, to)
    BY <1>4 DEF UploadChunk, UploadOver, UploadEnd, RelayChunk, RelayReadEnds
  <2>3. on[r] \in Streams /\ handler[r] # "new"
    BY <2>1 DEF AddressInv, RequestsHaveStreams, Streams, NoStream
  <2>4. \A q \in Requests : q # r => upload'[q] = upload[q]
    BY <1>0, <2>2 DEF SetUpload
  <2> QED
    BY <2>1, <2>3, <2>4
<1>5. ASSUME NEW r \in Requests, WorkerStep(r) \/ UpstreamCloses(r) PROVE Goal
  <2>1. UNCHANGED <<on, upload, handler>>
    BY <1>5 DEF WorkerStep, Dial, SendHead, SendSwitch, SendBody, BodyOver, SendEnd,
                RelayDown, RelayOver, UpstreamCloses, serverVars, handlerVars, uploadVars
  <2>2. \/ UNCHANGED worker
        \/ worker[r] # "none" /\ \E to \in {"head", "error", "switch", "body", "relay", "end",
                                          "done"} : Work(r, to)
    BY <1>5 DEF WorkerStep, Dial, SendHead, SendSwitch, SendBody, BodyOver, SendEnd,
                RelayDown, RelayOver, UpstreamCloses
  <2>3. CASE UNCHANGED worker
    BY <2>1, <2>3
  <2>4. CASE worker[r] # "none" /\ \E to \in {"head", "error", "switch", "body", "relay",
                                             "end", "done"} : Work(r, to)
    <3>1. on[r] \in Streams /\ handler[r] # "new"
      BY <2>4 DEF AddressInv, RequestsHaveStreams, Streams, NoStream
    <3>2. \A q \in Requests : q # r => worker'[q] = worker[q]
      BY <1>0, <2>4 DEF Work
    <3> QED
      BY <2>1, <3>1, <3>2
  <2> QED
    BY <2>2, <2>3, <2>4
<1>6. ASSUME NEW s \in Streams, ExchangeStep(s) \/ Break(s) \/ Connect(s) PROVE Goal
  <2>1. UNCHANGED <<on, upload, handler, worker>>
    BY <1>6 DEF ExchangeStep, AttachWaits, Attach, AttachLost, Dispatch, Push, Pushed,
                RecvFails, Detach, TakeOut, CloseStale, Break, Connect, serverVars,
                handlerVars, uploadVars, daemonVars, workVars
  <2> QED
    BY <2>1
<1>7. ASSUME NEW s \in Streams, DaemonRecv(s) PROVE Goal
  <2> DEFINE r == down[s][1][1]
  <2>1. UNCHANGED <<on, upload, handler>>
    BY <1>7 DEF DaemonRecv, serverVars, handlerVars, uploadVars
  <2>2. r \in Requests /\ on[r] = s /\ down[s][1] = Head(down[s])
    BY <1>7, HeadOfDown DEF DaemonRecv
  <2>3. worker' = worker \/ worker' = [worker EXCEPT ![r] = "dial"]
    BY <1>7, <2>2 DEF DaemonRecv
  <2> HIDE DEF r
  <2>4. handler[r] # "new"
    BY <2>2 DEF AddressInv, RequestsHaveStreams, Streams, NoStream
  <2>5. \A q \in Requests : q # r => worker'[q] = worker[q]
    BY <1>0, <2>3
  <2> QED
    BY <2>1, <2>2, <2>4, <2>5
<1>8. ASSUME NEW s \in Streams, ServeOneEnds(s) PROVE Goal
  <2>1. UNCHANGED <<on, upload, handler>>
    BY <1>8 DEF ServeOneEnds, serverVars, handlerVars, uploadVars
  <2>2. \A q \in Requests : worker'[q] = worker[q] \/ on[q] = s
    BY <1>8 DEF ServeOneEnds
  <2>3. \A q \in Requests : on[q] = s => handler[q] # "new"
    BY DEF AddressInv, RequestsHaveStreams, Streams, NoStream
  <2> QED
    BY <2>1, <2>2, <2>3
<1> QED
  BY <1>1, <1>2, <1>3, <1>4, <1>5, <1>6, <1>7, <1>8, NextMoves DEF Move

LEMMA RegisterEffects ==
    ASSUME RegistryInv, AddressInv, NEW r \in Requests, Register(r)
    PROVE  /\ handler[r] = "new" /\ handler'[r] \in {"start", "done"}
           /\ \A q \in Requests : q # r => handler'[q] = handler[q]
           /\ \A q \in Requests : q # r => on'[q] = on[q]
           /\ handler'[r] = "start" => on'[r] = current /\ current \in Streams
           /\ handler'[r] = "done" => on'[r] = on[r]
           /\ UNCHANGED <<upload, worker, down, up, pushing, exchange, buffer, written>>
           /\ UNCHANGED <<sent, pumps>>
           /\ on[r] = NoStream /\ worker[r] = "none"
<1>1. /\ UNCHANGED <<upload, worker, down, up, pushing, exchange, buffer, written>>
      /\ UNCHANGED <<sent, pumps>>
      /\ handler[r] = "new"
  BY DEF Register, uploadVars, daemonVars, workVars, netVars, loopVars
<1>2. on[r] = NoStream /\ worker[r] = "none"
  BY <1>1 DEF AddressInv, RequestsHaveStreams, StartedOnce
<1>3. CASE current = NoStream
  <2>1. handler' = [handler EXCEPT ![r] = "done"] /\ UNCHANGED on
    BY <1>3 DEF Register, Goto
  <2> QED
    BY <1>1, <1>2, <2>1 DEF RegistryInv, RegistryTypes
<1>4. CASE current # NoStream
  <2>1. handler' = [handler EXCEPT ![r] = "start"] /\ on' = [on EXCEPT ![r] = current]
    BY <1>4 DEF Register, Goto
  <2> QED
    BY <1>1, <1>2, <1>4, <2>1 DEF RegistryInv, RegistryTypes
<1> QED
  BY <1>3, <1>4

LEMMA RequestsHaveStreamsStep ==
    ASSUME TunnelAssumption, RegistryInv, AddressInv, [Next]_vars
    PROVE  RequestsHaveStreams'
<1>1. CASE \E r \in Requests : Register(r)
  BY <1>1, RegisterEffects DEF AddressInv, RequestsHaveStreams
<1>2. CASE /\ UNCHANGED on
           /\ \A q \in Requests :
                \/ on[q] \in Streams /\ handler'[q] # "new"
                \/ /\ handler'[q] = handler[q] /\ upload'[q] = upload[q]
                   /\ worker'[q] = worker[q]
  BY <1>2 DEF AddressInv, RequestsHaveStreams
<1> QED
  BY <1>1, <1>2, ProgressEffects

LastKinds == {"end", "error"}

(* Only the workers and the daemon's receive loop touch workers and relays.  *)
LEMMA WorkEffects ==
    ASSUME [Next]_vars
    PROVE  \/ UNCHANGED <<worker, pumps, sent>>
           \/ \E r \in Requests : WorkerStep(r) \/ UpstreamCloses(r)
           \/ \E s \in Streams : DaemonRecv(s) \/ ServeOneEnds(s)
<1>1. CASE UNCHANGED settledVars
  BY <1>1 DEF settledVars, daemonVars, workVars
<1>2. ASSUME NEW r \in Requests, Register(r) \/ HandlerStep(r)
      PROVE  UNCHANGED <<worker, pumps, sent>>
  BY <1>2 DEF Register, HandlerStep, SendStart, PumpStops, PumpFrame, CloseResponder,
              Unregister, AwaitStops, AwaitFrame, RelayFrame, RelayStops, Finish,
              daemonVars, workVars
<1>3. ASSUME NEW r \in Requests,
             \/ Leave(r) \/ Timeout(r) \/ UploadChunk(r) \/ UploadOver(r) \/ UploadEnd(r)
             \/ RelayChunk(r) \/ RelayReadEnds(r)
      PROVE  UNCHANGED <<worker, pumps, sent>>
  BY <1>3 DEF Leave, Timeout, UploadChunk, UploadOver, UploadEnd, RelayChunk,
              RelayReadEnds, daemonVars, workVars
<1>4. ASSUME NEW s \in Streams, ExchangeStep(s) \/ Break(s) \/ Connect(s)
      PROVE  UNCHANGED <<worker, pumps, sent>>
  BY <1>4 DEF ExchangeStep, AttachWaits, Attach, AttachLost, Dispatch, Push, Pushed,
              RecvFails, Detach, TakeOut, CloseStale, Break, Connect, daemonVars,
              workVars
<1> QED
  BY <1>1, <1>2, <1>3, <1>4, NextMoves DEF Move

(* The daemon's receive loop starts a worker where there was none. *)
LEMMA RecvEffects ==
    ASSUME RegistryInv, AddressInv, NEW s \in Streams, DaemonRecv(s)
    PROVE  LET r == down[s][1][1] IN
           /\ r \in Requests /\ on[r] = s
           /\ \A q \in Requests : q # r => worker'[q] = worker[q]
           /\ \/ worker'[r] = worker[r]
              \/ /\ worker[r] = "none" /\ worker'[r] = "dial"
                 /\ down[s][1] = <<r, "start">> /\ handler[r] \notin {"new", "start"}
           /\ down[s][1][2] = "start" => worker'[r] = "dial"
           /\ down[s][1][2] # "start" => worker' = worker
           /\ UNCHANGED <<on, handler, up, pumps, sent, exchange, pushing, buffer>>
           /\ UNCHANGED <<written, answer, registered, closed, stale>>
<1> DEFINE r == down[s][1][1]
<1>1. /\ r \in Requests /\ on[r] = s /\ down[s][1] = Head(down[s])
      /\ down[s][1] = <<r, down[s][1][2]>> /\ 1 \in 1 .. Len(down[s])
  BY HeadOfDown DEF DaemonRecv
<1>2. /\ UNCHANGED <<on, handler, up, pumps, sent, exchange, pushing, buffer>>
      /\ UNCHANGED <<written, answer, registered, closed, stale>>
      /\ worker' = IF down[s][1][2] = "start" THEN [worker EXCEPT ![r] = "dial"] ELSE worker
  BY <1>1 DEF DaemonRecv, serverVars, registryVars, handlerVars, loopVars
<1>3. down[s][1][2] = "start" => worker[r] = "none" /\ handler[r] \notin {"new", "start"}
  BY <1>1 DEF AddressInv, StartedOnce
<1>4. worker \in [Requests -> {"none", "dial", "head", "switch", "body", "end", "error",
                                  "relay", "done"}]
  BY DEF AddressInv, DaemonTypes
<1>5. down[s][1][2] = "start" => down[s][1] = <<r, "start">>
  BY <1>1
<1> HIDE DEF r
<1>6. /\ \A q \in Requests : q # r => worker'[q] = worker[q]
      /\ \/ worker'[r] = worker[r]
         \/ /\ worker[r] = "none" /\ worker'[r] = "dial"
            /\ down[s][1] = <<r, "start">> /\ handler[r] \notin {"new", "start"}
      /\ down[s][1][2] = "start" => worker'[r] = "dial"
      /\ down[s][1][2] # "start" => worker' = worker
  BY <1>1, <1>2, <1>3, <1>4, <1>5
<1> QED
  BY <1>1, <1>2, <1>6 DEF r

LEMMA ServeOneEffects ==
    ASSUME NEW s \in Streams, ServeOneEnds(s)
    PROVE  /\ \A q \in Requests :
                \/ worker'[q] = worker[q] /\ pumps'[q] = pumps[q]
                \/ worker[q] # "none" /\ worker'[q] = "done" /\ pumps'[q] = {}
           /\ UNCHANGED <<on, handler, up, down, sent, exchange, pushing, buffer>>
           /\ UNCHANGED <<written, answer, registered, closed, stale>>
BY DEF ServeOneEnds, serverVars, registryVars, handlerVars, loopVars, netVars

(* A step of a worker that does not send. *)
LEMMA QuietWorkEffects ==
    ASSUME NEW r \in Requests,
           AddressInv,
           Dial(r) \/ BodyOver(r) \/ RelayDown(r) \/ RelayOver(r) \/ UpstreamCloses(r)
    PROVE  /\ \A q \in Requests : q # r => worker'[q] = worker[q] /\ pumps'[q] = pumps[q]
           /\ pumps'[r] \subseteq pumps[r]
           /\ \/ worker'[r] = worker[r]
              \/ worker[r] = "dial" /\ worker'[r] \in {"head", "error", "switch"}
              \/ worker[r] = "body" /\ worker'[r] \in {"end", "error"}
              \/ worker[r] = "relay" /\ pumps[r] = {} /\ worker'[r] = "end"
           /\ UNCHANGED <<on, handler, up, down, sent, exchange, pushing, buffer>>
           /\ UNCHANGED <<written, answer, registered, closed, stale>>
<1>1. /\ UNCHANGED <<on, handler, up, down, sent, exchange, pushing, buffer>>
      /\ UNCHANGED <<written, answer, registered, closed, stale>>
  BY DEF Dial, BodyOver, RelayDown, RelayOver, UpstreamCloses, serverVars, registryVars,
         handlerVars, loopVars, netVars
<1>2. /\ worker \in [Requests -> {"none", "dial", "head", "switch", "body", "end", "error",
                                  "relay", "done"}]
      /\ pumps \in [Requests -> SUBSET {"down", "up"}]
  BY DEF AddressInv, DaemonTypes
<1>3. UNCHANGED pumps \/ \E p \in {"down", "up"} : PumpEnds(r, p)
  BY DEF Dial, BodyOver, RelayDown, RelayOver, UpstreamCloses
<1>4. \/ UNCHANGED worker
      \/ worker[r] = "dial" /\ \E to \in {"head", "error", "switch"} : Work(r, to)
      \/ worker[r] = "body" /\ \E to \in {"end", "error"} : Work(r, to)
      \/ worker[r] = "relay" /\ pumps[r] = {} /\ Work(r, "end")
  BY DEF Dial, BodyOver, RelayDown, RelayOver, UpstreamCloses
<1>5. /\ \A q \in Requests : q # r => pumps'[q] = pumps[q]
      /\ pumps'[r] \subseteq pumps[r]
  BY <1>2, <1>3 DEF PumpEnds
<1>6. /\ \A q \in Requests : q # r => worker'[q] = worker[q]
      /\ \/ worker'[r] = worker[r]
         \/ worker[r] = "dial" /\ worker'[r] \in {"head", "error", "switch"}
         \/ worker[r] = "body" /\ worker'[r] \in {"end", "error"}
         \/ worker[r] = "relay" /\ pumps[r] = {} /\ worker'[r] = "end"
  BY <1>2, <1>4 DEF Work
<1> QED
  BY <1>1, <1>5, <1>6

(* A step of a worker that sends. *)
LEMMA SendEffects ==
    ASSUME NEW r \in Requests, AddressInv, NEW k \in UpKinds, UpGrows(r, k)
    PROVE  /\ \A q \in Requests : q # r =>
                worker'[q] = worker[q] /\ pumps'[q] = pumps[q] /\ sent'[q] = sent[q]
           /\ worker[r] \notin {"none", "dial", "done"}
           /\ \/ k = "head" /\ worker[r] = "head" /\ worker'[r] = "body"
                 /\ pumps'[r] = pumps[r]
              \/ k = "switch" /\ worker[r] = "switch" /\ worker'[r] = "relay"
              \/ /\ k = "body" /\ worker[r] \in {"body", "relay"}
                 /\ worker'[r] = worker[r] /\ pumps'[r] = pumps[r]
              \/ /\ k \in LastKinds /\ worker[r] = k /\ worker'[r] = "done"
                 /\ pumps'[r] = pumps[r]
           /\ sent'[r] = IF k = "body" THEN sent[r] + 1 ELSE sent[r]
           /\ UNCHANGED <<on, handler, down, exchange, pushing, buffer>>
           /\ UNCHANGED <<written, answer, registered, closed, stale>>
<1>1. /\ UNCHANGED <<on, handler, down, exchange, pushing, buffer>>
      /\ UNCHANGED <<written, answer, registered, closed, stale>>
  BY DEF UpGrows, SendHead, SendSwitch, SendBody, SendEnd, registryVars, handlerVars,
         loopVars
<1>2. /\ worker \in [Requests -> {"none", "dial", "head", "switch", "body", "end", "error",
                                  "relay", "done"}]
      /\ pumps \in [Requests -> SUBSET {"down", "up"}]
      /\ sent \in [Requests -> 0 .. MaxDownload]
  BY DEF AddressInv, DaemonTypes
<1>3. CASE k = "head"
  <2>1. worker[r] = "head" /\ worker' = [worker EXCEPT ![r] = "body"]
        /\ UNCHANGED <<pumps, sent>>
    BY <1>3 DEF UpGrows, SendHead, Work
  <2> QED
    BY <1>1, <1>2, <1>3, <2>1
<1>4. CASE k = "switch"
  <2>1. /\ worker[r] = "switch" /\ worker' = [worker EXCEPT ![r] = "relay"]
        /\ pumps' = [pumps EXCEPT ![r] = {"down", "up"}] /\ UNCHANGED sent
    BY <1>4 DEF UpGrows, SendSwitch, Work
  <2> QED
    BY <1>1, <1>2, <1>4, <2>1
<1>5. CASE k = "body"
  <2>1. /\ worker[r] = "body" \/ "up" \in pumps[r]
        /\ UNCHANGED <<worker, pumps>> /\ sent' = [sent EXCEPT ![r] = @ + 1]
    BY <1>5 DEF UpGrows, SendBody
  <2>2. worker[r] \in {"body", "relay"}
    BY <2>1 DEF AddressInv, PumpsRelay
  <2>3. sent'[r] = sent[r] + 1 /\ \A q \in Requests : q # r => sent'[q] = sent[q]
    BY <1>2, <2>1
  <2> QED
    BY <1>1, <1>5, <2>1, <2>2, <2>3
<1>6. CASE k \in {"end", "error"}
  <2>1. worker[r] \in {"end", "error"} /\ ToServer(r, worker[r]) /\ ToServer(r, k)
        /\ worker' = [worker EXCEPT ![r] = "done"] /\ UNCHANGED <<pumps, sent>>
    BY <1>6 DEF UpGrows, SendEnd, Work
  <2>2. worker[r] = k
    <3>1. on[r] \in Streams /\ up[on[r]] \in Seq(Requests \X UpKinds)
      BY DEF UpGrows, AddressInv, StreamTypes
    <3>2. Append(up[on[r]], <<r, k>>) = Append(up[on[r]], <<r, worker[r]>>)
      BY <2>1, <3>1 DEF ToServer, AddressInv, StreamTypes
    <3>3. <<r, k>> \in Requests \X UpKinds /\ <<r, worker[r]>> \in Requests \X UpKinds
      BY <2>1 DEF UpKinds
    <3>4. <<r, k>> = <<r, worker[r]>>
      BY <3>1, <3>2, <3>3, AppendFacts
    <3> QED
      BY <3>4
  <2> QED
    BY <1>1, <1>2, <1>6, <2>1, <2>2 DEF LastKinds
<1> QED
  BY <1>3, <1>4, <1>5, <1>6 DEF UpKinds

LEMMA PumpsRelayStep ==
    ASSUME RegistryInv, AddressInv, [Next]_vars
    PROVE  PumpsRelay'
<1>0. PumpsRelay
  BY DEF AddressInv
<1>1. CASE UNCHANGED <<worker, pumps, sent>>
  BY <1>0, <1>1 DEF PumpsRelay
<1>2. ASSUME NEW r \in Requests,
             Dial(r) \/ BodyOver(r) \/ RelayDown(r) \/ RelayOver(r) \/ UpstreamCloses(r)
      PROVE  PumpsRelay'
  BY <1>0, <1>2, QuietWorkEffects DEF PumpsRelay
<1>3. ASSUME NEW r \in Requests, NEW k \in UpKinds, UpGrows(r, k) PROVE PumpsRelay'
  BY <1>0, <1>3, SendEffects DEF PumpsRelay, LastKinds
<1>4. ASSUME NEW s \in Streams, DaemonRecv(s) PROVE PumpsRelay'
  BY <1>0, <1>4, RecvEffects DEF PumpsRelay
<1>5. ASSUME NEW s \in Streams, ServeOneEnds(s) PROVE PumpsRelay'
  BY <1>0, <1>5, ServeOneEffects DEF PumpsRelay
<1> QED
  BY <1>1, <1>2, <1>3, <1>4, <1>5, WorkEffects, SendingStep

(* Only the receive loops move themselves. *)
LEMMA LoopEffects ==
    ASSUME [Next]_vars
    PROVE  \/ UNCHANGED <<exchange, pushing>>
           \/ \E s \in Streams : ExchangeStep(s) \/ Connect(s)
<1>1. CASE UNCHANGED settledVars
  BY <1>1 DEF settledVars, loopVars
<1>2. ASSUME NEW r \in Requests, Register(r) \/ HandlerStep(r)
      PROVE  UNCHANGED <<exchange, pushing>>
  BY <1>2 DEF Register, HandlerStep, SendStart, PumpStops, PumpFrame, CloseResponder,
              Unregister, AwaitStops, AwaitFrame, RelayFrame, RelayStops, Finish, loopVars
<1>3. ASSUME NEW r \in Requests,
             \/ Leave(r) \/ Timeout(r) \/ UploadChunk(r) \/ UploadOver(r) \/ UploadEnd(r)
             \/ RelayChunk(r) \/ RelayReadEnds(r)
      PROVE  UNCHANGED <<exchange, pushing>>
  BY <1>3 DEF Leave, Timeout, UploadChunk, UploadOver, UploadEnd, RelayChunk,
              RelayReadEnds, loopVars
<1>4. ASSUME NEW r \in Requests, WorkerStep(r) \/ UpstreamCloses(r)
      PROVE  UNCHANGED <<exchange, pushing>>
  BY <1>4 DEF WorkerStep, Dial, SendHead, SendSwitch, SendBody, BodyOver, SendEnd,
              RelayDown, RelayOver, UpstreamCloses, loopVars
<1>5. ASSUME NEW s \in Streams, Break(s) \/ DaemonRecv(s) \/ ServeOneEnds(s)
      PROVE  UNCHANGED <<exchange, pushing>>
  BY <1>5 DEF Break, DaemonRecv, ServeOneEnds, loopVars
<1> QED
  BY <1>1, <1>2, <1>3, <1>4, <1>5, NextMoves DEF Move

(* A receive loop moves to another place, with or without the frame that     *)
(* Dispatch gives it.                                                        *)
LEMMA LoopPlaces ==
    ASSUME RegistryInv, AddressInv, NEW s \in Streams, ExchangeStep(s) \/ Connect(s)
    PROVE  /\ \A t \in Streams : t # s =>
                exchange'[t] = exchange[t] /\ pushing'[t] = pushing[t]
           /\ \/ exchange'[s] = exchange[s] /\ pushing'[s] = pushing[s]
              \/ /\ exchange[s] = "recv" /\ exchange'[s] = "push"
                 /\ pushing'[s] = up[s][1] /\ up[s] # <<>>
              \/ exchange[s] = "push" /\ exchange'[s] = "recv" /\ pushing'[s] = <<>>
              \/ exchange[s] # "push" /\ exchange'[s] # "push" /\ pushing'[s] = pushing[s]
           /\ UNCHANGED on
<1>0. /\ exchange \in [Streams -> ExchangeStates]
      /\ pushing \in [Streams -> {<<>>} \cup (Requests \X UpKinds)]
  BY DEF RegistryInv, RegistryTypes, AddressInv, BufferTypes
<1>1. UNCHANGED on
  BY DEF ExchangeStep, AttachWaits, Attach, AttachLost, Dispatch, Push, Pushed,
         RecvFails, Detach, TakeOut, CloseStale, Connect, serverVars, handlerVars
<1>2. CASE Dispatch(s)
  <2>1. up[s] # <<>> /\ exchange[s] = "recv" /\ Head(up[s]) = up[s][1]
    BY <1>2, HeadOfUp DEF Dispatch
  <2>2. \/ UNCHANGED <<exchange, pushing>>
        \/ /\ exchange' = [exchange EXCEPT ![s] = "push"]
           /\ pushing' = [pushing EXCEPT ![s] = up[s][1]]
    BY <1>2, <2>1 DEF Dispatch, At, loopVars
  <2> QED
    BY <1>0, <1>1, <2>1, <2>2
<1>3. CASE Push(s)
  <2>1. /\ exchange[s] = "push" /\ exchange' = [exchange EXCEPT ![s] = "recv"]
        /\ pushing' = [pushing EXCEPT ![s] = <<>>]
    BY <1>3 DEF Push, Pushed, At
  <2> QED
    BY <1>0, <1>1, <2>1
<1>4. CASE \/ AttachWaits(s) \/ Attach(s) \/ AttachLost(s) \/ RecvFails(s) \/ Detach(s)
           \/ CloseStale(s) \/ Connect(s)
  <2>1. UNCHANGED pushing /\ exchange[s] # "push"
    BY <1>4 DEF AttachWaits, Attach, AttachLost, RecvFails, Detach, TakeOut, CloseStale,
                Connect
  <2>2. \E to \in ExchangeStates \ {"push"} : At(s, to)
    BY <1>4 DEF AttachWaits, Attach, AttachLost, RecvFails, Detach, TakeOut, CloseStale,
                Connect, ExchangeStates
  <2>3. /\ exchange'[s] # "push"
        /\ \A t \in Streams : t # s => exchange'[t] = exchange[t]
    BY <1>0, <2>2 DEF At
  <2> QED
    BY <1>1, <2>1, <2>3
<1> QED
  BY <1>2, <1>3, <1>4 DEF ExchangeStep

LEMMA PushingIsAddressedStep ==
    ASSUME TunnelAssumption, RegistryInv, AddressInv, [Next]_vars
    PROVE  PushingIsAddressed'
<1>0. PushingIsAddressed
  BY DEF AddressInv
<1>1. CASE UNCHANGED <<exchange, pushing>>
  <2>1. CASE UNCHANGED on
    BY <1>0, <1>1, <2>1 DEF PushingIsAddressed
  <2>2. ASSUME NEW r \in Requests, Register(r) PROVE PushingIsAddressed'
    <3>1. \A q \in Requests : on[q] \in Streams => on'[q] = on[q]
      BY <2>2, RegisterEffects DEF Streams, NoStream
    <3> QED
      BY <1>0, <1>1, <3>1 DEF PushingIsAddressed
  <2> QED
    BY <2>1, <2>2, ProgressEffects
<1>2. ASSUME NEW s \in Streams, ExchangeStep(s) \/ Connect(s) PROVE PushingIsAddressed'
  <2>1. up[s] # <<>> => up[s][1] \in Requests \X UpKinds /\ on[up[s][1][1]] = s
    BY HeadOfUp
  <2> QED
    BY <1>0, <1>2, <2>1, LoopPlaces DEF PushingIsAddressed
<1> QED
  BY <1>1, <1>2, LoopEffects

LEMMA FramesAreAddressedStep ==
    ASSUME TunnelAssumption, RegistryInv, AddressInv, [Next]_vars
    PROVE  FramesAreAddressed'
<1> DEFINE DownGoal == \A s \in Streams : \A i \in 1 .. Len(down'[s]) :
                            on[down'[s][i][1]] = s
           UpGoal == \A s \in Streams : \A i \in 1 .. Len(up'[s]) : on[up'[s][i][1]] = s
<1>0. FramesAreAddressed
  BY DEF AddressInv
<1>1. ASSUME NEW r \in Requests, Register(r) PROVE FramesAreAddressed'
  <2>1. \A q \in Requests : on[q] \in Streams => on'[q] = on[q]
    BY <1>1, RegisterEffects DEF Streams, NoStream
  <2>2. \A s \in Streams :
            /\ \A i \in 1 .. Len(down[s]) : down[s][i][1] \in Requests
            /\ \A i \in 1 .. Len(up[s]) : up[s][i][1] \in Requests
    <3> SUFFICES ASSUME NEW s \in Streams
                 PROVE  /\ \A i \in 1 .. Len(down[s]) : down[s][i][1] \in Requests
                        /\ \A i \in 1 .. Len(up[s]) : up[s][i][1] \in Requests
      OBVIOUS
    <3>1. /\ down[s] \in Seq(Requests \X DownKinds)
          /\ up[s] \in Seq(Requests \X UpKinds)
      BY DEF AddressInv, StreamTypes
    <3> QED
      BY <3>1
  <2>3. UNCHANGED <<down, up>>
    BY <1>1, RegisterEffects
  <2> QED
    BY <1>0, <2>1, <2>2, <2>3 DEF FramesAreAddressed
<1>2. CASE UNCHANGED on
  <2>1. DownGoal
    <3>1. CASE UNCHANGED down
      BY <1>0, <3>1 DEF FramesAreAddressed
    <3>2. ASSUME NEW r \in Requests, NEW k \in DownKinds, DownGrows(r, k) PROVE DownGoal
      <4>1. /\ \A s \in Streams : s # on[r] => down'[s] = down[s]
            /\ Len(down[on[r]]) \in Nat /\ Len(down'[on[r]]) = Len(down[on[r]]) + 1
            /\ \A i \in 1 .. Len(down[on[r]]) : down'[on[r]][i] = down[on[r]][i]
            /\ down'[on[r]][Len(down[on[r]]) + 1] = <<r, k>>
        BY <3>2, DownGrown
      <4>2. on[r] \in Streams /\ \A i \in 1 .. Len(down[on[r]]) : on[down[on[r]][i][1]] = on[r]
        BY <1>0, <3>2 DEF DownGrows, FramesAreAddressed
      <4>3. \A i \in 1 .. Len(down'[on[r]]) :
                i \in 1 .. Len(down[on[r]]) \/ i = Len(down[on[r]]) + 1
        BY <4>1
      <4>4. on[down'[on[r]][Len(down[on[r]]) + 1][1]] = on[r]
        BY <4>1
      <4>5. \A i \in 1 .. Len(down[on[r]]) : on[down'[on[r]][i][1]] = on[r]
        BY <4>1, <4>2
      <4>6. \A i \in 1 .. Len(down'[on[r]]) : on[down'[on[r]][i][1]] = on[r]
        BY <4>3, <4>4, <4>5
      <4> QED
        BY <1>0, <4>1, <4>6 DEF FramesAreAddressed
    <3>3. ASSUME NEW s \in Streams, DaemonRecv(s) PROVE DownGoal
      <4>1. /\ \A t \in Streams : t # s => down'[t] = down[t]
            /\ \A i \in 1 .. Len(down'[s]) :
                i + 1 \in 2 .. Len(down[s]) /\ down'[s][i] = down[s][i + 1]
            /\ Len(down[s]) \in Nat
        BY <3>3, DownTaken
      <4>2. \A i \in 1 .. Len(down[s]) : on[down[s][i][1]] = s
        BY <1>0 DEF FramesAreAddressed
      <4>3. \A i \in 1 .. Len(down'[s]) : on[down'[s][i][1]] = s
        BY <4>1, <4>2
      <4> QED
        BY <1>0, <4>1, <4>3 DEF FramesAreAddressed
    <3>4. ASSUME NEW s \in Streams, Break(s) PROVE DownGoal
      <4>1. Len(down'[s]) = 0 /\ \A t \in Streams : t # s => down'[t] = down[t]
        BY <3>4, DownLost
      <4> QED
        BY <1>0, <4>1 DEF FramesAreAddressed
    <3> QED
      BY <3>1, <3>2, <3>3, <3>4, DownEffects
  <2>2. UpGoal
    <3>1. CASE UNCHANGED up
      BY <1>0, <3>1 DEF FramesAreAddressed
    <3>2. ASSUME NEW r \in Requests, NEW k \in UpKinds, UpGrows(r, k) PROVE UpGoal
      <4>1. /\ \A s \in Streams : s # on[r] => up'[s] = up[s]
            /\ Len(up[on[r]]) \in Nat /\ Len(up'[on[r]]) = Len(up[on[r]]) + 1
            /\ \A i \in 1 .. Len(up[on[r]]) : up'[on[r]][i] = up[on[r]][i]
            /\ up'[on[r]][Len(up[on[r]]) + 1] = <<r, k>>
        BY <3>2, UpGrown
      <4>2. on[r] \in Streams /\ \A i \in 1 .. Len(up[on[r]]) : on[up[on[r]][i][1]] = on[r]
        BY <1>0, <3>2 DEF UpGrows, FramesAreAddressed
      <4>3. \A i \in 1 .. Len(up'[on[r]]) :
                i \in 1 .. Len(up[on[r]]) \/ i = Len(up[on[r]]) + 1
        BY <4>1
      <4>4. on[up'[on[r]][Len(up[on[r]]) + 1][1]] = on[r]
        BY <4>1
      <4>5. \A i \in 1 .. Len(up[on[r]]) : on[up'[on[r]][i][1]] = on[r]
        BY <4>1, <4>2
      <4>6. \A i \in 1 .. Len(up'[on[r]]) : on[up'[on[r]][i][1]] = on[r]
        BY <4>3, <4>4, <4>5
      <4> QED
        BY <1>0, <4>1, <4>6 DEF FramesAreAddressed
    <3>3. ASSUME NEW s \in Streams, Dispatch(s) PROVE UpGoal
      <4>1. /\ \A t \in Streams : t # s => up'[t] = up[t]
            /\ \A i \in 1 .. Len(up'[s]) :
                i + 1 \in 2 .. Len(up[s]) /\ up'[s][i] = up[s][i + 1]
            /\ Len(up[s]) \in Nat
        BY <3>3, UpTaken
      <4>2. \A i \in 1 .. Len(up[s]) : on[up[s][i][1]] = s
        BY <1>0 DEF FramesAreAddressed
      <4>3. \A i \in 1 .. Len(up'[s]) : on[up'[s][i][1]] = s
        BY <4>1, <4>2
      <4> QED
        BY <1>0, <4>1, <4>3 DEF FramesAreAddressed
    <3> QED
      BY <3>1, <3>2, <3>3, UpEffects
  <2> QED
    BY <1>2, <2>1, <2>2 DEF FramesAreAddressed
<1> QED
  BY <1>1, <1>2, ProgressEffects

(* Only DaemonRecv gives a request its worker, and no handler returns to its *)
(* first steps.                                                              *)
LEMMA StartEffects ==
    ASSUME TunnelAssumption, RegistryInv, AddressInv, [Next]_vars
    PROVE  \/ \E r \in Requests : Register(r)
           \/ \E s \in Streams : DaemonRecv(s)
           \/ \A q \in Requests :
                /\ worker'[q] = "none" <=> worker[q] = "none"
                /\ handler'[q] \in {"new", "start"} => handler'[q] = handler[q]
<1> DEFINE WorkerGoal == \A q \in Requests : worker'[q] = "none" <=> worker[q] = "none"
           HandlerGoal == \A q \in Requests :
                handler'[q] \in {"new", "start"} => handler'[q] = handler[q]
<1>1. (\E s \in Streams : DaemonRecv(s)) \/ WorkerGoal
  <2>1. CASE UNCHANGED <<worker, pumps, sent>>
    BY <2>1
  <2>2. ASSUME NEW r \in Requests,
               Dial(r) \/ BodyOver(r) \/ RelayDown(r) \/ RelayOver(r) \/ UpstreamCloses(r)
        PROVE  WorkerGoal
    BY <2>2, QuietWorkEffects
  <2>3. ASSUME NEW r \in Requests, NEW k \in UpKinds, UpGrows(r, k) PROVE WorkerGoal
    BY <2>3, SendEffects DEF LastKinds
  <2>4. ASSUME NEW s \in Streams, ServeOneEnds(s) PROVE WorkerGoal
    BY <2>4, ServeOneEffects
  <2> QED
    BY <2>1, <2>2, <2>3, <2>4, WorkEffects, SendingStep
<1>2. (\E r \in Requests : Register(r)) \/ HandlerGoal
  <2>1. CASE UNCHANGED handler
    BY <2>1
  <2>2. ASSUME NEW r \in Requests, HandlerStep(r) PROVE HandlerGoal
    <3>1. UNCHANGED handler \/ \E to \in HandlerStates \ {"new", "start"} : Goto(r, to)
      BY <2>2 DEF HandlerStep, SendStart, PumpStops, PumpFrame, CloseResponder,
                  Unregister, AwaitStops, AwaitFrame, RelayFrame, RelayStops, Finish,
                  HandlerStates
    <3> QED
      BY <3>1 DEF Goto, RegistryInv, RegistryTypes
  <2>3. ASSUME NEW r \in Requests,
               \/ Leave(r) \/ Timeout(r) \/ UploadChunk(r) \/ UploadOver(r) \/ UploadEnd(r)
               \/ RelayChunk(r) \/ RelayReadEnds(r)
        PROVE  UNCHANGED handler
    BY <2>3 DEF Leave, Timeout, UploadChunk, UploadOver, UploadEnd, RelayChunk,
                RelayReadEnds, serverVars, handlerVars
  <2>4. ASSUME NEW r \in Requests, WorkerStep(r) \/ UpstreamCloses(r)
        PROVE  UNCHANGED handler
    BY <2>4 DEF WorkerStep, Dial, SendHead, SendSwitch, SendBody, BodyOver, SendEnd,
                RelayDown, RelayOver, UpstreamCloses, serverVars, handlerVars
  <2>5. ASSUME NEW s \in Streams,
               ExchangeStep(s) \/ Break(s) \/ Connect(s) \/ DaemonRecv(s) \/ ServeOneEnds(s)
        PROVE  UNCHANGED handler
    BY <2>5 DEF ExchangeStep, AttachWaits, Attach, AttachLost, Dispatch, Push, Pushed,
                RecvFails, Detach, TakeOut, CloseStale, Break, Connect, DaemonRecv,
                ServeOneEnds, serverVars, handlerVars
  <2>6. CASE UNCHANGED settledVars
    BY <2>6 DEF settledVars, serverVars, handlerVars
  <2> QED
    BY <2>1, <2>2, <2>3, <2>4, <2>5, <2>6, NextMoves DEF Move
<1> QED
  BY <1>1, <1>2

(* Whatever moves, a worker is there only for a request that was started. *)
LEMMA StartedOnceStep ==
    ASSUME TunnelAssumption, RegistryInv, AddressInv, [Next]_vars
    PROVE  StartedOnce'
<1> DEFINE HandlerGoal == \A r \in Requests :
                handler'[r] \in {"new", "start"} => worker'[r] = "none"
           Started(q, i) == q[i][2] = "start" =>
                /\ worker'[q[i][1]] = "none"
                /\ handler'[q[i][1]] \notin {"new", "start"}
                /\ \A j \in 1 .. Len(q) : j # i => q[j] # q[i]
           FramesGoal == \A s \in Streams : \A i \in 1 .. Len(down'[s]) :
                Started(down'[s], i)
<1>0. StartedOnce /\ FramesAreAddressed
  BY DEF AddressInv
<1>t. \A s \in Streams : \A i \in 1 .. Len(down[s]) : down[s][i] \in Requests \X DownKinds
  BY DEF AddressInv, StreamTypes
<1>1. ASSUME NEW r \in Requests, Register(r) PROVE StartedOnce'
  <2>1. UNCHANGED <<down, worker>> /\ worker[r] = "none" /\ on[r] \notin Streams
        /\ \A q \in Requests : q # r => handler'[q] = handler[q]
    BY <1>1, RegisterEffects DEF Streams, NoStream
  <2>2. \A s \in Streams : \A i \in 1 .. Len(down[s]) :
            down[s][i][1] \in Requests /\ down[s][i][1] # r
    BY <1>0, <1>t, <2>1 DEF FramesAreAddressed
  <2> QED
    BY <1>0, <2>1, <2>2 DEF StartedOnce
<1>2. ASSUME NEW s \in Streams, DaemonRecv(s) PROVE StartedOnce'
  <2> DEFINE r == down[s][1][1]
  <2>1. /\ r \in Requests /\ on[r] = s /\ UNCHANGED handler
        /\ \A q \in Requests : q # r => worker'[q] = worker[q]
        /\ \/ worker'[r] = worker[r]
           \/ down[s][1] = <<r, "start">> /\ handler[r] \notin {"new", "start"}
        /\ down[s][1][2] # "start" => worker' = worker
    BY <1>2, RecvEffects
  <2>2. /\ \A t \in Streams : t # s => down'[t] = down[t]
        /\ Len(down[s]) \in Nat \ {0} /\ Len(down'[s]) = Len(down[s]) - 1
        /\ \A i \in 1 .. Len(down'[s]) :
                i + 1 \in 2 .. Len(down[s]) /\ down'[s][i] = down[s][i + 1]
    BY <1>2, DownTaken
  <2>3. HandlerGoal
    BY <1>0, <2>1 DEF StartedOnce
  <2>4. ASSUME NEW t \in Streams, t # s, NEW i \in 1 .. Len(down[t])
        PROVE  Started(down[t], i)
    <3>1. down[t][i][1] \in Requests /\ on[down[t][i][1]] = t
      BY <1>0, <1>t DEF FramesAreAddressed
    <3>2. worker'[down[t][i][1]] = worker[down[t][i][1]]
      BY <2>1, <2>4, <3>1
    <3> QED
      BY <1>0, <2>1, <3>2 DEF StartedOnce
  <2>5. ASSUME NEW i \in 1 .. Len(down'[s]) PROVE Started(down'[s], i)
    <3>1. /\ 1 \in 1 .. Len(down[s]) /\ i + 1 \in 1 .. Len(down[s]) /\ i + 1 # 1
          /\ down'[s][i] = down[s][i + 1]
      BY <2>2
    <3>2. ASSUME down[s][i + 1][2] = "start" PROVE down[s][i + 1][1] # r \/ worker' = worker
      <4>1. down[s][1] # down[s][i + 1]
        BY <1>0, <3>1, <3>2 DEF StartedOnce
      <4>2. /\ down[s][1] = <<down[s][1][1], down[s][1][2]>>
            /\ down[s][i + 1] = <<down[s][i + 1][1], down[s][i + 1][2]>>
        BY <1>t, <3>1
      <4> QED
        BY <2>1, <3>2, <4>1, <4>2
    <3>3. down[s][i + 1][1] \in Requests
      BY <1>t, <3>1
    <3>4. \A j \in 1 .. Len(down'[s]) : j # i =>
            j + 1 \in 1 .. Len(down[s]) /\ j + 1 # i + 1 /\ down'[s][j] = down[s][j + 1]
      BY <2>2, <3>1
    <3>5. ASSUME down[s][i + 1][2] = "start"
          PROVE  /\ worker[down[s][i + 1][1]] = "none"
                 /\ handler[down[s][i + 1][1]] \notin {"new", "start"}
                 /\ \A j \in 1 .. Len(down[s]) : j # i + 1 => down[s][j] # down[s][i + 1]
      BY <1>0, <3>1, <3>5 DEF StartedOnce
    <3> QED
      BY <2>1, <3>1, <3>2, <3>3, <3>4, <3>5
  <2>6. FramesGoal
    BY <2>2, <2>4, <2>5
  <2> QED
    BY <2>3, <2>6 DEF StartedOnce
<1>3. CASE \A q \in Requests :
                /\ worker'[q] = "none" <=> worker[q] = "none"
                /\ handler'[q] \in {"new", "start"} => handler'[q] = handler[q]
  <2>1. HandlerGoal
    BY <1>0, <1>3 DEF StartedOnce
  <2>2. ASSUME NEW s \in Streams, NEW i \in 1 .. Len(down[s]) PROVE Started(down[s], i)
    BY <1>0, <1>3, <1>t DEF StartedOnce
  <2>3. CASE UNCHANGED down
    BY <2>1, <2>2, <2>3 DEF StartedOnce
  <2>4. ASSUME NEW r \in Requests, NEW k \in DownKinds, DownGrows(r, k) PROVE FramesGoal
    <3> DEFINE s == on[r]  n == Len(down[s])
    <3>1. /\ \A t \in Streams : t # s => down'[t] = down[t]
          /\ n \in Nat /\ Len(down'[s]) = n + 1
          /\ \A i \in 1 .. n : down'[s][i] = down[s][i]
          /\ down'[s][n + 1] = <<r, k>>
      BY <2>4, DownGrown
    <3>2. s \in Streams
      BY <2>4 DEF DownGrows
    <3>3. ASSUME k = "start"
          PROVE  /\ worker'[r] = "none" /\ handler'[r] \notin {"new", "start"}
                 /\ \A i \in 1 .. n : down[s][i] # <<r, "start">>
      <4>1. handler[r] = "start" /\ \E to \in {"pump", "await"} : Goto(r, to)
        BY <2>4, <3>3 DEF DownGrows
      <4>2. handler'[r] \notin {"new", "start"}
        BY <4>1 DEF Goto, RegistryInv, RegistryTypes
      <4>3. worker'[r] = "none"
        BY <1>0, <1>3, <4>1 DEF StartedOnce
      <4>4. ASSUME NEW i \in 1 .. n, down[s][i] = <<r, "start">> PROVE FALSE
        <5>1. down[s][i][1] = r /\ down[s][i][2] = "start"
          BY <4>4
        <5> QED
          BY <1>0, <3>2, <4>1, <5>1 DEF StartedOnce
      <4> QED
        BY <4>2, <4>3, <4>4
    <3> HIDE DEF s, n
    <3>4. \A i \in 1 .. n + 1 : i \in 1 .. n \/ i = n + 1
      BY <3>1
    <3>5. Started(down'[s], n + 1)
      BY <3>1, <3>3, <3>4
    <3>6. ASSUME NEW i \in 1 .. n PROVE Started(down'[s], i)
      <4>1. Started(down[s], i)
        BY <2>2, <3>2 DEF n
      <4>2. ASSUME down[s][i][2] = "start" PROVE down'[s][n + 1] # down'[s][i]
        <5>1. CASE k = "start"
          <6>1. down[s][i] # <<r, k>>
            BY <3>3, <5>1
          <6> QED
            BY <3>1, <6>1
        <5>2. CASE k # "start"
          BY <3>1, <4>2, <5>2
        <5> QED
          BY <5>1, <5>2
      <4>3. down'[s][i] = down[s][i]
        BY <3>1
      <4>4. \A j \in 1 .. n : j # i /\ down[s][i][2] = "start" => down'[s][j] # down'[s][i]
        BY <3>1, <4>1, <4>3 DEF n
      <4> QED
        BY <3>1, <3>4, <4>1, <4>2, <4>3, <4>4
    <3>7. ASSUME NEW i \in 1 .. Len(down'[s]) PROVE Started(down'[s], i)
      BY <3>1, <3>4, <3>5, <3>6
    <3> QED
      BY <2>2, <3>1, <3>7
  <2>5. ASSUME NEW s \in Streams, Break(s) PROVE FramesGoal
    <3>1. Len(down'[s]) = 0 /\ \A t \in Streams : t # s => down'[t] = down[t]
      BY <2>5, DownLost
    <3> QED
      BY <2>2, <3>1
  <2>6. CASE \E s \in Streams : DaemonRecv(s)
    BY <1>2, <2>6
  <2> QED
    BY <2>1, <2>3, <2>4, <2>5, <2>6, DownEffects DEF StartedOnce
<1> QED
  BY <1>1, <1>2, <1>3, StartEffects

LEMMA AddressStep ==
    ASSUME TunnelAssumption, RegistryInv, AddressInv, [Next]_vars
    PROVE  AddressInv'
BY ContextTypesStep, ServerTypesStep, DaemonTypesStep, BufferTypesStep, StreamTypesStep,
   SendingTypesStep, RequestsHaveStreamsStep, PumpsRelayStep, PushingIsAddressedStep,
   FramesAreAddressedStep, StartedOnceStep DEF AddressInv

LEMMA AddressAlways == Spec => [](RegistryInv /\ AddressInv)
<1>1. RegistryInv /\ AddressInv /\ [Next]_vars => (RegistryInv /\ AddressInv)'
  BY RegistryStep, AddressStep, TunnelAssumption
<1>2. Init => RegistryInv /\ AddressInv
  BY RegistryInit, AddressInit, TunnelAssumption
<1> QED
  BY <1>1, <1>2, PTL DEF Spec

(* The variables keep their types; in particular the channel of a responder  *)
(* and a stream never hold more frames than they can.                        *)
THEOREM TunnelTypes == Spec => []TypeOK
BY AddressAlways, AddressTypes, PTL

-----------------------------------------------------------------------------
(* Frames in transit from the daemon's worker to the browser: those in the   *)
(* responder's channel, then the one being pushed, then those in the stream. *)

Occurrences(q, e) == Cardinality({i \in 1 .. Len(q) : q[i] = e})

IsPushed(r) == on[r] \in Streams /\ pushing[on[r]] # <<>> /\ pushing[on[r]][1] = r
InStream(r) == {i \in 1 .. Len(up[on[r]]) : up[on[r]][i][1] = r}
BodiesPushed(r) == IF pushing[on[r]] = <<r, "body">> THEN 1 ELSE 0

BodiesInTransit(r) ==
    Occurrences(buffer[r], "body") + BodiesPushed(r)
        + Occurrences(up[on[r]], <<r, "body">>)

(* A request without a worker has no frame in transit. *)
NothingUnasked ==
    \A r \in Requests : worker[r] = "none" =>
        /\ sent[r] = 0 /\ written[r] = 0 /\ buffer[r] = <<>>
        /\ \A s \in Streams : pushing[s] # <<>> => pushing[s][1] # r
        /\ \A s \in Streams : \A i \in 1 .. Len(up[s]) : up[s][i][1] # r

(* RESPONSE_END, with or without an error, is the last frame of its request. *)
LastInBuffer(r) ==
    \A i \in 1 .. Len(buffer[r]) : buffer[r][i] \in LastKinds =>
        i = Len(buffer[r]) /\ ~IsPushed(r) /\ InStream(r) = {} /\ worker[r] = "done"
LastPushed(r) ==
    IsPushed(r) /\ pushing[on[r]][2] \in LastKinds =>
        InStream(r) = {} /\ worker[r] = "done"
LastInStream(r) ==
    \A i \in InStream(r) : up[on[r]][i][2] \in LastKinds =>
        (\A j \in InStream(r) : j <= i) /\ worker[r] = "done"
LastIsLast ==
    \A r \in Requests : on[r] \in Streams =>
        LastInBuffer(r) /\ LastPushed(r) /\ LastInStream(r)

(* While pumpWebSocket awaits RESPONSE_START, the next frame of the request  *)
(* is no body frame, and there is one once the worker has gone past it.      *)
NextIsNoBody(r) ==
    IF buffer[r] # <<>> THEN buffer[r][1] # "body"
    ELSE IF IsPushed(r) THEN pushing[on[r]][2] # "body"
    ELSE IF InStream(r) # {}
           THEN \A i \in InStream(r) : up[on[r]][i][2] = "body" =>
                    \E j \in InStream(r) : j < i
           ELSE worker[r] \notin {"body", "relay", "end"}
AwaitsOpening ==
    \A r \in Requests : handler[r] = "await" => NextIsNoBody(r)

(* While the browser is served, every RESPONSE_BODY frame the worker sent is *)
(* written or in transit.                                                    *)
BodiesConserved ==
    \A r \in Requests : Waiting(r) => written[r] + BodiesInTransit(r) = sent[r]

(* After RESPONSE_END nothing is sent or written any more. *)
EndedIsFinal ==
    \A r \in Requests : answer[r] = "ended" =>
        /\ ~Waiting(r) /\ handler[r] # "new"
        /\ worker[r] = "done" /\ written[r] = sent[r]

FrameInv ==
    /\ NothingUnasked
    /\ LastIsLast
    /\ AwaitsOpening
    /\ BodiesConserved
    /\ EndedIsFinal

-----------------------------------------------------------------------------
(* Counting frames *)

LEMMA OccurrencesEmpty ==
    ASSUME NEW e
    PROVE  Occurrences(<<>>, e) = 0
<1>1. {i \in 1 .. Len(<<>>) : <<>>[i] = e} = {}
  OBVIOUS
<1> QED
  BY <1>1, FS_EmptySet DEF Occurrences

LEMMA OccurrencesNone ==
    ASSUME NEW q, NEW e, \A i \in 1 .. Len(q) : q[i] # e
    PROVE  Occurrences(q, e) = 0
<1>1. {i \in 1 .. Len(q) : q[i] = e} = {}
  OBVIOUS
<1> QED
  BY <1>1, FS_EmptySet DEF Occurrences

LEMMA OccurrencesNat ==
    ASSUME NEW S, NEW q \in Seq(S), NEW e
    PROVE  /\ IsFiniteSet({i \in 1 .. Len(q) : q[i] = e})
           /\ Occurrences(q, e) \in Nat
<1>1. IsFiniteSet(1 .. Len(q))
  BY FS_Interval
<1>2. IsFiniteSet({i \in 1 .. Len(q) : q[i] = e})
  BY <1>1, FS_Subset
<1> QED
  BY <1>2, FS_CardinalityType DEF Occurrences

LEMMA OccurrencesAppend ==
    ASSUME NEW S, NEW q \in Seq(S), NEW x \in S, NEW e
    PROVE  Occurrences(Append(q, x), e) = Occurrences(q, e) + (IF x = e THEN 1 ELSE 0)
<1> DEFINE n == Len(q)
           A == {i \in 1 .. n : q[i] = e}
           B == {i \in 1 .. Len(Append(q, x)) : Append(q, x)[i] = e}
<1>1. /\ n \in Nat /\ Len(Append(q, x)) = n + 1
      /\ \A i \in 1 .. n : Append(q, x)[i] = q[i]
      /\ Append(q, x)[n + 1] = x
  BY AppendFacts
<1>2. IsFiniteSet(A) /\ Occurrences(q, e) = Cardinality(A) /\ Cardinality(A) \in Nat
  BY OccurrencesNat DEF Occurrences
<1>3. Occurrences(Append(q, x), e) = Cardinality(B)
  BY DEF Occurrences
<1> HIDE DEF n
<1>4. CASE x = e
  <2>1. B = A \cup {n + 1} /\ n + 1 \notin A
    BY <1>1, <1>4
  <2> HIDE DEF A, B
  <2>2. Cardinality(B) = Cardinality(A) + 1
    BY <1>2, <2>1, FS_AddElement
  <2> QED
    BY <1>2, <1>3, <1>4, <2>2
<1>5. CASE x # e
  <2>1. B = A
    BY <1>1, <1>5
  <2> HIDE DEF A, B
  <2> QED
    BY <1>2, <1>3, <1>5, <2>1
<1> QED
  BY <1>4, <1>5

LEMMA OccurrencesKept ==
    ASSUME NEW S, NEW q \in Seq(S), NEW x \in S, NEW e, x # e
    PROVE  Occurrences(Append(q, x), e) = Occurrences(q, e)
<1>1. Occurrences(q, e) \in Nat
  BY OccurrencesNat
<1>2. Occurrences(Append(q, x), e) = Occurrences(q, e) + (IF x = e THEN 1 ELSE 0)
  BY OccurrencesAppend
<1> QED
  BY <1>1, <1>2

LEMMA OccurrencesTail ==
    ASSUME NEW S, NEW q \in Seq(S), q # <<>>, NEW e
    PROVE  Occurrences(q, e) = Occurrences(Tail(q), e) + (IF q[1] = e THEN 1 ELSE 0)
<1> DEFINE n == Len(q)
           A == {i \in 1 .. Len(Tail(q)) : Tail(q)[i] = e}
           B == {i \in 1 .. n : q[i] = e}
           C == {i \in 2 .. n : q[i] = e}
           f == [i \in A |-> i + 1]
<1>1. /\ Tail(q) \in Seq(S)
      /\ n \in Nat \ {0} /\ Len(Tail(q)) = n - 1
      /\ \A i \in 1 .. n - 1 : Tail(q)[i] = q[i + 1]
  BY TailFacts
<1>2. /\ IsFiniteSet(A) /\ Occurrences(Tail(q), e) = Cardinality(A)
      /\ Cardinality(A) \in Nat
      /\ IsFiniteSet(B) /\ Occurrences(q, e) = Cardinality(B)
  BY <1>1, OccurrencesNat DEF Occurrences
<1> HIDE DEF n
<1>3. f \in Bijection(A, C)
  <2>1. f \in Injection(A, C)
    <3>1. \A i \in A : i + 1 \in C
      BY <1>1
    <3>2. \A i, j \in A : i + 1 = j + 1 => i = j
      BY <1>1
    <3> QED
      BY <3>1, <3>2 DEF Injection, IsInjective
  <2>2. f \in Surjection(A, C)
    <3>1. \A j \in C : j - 1 \in A /\ (j - 1) + 1 = j
      BY <1>1
    <3>2. \A i \in A : i + 1 \in C
      BY <1>1
    <3> QED
      BY <3>1, <3>2 DEF Surjection
  <2> QED
    BY <2>1, <2>2 DEF Bijection
<1>4. IsFiniteSet(C) /\ Cardinality(C) = Cardinality(A)
  BY <1>2, <1>3, FS_Bijection DEF ExistsBijection
<1>5. CASE q[1] = e
  <2>1. B = C \cup {1} /\ 1 \notin C
    BY <1>1, <1>5
  <2> HIDE DEF B, C
  <2>2. Cardinality(B) = Cardinality(C) + 1
    BY <1>4, <2>1, FS_AddElement
  <2> QED
    BY <1>2, <1>4, <1>5, <2>2
<1>6. CASE q[1] # e
  <2>1. B = C
    BY <1>1, <1>6
  <2> HIDE DEF A, B, C
  <2> QED
    BY <1>2, <1>4, <1>6, <2>1
<1> QED
  BY <1>5, <1>6

-----------------------------------------------------------------------------
(* What a step does to the frames of a response *)

(* The handler takes the next frame off its responder. *)
Takes(r) == PumpFrame(r) \/ AwaitFrame(r) \/ RelayFrame(r)

LEMMA PipeEffects ==
    ASSUME RegistryInv, AddressInv, [Next]_vars
    PROVE  \/ UNCHANGED <<buffer, pushing, up, written, sent>>
           \/ \E r \in Requests, k \in UpKinds : UpGrows(r, k)
           \/ \E s \in Streams : Dispatch(s) \/ Push(s)
           \/ \E r \in Requests : Takes(r)
<1> DEFINE v == <<buffer, pushing, up, written, sent>>
<1>1. CASE UNCHANGED settledVars
  BY <1>1 DEF settledVars, serverVars, handlerVars, loopVars, netVars, daemonVars, workVars
<1>2. ASSUME NEW r \in Requests,
             \/ Register(r) \/ SendStart(r) \/ PumpStops(r) \/ CloseResponder(r)
             \/ Unregister(r) \/ AwaitStops(r) \/ RelayStops(r) \/ Finish(r)
      PROVE  UNCHANGED v
  BY <1>2 DEF Register, SendStart, PumpStops, CloseResponder, Unregister, AwaitStops,
              RelayStops, Finish, loopVars, netVars, daemonVars, workVars
<1>3. ASSUME NEW r \in Requests,
             \/ Leave(r) \/ Timeout(r) \/ UploadChunk(r) \/ UploadOver(r) \/ UploadEnd(r)
             \/ RelayChunk(r) \/ RelayReadEnds(r)
      PROVE  UNCHANGED v
  BY <1>3 DEF Leave, Timeout, UploadChunk, UploadOver, UploadEnd, RelayChunk,
              RelayReadEnds, serverVars, handlerVars, loopVars, netVars, daemonVars,
              workVars
<1>4. ASSUME NEW r \in Requests, WorkerStep(r) \/ UpstreamCloses(r)
      PROVE  UNCHANGED v \/ \E k \in UpKinds : UpGrows(r, k)
  BY <1>4, SendingStep, QuietWorkEffects
<1>5. ASSUME NEW s \in Streams,
             \/ AttachWaits(s) \/ Attach(s) \/ AttachLost(s) \/ RecvFails(s) \/ Detach(s)
             \/ CloseStale(s) \/ Break(s) \/ Connect(s) \/ DaemonRecv(s) \/ ServeOneEnds(s)
      PROVE  UNCHANGED v
  BY <1>5 DEF AttachWaits, Attach, AttachLost, RecvFails, Detach, TakeOut, CloseStale,
              Break, Connect, DaemonRecv, ServeOneEnds, serverVars, handlerVars,
              loopVars, netVars, daemonVars, workVars
<1> QED
  BY <1>1, <1>2, <1>3, <1>4, <1>5, NextMoves DEF Move, HandlerStep, ExchangeStep, Takes

(* Workers and handlers only go forward. *)
LEMMA ForwardEffects ==
    ASSUME TunnelAssumption, RegistryInv, AddressInv, [Next]_vars, NEW q \in Requests
    PROVE  /\ worker'[q] = "none" => worker[q] = "none"
           /\ worker[q] = "done" => worker'[q] = "done"
           /\ \/ \E k \in UpKinds : UpGrows(q, k)
              \/ worker'[q] \in {"body", "relay", "end"} =>
                    worker[q] \in {"body", "relay", "end"}
           /\ handler'[q] = "await" => handler[q] \in {"await", "start"}
           /\ handler'[q] = "new" => handler[q] = "new"
           /\ Waiting(q)' => Waiting(q) \/ Register(q)
<1>1. /\ worker'[q] = "none" => worker[q] = "none"
      /\ worker[q] = "done" => worker'[q] = "done"
      /\ \/ \E k \in UpKinds : UpGrows(q, k)
         \/ worker'[q] \in {"body", "relay", "end"} =>
               worker[q] \in {"body", "relay", "end"}
  <2> DEFINE Goal == /\ worker'[q] = "none" => worker[q] = "none"
                     /\ worker[q] = "done" => worker'[q] = "done"
                     /\ worker'[q] \in {"body", "relay", "end"} =>
                           worker[q] \in {"body", "relay", "end"}
  <2>1. CASE UNCHANGED <<worker, pumps, sent>>
    BY <2>1
  <2>2. ASSUME NEW r \in Requests,
               Dial(r) \/ BodyOver(r) \/ RelayDown(r) \/ RelayOver(r) \/ UpstreamCloses(r)
        PROVE  Goal
    BY <2>2, QuietWorkEffects
  <2>3. ASSUME NEW r \in Requests, NEW k \in UpKinds, UpGrows(r, k)
        PROVE  /\ worker'[q] = "none" => worker[q] = "none"
               /\ worker[q] = "done" => worker'[q] = "done"
               /\ q = r \/ worker'[q] = worker[q]
    BY <2>3, SendEffects DEF LastKinds
  <2>4. ASSUME NEW s \in Streams, DaemonRecv(s) PROVE Goal
    BY <2>4, RecvEffects
  <2>5. ASSUME NEW s \in Streams, ServeOneEnds(s) PROVE Goal
    BY <2>5, ServeOneEffects
  <2> QED
    BY <2>1, <2>2, <2>3, <2>4, <2>5, WorkEffects, SendingStep
<1>2. /\ handler'[q] = "await" => handler[q] \in {"await", "start"}
      /\ handler'[q] = "new" => handler[q] = "new"
      /\ Waiting(q)' => Waiting(q) \/ Register(q)
  <2>1. CASE UNCHANGED handler
    BY <2>1 DEF Waiting
  <2>2. ASSUME NEW r \in Requests, HandlerStep(r) PROVE <1>2
    <3>1. \/ UNCHANGED handler
          \/ \E to \in {"pump", "await", "drain", "relay"} :
                Waiting(r) /\ Goto(r, to) /\ (to = "await" => handler[r] = "start")
          \/ \E to \in {"finish", "join", "unregister", "done"} : Goto(r, to)
      <4>1. CASE SendStart(r)
        BY <4>1 DEF SendStart, Waiting
      <4>2. CASE \/ PumpStops(r) \/ PumpFrame(r) \/ CloseResponder(r) \/ Unregister(r)
                 \/ RelayFrame(r) \/ RelayStops(r) \/ Finish(r)
        BY <4>2 DEF PumpStops, PumpFrame, CloseResponder, Unregister, RelayFrame,
                    RelayStops, Finish
      <4>3. CASE AwaitStops(r) \/ AwaitFrame(r)
        BY <4>3 DEF AwaitStops, AwaitFrame, Waiting
      <4> QED
        BY <2>2, <4>1, <4>2, <4>3 DEF HandlerStep
    <3> QED
      BY <2>1, <3>1 DEF Goto, Waiting, RegistryInv, RegistryTypes
  <2>3. ASSUME NEW r \in Requests, Register(r) PROVE <1>2
    <3>1. CASE q = r
      BY <2>3, <3>1, RegisterEffects
    <3>2. CASE q # r
      BY <2>3, <3>2, RegisterEffects DEF Waiting
    <3> QED
      BY <3>1, <3>2
  <2>4. ASSUME NEW r \in Requests,
               \/ Leave(r) \/ Timeout(r) \/ UploadChunk(r) \/ UploadOver(r) \/ UploadEnd(r)
               \/ RelayChunk(r) \/ RelayReadEnds(r)
        PROVE  UNCHANGED handler
    BY <2>4 DEF Leave, Timeout, UploadChunk, UploadOver, UploadEnd, RelayChunk,
                RelayReadEnds, serverVars, handlerVars
  <2>5. ASSUME NEW r \in Requests, WorkerStep(r) \/ UpstreamCloses(r)
        PROVE  UNCHANGED handler
    BY <2>5, SendingStep, QuietWorkEffects, SendEffects
  <2>6. ASSUME NEW s \in Streams,
               ExchangeStep(s) \/ Break(s) \/ Connect(s) \/ DaemonRecv(s) \/ ServeOneEnds(s)
        PROVE  UNCHANGED handler
    BY <2>6 DEF ExchangeStep, AttachWaits, Attach, AttachLost, Dispatch, Push, Pushed,
                RecvFails, Detach, TakeOut, CloseStale, Break, Connect, DaemonRecv,
                ServeOneEnds, serverVars, handlerVars
  <2>7. CASE UNCHANGED settledVars
    BY <2>7 DEF settledVars, serverVars, handlerVars, Waiting
  <2> QED
    BY <2>1, <2>2, <2>3, <2>4, <2>5, <2>6, <2>7, NextMoves DEF Move
<1> QED
  BY <1>1, <1>2

(* Dispatch moves the first frame of the stream to the loop, unless its      *)
(* request is not registered.                                                *)
LEMMA DispatchEffects ==
    ASSUME RegistryInv, AddressInv, NEW s \in Streams, Dispatch(s)
    PROVE  /\ exchange[s] = "recv" /\ pushing[s] = <<>>
           /\ \A t \in Streams : t # s => pushing'[t] = pushing[t]
           /\ \/ up[s][1][1] \in registered /\ pushing'[s] = up[s][1]
              \/ up[s][1][1] \notin registered /\ pushing'[s] = <<>>
           /\ up[s][1] \in Requests \X UpKinds /\ on[up[s][1][1]] = s
<1>1. exchange[s] = "recv" /\ up[s] # <<>>
  BY DEF Dispatch
<1>2. pushing[s] = <<>>
  BY <1>1 DEF AddressInv, PushingIsAddressed
<1>3. Head(up[s]) = up[s][1] /\ up[s][1] \in Requests \X UpKinds /\ on[up[s][1][1]] = s
  BY <1>1, HeadOfUp
<1>4. \/ /\ up[s][1][1] \in registered
         /\ pushing' = [pushing EXCEPT ![s] = up[s][1]]
      \/ up[s][1][1] \notin registered /\ pushing' = pushing
  BY <1>3 DEF Dispatch, loopVars
<1>5. pushing \in [Streams -> {<<>>} \cup (Requests \X UpKinds)]
  BY DEF AddressInv, BufferTypes
<1> QED
  BY <1>1, <1>2, <1>3, <1>4, <1>5

(* Push appends the loop's frame to the responder's channel, unless it is    *)
(* closed.                                                                   *)
LEMMA PushEffects ==
    ASSUME RegistryInv, AddressInv, NEW s \in Streams, Push(s)
    PROVE  LET r == pushing[s][1]  k == pushing[s][2] IN
           /\ exchange[s] = "push"
           /\ r \in Requests /\ k \in UpKinds /\ on[r] = s /\ pushing[s] = <<r, k>>
           /\ pushing'[s] = <<>> /\ \A t \in Streams : t # s => pushing'[t] = pushing[t]
           /\ \A q \in Requests : q # r => buffer'[q] = buffer[q]
           /\ \/ buffer'[r] = Append(buffer[r], k)
              \/ buffer'[r] = buffer[r] /\ r \in closed
           /\ UNCHANGED <<on, worker, handler, up, sent, written, answer, registered, closed>>
<1> DEFINE r == pushing[s][1]  k == pushing[s][2]
<1>1. /\ exchange[s] = "push" /\ pushing' = [pushing EXCEPT ![s] = <<>>]
      /\ UNCHANGED <<on, worker, handler, up, sent, written, answer, registered, closed>>
  BY DEF Push, Pushed, registryVars, handlerVars, netVars, daemonVars, workVars
<1>2. pushing[s] \in Requests \X UpKinds /\ on[r] = s
  BY <1>1 DEF AddressInv, PushingIsAddressed
<1>3. r \in Requests /\ k \in UpKinds /\ pushing[s] = <<r, k>>
  BY <1>2
<1>4. \/ buffer' = [buffer EXCEPT ![r] = Append(@, k)]
      \/ r \in closed /\ UNCHANGED buffer
  BY DEF Push, Fits
<1>5. /\ pushing \in [Streams -> {<<>>} \cup (Requests \X UpKinds)]
      /\ buffer \in [Requests -> Seq(UpKinds)]
  BY DEF AddressInv, BufferTypes
<1> HIDE DEF r, k
<1>6. pushing'[s] = <<>> /\ \A t \in Streams : t # s => pushing'[t] = pushing[t]
  BY <1>1, <1>5
<1>7. /\ \A q \in Requests : q # r => buffer'[q] = buffer[q]
      /\ \/ buffer'[r] = Append(buffer[r], k)
         \/ buffer'[r] = buffer[r] /\ r \in closed
  BY <1>3, <1>4, <1>5
<1> QED
  BY <1>1, <1>2, <1>3, <1>6, <1>7 DEF r, k

(* A handler takes the first frame of its responder's channel. *)
LEMMA TakeEffects ==
    ASSUME RegistryInv, AddressInv, NEW r \in Requests, Takes(r)
    PROVE  /\ buffer[r] # <<>> /\ buffer[r] \in Seq(UpKinds)
           /\ buffer'[r] = Tail(buffer[r]) /\ Head(buffer[r]) = buffer[r][1]
           /\ \A q \in Requests : q # r =>
                /\ buffer'[q] = buffer[q] /\ written'[q] = written[q]
                /\ handler'[q] = handler[q] /\ answer'[q] = answer[q]
           /\ UNCHANGED <<pushing, up, on, worker, sent>>
           /\ handler[r] \in {"pump", "drain", "await", "relay"}
           /\ \/ buffer[r][1] = "body" /\ written'[r] = written[r] + 1
              \/ buffer[r][1] = "body" /\ ~Waiting(r)'
              \/ buffer[r][1] = "body" /\ handler[r] = "await"
              \/ buffer[r][1] # "body" /\ written'[r] = written[r]
           /\ handler[r] = "await" => written'[r] = written[r]
           /\ \/ answer'[r] # "ended" \/ answer'[r] = answer[r]
              \/ /\ buffer[r][1] = "end" /\ handler[r] \in {"pump", "drain"}
                 /\ handler'[r] = "join" /\ written'[r] = written[r]
           /\ handler[r] = "await" /\ handler'[r] = "await" =>
                buffer[r][1] \notin {"switch", "head"}
<1>1. UNCHANGED <<pushing, up, on, worker, sent>>
  BY DEF Takes, PumpFrame, AwaitFrame, RelayFrame, loopVars, netVars, daemonVars, workVars
<1>2. /\ buffer[r] # <<>> /\ buffer' = [buffer EXCEPT ![r] = Tail(@)]
      /\ handler[r] \in {"pump", "drain", "await", "relay"}
  BY DEF Takes, PumpFrame, AwaitFrame, RelayFrame, NextFrame
<1>3. /\ buffer \in [Requests -> Seq(UpKinds)]
      /\ written \in [Requests -> Nat]
      /\ handler \in [Requests -> HandlerStates]
      /\ answer \in [Requests -> {"none", "no daemon", "send failed", "disconnected",
                                  "open", "cut", "ended", "upstream error"}]
  BY DEF AddressInv, BufferTypes, ServerTypes, RegistryInv, RegistryTypes
<1>4. /\ buffer[r] \in Seq(UpKinds) /\ Head(buffer[r]) = buffer[r][1]
      /\ buffer'[r] = Tail(buffer[r])
      /\ \A q \in Requests : q # r => buffer'[q] = buffer[q]
  BY <1>2, <1>3, TailFacts
<1> DEFINE Goal ==
        /\ \A q \in Requests : q # r =>
              /\ written'[q] = written[q]
              /\ handler'[q] = handler[q] /\ answer'[q] = answer[q]
        /\ \/ buffer[r][1] = "body" /\ written'[r] = written[r] + 1
           \/ buffer[r][1] = "body" /\ ~Waiting(r)'
           \/ buffer[r][1] = "body" /\ handler[r] = "await"
           \/ buffer[r][1] # "body" /\ written'[r] = written[r]
        /\ handler[r] = "await" => written'[r] = written[r]
        /\ \/ answer'[r] # "ended" \/ answer'[r] = answer[r]
           \/ /\ buffer[r][1] = "end" /\ handler[r] \in {"pump", "drain"}
              /\ handler'[r] = "join" /\ written'[r] = written[r]
        /\ handler[r] = "await" /\ handler'[r] = "await" =>
             buffer[r][1] \notin {"switch", "head"}
<1>5. ASSUME PumpFrame(r) PROVE Goal
  <2>1. \/ /\ buffer[r][1] = "head" /\ answer' = [answer EXCEPT ![r] = "open"]
           /\ UNCHANGED <<written, handler>>
        \/ /\ buffer[r][1] = "body" /\ written' = [written EXCEPT ![r] = @ + 1]
           /\ answer' = [answer EXCEPT ![r] = "open"] /\ UNCHANGED handler
        \/ /\ buffer[r][1] = "body" /\ answer' = [answer EXCEPT ![r] = "open"]
           /\ handler' = [handler EXCEPT ![r] = "join"] /\ UNCHANGED written
        \/ /\ buffer[r][1] = "end" /\ answer' = [answer EXCEPT ![r] = "ended"]
           /\ handler' = [handler EXCEPT ![r] = "join"] /\ UNCHANGED written
        \/ /\ buffer[r][1] = "error"
           /\ \E to \in {"cut", "upstream error"} : answer' = [answer EXCEPT ![r] = to]
           /\ handler' = [handler EXCEPT ![r] = "join"] /\ UNCHANGED written
    BY <1>4, <1>5 DEF PumpFrame, Frame, SetAnswer, Goto
  <2>2. handler[r] \in {"pump", "drain"}
    BY <1>5 DEF PumpFrame
  <2>3. \A q \in Requests : q # r =>
            written'[q] = written[q] /\ handler'[q] = handler[q] /\ answer'[q] = answer[q]
    BY <1>3, <2>1
  <2>4. \/ buffer[r][1] = "body" /\ written'[r] = written[r] + 1
        \/ buffer[r][1] = "body" /\ handler'[r] = "join"
        \/ buffer[r][1] # "body" /\ written'[r] = written[r]
    BY <1>3, <2>1
  <2>5. \/ answer'[r] # "ended"
        \/ buffer[r][1] = "end" /\ handler'[r] = "join" /\ written'[r] = written[r]
    BY <1>3, <2>1
  <2> QED
    BY <2>2, <2>3, <2>4, <2>5 DEF Waiting
<1>6. ASSUME AwaitFrame(r) PROVE Goal
  <2>1. /\ handler[r] = "await" /\ UNCHANGED written
        /\ \/ UNCHANGED answer \/ answer' = [answer EXCEPT ![r] = "open"]
        /\ \/ UNCHANGED handler /\ buffer[r][1] \notin {"switch", "head"}
           \/ \E to \in {"relay", "join", "drain"} : handler' = [handler EXCEPT ![r] = to]
    BY <1>4, <1>6 DEF AwaitFrame, Frame, SetAnswer, Goto
  <2>2. \A q \in Requests : q # r => handler'[q] = handler[q] /\ answer'[q] = answer[q]
    BY <1>3, <2>1
  <2>3. handler'[r] = "await" => buffer[r][1] \notin {"switch", "head"}
    BY <1>3, <2>1
  <2>4. answer'[r] # "ended" \/ answer'[r] = answer[r]
    BY <1>3, <2>1
  <2> QED
    BY <2>1, <2>2, <2>3, <2>4
<1>7. ASSUME RelayFrame(r) PROVE Goal
  <2>1. /\ handler[r] = "relay" /\ UNCHANGED answer
        /\ \/ /\ buffer[r][1] = "body" /\ written' = [written EXCEPT ![r] = @ + 1]
              /\ UNCHANGED handler
           \/ /\ buffer[r][1] \in {"body", "end", "error"} /\ UNCHANGED written
              /\ handler' = [handler EXCEPT ![r] = "finish"]
    BY <1>4, <1>7 DEF RelayFrame, Frame, Goto
  <2>2. \A q \in Requests : q # r => written'[q] = written[q] /\ handler'[q] = handler[q]
    BY <1>3, <2>1
  <2>3. \/ buffer[r][1] = "body" /\ written'[r] = written[r] + 1
        \/ buffer[r][1] = "body" /\ handler'[r] = "finish"
        \/ buffer[r][1] # "body" /\ written'[r] = written[r]
    BY <1>3, <2>1
  <2> QED
    BY <2>1, <2>2, <2>3 DEF Waiting
<1>8. Goal
  BY <1>5, <1>6, <1>7 DEF Takes
<1> QED
  BY <1>1, <1>2, <1>4, <1>8

-----------------------------------------------------------------------------
(* The frames of a response: the steps *)

LEMMA FrameInit == TunnelAssumption /\ Init => FrameInv
<1> SUFFICES ASSUME Init PROVE FrameInv
  OBVIOUS
<1>1. NothingUnasked
  BY DEF Init, NothingUnasked
<1>2. LastIsLast
  BY DEF Init, LastIsLast, Streams, NoStream
<1>3. AwaitsOpening /\ BodiesConserved /\ EndedIsFinal
  BY DEF Init, AwaitsOpening, BodiesConserved, EndedIsFinal, Waiting
<1> QED
  BY <1>1, <1>2, <1>3 DEF FrameInv

LEMMA NothingUnaskedStep ==
    ASSUME TunnelAssumption, RegistryInv, AddressInv, FrameInv, [Next]_vars
    PROVE  NothingUnasked'
<1> SUFFICES ASSUME NEW q \in Requests, worker'[q] = "none"
             PROVE  /\ sent'[q] = 0 /\ written'[q] = 0 /\ buffer'[q] = <<>>
                    /\ \A s \in Streams : pushing'[s] # <<>> => pushing'[s][1] # q
                    /\ \A s \in Streams : \A i \in 1 .. Len(up'[s]) : up'[s][i][1] # q
  BY DEF NothingUnasked
<1> DEFINE Goal == /\ sent'[q] = 0 /\ written'[q] = 0 /\ buffer'[q] = <<>>
                   /\ \A s \in Streams : pushing'[s] # <<>> => pushing'[s][1] # q
                   /\ \A s \in Streams : \A i \in 1 .. Len(up'[s]) : up'[s][i][1] # q
<1>0. worker[q] = "none"
  BY ForwardEffects
<1>1. /\ sent[q] = 0 /\ written[q] = 0 /\ buffer[q] = <<>>
      /\ \A s \in Streams : pushing[s] # <<>> => pushing[s][1] # q
      /\ \A s \in Streams : \A i \in 1 .. Len(up[s]) : up[s][i][1] # q
  BY <1>0 DEF FrameInv, NothingUnasked
<1>2. CASE UNCHANGED <<buffer, pushing, up, written, sent>>
  BY <1>1, <1>2
<1>3. ASSUME NEW r \in Requests, NEW k \in UpKinds, UpGrows(r, k) PROVE Goal
  <2>1. worker[r] # "none" /\ on[r] \in Streams
    BY <1>3 DEF UpGrows
  <2>2. q # r
    BY <1>0, <2>1
  <2>3. sent'[q] = sent[q] /\ UNCHANGED <<pushing, buffer, written>>
    BY <1>3, <2>2, SendEffects
  <2>4. /\ \A s \in Streams : s # on[r] => up'[s] = up[s]
        /\ Len(up[on[r]]) \in Nat /\ Len(up'[on[r]]) = Len(up[on[r]]) + 1
        /\ \A i \in 1 .. Len(up[on[r]]) : up'[on[r]][i] = up[on[r]][i]
        /\ up'[on[r]][Len(up[on[r]]) + 1] = <<r, k>>
    BY <1>3, UpGrown
  <2>5. up'[on[r]][Len(up[on[r]]) + 1][1] # q
    BY <2>2, <2>4
  <2>6. \A i \in 1 .. Len(up'[on[r]]) :
            i \in 1 .. Len(up[on[r]]) \/ i = Len(up[on[r]]) + 1
    BY <2>4
  <2>7. \A i \in 1 .. Len(up[on[r]]) : up'[on[r]][i][1] # q
    BY <1>1, <2>1, <2>4
  <2>8. \A i \in 1 .. Len(up'[on[r]]) : up'[on[r]][i][1] # q
    BY <2>5, <2>6, <2>7
  <2> QED
    BY <1>1, <2>3, <2>4, <2>8
<1>4. ASSUME NEW s \in Streams, Dispatch(s) PROVE Goal
  <2>1. /\ \A t \in Streams : t # s => up'[t] = up[t]
        /\ Len(up[s]) \in Nat \ {0}
        /\ \A i \in 1 .. Len(up'[s]) :
                i + 1 \in 2 .. Len(up[s]) /\ up'[s][i] = up[s][i + 1]
        /\ UNCHANGED <<written, sent, buffer>>
    BY <1>4, UpTaken
  <2>2. /\ \A t \in Streams : t # s => pushing'[t] = pushing[t]
        /\ pushing'[s] = up[s][1] \/ pushing'[s] = <<>>
    BY <1>4, DispatchEffects
  <2>3. up[s][1][1] # q
    BY <1>1, <2>1
  <2>4. \A i \in 1 .. Len(up'[s]) : up'[s][i][1] # q
    BY <1>1, <2>1
  <2> QED
    BY <1>1, <2>1, <2>2, <2>3, <2>4
<1>5. ASSUME NEW s \in Streams, Push(s) PROVE Goal
  <2>1. /\ pushing'[s] = <<>> /\ \A t \in Streams : t # s => pushing'[t] = pushing[t]
        /\ pushing[s] # <<>> /\ q # pushing[s][1] => buffer'[q] = buffer[q]
        /\ UNCHANGED <<up, sent, written>>
    BY <1>5, PushEffects
  <2>2. pushing[s] # <<>>
    BY <1>5, PushEffects
  <2> QED
    BY <1>1, <2>1, <2>2
<1>6. ASSUME NEW r \in Requests, Takes(r) PROVE Goal
  BY <1>1, <1>6, TakeEffects
<1> QED
  BY <1>2, <1>3, <1>4, <1>5, <1>6, PipeEffects

(* The frames of a request in its stream after a send and after Dispatch. *)
LEMMA InStreamSend ==
    ASSUME TunnelAssumption, AddressInv, NEW r \in Requests, NEW k \in UpKinds, UpGrows(r, k),
           NEW q \in Requests, on[q] \in Streams
    PROVE  LET n == Len(up[on[r]]) IN
           /\ \A i \in InStream(q) : up'[on[q]][i] = up[on[q]][i]
           /\ q # r => InStream(q)' = InStream(q)
           /\ q = r =>
                /\ InStream(q)' = InStream(q) \cup {n + 1}
                /\ \A i \in InStream(q) : i \in Nat /\ i < n + 1
                /\ n + 1 \in Nat /\ up'[on[q]][n + 1] = <<r, k>>
           /\ on'[q] = on[q]
<1> DEFINE n == Len(up[on[r]])
<1>1. /\ \A s \in Streams : s # on[r] => up'[s] = up[s]
      /\ n \in Nat /\ Len(up'[on[r]]) = n + 1
      /\ \A i \in 1 .. n : up'[on[r]][i] = up[on[r]][i]
      /\ up'[on[r]][n + 1] = <<r, k>>
      /\ UNCHANGED on
  BY UpGrown
<1>2. CASE on[q] # on[r]
  <2>1. up'[on[q]] = up[on[q]] /\ q # r
    BY <1>1, <1>2
  <2> QED
    BY <1>1, <2>1 DEF InStream
<1>3. CASE on[q] = on[r]
  <2>1. \A i \in 1 .. n + 1 : i \in 1 .. n \/ i = n + 1
    BY <1>1
  <2>2. \A i \in 1 .. n : i \in 1 .. n + 1 /\ i < n + 1
    BY <1>1
  <2>3. up'[on[r]][n + 1][1] = r
    BY <1>1
  <2>4. InStream(q) = {i \in 1 .. n : up[on[r]][i][1] = q}
    BY <1>3 DEF InStream
  <2>5. InStream(q)' = {i \in 1 .. n + 1 : up'[on[r]][i][1] = q}
    BY <1>1, <1>3 DEF InStream
  <2> HIDE DEF n
  <2>6. CASE q = r
    <3>1. n + 1 \in 1 .. n + 1
      BY <1>1
    <3>2. InStream(q)' = InStream(q) \cup {n + 1}
      BY <1>1, <2>1, <2>2, <2>3, <2>4, <2>5, <2>6, <3>1
    <3> QED
      BY <1>1, <1>3, <2>2, <2>4, <2>6, <3>2 DEF n
  <2>7. CASE q # r
    <3>1. InStream(q)' = InStream(q)
      BY <1>1, <2>1, <2>2, <2>3, <2>4, <2>5, <2>7
    <3> QED
      BY <1>1, <1>3, <2>4, <2>7, <3>1 DEF n
  <2> QED
    BY <2>6, <2>7
<1> QED
  BY <1>2, <1>3

LEMMA InStreamDispatch ==
    ASSUME TunnelAssumption, AddressInv, NEW s \in Streams, Dispatch(s),
           NEW q \in Requests, on[q] \in Streams
    PROVE  /\ on'[q] = on[q]
           /\ on[q] # s => up'[on[q]] = up[on[q]] /\ InStream(q)' = InStream(q)
           /\ on[q] = s =>
                /\ \A i \in InStream(q)' : i \in Nat /\ i >= 1 /\ i + 1 \in InStream(q)
                /\ \A i \in InStream(q)' : up'[s][i] = up[s][i + 1]
                /\ \A j \in InStream(q) : j \in Nat /\ j >= 1
                                          /\ (j # 1 => j - 1 \in InStream(q)')
                /\ 1 \in InStream(q) <=> up[s][1][1] = q
<1>1. /\ \A t \in Streams : t # s => up'[t] = up[t]
      /\ Len(up[s]) \in Nat \ {0} /\ Len(up'[s]) = Len(up[s]) - 1
      /\ \A i \in 1 .. Len(up'[s]) :
                i + 1 \in 2 .. Len(up[s]) /\ up'[s][i] = up[s][i + 1]
      /\ UNCHANGED on
  BY UpTaken
<1>2. CASE on[q] # s
  BY <1>1, <1>2 DEF InStream
<1>3. CASE on[q] = s
  <2>1. InStream(q) = {i \in 1 .. Len(up[s]) : up[s][i][1] = q}
    BY <1>3 DEF InStream
  <2>2. InStream(q)' = {i \in 1 .. Len(up'[s]) : up'[s][i][1] = q}
    BY <1>1, <1>3 DEF InStream
  <2>3. ASSUME NEW i \in InStream(q)'
        PROVE  i \in Nat /\ i >= 1 /\ i + 1 \in InStream(q) /\ up'[s][i] = up[s][i + 1]
    BY <1>1, <2>1, <2>2
  <2>4. ASSUME NEW j \in InStream(q)
        PROVE  j \in Nat /\ j >= 1 /\ (j # 1 => j - 1 \in InStream(q)')
    <3>1. j \in 1 .. Len(up[s]) /\ up[s][j][1] = q
      BY <2>1
    <3>2. CASE j # 1
      <4>1. j - 1 \in 1 .. Len(up'[s]) /\ (j - 1) + 1 = j
        BY <1>1, <3>1, <3>2
      <4>2. up'[s][j - 1] = up[s][j]
        BY <1>1, <4>1
      <4> QED
        BY <2>2, <3>1, <4>1, <4>2
    <3> QED
      BY <3>1, <3>2
  <2>5. 1 \in InStream(q) <=> up[s][1][1] = q
    BY <1>1, <2>1
  <2> QED
    BY <1>1, <1>3, <2>3, <2>4, <2>5
<1> QED
  BY <1>2, <1>3

(* A frame pushed belongs to a request of that stream. *)
LEMMA PushedFacts ==
    ASSUME AddressInv, NEW q \in Requests, IsPushed(q)
    PROVE  /\ on[q] \in Streams /\ exchange[on[q]] = "push"
           /\ pushing[on[q]] = <<q, pushing[on[q]][2]>> /\ pushing[on[q]][2] \in UpKinds
<1>1. on[q] \in Streams /\ pushing[on[q]] # <<>> /\ pushing[on[q]][1] = q
  BY DEF IsPushed
<1>2. exchange[on[q]] = "push" /\ pushing[on[q]] \in Requests \X UpKinds
  BY <1>1 DEF AddressInv, PushingIsAddressed
<1> QED
  BY <1>1, <1>2

LEMMA LastIsLastStep ==
    ASSUME TunnelAssumption, RegistryInv, AddressInv, FrameInv, [Next]_vars
    PROVE  LastIsLast'
<1> SUFFICES ASSUME NEW q \in Requests, on'[q] \in Streams
             PROVE  LastInBuffer(q)' /\ LastPushed(q)' /\ LastInStream(q)'
  BY DEF LastIsLast
<1> DEFINE Goal == LastInBuffer(q)' /\ LastPushed(q)' /\ LastInStream(q)'
<1>1. ASSUME Register(q) PROVE Goal
  <2>1. /\ UNCHANGED <<up, pushing, buffer>> /\ worker[q] = "none"
    BY <1>1, RegisterEffects
  <2>2. /\ buffer[q] = <<>>
        /\ \A s \in Streams : pushing[s] # <<>> => pushing[s][1] # q
        /\ \A s \in Streams : \A i \in 1 .. Len(up[s]) : up[s][i][1] # q
    BY <2>1 DEF FrameInv, NothingUnasked
  <2>3. ~IsPushed(q)' /\ InStream(q)' = {}
    BY <2>1, <2>2 DEF IsPushed, InStream
  <2>4. Len(buffer'[q]) = 0
    BY <2>1, <2>2
  <2> QED
    BY <2>3, <2>4 DEF LastInBuffer, LastPushed, LastInStream
<1>2. ASSUME ~Register(q) PROVE on'[q] = on[q] /\ on[q] \in Streams
  <2>1. CASE UNCHANGED on
    BY <2>1
  <2>2. ASSUME NEW r \in Requests, Register(r) PROVE on'[q] = on[q]
    BY <1>2, <2>2, RegisterEffects
  <2> QED
    BY <2>1, <2>2, ProgressEffects
<1>3. ASSUME on'[q] = on[q], on[q] \in Streams PROVE Goal
  <2>0. LastInBuffer(q) /\ LastPushed(q) /\ LastInStream(q)
    BY <1>3 DEF FrameInv, LastIsLast
  <2>w. worker[q] = "done" => worker'[q] = "done"
    BY ForwardEffects
  <2>b. buffer[q] \in Seq(UpKinds)
    BY DEF AddressInv, BufferTypes
  <2>1. ASSUME UNCHANGED <<buffer, pushing, up, written, sent>> PROVE Goal
    <3>1. (IsPushed(q)' <=> IsPushed(q)) /\ InStream(q)' = InStream(q)
      BY <1>3, <2>1 DEF IsPushed, InStream
    <3> QED
      BY <1>3, <2>0, <2>w, <2>1, <3>1 DEF LastInBuffer, LastPushed, LastInStream
  <2>2. ASSUME NEW r \in Requests, NEW k \in UpKinds, UpGrows(r, k) PROVE Goal
    <3> DEFINE n == Len(up[on[r]])
    <3>1. UNCHANGED <<pushing, buffer>> /\ (IsPushed(q)' <=> IsPushed(q))
      BY <1>3, <2>2, SendEffects DEF IsPushed
    <3>2. /\ \A i \in InStream(q) : up'[on[q]][i] = up[on[q]][i]
          /\ q # r => InStream(q)' = InStream(q)
          /\ q = r =>
                /\ InStream(q)' = InStream(q) \cup {n + 1}
                /\ \A i \in InStream(q) : i \in Nat /\ i < n + 1
                /\ n + 1 \in Nat /\ up'[on[q]][n + 1] = <<r, k>>
      BY <1>3, <2>2, InStreamSend
    <3> HIDE DEF n
    <3>3. CASE q # r
      BY <1>3, <2>0, <2>w, <3>1, <3>2, <3>3 DEF LastInBuffer, LastPushed, LastInStream
    <3>4. CASE q = r
      <4>1. worker[q] # "done" /\ (k \in LastKinds => worker'[q] = "done")
        BY <2>2, <3>4, SendEffects DEF LastKinds
      <4>2. /\ \A i \in 1 .. Len(buffer[q]) : buffer[q][i] \notin LastKinds
            /\ IsPushed(q) => pushing[on[q]][2] \notin LastKinds
            /\ \A i \in InStream(q) : up[on[q]][i][2] \notin LastKinds
        BY <2>0, <4>1 DEF LastInBuffer, LastPushed, LastInStream
      <4>3. LastInBuffer(q)' /\ LastPushed(q)'
        BY <1>3, <3>1, <4>2 DEF LastInBuffer, LastPushed
      <4>4. up'[on[q]][n + 1][2] = k
        BY <3>2, <3>4
      <4>5. \A j \in InStream(q)' : j <= n + 1
        BY <3>2, <3>4
      <4>6. LastInStream(q)'
        BY <1>3, <3>2, <3>4, <4>1, <4>2, <4>4, <4>5 DEF LastInStream
      <4> QED
        BY <4>3, <4>6
    <3> QED
      BY <3>3, <3>4
  <2>3. ASSUME NEW s \in Streams, Dispatch(s) PROVE Goal
    <3>1. /\ pushing[s] = <<>> /\ \A t \in Streams : t # s => pushing'[t] = pushing[t]
          /\ \/ up[s][1][1] \in registered /\ pushing'[s] = up[s][1]
             \/ up[s][1][1] \notin registered /\ pushing'[s] = <<>>
      BY <2>3, DispatchEffects
    <3>2. UNCHANGED <<worker, buffer>>
      BY <2>3, UpTaken
    <3>3. /\ on[q] # s => up'[on[q]] = up[on[q]] /\ InStream(q)' = InStream(q)
          /\ on[q] = s =>
                /\ \A i \in InStream(q)' : i \in Nat /\ i >= 1 /\ i + 1 \in InStream(q)
                /\ \A i \in InStream(q)' : up'[s][i] = up[s][i + 1]
                /\ \A j \in InStream(q) : j \in Nat /\ j >= 1
                                          /\ (j # 1 => j - 1 \in InStream(q)')
                /\ 1 \in InStream(q) <=> up[s][1][1] = q
      BY <1>3, <2>3, InStreamDispatch
    <3>4. CASE on[q] # s
      <4>1. IsPushed(q)' <=> IsPushed(q)
        BY <1>3, <3>1, <3>4 DEF IsPushed
      <4> QED
        BY <1>3, <2>0, <3>1, <3>2, <3>3, <3>4, <4>1
        DEF LastInBuffer, LastPushed, LastInStream
    <3>5. CASE on[q] = s
      <4>1. LastInStream(q)'
        <5> SUFFICES ASSUME NEW i \in InStream(q)', up'[s][i][2] \in LastKinds
                     PROVE  (\A j \in InStream(q)' : j <= i) /\ worker'[q] = "done"
          BY <1>3, <3>5 DEF LastInStream
        <5>1. i \in Nat /\ i + 1 \in InStream(q) /\ up[s][i + 1][2] \in LastKinds
          BY <3>3, <3>5
        <5>2. (\A j \in InStream(q) : j <= i + 1) /\ worker[q] = "done"
          BY <2>0, <3>5, <5>1 DEF LastInStream
        <5>3. \A j \in InStream(q)' : j \in Nat /\ j + 1 <= i + 1
          BY <3>3, <3>5, <5>2
        <5> QED
          BY <3>2, <5>1, <5>2, <5>3
      <4>2. CASE up[s][1][1] = q
        <5>1. InStream(q) # {} /\ 1 \in InStream(q)
          BY <3>3, <3>5, <4>2
        <5>2. \A i \in 1 .. Len(buffer[q]) : buffer[q][i] \notin LastKinds
          BY <2>0, <5>1 DEF LastInBuffer
        <5>3. LastInBuffer(q)'
          BY <3>2, <5>2 DEF LastInBuffer
        <5>4. LastPushed(q)'
          <6> SUFFICES ASSUME IsPushed(q)', pushing'[s][2] \in LastKinds
                       PROVE  InStream(q)' = {} /\ worker'[q] = "done"
            BY <1>3, <3>5 DEF LastPushed
          <6>1. pushing'[s] = up[s][1]
            BY <1>3, <3>1, <3>5 DEF IsPushed
          <6>2. (\A j \in InStream(q) : j <= 1) /\ worker[q] = "done"
            BY <2>0, <3>5, <5>1, <6>1 DEF LastInStream
          <6>3. ASSUME NEW i \in InStream(q)' PROVE FALSE
            <7>1. i \in Nat /\ i >= 1 /\ i + 1 \in InStream(q)
              BY <3>3, <3>5
            <7>2. i + 1 <= 1
              BY <6>2, <7>1
            <7> QED
              BY <7>1, <7>2
          <6> QED
            BY <3>2, <6>2, <6>3
        <5> QED
          BY <4>1, <5>3, <5>4
      <4>3. CASE up[s][1][1] # q
        <5>1. ~IsPushed(q)' /\ ~IsPushed(q)
          BY <1>3, <3>1, <3>5, <4>3 DEF IsPushed
        <5>2. InStream(q) = {} => InStream(q)' = {}
          BY <3>3, <3>5
        <5> QED
          BY <2>0, <3>2, <4>1, <5>1, <5>2 DEF LastInBuffer, LastPushed
      <4> QED
        BY <4>2, <4>3
    <3> QED
      BY <3>4, <3>5
  <2>4. ASSUME NEW s \in Streams, Push(s) PROVE Goal
    <3> DEFINE r == pushing[s][1]  k == pushing[s][2]
    <3>1. /\ exchange[s] = "push"
          /\ r \in Requests /\ k \in UpKinds /\ on[r] = s /\ pushing[s] = <<r, k>>
          /\ pushing'[s] = <<>> /\ \A t \in Streams : t # s => pushing'[t] = pushing[t]
          /\ q # r => buffer'[q] = buffer[q]
          /\ \/ buffer'[r] = Append(buffer[r], k)
             \/ buffer'[r] = buffer[r] /\ r \in closed
          /\ UNCHANGED <<on, worker, up>>
      BY <2>4, PushEffects
    <3>2. InStream(q)' = InStream(q) /\ up'[on[q]] = up[on[q]]
      BY <3>1 DEF InStream
    <3>3. LastInStream(q)'
      BY <2>0, <3>1, <3>2 DEF LastInStream
    <3>4. CASE on[q] # s
      <4>1. (IsPushed(q)' <=> IsPushed(q)) /\ q # r /\ pushing'[on[q]] = pushing[on[q]]
        BY <1>3, <3>1, <3>4 DEF IsPushed
      <4> QED
        BY <2>0, <3>1, <3>2, <3>3, <4>1 DEF LastInBuffer, LastPushed
    <3>5. CASE on[q] = s /\ q # r
      <4>1. ~IsPushed(q)'
        BY <1>3, <3>1, <3>5 DEF IsPushed
      <4>2. LastPushed(q)'
        BY <4>1 DEF LastPushed
      <4>3. LastInBuffer(q)'
        BY <2>0, <3>1, <3>2, <3>5, <4>1 DEF LastInBuffer
      <4> QED
        BY <3>3, <4>2, <4>3
    <3>6. CASE q = r
      <4>1. IsPushed(q) /\ ~IsPushed(q)' /\ pushing[on[q]][2] = k
        BY <1>3, <3>1, <3>6 DEF IsPushed
      <4>2. \A i \in 1 .. Len(buffer[q]) : buffer[q][i] \notin LastKinds
        BY <2>0, <4>1 DEF LastInBuffer
      <4>3. k \in LastKinds => InStream(q) = {} /\ worker[q] = "done"
        BY <2>0, <4>1 DEF LastPushed
      <4>4. LastPushed(q)'
        BY <4>1 DEF LastPushed
      <4>5. CASE buffer'[q] = buffer[q]
        BY <3>3, <4>2, <4>4, <4>5 DEF LastInBuffer
      <4>6. CASE buffer'[q] = Append(buffer[q], k)
        <5>1. /\ Len(buffer[q]) \in Nat /\ Len(buffer'[q]) = Len(buffer[q]) + 1
              /\ \A i \in 1 .. Len(buffer[q]) : buffer'[q][i] = buffer[q][i]
              /\ buffer'[q][Len(buffer[q]) + 1] = k
          BY <2>b, <3>1, <4>6, AppendFacts
        <5>2. \A i \in 1 .. Len(buffer'[q]) :
                i \in 1 .. Len(buffer[q]) \/ i = Len(buffer'[q])
          BY <5>1
        <5>3. LastInBuffer(q)'
          BY <3>1, <3>2, <4>1, <4>2, <4>3, <5>1, <5>2 DEF LastInBuffer
        <5> QED
          BY <3>3, <4>4, <5>3
      <4> QED
        BY <3>1, <3>6, <4>5, <4>6
    <3> QED
      BY <3>4, <3>5, <3>6
  <2>5. ASSUME NEW r \in Requests, Takes(r) PROVE Goal
    <3>1. UNCHANGED <<pushing, up, on, worker>>
      BY <2>5, TakeEffects
    <3>2. (IsPushed(q)' <=> IsPushed(q)) /\ InStream(q)' = InStream(q)
      BY <3>1 DEF IsPushed, InStream
    <3>3. LastPushed(q)' /\ LastInStream(q)'
      BY <2>0, <3>1, <3>2 DEF LastPushed, LastInStream
    <3>4. CASE q # r
      <4>1. buffer'[q] = buffer[q]
        BY <2>5, <3>4, TakeEffects
      <4> QED
        BY <2>0, <3>1, <3>2, <3>3, <4>1 DEF LastInBuffer
    <3>5. CASE q = r
      <4>1. buffer[q] # <<>> /\ buffer'[q] = Tail(buffer[q])
        BY <2>5, <3>5, TakeEffects
      <4>2. /\ Len(buffer[q]) \in Nat /\ Len(buffer'[q]) = Len(buffer[q]) - 1
            /\ \A i \in 1 .. Len(buffer[q]) - 1 : buffer'[q][i] = buffer[q][i + 1]
        BY <2>b, <4>1, TailFacts
      <4>3. \A i \in 1 .. Len(buffer'[q]) :
                i + 1 \in 1 .. Len(buffer[q]) /\ buffer'[q][i] = buffer[q][i + 1]
        BY <4>2
      <4>4. \A i \in 1 .. Len(buffer'[q]) : i + 1 = Len(buffer[q]) => i = Len(buffer'[q])
        BY <4>2
      <4>5. LastInBuffer(q)'
        BY <2>0, <3>1, <3>2, <4>3, <4>4 DEF LastInBuffer
      <4> QED
        BY <3>3, <4>5
    <3> QED
      BY <3>4, <3>5
  <2> QED
    BY <2>1, <2>2, <2>3, <2>4, <2>5, PipeEffects
<1> QED
  BY <1>1, <1>2, <1>3

LEMMA LenZero ==
    ASSUME NEW S, NEW q \in Seq(S), Len(q) = 0
    PROVE  q = <<>>
  OBVIOUS

LEMMA AwaitsOpeningStep ==
    ASSUME TunnelAssumption, RegistryInv, AddressInv, FrameInv, [Next]_vars
    PROVE  AwaitsOpening'
<1> SUFFICES ASSUME NEW q \in Requests, handler'[q] = "await"
             PROVE  NextIsNoBody(q)'
  BY DEF AwaitsOpening
<1>f. /\ handler[q] \in {"await", "start"}
      /\ \/ \E k \in UpKinds : UpGrows(q, k)
         \/ worker'[q] \in {"body", "relay", "end"} => worker[q] \in {"body", "relay", "end"}
  BY ForwardEffects
<1>o. on[q] \in Streams /\ on'[q] = on[q]
  <2>1. on[q] \in Streams
    BY <1>f DEF AddressInv, RequestsHaveStreams
  <2>2. ASSUME NEW r \in Requests, Register(r) PROVE on'[q] = on[q]
    BY <1>f, <2>2, RegisterEffects
  <2> QED
    BY <2>1, <2>2, ProgressEffects
<1>b. buffer[q] \in Seq(UpKinds)
  BY DEF AddressInv, BufferTypes
<1>1. CASE handler[q] = "start"
  <2>1. worker[q] = "none"
    BY <1>1 DEF AddressInv, StartedOnce
  <2>2. /\ buffer[q] = <<>>
        /\ \A s \in Streams : pushing[s] # <<>> => pushing[s][1] # q
        /\ \A s \in Streams : \A i \in 1 .. Len(up[s]) : up[s][i][1] # q
    BY <2>1 DEF FrameInv, NothingUnasked
  <2>3. ~UNCHANGED handler
    BY <1>1
  <2>4. ~\E r \in Requests, k \in UpKinds : UpGrows(r, k)
    BY <2>3 DEF UpGrows, handlerVars
  <2>5. ~\E s \in Streams : Dispatch(s) \/ Push(s)
    BY <2>3, UpTaken, PushEffects
  <2>6. ~\E r \in Requests : Takes(r)
    BY <1>1, TakeEffects
  <2>7. UNCHANGED <<buffer, pushing, up>> /\ worker'[q] \notin {"body", "relay", "end"}
    BY <1>f, <2>1, <2>4, <2>5, <2>6, PipeEffects
  <2>8. ~IsPushed(q)' /\ InStream(q)' = {}
    BY <1>o, <2>2, <2>7 DEF IsPushed, InStream
  <2> QED
    BY <2>2, <2>7, <2>8 DEF NextIsNoBody
<1>2. CASE handler[q] = "await"
  <2>0. NextIsNoBody(q) /\ LastInBuffer(q)
    BY <1>2, <1>o DEF FrameInv, AwaitsOpening, LastIsLast
  <2>1. ASSUME UNCHANGED <<buffer, pushing, up, written, sent>> PROVE NextIsNoBody(q)'
    <3>1. (IsPushed(q)' <=> IsPushed(q)) /\ InStream(q)' = InStream(q)
      BY <1>o, <2>1 DEF IsPushed, InStream
    <3>2. worker'[q] \in {"body", "relay", "end"} => worker[q] \in {"body", "relay", "end"}
      <4>1. ~\E k \in UpKinds : UpGrows(q, k)
        <5> SUFFICES ASSUME NEW k \in UpKinds, UpGrows(q, k) PROVE FALSE
          OBVIOUS
        <5>1. Len(up'[on[q]]) = Len(up[on[q]]) + 1 /\ Len(up[on[q]]) \in Nat
          BY UpGrown
        <5> QED
          BY <2>1, <5>1
      <4> QED
        BY <1>f, <4>1
    <3> QED
      BY <1>o, <2>0, <2>1, <3>1, <3>2 DEF NextIsNoBody
  <2>2. ASSUME NEW r \in Requests, NEW k \in UpKinds, UpGrows(r, k) PROVE NextIsNoBody(q)'
    <3> DEFINE n == Len(up[on[r]])
    <3>1. UNCHANGED <<pushing, buffer>> /\ (IsPushed(q)' <=> IsPushed(q))
      BY <1>o, <2>2, SendEffects DEF IsPushed
    <3>2. /\ \A i \in InStream(q) : up'[on[q]][i] = up[on[q]][i]
          /\ q # r => InStream(q)' = InStream(q)
          /\ q = r =>
                /\ InStream(q)' = InStream(q) \cup {n + 1}
                /\ \A i \in InStream(q) : i \in Nat /\ i < n + 1
                /\ n + 1 \in Nat /\ up'[on[q]][n + 1] = <<r, k>>
      BY <1>o, <2>2, InStreamSend
    <3> HIDE DEF n
    <3>3. CASE q # r
      <4>1. worker'[q] = worker[q]
        BY <2>2, <3>3, SendEffects
      <4> QED
        BY <1>o, <2>0, <3>1, <3>2, <3>3, <4>1 DEF NextIsNoBody
    <3>4. CASE q = r
      <4>1. k = "body" => worker[q] \in {"body", "relay", "end"}
        BY <2>2, <3>4, SendEffects DEF LastKinds
      <4>2. CASE buffer[q] # <<>> \/ IsPushed(q)
        BY <1>o, <2>0, <3>1, <4>2 DEF NextIsNoBody
      <4>3. CASE buffer[q] = <<>> /\ ~IsPushed(q)
        <5>1. InStream(q)' # {} /\ up'[on[q]][n + 1][2] = k
          BY <3>2, <3>4
        <5>2. \A i \in InStream(q) : up[on[q]][i][2] = "body" => \E j \in InStream(q) : j < i
          BY <2>0, <4>3 DEF NextIsNoBody
        <5>3. k = "body" => InStream(q) # {}
          BY <2>0, <4>1, <4>3 DEF NextIsNoBody
        <5>4. \A i \in InStream(q)' : up'[on[q]][i][2] = "body" =>
                \E j \in InStream(q)' : j < i
          BY <3>2, <3>4, <5>1, <5>2, <5>3
        <5> QED
          BY <1>o, <3>1, <4>3, <5>1, <5>4 DEF NextIsNoBody
      <4> QED
        BY <4>2, <4>3
    <3> QED
      BY <3>3, <3>4
  <2>3. ASSUME NEW s \in Streams, Dispatch(s) PROVE NextIsNoBody(q)'
    <3>1. /\ exchange[s] = "recv"
          /\ pushing[s] = <<>> /\ \A t \in Streams : t # s => pushing'[t] = pushing[t]
          /\ \/ up[s][1][1] \in registered /\ pushing'[s] = up[s][1]
             \/ up[s][1][1] \notin registered /\ pushing'[s] = <<>>
          /\ up[s][1] \in Requests \X UpKinds
      BY <2>3, DispatchEffects
    <3>2. UNCHANGED <<worker, buffer>>
      BY <2>3, UpTaken
    <3>3. /\ on[q] # s => up'[on[q]] = up[on[q]] /\ InStream(q)' = InStream(q)
          /\ on[q] = s =>
                /\ \A i \in InStream(q)' : i \in Nat /\ i >= 1 /\ i + 1 \in InStream(q)
                /\ \A i \in InStream(q)' : up'[s][i] = up[s][i + 1]
                /\ \A j \in InStream(q) : j \in Nat /\ j >= 1
                                          /\ (j # 1 => j - 1 \in InStream(q)')
                /\ 1 \in InStream(q) <=> up[s][1][1] = q
      BY <1>o, <2>3, InStreamDispatch
    <3>4. CASE on[q] # s
      <4>1. IsPushed(q)' <=> IsPushed(q)
        BY <1>o, <3>1, <3>4 DEF IsPushed
      <4> QED
        BY <1>o, <2>0, <3>1, <3>2, <3>3, <3>4, <4>1 DEF NextIsNoBody
    <3>5. CASE on[q] = s /\ buffer[q] # <<>>
      BY <2>0, <3>2, <3>5 DEF NextIsNoBody
    <3>6. CASE on[q] = s /\ buffer[q] = <<>> /\ up[s][1][1] = q
      <4>1. q \in registered
        BY <1>2, <3>1, <3>6 DEF RegistryInv, AttendedIsRegistered, Waiting
      <4>2. pushing'[s] = up[s][1] /\ up[s][1] # <<>>
        BY <3>1, <3>6, <4>1
      <4>3. IsPushed(q)'
        BY <1>o, <3>6, <4>2 DEF IsPushed
      <4>4. ~IsPushed(q) /\ InStream(q) # {}
        BY <3>1, <3>3, <3>6 DEF IsPushed
      <4>5. up[s][1][2] # "body"
        <5> SUFFICES ASSUME up[s][1][2] = "body" PROVE FALSE
          OBVIOUS
        <5>1. \E j \in InStream(q) : j < 1
          BY <2>0, <3>3, <3>6, <4>4 DEF NextIsNoBody
        <5> QED
          BY <3>3, <3>6, <5>1
      <4> QED
        BY <1>o, <3>2, <3>6, <4>2, <4>3, <4>5 DEF NextIsNoBody
    <3>7. CASE on[q] = s /\ buffer[q] = <<>> /\ up[s][1][1] # q
      <4>1. ~IsPushed(q) /\ ~IsPushed(q)'
        BY <1>o, <3>1, <3>7 DEF IsPushed
      <4>2. CASE InStream(q) = {}
        <5>1. InStream(q)' = {}
          BY <3>3, <3>7, <4>2
        <5> QED
          BY <2>0, <3>2, <3>7, <4>1, <4>2, <5>1 DEF NextIsNoBody
      <4>3. CASE InStream(q) # {}
        <5>1. InStream(q)' # {}
          BY <3>3, <3>7, <4>3
        <5>2. ASSUME NEW i \in InStream(q)', up'[s][i][2] = "body"
              PROVE  \E j \in InStream(q)' : j < i
          <6>1. i \in Nat /\ i + 1 \in InStream(q) /\ up[s][i + 1][2] = "body"
            BY <3>3, <3>7, <5>2
          <6>2. PICK j \in InStream(q) : j < i + 1
            BY <2>0, <3>7, <4>1, <4>3, <6>1 DEF NextIsNoBody
          <6>3. j \in Nat /\ j - 1 \in InStream(q)'
            BY <3>3, <3>7, <6>2
          <6>4. j - 1 < i
            BY <6>1, <6>2, <6>3
          <6> QED
            BY <6>3, <6>4
        <5> QED
          BY <1>o, <3>2, <3>7, <4>1, <5>1, <5>2 DEF NextIsNoBody
      <4> QED
        BY <4>2, <4>3
    <3> QED
      BY <3>4, <3>5, <3>6, <3>7
  <2>4. ASSUME NEW s \in Streams, Push(s) PROVE NextIsNoBody(q)'
    <3> DEFINE r == pushing[s][1]  k == pushing[s][2]
    <3>1. /\ exchange[s] = "push"
          /\ r \in Requests /\ k \in UpKinds /\ on[r] = s /\ pushing[s] = <<r, k>>
          /\ pushing'[s] = <<>> /\ \A t \in Streams : t # s => pushing'[t] = pushing[t]
          /\ q # r => buffer'[q] = buffer[q]
          /\ \/ buffer'[r] = Append(buffer[r], k)
             \/ buffer'[r] = buffer[r] /\ r \in closed
          /\ UNCHANGED <<on, worker, up>>
      BY <2>4, PushEffects
    <3>2. InStream(q)' = InStream(q)
      BY <3>1 DEF InStream
    <3>3. CASE q # r
      <4>1. /\ IsPushed(q)' <=> IsPushed(q)
            /\ IsPushed(q) => pushing'[on[q]] = pushing[on[q]]
        BY <1>o, <3>1, <3>3 DEF IsPushed
      <4> QED
        BY <1>o, <2>0, <3>1, <3>2, <3>3, <4>1 DEF NextIsNoBody
    <3>4. CASE q = r
      <4>1. q \notin closed
        BY <1>2, <3>1, <3>4 DEF RegistryInv, AttendedIsRegistered, Waiting
      <4>2. buffer'[q] = Append(buffer[q], k)
        BY <3>1, <3>4, <4>1
      <4>3. IsPushed(q) /\ pushing[on[q]][2] = k
        BY <1>o, <3>1, <3>4 DEF IsPushed
      <4>4. buffer[q] = <<>> => k # "body"
        BY <2>0, <4>3 DEF NextIsNoBody
      <4>5. buffer'[q] # <<>> /\ buffer'[q][1] # "body"
        <5>1. CASE buffer[q] = <<>>
          BY <1>b, <3>1, <4>2, <4>4, <5>1
        <5>2. CASE buffer[q] # <<>>
          <6>1. buffer[q][1] # "body"
            BY <2>0, <5>2 DEF NextIsNoBody
          <6>2. buffer'[q][1] = buffer[q][1] /\ Len(buffer'[q]) # 0
            BY <1>b, <3>1, <4>2, <5>2, AppendFacts, TailFacts
          <6> QED
            BY <6>1, <6>2
        <5> QED
          BY <5>1, <5>2
      <4> QED
        BY <4>5 DEF NextIsNoBody
    <3> QED
      BY <3>3, <3>4
  <2>5. ASSUME NEW r \in Requests, Takes(r) PROVE NextIsNoBody(q)'
    <3>1. UNCHANGED <<pushing, up, on, worker>>
      BY <2>5, TakeEffects
    <3>2. (IsPushed(q)' <=> IsPushed(q)) /\ InStream(q)' = InStream(q)
      BY <3>1 DEF IsPushed, InStream
    <3>3. CASE q # r
      <4>1. buffer'[q] = buffer[q]
        BY <2>5, <3>3, TakeEffects
      <4> QED
        BY <2>0, <3>1, <3>2, <4>1 DEF NextIsNoBody
    <3>4. CASE q = r
      <4>1. /\ buffer[q] # <<>> /\ buffer'[q] = Tail(buffer[q])
            /\ buffer[q][1] \notin {"switch", "head"}
        BY <1>2, <2>5, <3>4, TakeEffects
      <4>2. /\ Len(buffer[q]) \in Nat \ {0} /\ Len(buffer'[q]) = Len(buffer[q]) - 1
            /\ buffer[q][1] \in UpKinds /\ buffer'[q] \in Seq(UpKinds)
        BY <1>b, <4>1, TailFacts
      <4>3. buffer[q][1] \in LastKinds
        BY <2>0, <4>1, <4>2 DEF NextIsNoBody, UpKinds, LastKinds
      <4>4. 1 \in 1 .. Len(buffer[q])
        BY <4>2
      <4>5. 1 = Len(buffer[q]) /\ ~IsPushed(q) /\ InStream(q) = {} /\ worker[q] = "done"
        BY <2>0, <4>3, <4>4 DEF LastInBuffer
      <4>6. Len(buffer'[q]) = 0
        BY <4>2, <4>5
      <4>7. buffer'[q] = <<>>
        BY <4>2, <4>6, LenZero
      <4> QED
        BY <3>1, <3>2, <4>5, <4>7 DEF NextIsNoBody
    <3> QED
      BY <3>3, <3>4
  <2> QED
    BY <2>1, <2>2, <2>3, <2>4, <2>5, PipeEffects
<1> QED
  BY <1>1, <1>2, <1>f

LEMMA BodiesConservedStep ==
    ASSUME TunnelAssumption, RegistryInv, AddressInv, FrameInv, [Next]_vars
    PROVE  BodiesConserved'
<1> SUFFICES ASSUME NEW q \in Requests, Waiting(q)'
             PROVE  written'[q] + BodiesInTransit(q)' = sent'[q]
  BY DEF BodiesConserved
<1> DEFINE b == Occurrences(buffer[q], "body")
           u == Occurrences(up[on[q]], <<q, "body">>)
           p == BodiesPushed(q)
           b1 == Occurrences(buffer'[q], "body")
           u1 == Occurrences(up'[on[q]], <<q, "body">>)
           p1 == BodiesPushed(q)'
           Goal == written'[q] + BodiesInTransit(q)' = sent'[q]
<1>1. ASSUME Register(q) PROVE Goal
  <2>1. /\ UNCHANGED <<up, pushing, buffer, written, sent>> /\ worker[q] = "none"
        /\ on'[q] \in Streams
    <3>1. handler'[q] = "start"
      BY <1>1, RegisterEffects DEF Waiting
    <3> QED
      BY <1>1, <3>1, RegisterEffects
  <2>2. /\ sent[q] = 0 /\ written[q] = 0 /\ buffer[q] = <<>>
        /\ \A s \in Streams : pushing[s] # <<>> => pushing[s][1] # q
        /\ \A s \in Streams : \A i \in 1 .. Len(up[s]) : up[s][i][1] # q
    BY <2>1 DEF FrameInv, NothingUnasked
  <2>3. Occurrences(buffer'[q], "body") = 0
    BY <2>1, <2>2, OccurrencesEmpty
  <2>4. \A i \in 1 .. Len(up'[on'[q]]) : up'[on'[q]][i] # <<q, "body">>
    BY <2>1, <2>2
  <2>5. Occurrences(up'[on'[q]], <<q, "body">>) = 0
    BY <2>4, OccurrencesNone
  <2>6. BodiesPushed(q)' = 0
    BY <2>1, <2>2 DEF BodiesPushed
  <2> QED
    BY <2>1, <2>2, <2>3, <2>5, <2>6 DEF BodiesInTransit
<1>2. ASSUME ~Register(q) PROVE Waiting(q) /\ on'[q] = on[q] /\ on[q] \in Streams
  <2>1. Waiting(q)
    BY <1>2, ForwardEffects
  <2>2. on[q] \in Streams
    BY <2>1 DEF RegistryInv, AttendedIsRegistered
  <2>3. ASSUME NEW r \in Requests, Register(r) PROVE on'[q] = on[q]
    BY <1>2, <2>3, RegisterEffects
  <2> QED
    BY <2>1, <2>2, <2>3, ProgressEffects
<1>3. ASSUME Waiting(q), on'[q] = on[q], on[q] \in Streams PROVE Goal
  <2>0. written[q] + (b + p + u) = sent[q]
    BY <1>3 DEF FrameInv, BodiesConserved, BodiesInTransit
  <2>t. /\ buffer[q] \in Seq(UpKinds) /\ up[on[q]] \in Seq(Requests \X UpKinds)
        /\ written[q] \in Nat /\ p \in {0, 1}
    BY <1>3 DEF AddressInv, BufferTypes, StreamTypes, ServerTypes, BodiesPushed
  <2>n. b \in Nat /\ u \in Nat
    BY <2>t, OccurrencesNat
  <2>g. BodiesInTransit(q)' = b1 + p1 + u1
    BY <1>3 DEF BodiesInTransit
  <2> HIDE DEF b, u, p, b1, u1, p1
  <2>1. ASSUME UNCHANGED <<buffer, pushing, up, written, sent>> PROVE Goal
    <3>1. p1 = p /\ b1 = b /\ u1 = u
      BY <1>3, <2>1 DEF BodiesPushed, p, p1, b, b1, u, u1
    <3> QED
      BY <2>0, <2>g, <2>1, <3>1
  <2>2. ASSUME NEW r \in Requests, NEW k \in UpKinds, UpGrows(r, k) PROVE Goal
    <3>1. /\ UNCHANGED <<pushing, buffer, written>>
          /\ sent'[q] = IF q = r /\ k = "body" THEN sent[q] + 1 ELSE sent[q]
      BY <2>2, SendEffects
    <3>2. p1 = p /\ b1 = b
      BY <1>3, <3>1 DEF BodiesPushed, p, p1, b, b1
    <3>3. /\ \A s \in Streams : s # on[r] => up'[s] = up[s]
          /\ up'[on[r]] = Append(up[on[r]], <<r, k>>)
      BY <2>2, UpGrown
    <3>4. u1 = IF q = r /\ k = "body" THEN u + 1 ELSE u
      <4>1. CASE on[q] # on[r]
        BY <1>3, <3>3, <4>1 DEF u, u1
      <4>2. CASE on[q] = on[r]
        <5>1. <<r, k>> \in Requests \X UpKinds
          OBVIOUS
        <5>2. Occurrences(Append(up[on[q]], <<r, k>>), <<q, "body">>)
                = u + (IF <<r, k>> = <<q, "body">> THEN 1 ELSE 0)
          BY <2>t, <5>1, OccurrencesAppend DEF u
        <5>3. CASE q = r /\ k = "body"
          BY <3>3, <4>2, <5>2, <5>3 DEF u1
        <5>4. CASE ~(q = r /\ k = "body")
          <6>1. <<r, k>>[1] # <<q, "body">>[1] \/ <<r, k>>[2] # <<q, "body">>[2]
            BY <5>4
          <6>2. <<r, k>> # <<q, "body">>
            BY <6>1
          <6>3. Occurrences(Append(up[on[q]], <<r, k>>), <<q, "body">>) = u
            BY <2>t, <5>1, <6>2, OccurrencesKept DEF u
          <6>4. u1 = u
            BY <3>3, <4>2, <6>3 DEF u1
          <6> QED
            BY <5>4, <6>4
        <5> QED
          BY <5>3, <5>4
      <4> QED
        BY <4>1, <4>2
    <3>5. CASE q = r /\ k = "body"
      <4>1. written'[q] = written[q] /\ sent'[q] = sent[q] + 1 /\ u1 = u + 1
        BY <3>1, <3>4, <3>5
      <4> DEFINE w == written[q]
      <4>w. w \in Nat /\ p \in Nat /\ b \in Nat /\ u \in Nat
        BY <2>t, <2>n
      <4> HIDE DEF w
      <4>s. w + (b + p + (u + 1)) = (w + (b + p + u)) + 1
        BY <4>w
      <4>2. written[q] + (b + p + (u + 1)) = (written[q] + (b + p + u)) + 1
        BY <4>s DEF w
      <4> QED
        BY <2>0, <2>t, <2>n, <2>g, <3>2, <4>1, <4>2
    <3>6. CASE ~(q = r /\ k = "body")
      <4>1. written'[q] = written[q] /\ sent'[q] = sent[q] /\ u1 = u
        BY <3>1, <3>4, <3>6
      <4> QED
        BY <2>0, <2>g, <3>2, <4>1
    <3> QED
      BY <3>5, <3>6
  <2>3. ASSUME NEW s \in Streams, Dispatch(s) PROVE Goal
    <3>1. /\ exchange[s] = "recv"
          /\ pushing[s] = <<>> /\ \A t \in Streams : t # s => pushing'[t] = pushing[t]
          /\ \/ up[s][1][1] \in registered /\ pushing'[s] = up[s][1]
             \/ up[s][1][1] \notin registered /\ pushing'[s] = <<>>
          /\ up[s][1] \in Requests \X UpKinds
      BY <2>3, DispatchEffects
    <3>2. /\ UNCHANGED <<buffer, written, sent>>
          /\ \A t \in Streams : t # s => up'[t] = up[t]
          /\ up'[s] = Tail(up[s]) /\ up[s] # <<>>
      BY <2>3, UpTaken
    <3>3. b1 = b
      BY <3>2 DEF b, b1
    <3>4. CASE on[q] # s
      <4>1. p1 = p
        BY <1>3, <3>1, <3>4 DEF BodiesPushed, p, p1
      <4>2. u1 = u
        BY <1>3, <3>2, <3>4 DEF u, u1
      <4> QED
        BY <2>0, <2>g, <3>2, <3>3, <4>1, <4>2
    <3>5. CASE on[q] = s
      <4>1. p = 0
        BY <3>1, <3>5 DEF BodiesPushed, p
      <4>2. u = u1 + (IF up[s][1] = <<q, "body">> THEN 1 ELSE 0)
        BY <2>t, <3>2, <3>5, OccurrencesTail DEF u, u1
      <4>3. p1 = IF up[s][1] = <<q, "body">> THEN 1 ELSE 0
        <5>1. CASE up[s][1] = <<q, "body">>
          <6>1. q \in registered /\ up[s][1][1] = q
            BY <1>3, <3>1, <3>5, <5>1 DEF RegistryInv, AttendedIsRegistered
          <6> QED
            BY <1>3, <3>1, <3>5, <5>1, <6>1 DEF BodiesPushed, p1
        <5>2. CASE up[s][1] # <<q, "body">>
          BY <1>3, <3>1, <3>5, <5>2 DEF BodiesPushed, p1
        <5> QED
          BY <5>1, <5>2
      <4>4. u1 \in Nat
        BY <2>t, <3>2, <3>5, TailFacts, OccurrencesNat DEF u1
      <4>5. p1 + u1 = p + u /\ p1 \in Nat
        BY <2>n, <4>1, <4>2, <4>3, <4>4
      <4>6. b + p1 + u1 = b + p + u
        BY <2>n, <4>1, <4>4, <4>5
      <4>7. written'[q] = written[q] /\ sent'[q] = sent[q]
        BY <3>2
      <4> QED
        BY <2>0, <2>g, <3>3, <4>6, <4>7
    <3> QED
      BY <3>4, <3>5
  <2>4. ASSUME NEW s \in Streams, Push(s) PROVE Goal
    <3> DEFINE r == pushing[s][1]  k == pushing[s][2]
    <3>1. /\ exchange[s] = "push"
          /\ r \in Requests /\ k \in UpKinds /\ on[r] = s /\ pushing[s] = <<r, k>>
          /\ pushing'[s] = <<>> /\ \A t \in Streams : t # s => pushing'[t] = pushing[t]
          /\ q # r => buffer'[q] = buffer[q]
          /\ \/ buffer'[r] = Append(buffer[r], k)
             \/ buffer'[r] = buffer[r] /\ r \in closed
          /\ UNCHANGED <<on, worker, up, written, sent>>
      BY <2>4, PushEffects
    <3>2. u1 = u
      BY <3>1 DEF u, u1
    <3>3. CASE q # r
      <4>1. p1 = p /\ b1 = b
        BY <1>3, <3>1, <3>3 DEF BodiesPushed, p, p1, b, b1
      <4> QED
        BY <2>0, <2>g, <3>1, <3>2, <4>1
    <3>4. CASE q = r
      <4>1. q \notin closed
        BY <1>3, <3>1, <3>4 DEF RegistryInv, AttendedIsRegistered
      <4>a. buffer'[q] = Append(buffer[q], k)
        BY <3>1, <3>4, <4>1
      <4>2. b1 = b + (IF k = "body" THEN 1 ELSE 0)
        BY <2>t, <3>1, <4>a, OccurrencesAppend DEF b, b1
      <4>3. p1 = 0 /\ p = IF k = "body" THEN 1 ELSE 0
        BY <1>3, <3>1, <3>4 DEF BodiesPushed, p, p1
      <4>4. b1 + p1 = b + p
        BY <2>n, <4>2, <4>3
      <4>5. b1 \in Nat /\ p1 \in Nat
        BY <2>n, <4>2, <4>3
      <4>6. written'[q] = written[q] /\ sent'[q] = sent[q]
        BY <3>1
      <4> QED
        BY <2>0, <2>g, <3>2, <4>4, <4>6
    <3> QED
      BY <3>3, <3>4
  <2>5. ASSUME NEW r \in Requests, Takes(r) PROVE Goal
    <3>1. UNCHANGED <<pushing, up, on, sent>>
      BY <2>5, TakeEffects
    <3>2. p1 = p /\ u1 = u
      BY <3>1 DEF BodiesPushed, p, p1, u, u1
    <3>3. CASE q # r
      <4>1. buffer'[q] = buffer[q] /\ written'[q] = written[q]
        BY <2>5, <3>3, TakeEffects
      <4> QED
        BY <2>0, <2>g, <3>1, <3>2, <4>1 DEF b, b1
    <3>4. CASE q = r
      <4>1. /\ buffer[q] # <<>> /\ buffer'[q] = Tail(buffer[q])
            /\ \/ buffer[q][1] = "body" /\ written'[q] = written[q] + 1
               \/ buffer[q][1] = "body" /\ ~Waiting(q)'
               \/ buffer[q][1] = "body" /\ handler[q] = "await"
               \/ buffer[q][1] # "body" /\ written'[q] = written[q]
        BY <2>5, <3>4, TakeEffects
      <4>2. ~(buffer[q][1] = "body" /\ handler[q] = "await")
        BY <4>1 DEF FrameInv, AwaitsOpening, NextIsNoBody
      <4>3. b = b1 + (IF buffer[q][1] = "body" THEN 1 ELSE 0)
        BY <2>t, <4>1, OccurrencesTail DEF b, b1
      <4>4. b1 \in Nat
        BY <2>t, <4>1, TailFacts, OccurrencesNat DEF b1
      <4>5. CASE buffer[q][1] = "body"
        <5>1. written'[q] = written[q] + 1 /\ sent'[q] = sent[q]
          BY <3>1, <4>1, <4>2, <4>5
        <5> DEFINE w == written[q]
        <5>2. b = b1 + 1 /\ w \in Nat /\ p \in Nat
          BY <2>t, <4>3, <4>5
        <5> HIDE DEF w
        <5>3. (w + 1) + (b1 + p + u) = w + (b + p + u)
          BY <2>n, <4>4, <5>2
        <5> QED
          BY <2>0, <2>g, <3>2, <5>1, <5>3 DEF w
      <4>6. CASE buffer[q][1] # "body"
        <5>1. written'[q] = written[q] /\ sent'[q] = sent[q]
          BY <3>1, <4>1, <4>6
        <5>2. b = b1
          BY <4>3, <4>4, <4>6
        <5> QED
          BY <2>0, <2>g, <3>2, <5>1, <5>2
      <4> QED
        BY <4>5, <4>6
    <3> QED
      BY <3>3, <3>4
  <2> QED
    BY <2>1, <2>2, <2>3, <2>4, <2>5, PipeEffects
<1> QED
  BY <1>1, <1>2, <1>3

(* Only a handler that takes the last frame of its response ends an answer. *)
LEMMA AnswerEffects ==
    ASSUME RegistryInv, AddressInv, [Next]_vars, NEW q \in Requests, answer'[q] = "ended"
    PROVE  answer[q] = "ended" \/ Takes(q)
<1>0. answer \in [Requests -> {"none", "no daemon", "send failed", "disconnected",
                               "open", "cut", "ended", "upstream error"}]
  BY DEF AddressInv, ServerTypes
<1>1. CASE UNCHANGED answer
  BY <1>1
<1>2. ASSUME NEW r \in Requests, NEW to, to # "ended", SetAnswer(r, to)
      PROVE  answer[q] = "ended"
  BY <1>0, <1>2 DEF SetAnswer
<1>3. ASSUME NEW r \in Requests, Register(r) \/ SendStart(r)
      PROVE  answer[q] = "ended"
  <2>1. \/ UNCHANGED answer
        \/ SetAnswer(r, "no daemon") \/ SetAnswer(r, "send failed")
    BY <1>3 DEF Register, SendStart
  <2> QED
    BY <1>1, <1>2, <2>1
<1>4. ASSUME NEW r \in Requests, PumpStops(r) \/ AwaitStops(r)
      PROVE  answer[q] = "ended"
  <2>1. \/ UNCHANGED answer
        \/ SetAnswer(r, "cut") \/ SetAnswer(r, "disconnected")
    BY <1>4 DEF PumpStops, AwaitStops
  <2> QED
    BY <1>1, <1>2, <2>1
<1>5. ASSUME NEW r \in Requests, Takes(r) PROVE answer[q] = "ended" \/ Takes(q)
  BY <1>5, TakeEffects
<1>6. ASSUME NEW r \in Requests,
             \/ CloseResponder(r) \/ Unregister(r) \/ RelayStops(r) \/ Finish(r)
             \/ Leave(r) \/ Timeout(r) \/ UploadChunk(r) \/ UploadOver(r) \/ UploadEnd(r)
             \/ RelayChunk(r) \/ RelayReadEnds(r)
      PROVE  UNCHANGED answer
  BY <1>6 DEF CloseResponder, Unregister, RelayStops, Finish, Leave, Timeout, UploadChunk,
              UploadOver, UploadEnd, RelayChunk, RelayReadEnds, serverVars, handlerVars
<1>7. ASSUME NEW r \in Requests, WorkerStep(r) \/ UpstreamCloses(r)
      PROVE  UNCHANGED answer
  BY <1>7 DEF WorkerStep, Dial, SendHead, SendSwitch, SendBody, BodyOver, SendEnd,
              RelayDown, RelayOver, UpstreamCloses, serverVars, handlerVars
<1>8. ASSUME NEW s \in Streams,
             \/ ExchangeStep(s) \/ Break(s) \/ Connect(s) \/ DaemonRecv(s)
             \/ ServeOneEnds(s)
      PROVE  UNCHANGED answer
  BY <1>8 DEF ExchangeStep, AttachWaits, Attach, AttachLost, Dispatch, Push, Pushed,
              RecvFails, Detach, TakeOut, CloseStale, Break, Connect, DaemonRecv,
              ServeOneEnds, serverVars, handlerVars
<1>9. CASE UNCHANGED settledVars
  BY <1>1, <1>9 DEF settledVars, serverVars, handlerVars
<1> QED
  BY <1>1, <1>3, <1>4, <1>5, <1>6, <1>7, <1>8, <1>9, NextMoves DEF Move, HandlerStep, Takes

(* When the handler takes the last frame of a response, nothing is left in   *)
(* transit.                                                                  *)
LEMMA EndTakenLast ==
    ASSUME RegistryInv, AddressInv, FrameInv, NEW q \in Requests, Waiting(q),
           buffer[q] # <<>>, buffer[q][1] \in LastKinds
    PROVE  worker[q] = "done" /\ written[q] = sent[q]
<1>1. on[q] \in Streams
  BY DEF RegistryInv, AttendedIsRegistered
<1>2. buffer[q] \in Seq(UpKinds) /\ written[q] \in Nat
  BY DEF AddressInv, BufferTypes, ServerTypes
<1>3. Len(buffer[q]) \in Nat \ {0}
  BY <1>2, TailFacts
<1>4. 1 \in 1 .. Len(buffer[q])
  BY <1>3
<1>5. 1 = Len(buffer[q]) /\ ~IsPushed(q) /\ InStream(q) = {} /\ worker[q] = "done"
  BY <1>1, <1>4 DEF FrameInv, LastIsLast, LastInBuffer
<1>6. buffer[q][1] # "body"
  BY DEF LastKinds
<1>7. \A i \in 1 .. Len(buffer[q]) : buffer[q][i] # "body"
  BY <1>5, <1>6
<1>8. Occurrences(buffer[q], "body") = 0
  BY <1>7, OccurrencesNone
<1>9. \A i \in 1 .. Len(up[on[q]]) : up[on[q]][i] # <<q, "body">>
  BY <1>5 DEF InStream
<1>10. Occurrences(up[on[q]], <<q, "body">>) = 0
  BY <1>9, OccurrencesNone
<1>11. BodiesPushed(q) = 0
  BY <1>1, <1>5 DEF BodiesPushed, IsPushed
<1>12. BodiesInTransit(q) = 0
  BY <1>8, <1>10, <1>11 DEF BodiesInTransit
<1>13. written[q] + BodiesInTransit(q) = sent[q]
  BY DEF FrameInv, BodiesConserved
<1> QED
  BY <1>2, <1>5, <1>12, <1>13

LEMMA EndedIsFinalStep ==
    ASSUME TunnelAssumption, RegistryInv, AddressInv, FrameInv, [Next]_vars
    PROVE  EndedIsFinal'
<1> SUFFICES ASSUME NEW q \in Requests, answer'[q] = "ended"
             PROVE  /\ ~Waiting(q)' /\ handler'[q] # "new"
                    /\ worker'[q] = "done" /\ written'[q] = sent'[q]
  BY DEF EndedIsFinal
<1>1. CASE answer[q] = "ended"
  <2>1. /\ ~Waiting(q) /\ handler[q] # "new"
        /\ worker[q] = "done" /\ written[q] = sent[q]
    BY <1>1 DEF FrameInv, EndedIsFinal
  <2>2. /\ ~Waiting(q)' /\ handler'[q] # "new" /\ worker'[q] = "done"
    <3>1. ~Register(q)
      BY <2>1 DEF Register
    <3> QED
      BY <2>1, <3>1, ForwardEffects
  <2>3. ASSUME NEW r \in Requests, NEW k \in UpKinds, UpGrows(r, k)
        PROVE  written'[q] = written[q] /\ sent'[q] = sent[q]
    BY <2>1, <2>3, SendEffects
  <2>4. ASSUME NEW s \in Streams, Dispatch(s) \/ Push(s)
        PROVE  written'[q] = written[q] /\ sent'[q] = sent[q]
    BY <2>4, UpTaken, PushEffects
  <2>5. ASSUME NEW r \in Requests, Takes(r)
        PROVE  written'[q] = written[q] /\ sent'[q] = sent[q]
    <3>1. q # r
      BY <2>1, <2>5, TakeEffects DEF Waiting
    <3> QED
      BY <2>5, <3>1, TakeEffects
  <2>6. written'[q] = written[q] /\ sent'[q] = sent[q]
    BY <2>3, <2>4, <2>5, PipeEffects
  <2> QED
    BY <2>1, <2>2, <2>6
<1>2. CASE answer[q] # "ended"
  <2>1. Takes(q)
    BY <1>2, AnswerEffects
  <2>2. /\ buffer[q] # <<>> /\ buffer[q][1] = "end" /\ handler[q] \in {"pump", "drain"}
        /\ handler'[q] = "join" /\ written'[q] = written[q]
        /\ UNCHANGED <<worker, sent>>
    BY <1>2, <2>1, TakeEffects
  <2>3. worker[q] = "done" /\ written[q] = sent[q]
    <3>1. Waiting(q) /\ buffer[q][1] \in LastKinds
      BY <2>2 DEF Waiting, LastKinds
    <3> QED
      BY <2>2, <3>1, EndTakenLast
  <2> QED
    BY <2>2, <2>3 DEF Waiting
<1> QED
  BY <1>1, <1>2

LEMMA FrameStep ==
    ASSUME TunnelAssumption, RegistryInv, AddressInv, FrameInv, [Next]_vars
    PROVE  FrameInv'
BY NothingUnaskedStep, LastIsLastStep, AwaitsOpeningStep, BodiesConservedStep,
   EndedIsFinalStep
DEF FrameInv

LEMMA FrameAlways == Spec => [](RegistryInv /\ AddressInv /\ FrameInv)
<1>1. RegistryInv /\ AddressInv /\ FrameInv /\ [Next]_vars
        => (RegistryInv /\ AddressInv /\ FrameInv)'
  BY RegistryStep, AddressStep, FrameStep, TunnelAssumption
<1>2. Init => RegistryInv /\ AddressInv /\ FrameInv
  BY RegistryInit, AddressInit, FrameInit, TunnelAssumption
<1> QED
  BY <1>1, <1>2, PTL DEF Spec

(* A response that ended normally reached the browser whole: every           *)
(* RESPONSE_BODY frame the daemon's worker sent was written, whatever the    *)
(* capacities of the channel and of the stream, and however the handler, the *)
(* receive loop and the worker interleave.                                   *)
THEOREM EndedResponsesAreWhole == Spec => []EndedMeansWhole
<1>1. FrameInv => EndedMeansWhole
  BY DEF FrameInv, EndedIsFinal, EndedMeansWhole
<1> QED
  BY <1>1, FrameAlways, PTL

=============================================================================
