---------------------------- MODULE SessionQueue ----------------------------
(***************************************************************************)
(* internal/imcoord/session_queue.go: inbound IM drafts of one session are *)
(* run one at a time by a goroutine per session.  A caller of enqueue takes *)
(* a reference on the session's slot, sends its request into the slot's    *)
(* bounded channel, drops the reference and waits for the answer or for    *)
(* its context.  A slot that idles deletes itself; the next caller makes a *)
(* new one.  The lock q.mu is modelled by its holder, because the deletion *)
(* reads the channel's length and the reference count at two moments while *)
(* sends, which need no lock, go on.                                        *)
(***************************************************************************)
EXTENDS Naturals, Sequences, FiniteSets

CONSTANTS
    Requests,        \* calls of enqueue, one request each
    Keys,            \* session keys
    KeyOf,           \* KeyOf[r]: the session key request r is made for
    Slots,           \* identities of the slots ever allocated
    Aborters,        \* goroutines that call abort
    QueueCap,        \* capacity of a slot's channel (64 in the code)
    NoRequest, NoSlot, NoKey

ASSUME SessionAssumption ==
    /\ KeyOf \in [Requests -> Keys]
    /\ QueueCap \in Nat \ {0}
    /\ NoRequest \notin Requests
    /\ NoSlot \notin Slots
    /\ NoKey \notin Keys

VARIABLES
    sessions,        \* q.sessions: the current slot of each key, or NoSlot
    qmu,             \* the slot whose goroutine holds q.mu across two steps, or NoSlot
    slotKey,         \* slot.key, NoKey while the slot does not exist
    queue,           \* slot.queue: the buffered requests
    refs,            \* slot.refs
    activeCancel,    \* the request whose cancel function slot.activeCancel is
    runner,          \* where the slot's goroutine is
    taken,           \* the request that goroutine received last and still handles
    outcome,         \* what fn returned for it
    caller,          \* where each caller of enqueue is
    callerSlot,      \* the slot it got from getOrCreate
    ctxDone,         \* requests whose caller's context is done
    canceled,        \* requests whose derived context was cancelled
    resultC,         \* what was sent on req.resultC
    aborter,         \* where each caller of abort is
    abortKey,        \* the session key it was called for
    abortSlot,       \* the slot it looked up
    abortCancel      \* the request whose cancel function it read

callVars  == <<caller, callerSlot, ctxDone>>
abortVars == <<aborter, abortKey, abortSlot, abortCancel>>
slotVars  == <<queue, activeCancel, runner, taken, outcome>>
vars == <<sessions, qmu, slotKey, refs, slotVars, callVars, canceled,
          resultC, abortVars>>

RunnerStates == {"none", "select", "check", "arm", "start", "fn", "disarm",
                 "reply", "idle", "deleting", "exited"}
CallerStates == {"new", "sending", "sent", "failed", "waiting", "answered",
                 "gaveup"}
Busy == {"check", "arm", "start", "fn", "disarm", "reply"}

Init ==
    /\ sessions = [k \in Keys |-> NoSlot]
    /\ qmu = NoSlot
    /\ slotKey = [s \in Slots |-> NoKey]
    /\ queue = [s \in Slots |-> <<>>]
    /\ refs = [s \in Slots |-> 0]
    /\ activeCancel = [s \in Slots |-> NoRequest]
    /\ runner = [s \in Slots |-> "none"]
    /\ taken = [s \in Slots |-> NoRequest]
    /\ outcome = [s \in Slots |-> "none"]
    /\ caller = [r \in Requests |-> "new"]
    /\ callerSlot = [r \in Requests |-> NoSlot]
    /\ ctxDone = {}
    /\ canceled = {}
    /\ resultC = [r \in Requests |-> "none"]
    /\ aborter = [a \in Aborters |-> "idle"]
    /\ abortKey = [a \in Aborters |-> NoKey]
    /\ abortSlot = [a \in Aborters |-> NoSlot]
    /\ abortCancel = [a \in Aborters |-> NoRequest]

-----------------------------------------------------------------------------
(* Callers of enqueue *)

(* getOrCreate, the key already has a slot: one more reference on it. *)
JoinSlot(r) ==
    LET s == sessions[KeyOf[r]] IN
    /\ caller[r] = "new" /\ qmu = NoSlot
    /\ s # NoSlot
    /\ refs' = [refs EXCEPT ![s] = @ + 1]
    /\ callerSlot' = [callerSlot EXCEPT ![r] = s]
    /\ caller' = [caller EXCEPT ![r] = "sending"]
    /\ UNCHANGED <<sessions, qmu, slotKey, slotVars, ctxDone, canceled,
                   resultC, abortVars>>

(* Variant: exited slots are pooled and reused, for whatever key. *)
CreateSlotPooled(r, s) ==
    /\ caller[r] = "new" /\ qmu = NoSlot
    /\ sessions[KeyOf[r]] = NoSlot
    /\ slotKey[s] = NoKey \/ runner[s] = "exited"
    /\ sessions' = [sessions EXCEPT ![KeyOf[r]] = s]
    /\ slotKey' = [slotKey EXCEPT ![s] = KeyOf[r]]
    /\ refs' = [refs EXCEPT ![s] = 1]
    /\ runner' = [runner EXCEPT ![s] = "select"]
    /\ callerSlot' = [callerSlot EXCEPT ![r] = s]
    /\ caller' = [caller EXCEPT ![r] = "sending"]
    /\ UNCHANGED <<qmu, queue, activeCancel, taken, outcome, ctxDone,
                   canceled, resultC, abortVars>>

(* getOrCreate, no slot for the key: a fresh one with one reference, whose *)
(* goroutine is started.                                                   *)
CreateSlot(r, s) ==
    /\ caller[r] = "new" /\ qmu = NoSlot
    /\ sessions[KeyOf[r]] = NoSlot
    /\ slotKey[s] = NoKey
    /\ sessions' = [sessions EXCEPT ![KeyOf[r]] = s]
    /\ slotKey' = [slotKey EXCEPT ![s] = KeyOf[r]]
    /\ refs' = [refs EXCEPT ![s] = 1]
    /\ runner' = [runner EXCEPT ![s] = "select"]
    /\ callerSlot' = [callerSlot EXCEPT ![r] = s]
    /\ caller' = [caller EXCEPT ![r] = "sending"]
    /\ UNCHANGED <<qmu, queue, activeCancel, taken, outcome, ctxDone,
                   canceled, resultC, abortVars>>

(* slot.queue <- req, possible while the channel has room; no lock is held. *)
Send(r) ==
    LET s == callerSlot[r] IN
    /\ caller[r] = "sending"
    /\ Len(queue[s]) < QueueCap
    /\ queue' = [queue EXCEPT ![s] = Append(@, r)]
    /\ caller' = [caller EXCEPT ![r] = "sent"]
    /\ UNCHANGED <<sessions, qmu, slotKey, refs, activeCancel, runner, taken,
                   outcome, callerSlot, ctxDone, canceled, resultC, abortVars>>

(* Variant: the early return forgets release. *)
SendGivenUpLeaks(r) ==
    /\ caller[r] = "sending"
    /\ r \in ctxDone
    /\ caller' = [caller EXCEPT ![r] = "gaveup"]
    /\ UNCHANGED <<sessions, qmu, slotKey, refs, slotVars, callerSlot, ctxDone,
                   canceled, resultC, abortVars>>

(* Variant: the early return drops the reference and release drops it again. *)
SendGivenUpTwice(r) ==
    /\ caller[r] = "sending"
    /\ r \in ctxDone
    /\ refs' = [refs EXCEPT ![callerSlot[r]] = @ - 1]
    /\ caller' = [caller EXCEPT ![r] = "failed"]
    /\ UNCHANGED <<sessions, qmu, slotKey, slotVars, callerSlot, ctxDone,
                   canceled, resultC, abortVars>>

(* The other case of that select: the caller's context is done. *)
SendGivenUp(r) ==
    /\ caller[r] = "sending"
    /\ r \in ctxDone
    /\ caller' = [caller EXCEPT ![r] = "failed"]
    /\ UNCHANGED <<sessions, qmu, slotKey, refs, slotVars, callerSlot, ctxDone,
                   canceled, resultC, abortVars>>

(* release: the reference is dropped if the slot is still the current one. *)
DropRef(s) ==
    IF sessions[slotKey[s]] # s \/ refs[s] = 0
      THEN refs' = refs
      ELSE refs' = [refs EXCEPT ![s] = @ - 1]

Release(r) ==
    /\ caller[r] \in {"sent", "failed"} /\ qmu = NoSlot
    /\ DropRef(callerSlot[r])
    /\ caller' = [caller EXCEPT ![r] = IF @ = "sent" THEN "waiting" ELSE "gaveup"]
    /\ UNCHANGED <<sessions, qmu, slotKey, slotVars, callerSlot, ctxDone,
                   canceled, resultC, abortVars>>

(* <-resultC *)
ReceiveResult(r) ==
    /\ caller[r] = "waiting"
    /\ resultC[r] # "none"
    /\ caller' = [caller EXCEPT ![r] = "answered"]
    /\ UNCHANGED <<sessions, qmu, slotKey, refs, slotVars, callerSlot, ctxDone,
                   canceled, resultC, abortVars>>

(* <-ctx.Done() while waiting: the request stays in the channel. *)
StopWaiting(r) ==
    /\ caller[r] = "waiting"
    /\ r \in ctxDone
    /\ caller' = [caller EXCEPT ![r] = "gaveup"]
    /\ UNCHANGED <<sessions, qmu, slotKey, refs, slotVars, callerSlot, ctxDone,
                   canceled, resultC, abortVars>>

(* The caller's context ends: a webhook client hangs up, the server stops. *)
ContextDone(r) ==
    /\ r \notin ctxDone
    /\ caller[r] \notin {"answered", "gaveup"}
    /\ ctxDone' = ctxDone \cup {r}
    /\ UNCHANGED <<sessions, qmu, slotKey, refs, slotVars, caller, callerSlot,
                   canceled, resultC, abortVars>>

-----------------------------------------------------------------------------
(* The slot's goroutine: sessionSlot.run *)

Receive(s) ==
    /\ runner[s] = "select"
    /\ queue[s] # <<>>
    /\ taken' = [taken EXCEPT ![s] = Head(queue[s])]
    /\ queue' = [queue EXCEPT ![s] = Tail(@)]
    /\ runner' = [runner EXCEPT ![s] = "check"]
    /\ UNCHANGED <<sessions, qmu, slotKey, refs, activeCancel, outcome,
                   callVars, canceled, resultC, abortVars>>

(* Variant: the answer to a request that is done already is not followed by *)
(* `continue'.                                                              *)
CheckContextFallsThrough(s) ==
    /\ runner[s] = "check"
    /\ resultC' = IF taken[s] \in ctxDone
                    THEN [resultC EXCEPT ![taken[s]] = "err"] ELSE resultC
    /\ runner' = [runner EXCEPT ![s] = "arm"]
    /\ UNCHANGED <<sessions, qmu, slotKey, refs, queue, activeCancel, taken,
                   outcome, callVars, canceled, abortVars>>

(* A request whose context is already done is answered without running fn. *)
CheckContext(s) ==
    /\ runner[s] = "check"
    /\ IF taken[s] \in ctxDone
         THEN /\ resultC[taken[s]] = "none"
              /\ resultC' = [resultC EXCEPT ![taken[s]] = "err"]
              /\ taken' = [taken EXCEPT ![s] = NoRequest]
              /\ runner' = [runner EXCEPT ![s] = "select"]
         ELSE /\ runner' = [runner EXCEPT ![s] = "arm"]
              /\ UNCHANGED <<resultC, taken>>
    /\ UNCHANGED <<sessions, qmu, slotKey, refs, queue, activeCancel, outcome,
                   callVars, canceled, abortVars>>

(* s.activeCancel = cancel *)
Arm(s) ==
    /\ runner[s] = "arm"
    /\ activeCancel' = [activeCancel EXCEPT ![s] = taken[s]]
    /\ runner' = [runner EXCEPT ![s] = "start"]
    /\ UNCHANGED <<sessions, qmu, slotKey, refs, queue, taken, outcome,
                   callVars, canceled, resultC, abortVars>>

(* fn looks at its context first (Coordinator.Handle) and returns ErrAborted *)
(* when that is done already; otherwise it goes to work.                     *)
FnStart(s) ==
    /\ runner[s] = "start"
    /\ IF taken[s] \in canceled \cup ctxDone
         THEN /\ outcome' = [outcome EXCEPT ![s] = "err"]
              /\ canceled' = canceled \cup {taken[s]}
              /\ runner' = [runner EXCEPT ![s] = "disarm"]
         ELSE /\ runner' = [runner EXCEPT ![s] = "fn"]
              /\ UNCHANGED <<outcome, canceled>>
    /\ UNCHANGED <<sessions, qmu, slotKey, refs, queue, activeCancel, taken,
                   callVars, resultC, abortVars>>

(* fn returns, with an error or without; cancel() releases the context. *)
FnReturn(s) ==
    /\ runner[s] = "fn"
    /\ \E o \in {"ok", "err"} : outcome' = [outcome EXCEPT ![s] = o]
    /\ canceled' = canceled \cup {taken[s]}
    /\ runner' = [runner EXCEPT ![s] = "disarm"]
    /\ UNCHANGED <<sessions, qmu, slotKey, refs, queue, activeCancel, taken,
                   callVars, resultC, abortVars>>

(* s.activeCancel = nil *)
Disarm(s) ==
    /\ runner[s] = "disarm"
    /\ activeCancel' = [activeCancel EXCEPT ![s] = NoRequest]
    /\ runner' = [runner EXCEPT ![s] = "reply"]
    /\ UNCHANGED <<sessions, qmu, slotKey, refs, queue, taken, outcome,
                   callVars, canceled, resultC, abortVars>>

(* req.resultC <- result: the channel holds one value, a second send blocks. *)
Reply(s) ==
    /\ runner[s] = "reply"
    /\ resultC[taken[s]] = "none"
    /\ resultC' = [resultC EXCEPT ![taken[s]] = outcome[s]]
    /\ taken' = [taken EXCEPT ![s] = NoRequest]
    /\ outcome' = [outcome EXCEPT ![s] = "none"]
    /\ runner' = [runner EXCEPT ![s] = "select"]
    /\ UNCHANGED <<sessions, qmu, slotKey, refs, queue, activeCancel,
                   callVars, canceled, abortVars>>

(* The idle timer fires; the select may take this case even when a request *)
(* has arrived in the meantime.                                            *)
IdleTimer(s) ==
    /\ runner[s] = "select"
    /\ runner' = [runner EXCEPT ![s] = "idle"]
    /\ UNCHANGED <<sessions, qmu, slotKey, refs, queue, activeCancel, taken,
                   outcome, callVars, canceled, resultC, abortVars>>

(* Variant: the channel's length is not looked at. *)
DeleteIgnoresQueue(s) ==
    /\ runner[s] = "idle" /\ qmu = NoSlot
    /\ IF sessions[slotKey[s]] # s
         THEN /\ runner' = [runner EXCEPT ![s] = "select"]
              /\ UNCHANGED qmu
         ELSE /\ runner' = [runner EXCEPT ![s] = "deleting"]
              /\ qmu' = s
    /\ UNCHANGED <<sessions, slotKey, refs, queue, activeCancel, taken,
                   outcome, callVars, canceled, resultC, abortVars>>

(* tryDeleteIdle takes q.mu and looks at the map and the channel's length... *)
DeleteCheckQueue(s) ==
    /\ runner[s] = "idle" /\ qmu = NoSlot
    /\ IF sessions[slotKey[s]] # s \/ Len(queue[s]) # 0
         THEN /\ runner' = [runner EXCEPT ![s] = "select"]
              /\ UNCHANGED qmu
         ELSE /\ runner' = [runner EXCEPT ![s] = "deleting"]
              /\ qmu' = s
    /\ UNCHANGED <<sessions, slotKey, refs, queue, activeCancel, taken,
                   outcome, callVars, canceled, resultC, abortVars>>

(* Variant: the reference count is not looked at. *)
DeleteIgnoresRefs(s) ==
    /\ runner[s] = "deleting"
    /\ qmu' = NoSlot
    /\ sessions' = [sessions EXCEPT ![slotKey[s]] = NoSlot]
    /\ runner' = [runner EXCEPT ![s] = "exited"]
    /\ UNCHANGED <<slotKey, refs, queue, activeCancel, taken, outcome,
                   callVars, canceled, resultC, abortVars>>

(* Variant: the slot is deleted from the map before the reference count is  *)
(* looked at.                                                               *)
DeleteBeforeRefs(s) ==
    /\ runner[s] = "deleting"
    /\ qmu' = NoSlot
    /\ sessions' = [sessions EXCEPT ![slotKey[s]] = NoSlot]
    /\ runner' = [runner EXCEPT ![s] = IF refs[s] # 0 THEN "select" ELSE "exited"]
    /\ UNCHANGED <<slotKey, refs, queue, activeCancel, taken, outcome,
                   callVars, canceled, resultC, abortVars>>

(* ...then at the reference count and at activeCancel, and deletes the slot *)
(* from the map or gives up.  The lock is released either way.              *)
DeleteCheckRefs(s) ==
    /\ runner[s] = "deleting"
    /\ qmu' = NoSlot
    /\ IF refs[s] # 0 \/ activeCancel[s] # NoRequest
         THEN /\ runner' = [runner EXCEPT ![s] = "select"]
              /\ UNCHANGED sessions
         ELSE /\ sessions' = [sessions EXCEPT ![slotKey[s]] = NoSlot]
              /\ runner' = [runner EXCEPT ![s] = "exited"]
    /\ UNCHANGED <<slotKey, refs, queue, activeCancel, taken, outcome,
                   callVars, canceled, resultC, abortVars>>

-----------------------------------------------------------------------------
(* Callers of abort: look the slot up, read its cancel function, call it. *)

AbortLookup(a, k) ==
    /\ aborter[a] = "idle" /\ qmu = NoSlot
    /\ abortKey' = [abortKey EXCEPT ![a] = k]
    /\ abortSlot' = [abortSlot EXCEPT ![a] = sessions[k]]
    /\ aborter' = [aborter EXCEPT ![a] =
                     IF sessions[k] = NoSlot THEN "missed" ELSE "read"]
    /\ UNCHANGED <<sessions, qmu, slotKey, refs, slotVars, callVars, canceled,
                   resultC, abortCancel>>

AbortRead(a) ==
    LET c == activeCancel[abortSlot[a]] IN
    /\ aborter[a] = "read"
    /\ abortCancel' = [abortCancel EXCEPT ![a] = c]
    /\ aborter' = [aborter EXCEPT ![a] = IF c = NoRequest THEN "missed" ELSE "call"]
    /\ UNCHANGED <<sessions, qmu, slotKey, refs, slotVars, callVars, canceled,
                   resultC, abortKey, abortSlot>>

AbortCall(a) ==
    /\ aborter[a] = "call"
    /\ canceled' = canceled \cup {abortCancel[a]}
    /\ aborter' = [aborter EXCEPT ![a] = "aborted"]
    /\ UNCHANGED <<sessions, qmu, slotKey, refs, slotVars, callVars, resultC,
                   abortKey, abortSlot, abortCancel>>

-----------------------------------------------------------------------------
CallerStep(r) ==
    \/ JoinSlot(r) \/ \E s \in Slots : CreateSlot(r, s)
    \/ Send(r) \/ SendGivenUp(r) \/ Release(r)
    \/ ReceiveResult(r) \/ StopWaiting(r)

RunnerStep(s) ==
    \/ Receive(s) \/ CheckContext(s) \/ Arm(s) \/ FnStart(s) \/ FnReturn(s)
    \/ Disarm(s) \/ Reply(s)
    \/ DeleteCheckQueue(s) \/ DeleteCheckRefs(s)

AbortStep(a) ==
    \/ \E k \in Keys : AbortLookup(a, k)
    \/ AbortRead(a) \/ AbortCall(a)

Next ==
    \/ \E r \in Requests : CallerStep(r) \/ ContextDone(r)
    \/ \E s \in Slots : RunnerStep(s) \/ IdleTimer(s)
    \/ \E a \in Aborters : AbortStep(a)

Spec == Init /\ [][Next]_vars

(* A goroutine that can run does run; a blocked send or lock is granted in  *)
(* the end (Go queues blocked senders in order and its mutex does not       *)
(* starve a waiter); a select with a request ready does not pick its timer  *)
(* for ever.  FnReturn under weak fairness says that fn terminates.         *)
FairSpec ==
    /\ Spec
    /\ \A r \in Requests :
        /\ WF_vars(CallerStep(r))
        /\ SF_vars(Send(r) \/ JoinSlot(r) \/ \E s \in Slots : CreateSlot(r, s))
        /\ SF_vars(Release(r))
    /\ \A s \in Slots :
        /\ WF_vars(RunnerStep(s))
        /\ SF_vars(Receive(s))
        /\ SF_vars(DeleteCheckQueue(s))
        /\ WF_vars(IdleTimer(s))

-----------------------------------------------------------------------------
(* Properties *)

(* Callers between getOrCreate and release. *)
Holders(s) ==
    {r \in Requests : /\ caller[r] \in {"sending", "sent", "failed"}
                      /\ callerSlot[r] = s}

TypeOK ==
    /\ sessions \in [Keys -> Slots \cup {NoSlot}]
    /\ qmu \in Slots \cup {NoSlot}
    /\ slotKey \in [Slots -> Keys \cup {NoKey}]
    /\ queue \in [Slots -> Seq(Requests)]
    /\ refs \in [Slots -> Nat]
    /\ activeCancel \in [Slots -> Requests \cup {NoRequest}]
    /\ runner \in [Slots -> RunnerStates]
    /\ taken \in [Slots -> Requests \cup {NoRequest}]
    /\ outcome \in [Slots -> {"none", "ok", "err"}]
    /\ caller \in [Requests -> CallerStates]
    /\ callerSlot \in [Requests -> Slots \cup {NoSlot}]
    /\ ctxDone \subseteq Requests
    /\ canceled \subseteq Requests
    /\ resultC \in [Requests -> {"none", "ok", "err"}]
    /\ aborter \in [Aborters -> {"idle", "read", "call", "missed", "aborted"}]
    /\ abortKey \in [Aborters -> Keys \cup {NoKey}]
    /\ abortSlot \in [Aborters -> Slots \cup {NoSlot}]
    /\ abortCancel \in [Aborters -> Requests \cup {NoRequest}]

(* Two requests of one session are never handled at the same time, not even *)
(* across the deletion of its slot and the creation of the next one.        *)
SerialPerSession ==
    \A s, t \in Slots :
        /\ runner[s] \in Busy /\ runner[t] \in Busy
        /\ slotKey[s] = slotKey[t]
        => s = t

(* A request that sits in a slot's channel, or is about to be sent there,   *)
(* has a live goroutine behind that channel, and it is the one the map      *)
(* names: tryDeleteIdle never strands a request.                            *)
NoStrandedRequest ==
    \A s \in Slots :
        (queue[s] # <<>> \/ Holders(s) # {})
        => /\ runner[s] \notin {"none", "exited"}
           /\ sessions[slotKey[s]] = s

(* The goroutine never blocks on resultC: no request is answered twice.     *)
ReplyNeverBlocks ==
    \A s \in Slots : runner[s] \in Busy => resultC[taken[s]] = "none"

(* abort(k) cancels nothing but a request of session k, however late its    *)
(* cancel function is called: slots are not reused for another key and a    *)
(* cancel function belongs to one request.                                  *)
AbortStaysInSession ==
    \A a \in Aborters :
        aborter[a] = "call"
        => KeyOf[abortCancel[a]] = abortKey[a]

(* Refinement: to its callers the queue is a serial server per session.     *)
Serial == INSTANCE SerialSessions WITH
    pending <- [k \in Keys |-> IF sessions[k] = NoSlot THEN <<>>
                               ELSE queue[sessions[k]]],
    serving <- [k \in Keys |-> IF sessions[k] = NoSlot THEN NoRequest
                               ELSE taken[sessions[k]]],
    answer <- resultC

SerialSpec == Serial!Spec

(* Every call of enqueue returns. *)
EveryCallReturns ==
    \A r \in Requests :
        caller[r] = "sending" ~> caller[r] \in {"answered", "gaveup"}

(* A slot whose requests are served deletes itself: no goroutine and no map *)
(* entry outlives its session for ever.  (Finitely many requests are made.) *)
IdleSlotReclaimed ==
    \A s \in Slots : runner[s] # "none" ~> runner[s] = "exited"
=============================================================================
