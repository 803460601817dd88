--------------------------- MODULE RunSupervisor ----------------------------
(***************************************************************************)
(* The daemon's run supervisor (cmd/nekode-daemon/supervisor.go, main.go)  *)
(* against the part of the server it talks to: the run map, the pending    *)
(* server events and the start permits of internal/daemonrpc/server.go.    *)
(*                                                                         *)
(* Every tick of the daemon starts a goroutine that fetches assigned runs  *)
(* and executes the startable ones; one more goroutine reads the event     *)
(* stream and handles each event, runs included, before it receives the    *)
(* next.  The two share the map of running processes.  Events stay on the  *)
(* server until some daemon acknowledges them and are sent again after a   *)
(* reconnect.  Run steps, activity lines, agent status snapshots and the   *)
(* run archive, which no decision of the supervisor reads, are left out.   *)
(* The events of outbound deliveries share the server's map and numbering. *)
(***************************************************************************)
EXTENDS Naturals, FiniteSets

CONSTANTS
    Runs,            \* run ids, those of direct messages included
    Directs,         \* the ids "direct-<message>" of direct messages
    Ops,             \* terminate and restart operations
    Deliveries,      \* outbound deliveries whose progress the server announces
    Agents,
    AgentOf,         \* the agent of each run and operation
    Daemons,         \* one daemon per computer
    ComputerOf,      \* the daemon on the computer each run and operation is for
    Pollers,         \* the polling goroutines that may be alive at once
    PollerDaemon,    \* the daemon each of them belongs to
    MaxConcurrentRuns, \* the flag of that name
    MaxFaults,       \* bound: RPCs that fail
    MaxBreaks,       \* bound: event streams that break
    MaxRestarts,     \* bound: daemon processes that die
    NoRun

ASSUME SupervisorAssumption ==
    /\ Directs \subseteq Runs
    /\ Runs \cap Ops = {} /\ (Runs \cup Ops) \cap Deliveries = {}
    /\ AgentOf \in [Runs \cup Ops -> Agents]
    /\ ComputerOf \in [Runs \cup Ops -> Daemons]
    /\ PollerDaemon \in [Pollers -> Daemons]
    /\ Pollers \cap Daemons = {}
    /\ MaxConcurrentRuns \in Nat \ {0}
    /\ {MaxFaults, MaxBreaks, MaxRestarts} \subseteq Nat
    /\ NoRun \notin Runs \cup Ops

(* A daemon's name also stands for its stream goroutine. *)
Workers == Pollers \cup Daemons
DaemonOf(w) == IF w \in Pollers THEN PollerDaemon[w] ELSE w

VARIABLES
    runState,        \* s.runs: the server's state of each run, "absent" if unknown
    issued,          \* runs, operations and deliveries the server has announced
    events,          \* s.serverEvents
    eventSeq,        \* s.eventSeq
    permits,         \* start permits in s.leases, by the goroutine that asked
    sentTo,          \* per stream: events up to this sequence were sent
    inflight,        \* per stream: events sent, in sequence order, and not yet received
    unacked,         \* per stream: events received whose handling or acknowledgement failed
    running,         \* per daemon: runSupervisor.running
    armed,           \* goroutines whose process has its cancel function set
    canceled,        \* goroutines whose run context was cancelled
    pc,              \* where each goroutine is
    todo,            \* the rest of a poller's FetchAssignedRuns answer
    cur,             \* the run a goroutine executes
    event,           \* the event a stream goroutine handles
    executions,      \* how often each run's command was launched
    orphaned,        \* runs whose last report was lost, or whose daemon died
    leaked,          \* goroutines one of whose permits was not released
    faults, breaks, restarts

serverVars == <<runState, issued, events, eventSeq, permits>>
streamVars == <<sentTo, inflight, unacked>>
procVars   == <<running, armed, canceled>>
localVars  == <<pc, todo, cur, event>>
historyVars == <<executions, orphaned, leaked>>
vars == <<serverVars, streamVars, procVars, localVars, historyVars,
          faults, breaks, restarts>>

NoEvent == [seq |-> 0, id |-> NoRun, state |-> "none"]

Init ==
    /\ runState = [r \in Runs |-> "absent"]
    /\ issued = {}
    /\ events = {} /\ eventSeq = 0
    /\ permits = {}
    /\ sentTo = [d \in Daemons |-> 0]
    /\ inflight = [d \in Daemons |-> {}]
    /\ unacked = [d \in Daemons |-> {}]
    /\ running = [d \in Daemons |-> {}]
    /\ armed = {} /\ canceled = {}
    /\ pc = [w \in Workers |-> "idle"]
    /\ todo = [w \in Pollers |-> {}]
    /\ cur = [w \in Workers |-> NoRun]
    /\ event = [d \in Daemons |-> NoEvent]
    /\ executions = [r \in Runs |-> 0]
    /\ orphaned = {} /\ leaked = {}
    /\ faults = 0 /\ breaks = 0 /\ restarts = 0

-----------------------------------------------------------------------------
(* The server *)

(* serverEventLocked and the insertion into s.serverEvents. *)
Emit(i, st) ==
    /\ eventSeq' = eventSeq + 1
    /\ events' = events \cup {[seq |-> eventSeq + 1, id |-> i, state |-> st]}

(* ensureClaimRunLocked creates a queued run and announces it. *)
AssignRun(r) ==
    /\ r \in Runs \ (Directs \cup issued)
    /\ issued' = issued \cup {r}
    /\ runState' = [runState EXCEPT ![r] = "queued"]
    /\ Emit(r, "queued")
    /\ UNCHANGED <<permits, streamVars, procVars, localVars, historyVars,
                   faults, breaks, restarts>>

(* SendAgentDirectMessage announces the message; the run exists only at the *)
(* daemon, until its first report.                                          *)
SendDirectMessage(m) ==
    /\ m \in Directs \ issued
    /\ issued' = issued \cup {m}
    /\ Emit(m, "message")
    /\ UNCHANGED <<runState, permits, streamVars, procVars, localVars,
                   historyVars, faults, breaks, restarts>>

(* ControlAgent records and announces an operation. *)
ControlAgent(o) ==
    /\ o \in Ops \ issued
    /\ issued' = issued \cup {o}
    /\ Emit(o, "control")
    /\ UNCHANGED <<runState, permits, streamVars, procVars, localVars,
                   historyVars, faults, breaks, restarts>>

(* EmitOutboundDeliveryEvent, when a delivery is created or updated: the     *)
(* event joins the others in s.serverEvents.                                 *)
EmitOutboundDelivery(v) ==
    /\ v \in Deliveries \ issued
    /\ issued' = issued \cup {v}
    /\ Emit(v, "outbound")
    /\ UNCHANGED <<runState, permits, streamVars, procVars, localVars,
                   historyVars, faults, breaks, restarts>>

(* UpdateRunStatus: any state replaces any state, an unknown run is created, *)
(* and the new state is announced as a RUN_ASSIGNED event.                   *)
UpdateRunStatus(r, st) ==
    /\ runState' = [runState EXCEPT ![r] = st]
    /\ Emit(r, st)
    /\ UNCHANGED <<issued, permits>>

(* serverEventMatches: daemons subscribe to the kinds control, message and   *)
(* run, and with IncludeAllAgents: such an event matches, whichever computer *)
(* it is for, and a delivery's event matches no daemon.                      *)
serverEventMatches(d, e) == e.state # "outbound"

pendingServerEvents(d) ==
    {e \in events : e.seq > sentTo[d] /\ serverEventMatches(d, e)}

(* Variant: the tick records one event more as sent than it sent. *)
StreamTickAhead(d) ==
    /\ pendingServerEvents(d) # {}
    /\ inflight' = [inflight EXCEPT ![d] = @ \cup pendingServerEvents(d)]
    /\ sentTo' = [sentTo EXCEPT ![d] = eventSeq + 1]
    /\ UNCHANGED <<unacked, serverVars, procVars, localVars, historyVars,
                   faults, breaks, restarts>>

(* Variant: the first event of a connection is taken for sent, as the ping is. *)
StreamTickSkips(d) ==
    LET pending == {e \in events : e.seq > sentTo[d] + 1 /\ serverEventMatches(d, e)} IN
    /\ pending # {}
    /\ inflight' = [inflight EXCEPT ![d] = @ \cup pending]
    /\ sentTo' = [sentTo EXCEPT ![d] = eventSeq]
    /\ UNCHANGED <<unacked, serverVars, procVars, localVars, historyVars,
                   faults, breaks, restarts>>

(* A tick of SubscribeServerEvents: pendingServerEvents, sent in the order   *)
(* of their sequence numbers.                                                *)
StreamTick(d) ==
    /\ pendingServerEvents(d) # {}
    /\ inflight' = [inflight EXCEPT ![d] = @ \cup pendingServerEvents(d)]
    /\ sentTo' = [sentTo EXCEPT ![d] = eventSeq]
    /\ UNCHANGED <<unacked, serverVars, procVars, localVars, historyVars,
                   faults, breaks, restarts>>

(* The stream breaks; Recv says so once no event is being handled, and the   *)
(* daemon opens another, which starts with an empty record of what was sent. *)
StreamBreak(d) ==
    /\ pc[d] = "idle"
    /\ breaks < MaxBreaks
    /\ breaks' = breaks + 1
    /\ sentTo' = [sentTo EXCEPT ![d] = 0]
    /\ inflight' = [inflight EXCEPT ![d] = {}]
    /\ unacked' = [unacked EXCEPT ![d] = {}]
    /\ UNCHANGED <<serverVars, procVars, localVars, historyVars,
                   faults, restarts>>

-----------------------------------------------------------------------------
(* Taking up work *)

shouldStartRun(st) == st \in {"queued", "message"}

(* FetchAssignedRuns: up to MaxConcurrentRuns of the computer's runs, in map *)
(* order, whatever their state; pollOnce goes through the startable ones.    *)
FetchAssignedRuns(d) ==
    LET assigned == {r \in Runs : runState[r] # "absent" /\ ComputerOf[r] = d} IN
    {S \in SUBSET assigned :
        Cardinality(S) = IF Cardinality(assigned) < MaxConcurrentRuns
                         THEN Cardinality(assigned) ELSE MaxConcurrentRuns}

Poll(w) ==
    /\ w \in Pollers /\ pc[w] = "idle"
    /\ \E S \in FetchAssignedRuns(DaemonOf(w)) :
         todo' = [todo EXCEPT ![w] = {r \in S : shouldStartRun(runState[r])}]
    /\ todo'[w] # {}
    /\ pc' = [pc EXCEPT ![w] = "next"]
    /\ UNCHANGED <<serverVars, streamVars, procVars, cur, event, historyVars,
                   faults, breaks, restarts>>

(* Variant: the map is not consulted. *)
ReserveUnchecked(w, r) ==
    /\ running' = [running EXCEPT ![DaemonOf(w)] = @ \cup {r}]
    /\ cur' = [cur EXCEPT ![w] = r]
    /\ pc' = [pc EXCEPT ![w] = "permit"]

(* reserveRun, on success *)
ReserveRun(w, r) ==
    /\ r \notin running[DaemonOf(w)]
    /\ running' = [running EXCEPT ![DaemonOf(w)] = @ \cup {r}]
    /\ cur' = [cur EXCEPT ![w] = r]
    /\ pc' = [pc EXCEPT ![w] = "permit"]

(* The loop of pollOnce: the next run of the answer is taken up, or skipped  *)
(* if it is running already.                                                 *)
NextRun(w) ==
    /\ pc[w] = "next"
    /\ \E r \in todo[w] :
        /\ todo' = [todo EXCEPT ![w] = @ \ {r}]
        /\ \/ ReserveRun(w, r)
           \/ /\ r \in running[DaemonOf(w)]
              /\ UNCHANGED <<running, cur, pc>>
    /\ UNCHANGED <<serverVars, streamVars, armed, canceled, event, historyVars,
                   faults, breaks, restarts>>

PollDone(w) ==
    /\ pc[w] = "next" /\ todo[w] = {}
    /\ pc' = [pc EXCEPT ![w] = "idle"]
    /\ UNCHANGED <<serverVars, streamVars, procVars, todo, cur, event,
                   historyVars, faults, breaks, restarts>>

(* cancelAgentRuns: processes of the agent whose cancel function is set. *)
CancelAgentRuns(d, a) ==
    canceled' = canceled \cup
        {w \in armed : DaemonOf(w) = d /\ AgentOf[cur[w]] = a}

(* handleServerEvent on the event received next.  An event with nothing to  *)
(* do, or whose run is running already, goes straight to its acknowledgement. *)
HandleServerEvent(d) ==
    /\ pc[d] = "idle"
    /\ \E e \in inflight[d] :
        /\ \A f \in inflight[d] : e.seq <= f.seq
        /\ inflight' = [inflight EXCEPT ![d] = @ \ {e}]
        /\ event' = [event EXCEPT ![d] = e]
        /\ \/ /\ e.state = "control"
              /\ CancelAgentRuns(d, AgentOf[e.id])
              /\ pc' = [pc EXCEPT ![d] = "control"]
              /\ UNCHANGED <<running, cur>>
           \/ /\ shouldStartRun(e.state)
              /\ ReserveRun(d, e.id)
              /\ UNCHANGED canceled
           \/ /\ e.state # "control"
              /\ ~shouldStartRun(e.state) \/ e.id \in running[d]
              /\ pc' = [pc EXCEPT ![d] = "ack"]
              /\ UNCHANGED <<running, cur, canceled>>
    /\ UNCHANGED <<serverVars, sentTo, unacked, armed, todo, historyVars,
                   faults, breaks, restarts>>

-----------------------------------------------------------------------------
(* executeRun *)

(* An RPC of goroutine w takes place (Effect) or not (NoEffect) and its      *)
(* answer arrives or not: w goes on at okPC or at errPC.                     *)
Answered(w, okPC) ==
    /\ pc' = [pc EXCEPT ![w] = okPC]
    /\ UNCHANGED faults

Unanswered(w, errPC) ==
    /\ faults < MaxFaults
    /\ faults' = faults + 1
    /\ pc' = [pc EXCEPT ![w] = errPC]

(* acquirePermit: AcquireStartPermit grants always.  A permit whose answer   *)
(* is lost is one nobody will release.                                       *)
AcquirePermit(w) ==
    /\ pc[w] = "permit"
    /\ \/ permits' = permits \cup {w} /\ UNCHANGED leaked /\ Answered(w, "start")
       \/ permits' = permits \cup {w} /\ leaked' = leaked \cup {w} /\ Unanswered(w, "fail")
       \/ UNCHANGED <<permits, leaked>> /\ Unanswered(w, "fail")
    /\ UNCHANGED <<runState, issued, events, eventSeq, streamVars, procVars,
                   todo, cur, event, executions, orphaned, breaks, restarts>>

(* updateRun(RUNNING); an error fails the run. *)
ReportStart(w) ==
    /\ pc[w] = "start"
    /\ \/ UpdateRunStatus(cur[w], "running") /\ Answered(w, "prepare")
       \/ UpdateRunStatus(cur[w], "running") /\ Unanswered(w, "failHeld")
       \/ UNCHANGED serverVars /\ Unanswered(w, "failHeld")
    /\ UNCHANGED <<streamVars, procVars, todo, cur, event, historyVars,
                   breaks, restarts>>

(* Variant: the early return forgets failRun. *)
PrepareReturnsEarly(w) ==
    /\ pc[w] = "prepare"
    /\ \E next \in {"arm", "release"} : pc' = [pc EXCEPT ![w] = next]
    /\ UNCHANGED <<serverVars, streamVars, procVars, todo, cur, event,
                   historyVars, faults, breaks, restarts>>

(* Variant: the early return fails the run before the permit is deferred. *)
PrepareLosesPermit(w) ==
    /\ pc[w] = "prepare"
    /\ \E next \in {"arm", "fail"} : pc' = [pc EXCEPT ![w] = next]
    /\ UNCHANGED <<serverVars, streamVars, procVars, todo, cur, event,
                   historyVars, faults, breaks, restarts>>

(* The prompt snapshot is loaded and the command built, or that fails. *)
Prepare(w) ==
    /\ pc[w] = "prepare"
    /\ \E next \in {"arm", "failHeld"} : pc' = [pc EXCEPT ![w] = next]
    /\ UNCHANGED <<serverVars, streamVars, procVars, todo, cur, event,
                   historyVars, faults, breaks, restarts>>

(* setProcessCommand, then the command is launched. *)
SetProcessCommand(w) ==
    /\ pc[w] = "arm"
    /\ armed' = IF cur[w] \in running[DaemonOf(w)] THEN armed \cup {w} ELSE armed
    /\ executions' = [executions EXCEPT ![cur[w]] = @ + 1]
    /\ pc' = [pc EXCEPT ![w] = "exec"]
    /\ UNCHANGED <<serverVars, streamVars, running, canceled, todo, cur, event,
                   orphaned, leaked, faults, breaks, restarts>>

(* The run's context kills the command only: Run waits until its output pipe *)
(* is closed, and a process the command has left behind may hold it open     *)
(* past the timeout.                                                         *)
CommandHangs(w) ==
    /\ pc[w] = "exec"
    /\ pc' = [pc EXCEPT ![w] = "hung"]
    /\ UNCHANGED <<serverVars, streamVars, procVars, todo, cur, event,
                   historyVars, faults, breaks, restarts>>

(* commandRunner.Run returns: an error after a cancellation, and otherwise   *)
(* success, an exit error or the timeout.                                    *)
CommandReturns(w) ==
    /\ pc[w] \in {"exec", "hung"}
    /\ \/ w \notin canceled /\ pc' = [pc EXCEPT ![w] = "complete"]
       \/ pc' = [pc EXCEPT ![w] = "failHeld"]
    /\ UNCHANGED <<serverVars, streamVars, procVars, todo, cur, event,
                   historyVars, faults, breaks, restarts>>

(* updateRun(COMPLETED), or failRun with the permit held or without it.  An  *)
(* error is logged and nothing else: no retry.                               *)
ReportEnd(w) ==
    /\ pc[w] \in {"complete", "failHeld", "fail"}
    /\ LET st  == IF pc[w] = "complete" THEN "completed" ELSE "failed"
           nxt == IF pc[w] = "fail" THEN "returned" ELSE "release"
       IN \/ UpdateRunStatus(cur[w], st) /\ UNCHANGED orphaned /\ Answered(w, nxt)
          \/ UpdateRunStatus(cur[w], st) /\ UNCHANGED orphaned /\ Unanswered(w, nxt)
          \/ /\ UNCHANGED serverVars
             /\ orphaned' = orphaned \cup {cur[w]}
             /\ Unanswered(w, nxt)
    /\ UNCHANGED <<streamVars, procVars, todo, cur, event, executions, leaked,
                   breaks, restarts>>

(* The deferred releasePermit; its error is logged. *)
ReleasePermit(w) ==
    /\ pc[w] = "release"
    /\ \/ permits' = permits \ {w} /\ UNCHANGED leaked /\ Answered(w, "returned")
       \/ permits' = permits \ {w} /\ UNCHANGED leaked /\ Unanswered(w, "returned")
       \/ UNCHANGED permits /\ leaked' = leaked \cup {w} /\ Unanswered(w, "returned")
    /\ UNCHANGED <<runState, issued, events, eventSeq, streamVars, procVars,
                   todo, cur, event, executions, orphaned, breaks, restarts>>

-----------------------------------------------------------------------------
(* After executeRun *)

(* The event stays in s.serverEvents; this stream has sent it and will not   *)
(* send it again.                                                            *)
NotAcknowledged(d) ==
    unacked' = [unacked EXCEPT ![d] = @ \cup {event[d].seq}]

(* Where a goroutine goes after releaseRun: a poller to the next run, a      *)
(* stream to the acknowledgement, unless a direct message's receipt failed.  *)
ReleaseRun(w, nxt) ==
    /\ running' = [running EXCEPT ![DaemonOf(w)] = @ \ {cur[w]}]
    /\ armed' = armed \ {w}
    /\ canceled' = canceled \ {w}
    /\ cur' = [cur EXCEPT ![w] = NoRun]
    /\ pc' = [pc EXCEPT ![w] = nxt]

Returned(w) ==
    /\ pc[w] = "returned"
    /\ \/ /\ w \in Pollers /\ ReleaseRun(w, "next") /\ UNCHANGED <<faults, unacked>>
       \/ /\ w \in Daemons
          /\ ReleaseRun(w, "ack") /\ UNCHANGED <<faults, unacked>>
       \/ /\ w \in Daemons /\ cur[w] \in Directs
          /\ faults < MaxFaults /\ faults' = faults + 1
          /\ ReleaseRun(w, "idle") /\ NotAcknowledged(w)
    /\ UNCHANGED <<serverVars, sentTo, inflight, todo, event, historyVars,
                   breaks, restarts>>

(* reportControlStatus: an error leaves the event unacknowledged. *)
ReportControlStatus(d) ==
    /\ pc[d] = "control"
    /\ \/ Answered(d, "ack") /\ UNCHANGED unacked
       \/ Unanswered(d, "idle") /\ NotAcknowledged(d)
    /\ UNCHANGED <<serverVars, sentTo, inflight, procVars, todo, cur, event,
                   historyVars, breaks, restarts>>

(* Variant: only events of runs under way are acknowledged. *)
AckServerEventsOfRuns(d) ==
    LET acked == {e \in events : e.seq # event[d].seq} IN
    /\ pc[d] = "ack"
    /\ events' = IF event[d].state = "completed" THEN events ELSE acked
    /\ Answered(d, "idle")
    /\ event' = [event EXCEPT ![d] = NoEvent]
    /\ UNCHANGED <<runState, issued, eventSeq, permits, streamVars, procVars,
                   todo, cur, historyVars, breaks, restarts>>

(* ackServerEvent: AcknowledgeServerEvents forgets the event for everybody.  *)
AckServerEvent(d) ==
    LET acked == {e \in events : e.seq # event[d].seq} IN
    /\ pc[d] = "ack"
    /\ \/ events' = acked /\ UNCHANGED unacked /\ Answered(d, "idle")
       \/ events' = acked /\ UNCHANGED unacked /\ Unanswered(d, "idle")
       \/ UNCHANGED events /\ NotAcknowledged(d) /\ Unanswered(d, "idle")
    /\ event' = [event EXCEPT ![d] = NoEvent]
    /\ UNCHANGED <<runState, issued, eventSeq, permits, sentTo, inflight, procVars,
                   todo, cur, historyVars, breaks, restarts>>

(* The daemon process dies (a heartbeat that fails ends it too) and a new    *)
(* one starts: its processes, map and stream are gone.                       *)
DaemonRestart(d) ==
    LET mine == {w \in Workers : DaemonOf(w) = d} IN
    /\ restarts < MaxRestarts
    /\ restarts' = restarts + 1
    /\ pc' = [w \in Workers |-> IF w \in mine THEN "idle" ELSE pc[w]]
    /\ cur' = [w \in Workers |-> IF w \in mine THEN NoRun ELSE cur[w]]
    /\ todo' = [w \in Pollers |-> IF w \in mine THEN {} ELSE todo[w]]
    /\ event' = [event EXCEPT ![d] = NoEvent]
    /\ running' = [running EXCEPT ![d] = {}]
    /\ armed' = armed \ mine
    /\ canceled' = canceled \ mine
    /\ sentTo' = [sentTo EXCEPT ![d] = 0]
    /\ inflight' = [inflight EXCEPT ![d] = {}]
    /\ unacked' = [unacked EXCEPT ![d] = {}]
    /\ orphaned' = orphaned \cup running[d]
    /\ leaked' = leaked \cup (permits \cap mine)
    /\ UNCHANGED <<serverVars, executions, faults, breaks>>

-----------------------------------------------------------------------------
ServerStep ==
    \/ \E r \in Runs : AssignRun(r) \/ SendDirectMessage(r)
    \/ \E o \in Ops : ControlAgent(o)
    \/ \E v \in Deliveries : EmitOutboundDelivery(v)

ExecuteRun(w) ==
    \/ AcquirePermit(w) \/ ReportStart(w) \/ Prepare(w) \/ SetProcessCommand(w)
    \/ CommandReturns(w) \/ ReportEnd(w) \/ ReleasePermit(w) \/ Returned(w)

WorkerStep(w) ==
    \/ ExecuteRun(w)
    \/ w \in Pollers /\ (NextRun(w) \/ PollDone(w))
    \/ w \in Daemons /\ (HandleServerEvent(w) \/ ReportControlStatus(w) \/ AckServerEvent(w))

Next ==
    \/ ServerStep
    \/ \E w \in Workers : WorkerStep(w) \/ Poll(w) \/ CommandHangs(w)
    \/ \E d \in Daemons : StreamTick(d) \/ StreamBreak(d) \/ DaemonRestart(d)

Spec == Init /\ [][Next]_vars

(* Goroutines that can run do run, a command ends (it has a timeout) or      *)
(* hangs, from when on nothing is assumed of it, and the server's ticker     *)
(* ticks.  Polling itself is not assumed to pick any particular run: map     *)
(* order promises nothing.                                                   *)
FairSpec ==
    /\ Spec
    /\ \A w \in Workers : WF_vars(pc[w] # "hung" /\ WorkerStep(w))
    /\ \A d \in Daemons : WF_vars(StreamTick(d))

-----------------------------------------------------------------------------
(* Properties *)

Executing == {"permit", "start", "prepare", "arm", "exec", "hung", "complete",
              "failHeld", "fail", "release", "returned"}
HoldingPermit == {"start", "prepare", "arm", "exec", "hung", "complete",
                  "failHeld", "release"}

EventRecords ==
    [seq : Nat \ {0}, id : Runs,
     state : {"queued", "message", "running", "completed", "failed"}]
    \cup [seq : Nat \ {0}, id : Ops, state : {"control"}]
    \cup [seq : Nat \ {0}, id : Deliveries, state : {"outbound"}]

TypeOK ==
    /\ runState \in [Runs -> {"absent", "queued", "running", "completed", "failed"}]
    /\ issued \subseteq Runs \cup Ops \cup Deliveries
    /\ eventSeq \in Nat
    /\ events \subseteq EventRecords
    /\ permits \subseteq Workers
    /\ sentTo \in [Daemons -> 0..eventSeq]
    /\ inflight \in [Daemons -> SUBSET EventRecords]
    /\ unacked \in [Daemons -> SUBSET Nat]
    /\ running \in [Daemons -> SUBSET Runs]
    /\ armed \cup canceled \subseteq Workers
    /\ pc \in [Workers -> Executing \cup {"idle", "next", "control", "ack"}]
    /\ todo \in [Pollers -> SUBSET Runs]
    /\ cur \in [Workers -> Runs \cup {NoRun}]
    /\ event \in [Daemons -> EventRecords \cup {NoEvent}]
    /\ executions \in [Runs -> Nat]
    /\ orphaned \subseteq Runs /\ leaked \subseteq Workers
    /\ {faults, breaks, restarts} \subseteq Nat

(* One goroutine of a daemon at a time executes a run, although pollers and  *)
(* the event stream offer the same run concurrently; and the map of running  *)
(* processes holds exactly the runs being executed.                          *)
OneGoroutinePerRun ==
    \A d \in Daemons :
        LET mine == {w \in Workers : DaemonOf(w) = d /\ pc[w] \in Executing} IN
        /\ running[d] = {cur[w] : w \in mine}
        /\ \A v, w \in mine : cur[v] = cur[w] => v = w

(* The server does not believe a run to be running that nobody executes,     *)
(* unless the report of its end was lost or its daemon died.                 *)
NoOrphanRunning ==
    \A r \in Runs :
        runState[r] = "running"
        => r \in orphaned \/ \E w \in Workers : pc[w] \in Executing /\ cur[w] = r

(* Every path out of executeRun gives the start permit back, lost calls and  *)
(* crashes aside.                                                            *)
PermitsReturned ==
    \A w \in permits : pc[w] \in HoldingPermit \/ w \in leaked

(* Every run that is queued, and every direct message, ends up reported in a *)
(* terminal state, unless the report was lost or its daemon died under it:   *)
(* the stream delivers what polling, which may fetch ended runs for ever,    *)
(* keeps missing.  A command that hangs for ever keeps its own run from      *)
(* ending and, on the goroutine of the one stream, every run behind it.      *)
QueuedRunFinishes ==
    \A r \in Runs :
        \/ r \in issued ~> (runState[r] \in {"completed", "failed"} \/ r \in orphaned)
        \/ <>[](\E w \in Workers : pc[w] = "hung" /\ cur[w] = r)
        \/ <>[](\A d \in Daemons : pc[d] = "hung")

(* Every event of the kinds daemons subscribe to is handled and acknowledged *)
(* in the end: it stays pending only where each daemon's stream has failed   *)
(* at it already, to send it again after a reconnect, or is held up by a     *)
(* command that hangs.                                                       *)
EventsDrained ==
    []<>(\A e \in events :
            \/ e.state = "outbound"
            \/ \A d \in Daemons : e.seq \in unacked[d] \/ pc[d] = "hung")

(* service.proto on AcknowledgeServerEvents: daemons "must tolerate duplicate *)
(* events after reconnect".  A run's command is launched once, also when the  *)
(* acknowledgement of its event is lost, the stream breaks, and the daemon    *)
(* receives the event again.                                                  *)
NoReexecution == \A r \in Runs : executions[r] <= 1

=============================================================================
