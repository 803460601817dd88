# Verification of Nekode

Nekode is a collaboration server for people and coding agents. People use a web
console or an IM chat; agents run as processes that a *daemon* starts on each
computer; the *server* keeps tasks, messages and an event log in a database and
talks to the daemons by RPC. This directory holds TLA+ models of the parts of it
whose correctness depends on the order of events, the TLC runs that check them on
small instances, and TLAPS proofs for instances of any size. `PROJECT.json` maps
every definition to the source lines it models.

## Inventory

| Component | State | Operations | Interacts with | What is hard, what must hold |
|---|---|---|---|---|
| Session queue (`internal/imcoord/session_queue.go`) | map key → slot; per slot a bounded channel, a reference count, a cancel function, a goroutine | enqueue, abort, idle deletion | IM webhooks call it concurrently; the queued function stores a message | deletion of an idle slot races with senders, callers give up at any point: one request of a session at a time, none lost, none answered twice |
| Event log (`storage/store.go`, `server/bridge.go`) | table of events with a unique sequence number and a unique event id; a cursor per reader | append with optimistic retry; page by cursor | every mutating handler appends; the console reads over SSE | overlapping transactions, retries, reconnecting readers: no gap, no duplicate, no skipped event |
| Idempotency wrapper (`daemonrpc/server.go`, `storage/store.go`) | responses in memory and in a table | replay, reserve, remember | around every mutating RPC | overlapping retries, failures and restarts between its steps |
| Tasks, claims, runs (`daemonrpc/server.go`, `storage/store.go`, `server/server.go`) | task and attempt rows; runs and leases in memory | create, patch, claim, report | users, agents and daemons; event log | several database calls per handler, state used after it was read, memory lost in a restart: one owner, one live run, every change announced |
| Daemon supervisor (`cmd/nekode-daemon`) | map of running processes; event stream; polling goroutines | poll, handle event, execute, cancel, report, acknowledge | server's run map, events and permits | the same run offered twice, lost calls, broken streams, restarts: executed by one goroutine, finished, reported, permit returned |
| IM coordinator (`internal/imcoord`, `internal/imadapter/dedupe.go`) and chat authorisation (`storage/store.go`, `server/server.go`) | seen-cache; authorisation requests, subscription row | Handle, commands, approve, reject, bind, edit | platforms redeliver what fails; session queue; store | duplicates against failures and callers that leave; a subscription that changes after it was read: stored once, nothing swallowed, subscribed chats only |
| Channel decisions (`storage/decisions.go`, `server/memory.go`, `daemonrpc/memory.go`) | decision with status and counts, vote rows | propose, vote, ratify, retire | users and agents | overlapping transactions, checks apart from writes: counts equal votes, a quorum ratifies, what is superseded is retired |
| Tunnel registry and proxies (`tunnelregistry`, `server/tunnel_proxy.go`, `cmd/nekode-daemon/tunnel_proxy.go`) | stream per computer, responders per request, request pipes | attach, detach, register, dispatch, pump, relay | browsers, the daemon and its local services | a stream replaced under pending requests, full channels, both sides waiting: a request returns, and a response that ends with RESPONSE_END is whole (one cut off by a lost stream after its headers may look like a normal end to the browser, since `pumpResponse` then returns nil) |
| Tunnel rows (`storage/tunnels.go`, `daemonrpc/tunnels.go`) | state, expiry | create, approve, reject, close, sweep, disconnect cleanup | the registry's streams | cleanup against reconnects: nothing open left behind, nothing reopened |
| Outbound deliveries, reminders, threads | rows | status changes, reads | event log | single updates of a row; not modelled |
| Agent run archive, computers, enrollment | rows, heartbeats, tokens | report, heartbeat, enroll | daemon | streams that break, one-time tokens |
| Providers, runtime adapters, cache, config, web console, generated code | – | – | – | input/output, rendering, parsing: not modelled |

## Modules

- **SessionQueue** models one `enqueue` call per request, one goroutine per slot
  and callers of `abort`. The lock `q.mu` is a variable because `tryDeleteIdle`
  reads the channel length and the reference count at two moments while sends,
  which take no lock, go on; every other critical section is one step. The
  queued function is modelled to its context check and its end. The timer's
  `Stop`-and-drain cannot block: either the tick is in the channel (Go before
  1.23) or `Stop` returns true. **SerialSessions** is what callers may rely on:
  a queue per session whose head is served and answered before the next is
  taken. `SessionQueue!SerialSpec` is that module under the mapping "pending =
  channel of the slot in the map, serving = what its goroutine holds".
- **EventLog** splits an append into reading the last number, inserting and
  committing; rows become visible at the commit. Two unique indexes refuse an
  insert, the one on the number and the one on the event id, and an insert of a
  number or id held by an open transaction waits for it. The SSE reader pages by
  cursor; its connection may be lost before the handler notices, and what is
  written meanwhile, with its errors ignored, moves the cursor and never arrives.
  **AppendLog** is the abstract log; `EventLog!LogSpec` is the
  refinement.
- **Idempotency** models the calls of one key: map lookup, table lookup, insert,
  read of the existing row, body, and the two halves of `remember`, with failing
  bodies, cancelled contexts, lost answers and restarts between any two. A table
  lookup that fails counts as nothing found (`ReplayReadFails`), and a failed
  `CompleteIdempotencyRecord` is ignored (`CompleteFails`).
- **TaskRuns** models the handlers of tasks, claims and run reports, one step
  per database call or critical section. Runs and leases are named after the
  claim that made them. A claim may name no agent (`Claimants`), as the code
  checks `agent_id` nowhere: it leaves the task unowned, and the first daemon
  that reports on its run adopts it. `reassigned`, `reopened` and `faulty` record history for
  the properties only.
- **RunSupervisor** composes the daemon with the part of the server it talks to.
  A daemon's name is also that of its stream goroutine; pollers are the
  goroutines of ticks. Every RPC may take effect or not and its answer may be
  lost. Events are a set of numbered records, and a stream delivers those it
  has in the order of their numbers. A permit is named after the goroutine that
  holds it, the sent-map of a stream is the highest sequence number sent. Events
  of outbound deliveries are in the same map and match no daemon's kinds. An
  event whose handling or acknowledgement failed (`unacked`) is sent again only
  after a reconnect, and the daemon notices a broken stream only between two
  events. A command returns or hangs (`CommandHangs`): `commandRunner.Run` waits
  for the output pipe, which a process the command left behind may hold open past
  the timeout. `executions`, `orphaned` and
  `leaked` record history.
- **Tunnel** composes the registry, the server's preview handler with the
  goroutine of the request body, the receive loop of each `ProxyExchange`
  stream, and the daemon's client with a worker per request, for one computer.
  Streams are numbered connections that break once; a frame is its kind. `Next`
  is a select, so a done context, a closed responder and a buffered frame are
  alternatives. `Detach` marks, takes out and closes in three steps, as it does
  in and outside the lock. A Send on a full stream blocks with
  `lockedStream.mu` (`sending`, `DownCap`) and without a deadline, until the
  daemon reads or the connection is lost; an Attach that has to mark that stream
  closed waits for the mutex and holds `rg.mu` meanwhile (`AttachWaits`,
  `RegistryFree`). A worker whose stream is lost only unwinds, and is
  done at once in the model. No CANCEL frame is sent by either program, so none
  is modelled.
- **TunnelRecords** has the rows of one computer's tunnels, with the
  `ProxyExchange` handlers reduced to attach, detach, check and cleanup, the
  sweeper, and the calls of `UpdateTunnelState`.
- **Decisions** splits a vote into its read, its count and its commit, and the
  ratify and retire handlers into check and write.
- **ImInbound** models `Coordinator.Handle` for a chat that needs a subscription
  and one that does not, the deduplication cache, and the review of
  authorisation requests. Of the session queue it keeps what SessionQueue is
  shown to guarantee: functions of a session run one at a time, each at most
  once, and a caller may leave at any moment. `/new`, `/agent` and `/help`
  change nothing; `/abort` is that a function may fail.
- **Console** puts Idempotency, Decisions, TunnelRecords and ImInbound into one
  specification, in which their handlers interleave freely. They share no
  variable, so **MCConsole** explores each with the others at rest
  (`OneAtATimeSpec`); the proofs are about the free interleaving.
- **MC\*** give the constants small values. Operators marked "Variant" in the
  modules are the plausible mistakes against which each property is tested; no
  specification uses them.

**Database isolation.** SQLite is the default, PostgreSQL and MySQL are
supported, and the code asks for no isolation level. Transactions are therefore
modelled as read committed: reads see committed rows and their own, and other
commits may come between a read and the write that rests on it. Where a
property holds only without such a write, a history variable says when one
happened: `outdated` in Decisions, `excused` in TunnelRecords. SQLite refuses
such a write inside a transaction; the ratify and retire handlers, which use no
transaction, make it everywhere. So the comment in `UpsertDecisionVote` that
counting the rows again keeps concurrent votes from drifting the counters holds
on SQLite and not on the other two.

## Runs

`tlc -config <name>.cfg <MC module>`; bounds are constants named in the cfg.

| Run | Checks | Instance |
|---|---|---|
| SessionQueue_Check | TypeOK, SerialPerSession, NoStrandedRequest, ReplyNeverBlocks, AbortStaysInSession, SerialSpec | 2 slots, capacity 1; three requests of one session (a full channel, a deletion and a re-creation), or one of each of two sessions and an aborter |
| SessionQueue_Liveness | EveryCallReturns, IdleSlotReclaimed | 2 requests |
| EventLog_Check | TypeOK, Gapless, AcknowledgedOnce, ConflictMeansProgress, NoSkippedEvent, LogSpec, EventsDelivered | 3 appends to 2 targets, two of them under one event id, 2 attempts each (so that the second of these runs out), a reader of one target, pages of 2, 2 lost connections or failed queries |
| TaskRuns_Check | TypeOK, SingleOwner, OneLiveRun, LatestVersionAnnounced | one task, 2 agents and claims for nobody, 2 claims, one report, 2 edits (create as todo; then set done or reassign, or instead one fault or restart) |
| RunSupervisor_Check | TypeOK, OneGoroutinePerRun, NoOrphanRunning, PermitsReturned | a run, one lost call, and either a direct message or a control operation and a restart |
| RunSupervisor_Liveness | EventsDrained, QueuedRunFinishes | a run, a direct message and an outbound delivery; polls of one run; one lost call, one broken stream, one restart of the daemon; commands that hang |
| Tunnel_Check | TypeOK, SoundStreamKeepsRequests, NoOrphanResponder, EndedMeansWhole, RequestsReturn | a request and an upgrade, 2 connections, channels and streams (both ways) of one frame, one body frame each way |
| Console_Check | ConsoleTypeOK; OnceUntilRecorded, CompletedIsReplayed, ReplayIsReal; VotesDecide; DisconnectEndsTunnels; OnlySubscribedChats, NothingSwallowed, StoredOnce | 3 calls of one key and 2 faults; 2 decisions, 3 votes of 2 voters, one ruling; 2 tunnels, 2 connections, one transition; 5 messages, 3 deliveries and a reviewer, or 2 deliveries and 2 reviewers, one restart |

Six of these runs have a CONSTRAINT (in the MC module) that keeps combinations
out which the code does not relate. In TaskRuns_Check a fault happens to a task
that is not edited again. In Tunnel_Check each request alone does everything,
with a body frame one way or the other once there is a second stream. With both
under way, either r1 is on the first stream and w1 on its successor, without bodies and cancellations; or both are on the first stream,
which is not lost, and the frames of w1, an upgrade whose handler need not read,
hold up those of r1 (`Push` blocks the receive loop): RequestsReturn is judged on
this case too. In RunSupervisor_Liveness the delivery is announced first, then the
direct message, then the run, so that polls, limited to one run, may fetch the
ended message for ever. A lost call and a broken stream both, or the restart,
happen to the message alone, one lost call or one broken stream to message and
run.

In EventLog_Check an append runs out of attempts because of its event id; running
out by contention alone takes one more writer and is left to the proof.

One key, task or session is enough where the code keeps nothing that relates
two of them; where it does (abort, agents, targets of events) there are two.
Deadlock is not checked: finitely many calls are made, and then the system may
stop.

Four runs check a sentence of the repository's documents and TLC refutes it;
`PROJECT.json` quotes each line under "findings":

| Run | What happens |
|---|---|
| Idempotency_Dedup | replay sees "pending", the other call completes, reserve sees "completed": the body runs twice |
| RunSupervisor_Reexecution | the run's event is handled, its acknowledgement lost, the stream breaks, and the event sent again after the reconnect runs the finished run again |
| Tunnel_Upgrade | browser and local service have closed, the server waits for RESPONSE_END, the daemon for REQUEST_END |
| Decisions_Supersede | an administrator's ratification leaves the superseded decision ratified |

Other places where the code, and with it the model, differs from a document; no
run is kept for them, because one guard that is not there shows each:

- `ClaimCAS` accepts a claim without an agent: the task stays unowned and its
  run goes to whichever agent reports first, while another agent may claim the
  task. SingleOwner is therefore about claims that name an agent.
- `ClaimCAS` looks at the assignee only, so an unassigned task that is done can
  be claimed (`docs/slock-style-daemon-runtime.md:752`), and a terminal run
  report sets the task's state whatever it was (`:737`, "Required state flow").
- `Restart` of TaskRuns forgets leases and runs, which live in memory
  (`README.md:194` counts leases among what the database keeps).
- `AcquirePermit` grants every request (`service.proto:185`, "exclusive"), and
  every tick polls with a limit of its own, so `max-concurrent-runs` does not
  bound the number of commands.
- `StreamTick` sends every daemon the control operations of every computer
  (`serverEventMatches` with `IncludeAllAgents`), and the first acknowledgement
  removes the event for all. Events of outbound deliveries are sent to no daemon,
  acknowledged by none and kept in memory for ever.
- A stale poll answer runs a finished run again just as a repeated event does,
  and so does its first event when a poller was faster.
- A command that leaves a process with its output pipe behind holds up its
  goroutine past the run's timeout; on the stream's goroutine, every event behind
  it.
- A failed or interrupted call leaves its idempotency row pending for ever
  (`BodyFails`, `Restart`), so its retries are refused (`service.proto:171`,
  "at-least-once retry safety"); so does a `CompleteIdempotencyRecord` whose
  error `remember` ignores, once a restart has emptied the memory. And a replay
  that cannot read a completed row is followed by a second execution
  (`ReplayReadFails`, then `ReadExisting`), which CompletedIsReplayed excuses.
- An append whose event id is in the log already is tried five times and then
  refused with ErrConflict (`store_test.go` expects the refusal).
- No status "rejected" is ever written for a decision
  (`docs/agent-memory-design.md` has one for a quorum of rejections), and
  `ForceRatifyDecision` and `RetireDecision` write whatever the status has
  become since the check.
- `CommandFails` keeps the deduplication mark, so a redelivered `/unsubscribe`
  is dropped; `Leave` drops the mark of a message that may have been stored, so
  its redelivery is stored again (`docs/im-real-provider-runtime-plan.md:195`,
  "do not create duplicate Nekode messages"); a rejection can overwrite an
  approval (`UpdateRequestStatus`), which leaves the chat subscribed.
- `AwaitFrame` ignores an error that ends an upgrade before RESPONSE_START: the
  handler waits until the browser leaves or the stream breaks.
- `Send` has no deadline: a daemon that neither reads nor disconnects keeps the
  handlers that send to it, whatever the response timeout, and through
  `AttachWaits` everybody who needs `rg.mu`.
- `Cleanup` closes tunnels of a daemon that attached after `HasDaemon`.

Four properties excuse a race rather than catch it, because the code has it:
VotesDecide (`outdated`), DisconnectEndsTunnels (`excused`), StoredOnce
(`unmarked`), and OnlySubscribedChats, which asks for a subscription at some
moment of the call and not when the message is stored. The hazards of
`PROJECT.json` say so where each bites.

## Fairness

- SessionQueue: weak fairness for each caller and each slot's goroutine, strong
  fairness for blocked channel sends and for taking `q.mu` (Go queues blocked
  senders in order and its mutex hands over to a starving waiter) and for a ready
  receive against the idle timer. The queued function is assumed to return: it
  is one database insert under a context.
- EventLog: weak fairness of calls and connected readers (a loop with a
  ticker), and a handler whose connection is lost returns (its context ends);
  lost connections are bounded.
- Tunnel: weak fairness, for plain requests, of the preview handler's goroutines
  and of the response timeout, and that their browser ends its request body and
  reads its response, or leaves (the server sets no deadlines; a browser that
  does neither can hold a handler). A blocked Send goes on once the daemon has
  read or the connection is lost; RequestsReturn excuses one that never does.
  Nothing is assumed of daemon, network, local service or the browser of an
  upgrade. Tunnel_Upgrade, which
  refutes, adds fairness of receive loops and workers, so that the wait it finds
  is nobody's idleness.
- RunSupervisor: weak fairness of goroutines and of the server's 250 ms ticker;
  a command ends, because it runs under a timeout, or hangs, and of one that
  hangs nothing is assumed: the properties say what it may hold up. Polling is not assumed to pick
  any particular run, since map order promises nothing.

## Proofs

`tlapm <module>.tla` for the eight modules below: every invariant and every
refinement that a passing run checks is also a theorem, for every value of the
constants. Assumptions are the named ASSUMEs of the modules: the types of the
constants, positive capacities, attempts and page size, names that are not
values, and that voters of a decision and deliveries of a message are finite
(the code counts votes; StoredOnce counts deliveries). All other sets are
arbitrary.

**EventLogProofs.** `Gapless` is not inductive: a transaction about to commit
must be known to use the first unused number. `WriteInv` adds *Numbered* (all
numbers below an open transaction's own are used), *Held* (an inserted number or
event id is unused, and no other inserted row has it) and *Fresh* (a call that may still
commit has no row). From it follow `GaplessHolds` and `AcknowledgedOnceHolds`.
`ConflictMeansProgressHolds` adds that an open transaction's number exceeds the
attempts made before, unless its event id is in the log already. `NoSkippedEventHolds` rests on `ReadInv`: a page contains
every matching row between the cursor and its end, and rows committed later have
numbers beyond everything used, hence beyond the cursor; what a client has seen
has no gap, so a new connection starts behind nothing a lost one swallowed.

**EventLogRefinement.** `LogSpecHolds`: the numbers in use are always
1..Cardinality(rows) (*Counted*), so a commit writes at the end of the log that
the rows form by number, and leaves every earlier position as it was.

**SessionQueueProofs.** Five layers, each inductive relative to the ones before:

| Layer | Says | Gives |
|---|---|---|
| TypeInv | types; a goroutine holds a request exactly while it is busy, a caller past `getOrCreate` has a slot, a slot without key has not started | TypeOKHolds |
| MapInv | the map names live slots of the right key and *every* live slot | SerialPerSessionHolds |
| RefInv | `refs` is the number of callers between `getOrCreate` and `release`; a held or non-empty slot is live; while a slot is being deleted, a request that arrived after the look at the channel still has its sender's reference | NoStrandedRequestHolds |
| KeyInv | what is in a slot, and what an aborter read from it, belongs to the slot's session | AbortStaysInSessionHolds |
| TransitInv | a request is in one place, was sent, and is unanswered until it leaves | ReplyNeverBlocksHolds |

The third conjunct of RefInv is why the deletion may read the channel's length
and the reference count at two moments, as long as it reads them in that order.

**SessionQueueRefinement.** `SerialSpecHolds`, from all five layers: a slot is
empty and idle when it enters and when it leaves the map, so the abstract state
does not change then; a send is an acceptance, a receive takes up the head, and
a reply answers.

**TunnelProofs.** Three layers:

| Layer | Says | Gives |
|---|---|---|
| RegistryInv | the computer's stream has a receive loop that will still detach; a loop leaves only when its connection is lost; what Detach took out was registered on that very stream; a waiting request whose loop still attends to it is registered and open | SoundStreamsKeepRequests, RespondersAreServed |
| AddressInv | every frame in a stream, or held by Dispatch between lookup and push, belongs to a request of that stream; a request has a stream, one REQUEST_START and one worker; a blocked Send is of a request of its stream; a worker's pumps run only while it relays | TunnelTypes |
| FrameInv | frames sent are in the responder's channel, in the push or in the stream, in that order, and the last kind of frame is the last; while the browser is served, bodies written and bodies in transit add up to bodies sent; an upgrade still waiting for RESPONSE_START does not have a body next; after RESPONSE_END nothing is sent or written | EndedResponsesAreWhole |

EndedMeansWhole needs all three: a frame dropped by Dispatch because its
responder is gone, or by Push because it is closed, could only be one of a
request that no longer waits. The conjunct on upgrades is there because the first
loop of pumpWebSocket throws away whatever is not RESPONSE_START.

**TaskRunsProofs.** The properties speak of rows and runs; what a handler does to
them rests on what it read. `TaskRunsInv` adds what handlers under way hold: they
act for the assignee unless a user reassigned the task (*HandlersActForOwner*),
a run in memory was made by the claim it is named after (*RunsComeFromClaims*),
rows and handlers keep the agent that claim named, if it named one
(*AttemptKeepsAgent*, *ClaimKeepsAgent*, *ReportKeepsAgent*),
only a terminal report goes on to the task, a task without a row has no owner,
and the version in the row was announced or some handler is going to announce it
(*AnnouncedOrPending*).

**RunSupervisorProofs.** `OneGoroutinePerRun` is split by goroutine (a goroutine
in executeRun has its run in the map, a run in the map has such a goroutine, two
of one daemon never have the same run), which is inductive as it stands.
`NoOrphanRunning` needs *RunningIsHeld*: the goroutine that executes a run
reported as running has not yet passed its final report.

**ConsoleProofs.** An invariant for each of the four parts, then their
conjunction for the interleaving of `Console` (ConsoleSafety):

- Idempotency: every kept, stored or answered response came from an execution, a
  call made after completion has not got past the replay unless its read failed,
  and before any reservation nothing was executed and nobody is at the body
  (*NoneBeforeReserve*), which makes OnceUntilRecorded inductive.
- TunnelRecords: a call about to write read a state that allows what it writes,
  and while a dropped row is open, some handler still has its cleanup before it
  or leaves it to a newer one that has (*SomeoneCleansUp*).
- Decisions: a vote that is not outdated still holds what it read
  (*FreshReadsHold*), a decision that supersedes another was proposed after it.
- ImInbound: while the chat is subscribed every call at work has been, and a
  function in the queue was authorised (*GrantedWhileSubscribed*); of a message
  whose mark was never dropped there is one call that may store it, or one copy
  (*MarkedOnce*); a marked text has a call that has not returned, a copy or a
  refusal (*SeenIsHandled*). *CopiesBounded*, a copy per delivery that stored,
  is needed for the type of the count.

Model-checked only: EveryCallReturns, IdleSlotReclaimed, EventsDelivered,
EventsDrained, QueuedRunFinishes and RequestsReturn. They are liveness under
fairness, which is beyond the prover. The proofs
changed two things in the models. In Tunnel, two CASE expressions had
overlapping guards, of which TLA+ may choose any and TLC takes the first; they
are nested IFs now, as in the code. In RunSupervisor, a daemon's stream and the
server's events are sets of numbered events instead of sequences.

## Not modelled

Time (timeouts are events that may happen), contents of messages, prompts and
events, authentication and access policies, rate limits, the SQL engine beyond
the isolation stated above, and the components of `PROJECT.json` with status
not_modelled. Outbound deliveries and reminders are among them because their
concurrency is not there yet: no program calls the delivery workers, and nothing
fires a reminder. About four fifths of the repository's Go lines are generated
(`internal/ent`, `gen`) and the rest is to a large part parsing, rendering and
calls to chat services, so the map covers a small share of the lines.

## Plan

1. Done: SessionQueue with SerialSessions, EventLog with AppendLog, Idempotency,
   TaskRuns, RunSupervisor, Tunnel, TunnelRecords, Decisions, ImInbound.
2. Done: theorems for every invariant and refinement the runs check.
   SingleOwner, CompletedIsReplayed and the tunnel's types are proved with claims
   for nobody, failing reads and blocking sends in the model.
3. Next: action properties from the same invariants (what a step may never do to
   a row, a cursor or a permit), and an abstract specification of the tunnel, a
   pipe per request that ends whole or cut, which `Tunnel` implements.
4. Further models, if the code grows into them: outbound delivery workers, a
   scheduler of reminders, leases that survive a restart.
