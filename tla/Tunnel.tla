------------------------------- MODULE Tunnel -------------------------------
(***************************************************************************)
(* Preview tunnels: an HTTP request for /preview/<token>/ is carried over   *)
(* the ProxyExchange stream that the daemon of a computer keeps open.  The  *)
(* module models the registry (streams, responders), the server's preview   *)
(* handler with its request-body goroutine, the server's receive loop of    *)
(* each stream, and the daemon's client with one worker per request, for    *)
(* one computer.  A stream is one connection: it breaks once and for all,   *)
(* and the daemon then opens another.                                        *)
(***************************************************************************)
EXTENDS Naturals, Sequences

CONSTANTS
    Requests,        \* preview requests; the registry's request ids
    Upgrades,        \* those that ask for a WebSocket
    MaxStreams,      \* bound: the connections the daemon opens, one after another
    BufCap,          \* capacity of a responder's channel (32 in the code)
    UpCap,           \* frames a stream holds before the daemon's Send blocks
    DownCap,         \* frames a stream holds before the server's Send blocks
    MaxUpload,       \* bound: REQUEST_BODY frames of one request
    MaxDownload      \* bound: RESPONSE_BODY frames of one response

ASSUME TunnelAssumption ==
    /\ Upgrades \subseteq Requests
    /\ MaxStreams \in Nat
    /\ BufCap \in Nat \ {0} /\ UpCap \in Nat \ {0} /\ DownCap \in Nat \ {0}
    /\ MaxUpload \in Nat /\ MaxDownload \in Nat

Streams == 1 .. MaxStreams
NoStream == 0

VARIABLES
    current,         \* rg.streams[computer], or NoStream
    registered,      \* the keys of rg.responders[computer]
    marked,          \* streams whose lockedStream.closed is set
    stale,           \* Detach: the responders it took out and has yet to close
    closed,          \* requests whose responder.done is closed
    buffer,          \* responder.frames: the kinds of the frames it holds
    exchange,        \* where the receive loop (ProxyExchange) of each stream is
    pushing,         \* the request and frame it is pushing
    handler,         \* where the preview handler of each request is
    on,              \* the stream Register gave it
    written,         \* RESPONSE_BODY frames written to each browser
    answer,          \* what the browser got: "open" once it has the headers
    upload,          \* where the goroutine that sends the request body is
    uploaded,        \* REQUEST_BODY frames it sent
    canceled,        \* requests whose context is done
    left,            \* requests whose browser closed its connection
    broken,          \* streams whose connection is lost
    down, up,        \* frames in transit: to the daemon, to the server
    sending,         \* the frame whose Send holds lockedStream.mu, blocked, or <<>>
    serving,         \* the daemon: the stream serveOne runs on, or NoStream
    eof,             \* requests whose body pipe the daemon's receive loop closed
    piped,           \* chunks in the body pipe of an upgrade
    worker,          \* where the daemon's worker of each request is
    pumps,           \* the relay goroutines of an upgrade that still run
    sent             \* RESPONSE_BODY frames that worker sent

registryVars == <<current, registered, marked, stale, closed>>
handlerVars  == <<handler, on, written, answer>>
uploadVars   == <<upload, uploaded>>
loopVars     == <<exchange, pushing>>
contextVars  == <<canceled, left>>
netVars      == <<broken, down, up, sending>>
workVars     == <<eof, piped, worker, pumps, sent>>
daemonVars   == <<serving, workVars>>
serverVars   == <<registryVars, buffer, handlerVars, uploadVars>>
vars == <<serverVars, loopVars, contextVars, netVars, daemonVars>>
settledVars == <<serverVars, loopVars, contextVars, broken, down, up, daemonVars>>

Init ==
    /\ current = NoStream /\ registered = {} /\ marked = {} /\ closed = {}
    /\ stale = [s \in Streams |-> {}]
    /\ buffer = [r \in Requests |-> <<>>]
    /\ exchange = [s \in Streams |-> "none"]
    /\ pushing = [s \in Streams |-> <<>>]
    /\ handler = [r \in Requests |-> "new"]
    /\ on = [r \in Requests |-> NoStream]
    /\ written = [r \in Requests |-> 0]
    /\ answer = [r \in Requests |-> "none"]
    /\ upload = [r \in Requests |-> "none"]
    /\ uploaded = [r \in Requests |-> 0]
    /\ canceled = {} /\ left = {} /\ broken = {}
    /\ down = [s \in Streams |-> <<>>]
    /\ up = [s \in Streams |-> <<>>]
    /\ sending = [s \in Streams |-> <<>>]
    /\ serving = NoStream /\ eof = {}
    /\ piped = [r \in Requests |-> 0]
    /\ worker = [r \in Requests |-> "none"]
    /\ pumps = [r \in Requests |-> {}]
    /\ sent = [r \in Requests |-> 0]

-----------------------------------------------------------------------------
(* lockedStream.Send: refused on a stream that was marked closed; on a       *)
(* broken one the frame is lost, whether Send notices or not.  On a full one *)
(* it waits, with lockedStream.mu and without a deadline, until the daemon    *)
(* reads or the connection is lost; meanwhile nobody else sends on the       *)
(* stream or marks it closed.                                                *)

SendAccepted(s) == s \notin marked
SendRefused(s)  == s \in marked \cup broken

ToDaemon(s, r, kind) ==
    /\ s \in marked \cup broken \/ Len(down[s]) < DownCap
    /\ down' = IF s \in marked \cup broken THEN down
               ELSE [down EXCEPT ![s] = Append(@, <<r, kind>>)]

(* A Send that returns: it had the mutex already, or found it free. *)
Blocked(r, kind) == sending[on[r]] = <<r, kind>>
SendReturns(r, kind) ==
    /\ Blocked(r, kind) \/ sending[on[r]] = <<>>
    /\ sending' = [sending EXCEPT ![on[r]] = <<>>]

(* The frame a goroutine of the request is about to send. *)
HasToSend(r, kind) ==
    \/ kind = "start" /\ handler[r] = "start"
    \/ kind = "chunk" /\ upload[r] = "read" /\ uploaded[r] < MaxUpload
    \/ /\ kind = "chunk" /\ upload[r] = "relay" /\ uploaded[r] < MaxUpload
       /\ r \notin left /\ handler[r] # "join"
    \/ kind = "end" /\ (upload[r] = "end" \/ handler[r] = "finish")

SendBlocks(r, kind) ==
    /\ HasToSend(r, kind)
    /\ sending[on[r]] = <<>>
    /\ on[r] \notin marked \cup broken /\ Len(down[on[r]]) = DownCap
    /\ sending' = [sending EXCEPT ![on[r]] = <<r, kind>>]
    /\ UNCHANGED settledVars

(* rg.mu is free: no Attach holds it, waiting to mark a stream closed.       *)
RegistryFree == \A s \in Streams : exchange[s] # "replace"

DownKinds == {"start", "chunk", "end"}

Goto(r, to) == handler' = [handler EXCEPT ![r] = to]
SetUpload(r, to) == upload' = [upload EXCEPT ![r] = to]
SetAnswer(r, to) == answer' = [answer EXCEPT ![r] = to]

-----------------------------------------------------------------------------
(* The browser, the clock and the network *)

InFlight(r) == handler[r] \notin {"new", "done"}

(* The browser closes its connection, which cancels the request's context,  *)
(* unless the connection was hijacked.                                       *)
Leave(r) ==
    /\ InFlight(r) /\ r \notin left
    /\ left' = left \cup {r}
    /\ canceled' = IF handler[r] \in {"relay", "finish"} THEN canceled ELSE canceled \cup {r}
    /\ UNCHANGED <<serverVars, loopVars, netVars, daemonVars>>

(* Variant: the deadline is given to the upgrades. *)
TimeoutSwapped(r) ==
    /\ InFlight(r) /\ r \in Upgrades \ canceled
    /\ canceled' = canceled \cup {r}
    /\ UNCHANGED <<serverVars, loopVars, left, netVars, daemonVars>>

(* previewResponseTimeout; an upgrade's context has no deadline. *)
Timeout(r) ==
    /\ InFlight(r) /\ r \notin Upgrades \cup canceled
    /\ canceled' = canceled \cup {r}
    /\ UNCHANGED <<serverVars, loopVars, left, netVars, daemonVars>>

(* The connection is lost, and with it what the daemon has not received. *)
Break(s) ==
    /\ exchange[s] # "none" /\ s \notin broken
    /\ broken' = broken \cup {s}
    /\ down' = [down EXCEPT ![s] = <<>>]
    /\ UNCHANGED <<serverVars, loopVars, contextVars, up, sending, daemonVars>>

-----------------------------------------------------------------------------
(* The preview handler: proxyOverTunnel *)

Register(r) ==
    /\ handler[r] = "new" /\ RegistryFree
    /\ IF current = NoStream
         THEN Goto(r, "done") /\ SetAnswer(r, "no daemon") /\ UNCHANGED <<registered, on>>
         ELSE /\ Goto(r, "start")
              /\ registered' = registered \cup {r}
              /\ on' = [on EXCEPT ![r] = current]
              /\ UNCHANGED answer
    /\ UNCHANGED <<current, marked, stale, closed, buffer, written, uploadVars, loopVars,
                   contextVars, netVars, daemonVars>>

(* REQUEST_START; then the response pump and, beside it, the upload, which   *)
(* looks at the context before each read.                                    *)
SendStart(r) ==
    /\ handler[r] = "start" /\ SendReturns(r, "start")
    /\ \/ /\ SendAccepted(on[r]) /\ ToDaemon(on[r], r, "start")
          /\ Goto(r, IF r \in Upgrades THEN "await" ELSE "pump")
          /\ SetUpload(r, IF r \in Upgrades THEN "none"
                          ELSE IF r \in canceled THEN "end" ELSE "read")
          /\ UNCHANGED answer
       \/ /\ SendRefused(on[r])
          /\ Goto(r, "join") /\ SetAnswer(r, "send failed")
          /\ UNCHANGED <<down, upload>>
    /\ UNCHANGED <<registryVars, buffer, on, written, uploaded, loopVars, contextVars,
                   broken, up, daemonVars>>

(* responder.Next is a select: of a done context, a closed responder and a   *)
(* buffered frame it takes any that is ready.                                *)
NextCanceled(r) == r \in canceled
NextClosed(r)   == r \in closed
Frame(r)        == Head(buffer[r])
NextFrame(r)    == buffer[r] # <<>> /\ buffer' = [buffer EXCEPT ![r] = Tail(@)]

(* pumpResponse ends: the handler still waits for the upload. *)
PumpStops(r) ==
    /\ handler[r] \in {"pump", "drain"}
    /\ \/ NextCanceled(r) /\ UNCHANGED answer
       \/ NextClosed(r) /\ SetAnswer(r, IF answer[r] = "open" THEN "cut" ELSE "disconnected")
    /\ Goto(r, "join")
    /\ UNCHANGED <<registryVars, buffer, on, written, uploadVars, loopVars, contextVars,
                   netVars, daemonVars>>

(* pumpResponse, and drainAsBody after a refused upgrade.  A write may fail  *)
(* once the browser left.                                                    *)
PumpFrame(r) ==
    /\ handler[r] \in {"pump", "drain"} /\ NextFrame(r)
    /\ \/ /\ Frame(r) = "head"
          /\ SetAnswer(r, "open") /\ UNCHANGED <<written, handler>>
       \/ /\ Frame(r) = "body"
          /\ written' = [written EXCEPT ![r] = @ + 1]
          /\ SetAnswer(r, "open") /\ UNCHANGED handler
       \/ /\ Frame(r) = "body" /\ r \in left
          /\ SetAnswer(r, "open") /\ Goto(r, "join") /\ UNCHANGED written
       \/ /\ Frame(r) \in {"end", "error"}
          /\ SetAnswer(r, IF Frame(r) = "end" THEN "ended"
                          ELSE IF answer[r] = "open" THEN "cut" ELSE "upstream error")
          /\ Goto(r, "join") /\ UNCHANGED written
    /\ UNCHANGED <<registryVars, on, uploadVars, loopVars, contextVars, netVars,
                   daemonVars>>

(* The upload is over; the deferred calls: responder.Close, then Unregister. *)
CloseResponder(r) ==
    /\ handler[r] = "join" /\ upload[r] \in {"none", "done"}
    /\ closed' = closed \cup {r}
    /\ Goto(r, "unregister")
    /\ UNCHANGED <<current, registered, marked, stale, buffer, on, written, answer,
                   uploadVars, loopVars, contextVars, netVars, daemonVars>>

Unregister(r) ==
    /\ handler[r] = "unregister" /\ RegistryFree
    /\ registered' = registered \ {r}
    /\ Goto(r, "done")
    /\ UNCHANGED <<current, marked, stale, closed, buffer, on, written, answer,
                   uploadVars, loopVars, contextVars, netVars, daemonVars>>

-----------------------------------------------------------------------------
(* streamRequestBody: read the browser's body, send a frame, look at the     *)
(* context; however it ends, REQUEST_END is sent last.                       *)

UploadChunk(r) ==
    /\ upload[r] = "read" /\ uploaded[r] < MaxUpload /\ SendReturns(r, "chunk")
    /\ uploaded' = [uploaded EXCEPT ![r] = @ + 1]
    /\ \/ /\ SendAccepted(on[r]) /\ ToDaemon(on[r], r, "chunk")
          /\ SetUpload(r, IF r \in canceled THEN "end" ELSE "read")
       \/ SendRefused(on[r]) /\ UNCHANGED down /\ SetUpload(r, "end")
    /\ UNCHANGED <<registryVars, buffer, handlerVars, loopVars, contextVars, broken, up,
                   daemonVars>>

(* The browser's body ends, or reading it fails. *)
UploadOver(r) ==
    /\ upload[r] = "read" /\ ~Blocked(r, "chunk")
    /\ SetUpload(r, "end")
    /\ UNCHANGED <<registryVars, buffer, handlerVars, uploaded, loopVars, contextVars,
                   netVars, daemonVars>>

UploadEnd(r) ==
    /\ upload[r] = "end" /\ SendReturns(r, "end")
    /\ ToDaemon(on[r], r, "end")
    /\ SetUpload(r, "done")
    /\ UNCHANGED <<registryVars, buffer, handlerVars, uploaded, loopVars, contextVars,
                   broken, up, daemonVars>>

-----------------------------------------------------------------------------
(* pumpWebSocket.  Nothing but RESPONSE_START ends the first loop, or the    *)
(* browser's leaving, or the loss of the stream.                             *)

AwaitStops(r) ==
    /\ handler[r] = "await"
    /\ \/ NextCanceled(r) /\ UNCHANGED answer
       \/ NextClosed(r) /\ SetAnswer(r, "disconnected")
    /\ Goto(r, "join")
    /\ UNCHANGED <<registryVars, buffer, on, written, uploadVars, loopVars, contextVars,
                   netVars, daemonVars>>

(* After a 101 the connection is hijacked (which may fail) and a goroutine   *)
(* relays the browser's bytes; any other status is relayed as a response.    *)
AwaitFrame(r) ==
    /\ handler[r] = "await" /\ NextFrame(r)
    /\ \/ /\ Frame(r) = "switch"
          /\ Goto(r, "relay") /\ SetUpload(r, "relay") /\ SetAnswer(r, "open")
       \/ /\ Frame(r) = "switch"
          /\ Goto(r, "join") /\ UNCHANGED <<upload, answer>>
       \/ /\ Frame(r) = "head"
          /\ Goto(r, "drain") /\ SetAnswer(r, "open") /\ UNCHANGED upload
       \/ /\ Frame(r) \notin {"switch", "head"}
          /\ UNCHANGED <<handler, upload, answer>>
    /\ UNCHANGED <<registryVars, on, written, uploaded, loopVars, contextVars, netVars,
                   daemonVars>>

(* The second loop. *)
RelayFrame(r) ==
    /\ handler[r] = "relay" /\ NextFrame(r)
    /\ \/ Frame(r) = "body" /\ written' = [written EXCEPT ![r] = @ + 1] /\ UNCHANGED handler
       \/ Frame(r) = "body" /\ r \in left /\ Goto(r, "finish") /\ UNCHANGED written
       \/ Frame(r) \in {"end", "error"} /\ Goto(r, "finish") /\ UNCHANGED written
    /\ UNCHANGED <<registryVars, on, answer, uploadVars, loopVars, contextVars, netVars,
                   daemonVars>>

RelayStops(r) ==
    /\ handler[r] = "relay" /\ (NextCanceled(r) \/ NextClosed(r))
    /\ Goto(r, "finish")
    /\ UNCHANGED <<registryVars, buffer, on, written, answer, uploadVars, loopVars,
                   contextVars, netVars, daemonVars>>

(* REQUEST_END, then conn.Close, then the wait for the relay goroutine. *)
Finish(r) ==
    /\ handler[r] = "finish" /\ SendReturns(r, "end")
    /\ ToDaemon(on[r], r, "end")
    /\ Goto(r, "join")
    /\ UNCHANGED <<registryVars, buffer, on, written, answer, uploadVars, loopVars,
                   contextVars, broken, up, daemonVars>>

(* The goroutine that relays the browser's bytes: it ends when a send fails, *)
(* the browser leaves or the handler closed the connection.                  *)
RelayChunk(r) ==
    /\ upload[r] = "relay" /\ uploaded[r] < MaxUpload /\ SendReturns(r, "chunk")
    /\ Blocked(r, "chunk") \/ (r \notin left /\ handler[r] # "join")
    /\ uploaded' = [uploaded EXCEPT ![r] = @ + 1]
    /\ \/ SendAccepted(on[r]) /\ ToDaemon(on[r], r, "chunk") /\ UNCHANGED upload
       \/ SendRefused(on[r]) /\ UNCHANGED down /\ SetUpload(r, "done")
    /\ UNCHANGED <<registryVars, buffer, handlerVars, loopVars, contextVars, broken, up,
                   daemonVars>>

RelayReadEnds(r) ==
    /\ upload[r] = "relay" /\ ~Blocked(r, "chunk")
    /\ r \in left \/ handler[r] = "join"
    /\ SetUpload(r, "done")
    /\ UNCHANGED <<registryVars, buffer, handlerVars, uploaded, loopVars, contextVars,
                   netVars, daemonVars>>

-----------------------------------------------------------------------------
(* ProxyExchange: the server's receive loop of a stream *)

At(s, to) == exchange' = [exchange EXCEPT ![s] = to]

(* Attach takes rg.mu and finds a stream it has to mark closed first, whose  *)
(* mutex a blocked Send holds.                                               *)
AttachWaits(s) ==
    /\ exchange[s] = "attach" /\ RegistryFree
    /\ current # NoStream /\ sending[current] # <<>>
    /\ At(s, "replace")
    /\ UNCHANGED <<serverVars, pushing, contextVars, netVars, daemonVars>>

(* Attach: the newcomer replaces the stream that was there. *)
Attach(s) ==
    /\ exchange[s] = "replace" \/ (exchange[s] = "attach" /\ RegistryFree)
    /\ current # NoStream => sending[current] = <<>>
    /\ current' = s
    /\ marked' = IF current = NoStream THEN marked ELSE marked \cup {current}
    /\ At(s, "recv")
    /\ UNCHANGED <<registered, stale, closed, buffer, handlerVars, uploadVars, pushing,
                   contextVars, netVars, daemonVars>>

(* The attach frame is lost with the connection. *)
AttachLost(s) ==
    /\ exchange[s] = "attach" /\ s \in broken
    /\ At(s, "done")
    /\ UNCHANGED <<serverVars, pushing, contextVars, netVars, daemonVars>>

(* Dispatch looks the responder up under the lock and pushes outside it. *)
Dispatch(s) ==
    LET r == Head(up[s])[1] IN
    /\ exchange[s] = "recv" /\ up[s] # <<>> /\ RegistryFree
    /\ up' = [up EXCEPT ![s] = Tail(@)]
    /\ IF r \in registered
         THEN At(s, "push") /\ pushing' = [pushing EXCEPT ![s] = Head(up[s])]
         ELSE UNCHANGED loopVars
    /\ UNCHANGED <<serverVars, contextVars, broken, down, sending, daemonVars>>

Pushed(s) ==
    /\ exchange[s] = "push"
    /\ At(s, "recv") /\ pushing' = [pushing EXCEPT ![s] = <<>>]
    /\ UNCHANGED <<registryVars, handlerVars, uploadVars, contextVars, netVars, daemonVars>>

Fits(s) ==
    LET r == pushing[s][1] IN
    /\ Len(buffer[r]) < BufCap
    /\ buffer' = [buffer EXCEPT ![r] = Append(@, pushing[s][2])]

(* Variant: the frames are kept in a slice. *)
PushUnbounded(s) ==
    Pushed(s) /\ buffer' = [buffer EXCEPT ![pushing[s][1]] = Append(@, pushing[s][2])]

(* Variant: a full channel drops the frame. *)
PushOrDrop(s) ==
    /\ Pushed(s)
    /\ IF Len(buffer[pushing[s][1]]) < BufCap THEN Fits(s) ELSE UNCHANGED buffer

(* Push: blocks while the channel is full and the responder open. *)
Push(s) == Pushed(s) /\ (Fits(s) \/ (pushing[s][1] \in closed /\ UNCHANGED buffer))

(* The connection is lost: Detach begins with markClosed, which waits for    *)
(* the stream's mutex.                                                       *)
RecvFails(s) ==
    /\ exchange[s] = "recv" /\ s \in broken /\ sending[s] = <<>>
    /\ marked' = marked \cup {s}
    /\ At(s, "detach")
    /\ UNCHANGED <<current, registered, stale, closed, buffer, handlerVars, uploadVars,
                   pushing, contextVars, netVars, daemonVars>>

(* Under the lock Detach takes out the stream, if it is still the computer's, *)
(* and responders.                                                           *)
TakeOut(s, owned) ==
    /\ exchange[s] = "detach" /\ RegistryFree
    /\ current' = IF current = s THEN NoStream ELSE current
    /\ registered' = registered \ owned
    /\ stale' = [stale EXCEPT ![s] = owned]
    /\ At(s, IF owned = {} THEN "done" ELSE "closing")
    /\ UNCHANGED <<marked, closed, buffer, handlerVars, uploadVars, pushing, contextVars,
                   netVars, daemonVars>>

(* Variant: every responder of the computer. *)
DetachAll(s) == TakeOut(s, registered)

(* Variant: none when the stream was replaced. *)
DetachIfCurrent(s) ==
    TakeOut(s, IF current = s THEN {r \in registered : on[r] = s} ELSE {})

(* Those registered against this very stream. *)
Detach(s) == TakeOut(s, {r \in registered : on[r] = s})

(* Outside the lock they are closed, one by one. *)
CloseStale(s) ==
    /\ exchange[s] = "closing"
    /\ \E r \in stale[s] :
        /\ closed' = closed \cup {r}
        /\ stale' = [stale EXCEPT ![s] = @ \ {r}]
        /\ At(s, IF stale[s] = {r} THEN "done" ELSE "closing")
    /\ UNCHANGED <<current, registered, marked, buffer, handlerVars, uploadVars, pushing,
                   contextVars, netVars, daemonVars>>

-----------------------------------------------------------------------------
(* The daemon's client: run and serveOne *)

Connect(s) ==
    /\ serving = NoStream /\ exchange[s] = "none"
    /\ \A t \in Streams : t < s => exchange[t] # "none"
    /\ serving' = s
    /\ At(s, "attach")
    /\ UNCHANGED <<serverVars, pushing, contextVars, netVars, workVars>>

(* serveOne's receive loop; a chunk for a closed pipe is dropped. *)
DaemonRecv(s) ==
    LET r == Head(down[s])[1]
        kind == Head(down[s])[2] IN
    /\ serving = s /\ down[s] # <<>>
    /\ down' = [down EXCEPT ![s] = Tail(@)]
    /\ worker' = IF kind = "start" THEN [worker EXCEPT ![r] = "dial"] ELSE worker
    /\ eof' = IF kind = "end" THEN eof \cup {r} ELSE eof
    /\ piped' = IF kind = "chunk" /\ r \in Upgrades /\ worker[r] # "done"
                  THEN [piped EXCEPT ![r] = @ + 1] ELSE piped
    /\ UNCHANGED <<serverVars, loopVars, contextVars, broken, up, sending,
                   serving, pumps, sent>>

(* The connection is lost: closeAll, and the context of the stream's workers *)
(* is cancelled; whatever they still send fails, so they only unwind.        *)
ServeOneEnds(s) ==
    LET cutOff == {r \in Requests : on[r] = s /\ worker[r] # "none"} IN
    /\ serving = s /\ s \in broken
    /\ serving' = NoStream
    /\ eof' = eof \cup cutOff
    /\ worker' = [r \in Requests |-> IF r \in cutOff THEN "done" ELSE worker[r]]
    /\ pumps' = [r \in Requests |-> IF r \in cutOff THEN {} ELSE pumps[r]]
    /\ UNCHANGED <<serverVars, loopVars, contextVars, netVars, piped, sent>>

-----------------------------------------------------------------------------
(* The daemon's workers: handleUpstream and handleWebSocket.  Send blocks    *)
(* while the stream is full; on a lost one it fails (ServeOneEnds).          *)

ToServer(r, kind) ==
    /\ on[r] \notin broken /\ Len(up[on[r]]) < UpCap
    /\ up' = [up EXCEPT ![on[r]] = Append(@, <<r, kind>>)]

Work(r, to) == worker' = [worker EXCEPT ![r] = to]

(* The local service answers, switches protocols, or cannot be reached. *)
Dial(r) ==
    /\ worker[r] = "dial"
    /\ Work(r, "head") \/ Work(r, "error") \/ (r \in Upgrades /\ Work(r, "switch"))
    /\ UNCHANGED <<serverVars, loopVars, contextVars, netVars, serving, eof, piped, pumps,
                   sent>>

(* RESPONSE_START; a refused upgrade is drained like any other response. *)
SendHead(r) ==
    /\ worker[r] = "head" /\ ToServer(r, "head") /\ Work(r, "body")
    /\ UNCHANGED <<serverVars, loopVars, contextVars, broken, down, sending, serving,
                   eof, piped, pumps, sent>>

SendSwitch(r) ==
    /\ worker[r] = "switch" /\ ToServer(r, "switch") /\ Work(r, "relay")
    /\ pumps' = [pumps EXCEPT ![r] = {"down", "up"}]
    /\ UNCHANGED <<serverVars, loopVars, contextVars, broken, down, sending, serving,
                   eof, piped, sent>>

(* RESPONSE_BODY, from a response or from the switched connection. *)
SendBody(r) ==
    /\ worker[r] = "body" \/ "up" \in pumps[r]
    /\ sent[r] < MaxDownload /\ ToServer(r, "body")
    /\ sent' = [sent EXCEPT ![r] = @ + 1]
    /\ UNCHANGED <<serverVars, loopVars, contextVars, broken, down, sending, serving,
                   eof, piped, worker, pumps>>

(* The local service's response ends, or reading it fails. *)
BodyOver(r) ==
    /\ worker[r] = "body"
    /\ Work(r, "end") \/ (r \notin Upgrades /\ Work(r, "error"))
    /\ UNCHANGED <<serverVars, loopVars, contextVars, netVars, serving, eof, piped, pumps,
                   sent>>

(* RESPONSE_END, with or without an error text. *)
SendEnd(r) ==
    /\ worker[r] \in {"end", "error"} /\ ToServer(r, worker[r]) /\ Work(r, "done")
    /\ UNCHANGED <<serverVars, loopVars, contextVars, broken, down, sending, serving,
                   eof, piped, pumps, sent>>

PumpEnds(r, p) == pumps' = [pumps EXCEPT ![r] = @ \ {p}]

(* From the body pipe to the local service; a write may fail. *)
RelayDown(r) ==
    /\ "down" \in pumps[r]
    /\ \/ /\ piped[r] > 0 /\ piped' = [piped EXCEPT ![r] = @ - 1]
          /\ PumpEnds(r, "down") \/ UNCHANGED pumps
       \/ piped[r] = 0 /\ r \in eof /\ PumpEnds(r, "down") /\ UNCHANGED piped
    /\ UNCHANGED <<serverVars, loopVars, contextVars, netVars, serving, eof, worker, sent>>

(* The local service closes the switched connection. *)
UpstreamCloses(r) ==
    /\ "up" \in pumps[r] /\ PumpEnds(r, "up")
    /\ UNCHANGED <<serverVars, loopVars, contextVars, netVars, serving, eof, piped, worker,
                   sent>>

(* wg.Wait: both pumps have ended. *)
RelayOver(r) ==
    /\ worker[r] = "relay" /\ pumps[r] = {}
    /\ Work(r, "end")
    /\ UNCHANGED <<serverVars, loopVars, contextVars, netVars, serving, eof, piped, pumps,
                   sent>>

-----------------------------------------------------------------------------
HandlerStep(r) ==
    \/ SendStart(r) \/ PumpStops(r) \/ PumpFrame(r) \/ CloseResponder(r) \/ Unregister(r)
    \/ AwaitStops(r) \/ AwaitFrame(r) \/ RelayFrame(r) \/ RelayStops(r) \/ Finish(r)

ExchangeStep(s) ==
    \/ AttachWaits(s) \/ Attach(s) \/ AttachLost(s) \/ Dispatch(s) \/ Push(s) \/ RecvFails(s)
    \/ Detach(s) \/ CloseStale(s)

WorkerStep(r) ==
    \/ Dial(r) \/ SendHead(r) \/ SendSwitch(r) \/ SendBody(r) \/ BodyOver(r)
    \/ SendEnd(r) \/ RelayDown(r) \/ RelayOver(r)

Move ==
    \/ \E r \in Requests :
        \/ Register(r) \/ HandlerStep(r) \/ Leave(r) \/ Timeout(r)
        \/ UploadChunk(r) \/ UploadOver(r) \/ UploadEnd(r)
        \/ RelayChunk(r) \/ RelayReadEnds(r) \/ WorkerStep(r) \/ UpstreamCloses(r)
    \/ \E s \in Streams :
        \/ ExchangeStep(s) \/ Break(s)
        \/ Connect(s) \/ DaemonRecv(s) \/ ServeOneEnds(s)

Next == Move \/ \E r \in Requests, kind \in DownKinds : SendBlocks(r, kind)

Spec == Init /\ [][Next]_vars

(* A Send that holds the mutex returns once the daemon has read a frame or   *)
(* the connection is lost; so does the Attach that waits for it.             *)
SendGoesOn(r) ==
    /\ on[r] # NoStream
    /\ \E kind \in DownKinds : Blocked(r, kind)
    /\ SendStart(r) \/ UploadChunk(r) \/ UploadEnd(r) \/ RelayChunk(r) \/ Finish(r)
AttachGoesOn(s) == exchange[s] = "replace" /\ Attach(s)

(* The server's goroutines and timers run; the browser of a plain request    *)
(* ends its body and reads its response, or leaves.  Nothing is assumed of   *)
(* the daemon, the network, the local service or the browser of an upgrade.  *)
FairSpec ==
    /\ Spec
    /\ \A r \in Requests :
        /\ WF_vars(SendGoesOn(r))
        /\ WF_vars(\E kind \in DownKinds : SendBlocks(r, kind))
    /\ \A r \in Requests \ Upgrades :
        /\ WF_vars(HandlerStep(r)) /\ WF_vars(Timeout(r))
        /\ WF_vars(UploadOver(r)) /\ WF_vars(UploadEnd(r))
    /\ \A s \in Streams : WF_vars(AttachGoesOn(s))

(* Whatever the two programs do by themselves is done in the end. *)
FullFairSpec ==
    /\ FairSpec
    /\ \A r \in Upgrades : WF_vars(HandlerStep(r))
    /\ \A r \in Requests : WF_vars(WorkerStep(r)) /\ WF_vars(RelayReadEnds(r))
    /\ \A s \in Streams : WF_vars(ExchangeStep(s)) /\ WF_vars(DaemonRecv(s))

-----------------------------------------------------------------------------
(* Properties *)

UpKinds == {"head", "switch", "body", "end", "error"}

(* The sets the variables range over; channels and streams never hold more   *)
(* than their capacity.                                                      *)
TypeOK ==
    /\ current \in Streams \cup {NoStream} /\ serving \in Streams \cup {NoStream}
    /\ registered \subseteq Requests /\ closed \subseteq Requests
    /\ canceled \subseteq Requests /\ left \subseteq Requests /\ eof \subseteq Requests
    /\ marked \subseteq Streams /\ broken \subseteq Streams
    /\ stale \in [Streams -> SUBSET Requests]
    /\ buffer \in [Requests -> Seq(UpKinds)]
    /\ \A r \in Requests : Len(buffer[r]) <= BufCap
    /\ up \in [Streams -> Seq(Requests \X UpKinds)]
    /\ \A s \in Streams : Len(up[s]) <= UpCap
    /\ down \in [Streams -> Seq(Requests \X DownKinds)]
    /\ \A s \in Streams : Len(down[s]) <= DownCap
    /\ sending \in [Streams -> {<<>>} \cup (Requests \X DownKinds)]
    /\ pushing \in [Streams -> {<<>>} \cup (Requests \X UpKinds)]
    /\ exchange \in [Streams -> {"none", "attach", "replace", "recv", "push", "detach",
                                 "closing", "done"}]
    /\ handler \in [Requests -> {"new", "start", "pump", "await", "drain", "relay",
                                 "finish", "join", "unregister", "done"}]
    /\ on \in [Requests -> Streams \cup {NoStream}]
    /\ upload \in [Requests -> {"none", "read", "end", "relay", "done"}]
    /\ uploaded \in [Requests -> 0 .. MaxUpload]
    /\ written \in [Requests -> Nat]
    /\ sent \in [Requests -> 0 .. MaxDownload]
    /\ piped \in [Requests -> Nat]
    /\ worker \in [Requests -> {"none", "dial", "head", "switch", "body", "end", "error",
                                "relay", "done"}]
    /\ pumps \in [Requests -> SUBSET {"down", "up"}]
    /\ answer \in [Requests -> {"none", "no daemon", "send failed", "disconnected",
                                "open", "cut", "ended", "upstream error"}]

Waiting(r) == handler[r] \in {"start", "pump", "await", "drain", "relay"}

(* Detach of a stale stream leaves the others alone: while the stream that   *)
(* carries a request is sound, its responder stays registered and open, in   *)
(* whatever order the receive loops of old and new streams attach and detach. *)
SoundStreamKeepsRequests ==
    \A r \in Requests :
        Waiting(r) /\ on[r] \notin broken => r \in registered /\ r \notin closed

(* Every registered responder belongs to a stream whose receive loop has yet *)
(* to run Detach: no handler waits on a responder nobody will feed or close, *)
(* even when the stream was replaced before it ended.                        *)
NoOrphanResponder ==
    \A r \in registered : exchange[on[r]] \in {"recv", "push", "detach"}

(* A response that ends with the daemon's RESPONSE_END reached the browser   *)
(* whole: a full channel delays frames and never drops one.                  *)
EndedMeansWhole ==
    \A r \in Requests : answer[r] = "ended" => written[r] = sent[r]

(* previewResponseTimeout: neither a local service that never answers, nor   *)
(* an upgrade on the same stream that stops the receive loop by leaving its  *)
(* channel full, nor a reconnect at any moment pins the handler of a request *)
(* for ever.  The timeout does not reach Send, though: the handler stays as  *)
(* long as a Send does, to a daemon that neither reads nor disconnects.      *)
RequestsReturn ==
    \A r \in Requests :
        \/ (handler[r] = "pump") ~> (handler[r] = "done")
        \/ <>[](\E s \in Streams : sending[s] # <<>>)

(* The relay of a WebSocket ends when both ends of it have closed. *)
UpgradeEnds ==
    \A r \in Upgrades :
        (handler[r] = "relay" /\ r \in left /\ worker[r] = "relay" /\ "up" \notin pumps[r])
            ~> (handler[r] = "done")

=============================================================================
