----------------------------- MODULE ImInbound ------------------------------
(***************************************************************************)
(* Messages from chat platforms.  A platform delivers a message by calling *)
(* a webhook, and delivers it again when the call fails; Coordinator.Handle *)
(* drops stale and duplicate deliveries, asks whether the chat is           *)
(* subscribed, runs commands and stores other messages through the session *)
(* queue.  Beside it, reviewers approve or reject the requests that         *)
(* /subscribe leaves, and admins edit the subscription.  The model has one  *)
(* chat of an endpoint that requires a subscription, and one endpoint that  *)
(* does not.  Of the session queue it keeps what module SessionQueue shows: *)
(* requests of a session run one at a time, each at most once, and a caller *)
(* may leave before its request runs or while it does.                      *)
(***************************************************************************)
EXTENDS Naturals, FiniteSets

CONSTANTS
    Messages,        \* messages of the platform, by external message id
    ContentOf,       \* ContentOf[m]: "text" or the command it holds
    Unguarded,       \* messages to the endpoint that requires no subscription
    Deliveries,      \* calls of Handle, each for some message
    Reviewers,       \* calls of the approve, bind and reject handlers
    NoMessage, NoDelivery

Contents == {"text", "subscribe", "unsubscribe", "verbose", "other"}

ASSUME ImInboundAssumption ==
    /\ \A m \in Messages : ContentOf[m] \in Contents
    /\ Unguarded \subseteq Messages
    /\ NoMessage \notin Messages
    /\ IsFiniteSet(Deliveries) /\ NoDelivery \notin Deliveries

VARIABLES
    seen,            \* the deduplication cache: messages marked
    delivery,        \* the calls of Handle
    fn,              \* the function each call has put in the session queue
    authRequest,     \* im_chat_auth_requests, named after the call that made them
    overdue,         \* requests past their ten minutes
    subscription,    \* im_chat_subscriptions: the row of the guarded chat
    reviewer,        \* the review handlers
    copies,          \* rows of messages for each platform message
    approved,        \* requests some reviewer approved (history)
    granted,         \* calls during which the chat was subscribed (history)
    refused,         \* messages answered with ErrUnauthorizedChat (history)
    unmarked,        \* messages whose mark was dropped: by age, by a restart,
                     \* by a failure or by a caller that left (history)
    restarted,       \* the server has been restarted; once, as a bound
    before           \* messages first delivered before that

imVars == <<seen, delivery, fn, authRequest, overdue, subscription, reviewer, copies,
            approved, granted, refused, unmarked, restarted, before>>
chatVars == <<authRequest, overdue, subscription, reviewer, approved>>

NoRow == [exists |-> FALSE, subscribed |-> FALSE, verbose |-> FALSE]
IdleDelivery == [pc |-> "idle", msg |-> NoMessage, sub |-> NoRow]
IdleReviewer == [pc |-> "idle", id |-> NoDelivery, hadRow |-> FALSE]

ImInit ==
    /\ seen = {}
    /\ delivery = [d \in Deliveries |-> IdleDelivery]
    /\ fn = [d \in Deliveries |-> "none"]
    /\ authRequest = [d \in Deliveries |-> "none"]
    /\ overdue = {}
    /\ subscription = NoRow
    /\ reviewer = [a \in Reviewers |-> IdleReviewer]
    /\ copies = [m \in Messages |-> 0]
    /\ approved = {}
    /\ granted = {}
    /\ refused = {}
    /\ unmarked = {}
    /\ restarted = FALSE
    /\ before = {}

MessageOf(d) == delivery[d].msg
Working(d) == delivery[d].pc \notin {"idle", "done"} \/ fn[d] \in {"queued", "running"}
Guarded(d) == MessageOf(d) \notin Unguarded

(* The guarded chat is subscribed: calls at work see it, or could have. *)
Grant == granted' = granted \cup {d \in Deliveries : Working(d)}

Step(d, state) == delivery' = [delivery EXCEPT ![d].pc = state]

(* DedupeCache.Forget *)
Forget(m) == seen' = seen \ {m} /\ unmarked' = unmarked \cup {m}

-----------------------------------------------------------------------------
(* Coordinator.Handle *)

(* A message the platform first delivered before the restart: its time is   *)
(* before the server's start, less two seconds.                             *)
StaleDraft(d) ==
    /\ delivery[d].pc = "idle"
    /\ \E m \in before :
        delivery' = [delivery EXCEPT ![d] = [IdleDelivery EXCEPT !.pc = "done", !.msg = m]]
    /\ UNCHANGED <<seen, fn, copies, granted, refused, unmarked, restarted, before, chatVars>>

(* Variant: the message is looked up, and not marked. *)
DeliverUnmarked(d) ==
    /\ delivery[d].pc = "idle"
    /\ \E m \in Messages \ seen :
        delivery' = [delivery EXCEPT ![d] = [IdleDelivery EXCEPT !.pc = "resolve", !.msg = m]]
    /\ granted' = IF subscription.subscribed THEN granted \cup {d} ELSE granted
    /\ UNCHANGED <<seen, fn, copies, refused, unmarked, restarted, before, chatVars>>

(* MarkSeen: a message already marked is a duplicate, answered as done. *)
Deliver(d) ==
    /\ delivery[d].pc = "idle"
    /\ \E m \in Messages :
        /\ delivery' = [delivery EXCEPT
             ![d] = [IdleDelivery EXCEPT !.pc = IF m \in seen THEN "done" ELSE "resolve",
                                         !.msg = m]]
        /\ seen' = seen \cup {m}
    /\ granted' = IF subscription.subscribed THEN granted \cup {d} ELSE granted
    /\ UNCHANGED <<fn, copies, refused, unmarked, restarted, before, chatVars>>

(* Variant: a row is enough, subscribed or not. *)
AuthorizedByRow(row) == row.exists

(* resolveChatPolicy: no row, or one that is not subscribed, means that the *)
(* chat is not authorised.                                                  *)
Authorized(row) == row.exists /\ row.subscribed

(* resolveChatPolicy and the branches after it.  The row read here is the   *)
(* one that commands work on later.  Where no subscription is required the  *)
(* row is not read, and /unsubscribe and /verbose find none.                *)
Resolve(d) ==
    LET content == ContentOf[MessageOf(d)]
        row == IF Guarded(d) THEN subscription ELSE NoRow
        refuse == Guarded(d) /\ content # "subscribe" /\ ~Authorized(row)
        target == CASE refuse -> "done"
                    [] content = "subscribe" -> "subscribe"
                    [] ~refuse /\ content = "text" -> "waiting"
                    [] ~refuse /\ content \in {"unsubscribe", "verbose", "other"} ->
                         IF row.exists THEN "command" ELSE "done" IN
    /\ delivery[d].pc = "resolve"
    /\ delivery' = [delivery EXCEPT ![d].pc = target,
                                    ![d].sub = IF target = "command" THEN row ELSE NoRow]
    /\ fn' = IF target = "waiting" THEN [fn EXCEPT ![d] = "queued"] ELSE fn
    /\ refused' = IF refuse THEN refused \cup {MessageOf(d)} ELSE refused
    /\ UNCHANGED <<seen, copies, granted, unmarked, restarted, before, chatVars>>

(* The database fails under resolveChatPolicy: the mark is dropped, so that *)
(* the platform's next delivery is handled.                                 *)
ResolveFails(d) ==
    /\ delivery[d].pc = "resolve"
    /\ Step(d, "done")
    /\ Forget(MessageOf(d))
    /\ UNCHANGED <<fn, copies, granted, refused, restarted, before, chatVars>>

(* handleSubscribe: a pending request with a fresh key. *)
HandleSubscribe(d) ==
    /\ delivery[d].pc = "subscribe"
    /\ Step(d, "done")
    /\ authRequest' = [authRequest EXCEPT ![d] = "pending"]
    /\ UNCHANGED <<seen, fn, copies, granted, refused, unmarked, restarted, before,
                   overdue, subscription, reviewer, approved>>

(* handleCommand: /unsubscribe, and /verbose, which writes the opposite of   *)
(* the value read in Resolve; the other commands leave no row changed        *)
(* (/abort cancels the function that runs: see FnAborted).                     *)
HandleCommand(d) ==
    LET content == ContentOf[MessageOf(d)] IN
    /\ delivery[d].pc = "command"
    /\ delivery' = [delivery EXCEPT ![d].pc = "done", ![d].sub = NoRow]
    /\ subscription' =
         CASE content = "unsubscribe" -> [subscription EXCEPT !.subscribed = FALSE]
           [] content = "verbose" -> [subscription EXCEPT !.verbose = ~delivery[d].sub.verbose]
           [] content = "other" -> subscription
    /\ UNCHANGED <<seen, fn, copies, granted, refused, unmarked, restarted, before,
                   authRequest, overdue, reviewer, approved>>

(* The update of a command fails: the error is returned, the mark stays. *)
CommandFails(d) ==
    /\ delivery[d].pc \in {"subscribe", "command"}
    /\ delivery' = [delivery EXCEPT ![d].pc = "done", ![d].sub = NoRow]
    /\ UNCHANGED <<seen, fn, copies, granted, refused, unmarked, restarted, before, chatVars>>

-----------------------------------------------------------------------------
(* The function in the session queue, and its caller *)

(* The session's goroutine takes the function; when its caller's context is *)
(* over it does not run.                                                    *)
FnStarts(d) ==
    /\ fn[d] = "queued"
    /\ \A e \in Deliveries : Guarded(e) = Guarded(d) => fn[e] # "running"
    /\ fn' = [fn EXCEPT ![d] = IF delivery[d].pc = "waiting" THEN "running" ELSE "error"]
    /\ UNCHANGED <<seen, delivery, copies, granted, refused, unmarked, restarted, before, chatVars>>

(* createMessage *)
FnStores(d) ==
    /\ fn[d] = "running"
    /\ fn' = [fn EXCEPT ![d] = "ok"]
    /\ copies' = [copies EXCEPT ![MessageOf(d)] = @ + 1]
    /\ UNCHANGED <<seen, delivery, granted, refused, unmarked, restarted, before, chatVars>>

(* /abort or the caller's context reaches the function before createMessage; *)
(* the mark is left to the caller.                                           *)
FnAborted(d) ==
    /\ fn[d] = "running"
    /\ fn' = [fn EXCEPT ![d] = "error"]
    /\ UNCHANGED <<seen, delivery, copies, granted, refused, unmarked, restarted, before, chatVars>>

(* createMessage fails, because of the database, of /abort or of the         *)
(* caller's context, perhaps after the row was stored; the mark is dropped.  *)
(* (A conflict would keep it, but no unique index covers such a message.)    *)
FnFails(d) ==
    /\ fn[d] = "running"
    /\ fn' = [fn EXCEPT ![d] = "error"]
    /\ \E n \in {0, 1} : copies' = [copies EXCEPT ![MessageOf(d)] = @ + n]
    /\ Forget(MessageOf(d))
    /\ UNCHANGED <<delivery, granted, refused, restarted, before, chatVars>>

(* The caller receives the result; on an error it drops the mark again. *)
Return(d) ==
    /\ delivery[d].pc = "waiting" /\ fn[d] \in {"ok", "error"}
    /\ Step(d, "done")
    /\ IF fn[d] = "error" THEN Forget(MessageOf(d)) ELSE UNCHANGED <<seen, unmarked>>
    /\ UNCHANGED <<fn, copies, granted, refused, restarted, before, chatVars>>

(* Variant: the mark stays when the caller's context ends. *)
LeaveMarked(d) ==
    /\ delivery[d].pc = "waiting"
    /\ Step(d, "done")
    /\ unmarked' = unmarked \cup {MessageOf(d)}
    /\ UNCHANGED <<seen, fn, copies, granted, refused, restarted, before, chatVars>>

(* The platform hangs up: the caller leaves and drops the mark, although its *)
(* function may run on, or have stored the message.                          *)
Leave(d) ==
    /\ delivery[d].pc = "waiting"
    /\ Step(d, "done")
    /\ Forget(MessageOf(d))
    /\ UNCHANGED <<fn, copies, granted, refused, restarted, before, chatVars>>

(* A mark is a minute old: the next MarkSeen prunes it. *)
Prune(m) ==
    /\ m \in seen
    /\ Forget(m)
    /\ UNCHANGED <<delivery, fn, copies, granted, refused, restarted, before, chatVars>>

(* The server restarts: calls, queue and cache are gone. *)
ServerRestarts ==
    /\ ~restarted
    /\ restarted' = TRUE
    /\ before' = {MessageOf(d) : d \in {e \in Deliveries : delivery[e].pc # "idle"}}
    /\ seen' = {}
    /\ unmarked' = unmarked \cup seen \cup {MessageOf(d) : d \in {e \in Deliveries : Working(e)}}
    /\ delivery' = [d \in Deliveries |->
         IF delivery[d].pc = "idle" THEN delivery[d]
         ELSE [delivery[d] EXCEPT !.pc = "done", !.sub = NoRow]]
    /\ fn' = [d \in Deliveries |-> IF fn[d] \in {"queued", "running"} THEN "error" ELSE fn[d]]
    /\ reviewer' = [a \in Reviewers |->
         IF reviewer[a].pc = "idle" THEN reviewer[a] ELSE [IdleReviewer EXCEPT !.pc = "done"]]
    /\ UNCHANGED <<authRequest, overdue, subscription, copies, approved, granted, refused>>

-----------------------------------------------------------------------------
(* Reviews of authorisation requests, and the subscription's own handler *)

ReviewEnds(a) == reviewer' = [reviewer EXCEPT ![a] = [IdleReviewer EXCEPT !.pc = "done"]]
handleVars == <<seen, delivery, fn, copies, refused, unmarked, restarted, before>>

(* Ten minutes pass; of a request already resolved nobody asks. *)
RequestExpires(r) ==
    /\ authRequest[r] = "pending" /\ r \notin overdue
    /\ overdue' = overdue \cup {r}
    /\ UNCHANGED <<authRequest, subscription, reviewer, approved, granted, handleVars>>

(* The approve, bind and reject handlers read the request: it must be        *)
(* pending, and one past its time is marked expired.                         *)
ReviewBegins(a) ==
    /\ reviewer[a].pc = "idle"
    /\ \E r \in Deliveries, verdict \in {"approve", "reject"} :
        /\ authRequest[r] = "pending"
        /\ reviewer' = [reviewer EXCEPT ![a] =
             [IdleReviewer EXCEPT !.pc = IF r \in overdue THEN "expire" ELSE verdict, !.id = r]]
    /\ UNCHANGED <<authRequest, overdue, subscription, approved, granted, handleVars>>

(* UpdateIMChatAuthRequestStatus: written whatever the status is by now. *)
UpdateRequestStatus(a) ==
    /\ reviewer[a].pc \in {"expire", "reject"}
    /\ authRequest' = [authRequest EXCEPT ![reviewer[a].id] =
                          IF reviewer[a].pc = "expire" THEN "expired" ELSE "rejected"]
    /\ ReviewEnds(a)
    /\ UNCHANGED <<overdue, subscription, approved, granted, handleVars>>

(* ApproveIMChatAuthRequest: the transaction reads the request again, and   *)
(* looks for the subscription's row.                                        *)
ApproveReads(a) ==
    /\ reviewer[a].pc = "approve"
    /\ reviewer' = [reviewer EXCEPT
         ![a] = IF authRequest[reviewer[a].id] = "pending"
                  THEN [@ EXCEPT !.pc = "commit", !.hadRow = subscription.exists]
                  ELSE [IdleReviewer EXCEPT !.pc = "done"]]
    /\ UNCHANGED <<authRequest, overdue, subscription, approved, granted, handleVars>>

(* It writes the request and the subscription and commits; the unique index *)
(* refuses a second row for the chat.                                       *)
ApproveCommits(a) ==
    LET r == reviewer[a].id IN
    /\ reviewer[a].pc = "commit"
    /\ reviewer[a].hadRow = subscription.exists
    /\ authRequest' = [authRequest EXCEPT ![r] = "approved"]
    /\ subscription' = [exists |-> TRUE, subscribed |-> TRUE, verbose |-> FALSE]
    /\ approved' = approved \cup {r}
    /\ Grant
    /\ ReviewEnds(a)
    /\ UNCHANGED <<overdue, handleVars>>

(* A step fails, the index included: the transaction is rolled back. *)
ReviewFails(a) ==
    /\ reviewer[a].pc \notin {"idle", "done"}
    /\ ReviewEnds(a)
    /\ UNCHANGED <<authRequest, overdue, subscription, approved, granted, handleVars>>

(* handleUpdateIMChatSubscription: an admin patches an existing row. *)
UpdateSubscription ==
    /\ subscription.exists
    /\ \E s, v \in BOOLEAN :
        /\ subscription' = [subscription EXCEPT !.subscribed = s, !.verbose = v]
        /\ IF s THEN Grant ELSE UNCHANGED granted
    /\ UNCHANGED <<authRequest, overdue, reviewer, approved, handleVars>>

ImNext ==
    \/ \E d \in Deliveries :
        \/ StaleDraft(d) \/ Deliver(d) \/ Resolve(d) \/ ResolveFails(d)
        \/ HandleSubscribe(d) \/ HandleCommand(d) \/ CommandFails(d)
        \/ FnStarts(d) \/ FnStores(d) \/ FnAborted(d) \/ FnFails(d) \/ Return(d) \/ Leave(d)
        \/ RequestExpires(d)
    \/ \E m \in Messages : Prune(m)
    \/ \E a \in Reviewers : \/ ReviewBegins(a) \/ UpdateRequestStatus(a) \/ ApproveReads(a)
                            \/ ApproveCommits(a) \/ ReviewFails(a)
    \/ UpdateSubscription
    \/ ServerRestarts

ImSpec == ImInit /\ [][ImNext]_imVars

-----------------------------------------------------------------------------

ImTypeOK ==
    /\ seen \cup refused \cup unmarked \cup before \subseteq Messages
    /\ \A d \in Deliveries :
        /\ delivery[d].pc \in {"idle", "resolve", "subscribe", "command", "waiting", "done"}
        /\ fn[d] \in {"none", "queued", "running", "ok", "error"}
        /\ authRequest[d] \in {"none", "pending", "approved", "rejected", "expired"}
    /\ \A a \in Reviewers :
        reviewer[a].pc \in {"idle", "expire", "approve", "reject", "commit", "done"}
    /\ copies \in [Messages -> 0 .. Cardinality(Deliveries)]
    /\ overdue \cup approved \cup granted \subseteq Deliveries

(* A message is stored for the guarded chat only if a reviewer approved a    *)
(* request and the chat was subscribed at some moment of the call that       *)
(* stored it, whatever unsubscribes, reviews and edits ran beside it         *)
(* (resolveChatPolicy, whose answer is used after the wait in the queue).    *)
OnlySubscribedChats ==
    \A d \in Deliveries : fn[d] = "ok" /\ Guarded(d) => d \in granted /\ approved # {}

(* A delivery is dropped as a duplicate only if the message is being         *)
(* handled, is stored or was refused: no failure, abort or impatient         *)
(* platform leaves a mark that would swallow the next delivery (Forget).     *)
(* Of commands this is not so: see CommandFails.                             *)
NothingSwallowed ==
    \A m \in seen : ContentOf[m] = "text" =>
        \/ \E d \in Deliveries : MessageOf(d) = m /\ Working(d)
        \/ copies[m] > 0
        \/ m \in refused

(* A message is stored once however its deliveries overlap, as long as its   *)
(* mark was not dropped (DedupeCache.MarkSeen).                              *)
StoredOnce == \A m \in Messages \ unmarked : copies[m] <= 1
=============================================================================
