--------------------------- MODULE SerialSessions ---------------------------
(***************************************************************************)
(* What the session queue of the IM coordinator promises its callers: the  *)
(* requests of one session are served one at a time, in the order they     *)
(* were accepted, each accepted request is answered at most once, and no   *)
(* accepted request is dropped before it is taken up.  How sessions are    *)
(* created, shared and reclaimed is invisible at this level.               *)
(***************************************************************************)
EXTENDS Sequences

CONSTANTS
    Requests,        \* calls of enqueue
    Keys,            \* session keys
    KeyOf,           \* the session key each request is made for
    NoRequest        \* "nothing is being served"

VARIABLES
    pending,         \* pending[k]: accepted requests of k, oldest first
    serving,         \* serving[k]: the request of k being served, or NoRequest
    answer           \* answer[r]: "none" until r is answered

absVars == <<pending, serving, answer>>

Answers == {"ok", "err"}

Init ==
    /\ pending = [k \in Keys |-> <<>>]
    /\ serving = [k \in Keys |-> NoRequest]
    /\ answer = [r \in Requests |-> "none"]

(* A request joins the back of its session's line. *)
Accept(r) ==
    /\ answer[r] = "none"
    /\ pending' = [pending EXCEPT ![KeyOf[r]] = Append(@, r)]
    /\ UNCHANGED <<serving, answer>>

(* The session, being idle, takes up its oldest request. *)
TakeUp(k) ==
    /\ serving[k] = NoRequest
    /\ pending[k] # <<>>
    /\ serving' = [serving EXCEPT ![k] = Head(pending[k])]
    /\ pending' = [pending EXCEPT ![k] = Tail(@)]
    /\ UNCHANGED answer

(* The request in service gets its one answer and the session is idle again. *)
Answer(k) ==
    /\ serving[k] # NoRequest
    /\ answer[serving[k]] = "none"
    /\ \E a \in Answers : answer' = [answer EXCEPT ![serving[k]] = a]
    /\ serving' = [serving EXCEPT ![k] = NoRequest]
    /\ UNCHANGED pending

Next ==
    \/ \E r \in Requests : Accept(r)
    \/ \E k \in Keys : TakeUp(k) \/ Answer(k)

Spec == Init /\ [][Next]_absVars

=============================================================================
