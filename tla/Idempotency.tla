----------------------------- MODULE Idempotency -----------------------------
(***************************************************************************)
(* The wrapper every mutating daemon RPC runs in (internal/daemonrpc:      *)
(* replay, reserve, body, remember): a request with a key is looked up in  *)
(* the server's memory and in the idempotency_records table, reserved with *)
(* a "pending" row, executed, and its response is kept in both places.     *)
(* A client repeats a request under the same key until it gets a response. *)
(* Each repetition is a call; calls of one key may overlap, because a      *)
(* client that times out does not know whether its call still runs.        *)
(***************************************************************************)
EXTENDS Naturals, FiniteSets

CONSTANTS
    Keys,            \* (method, idempotency key) pairs, one logical request each
    Calls,           \* places for calls in flight, reused for retries
    KeyOf,           \* KeyOf[c]: the key of the request c repeats
    MaxFaults,       \* bound: failed calls, cancelled contexts, restarts
    MaxRuns,         \* bound: executions of one request's body
    NoResponse

ASSUME IdempotencyAssumption ==
    /\ KeyOf \in [Calls -> Keys]
    /\ MaxFaults \in Nat
    /\ MaxRuns \in Nat \ {0}
    /\ NoResponse \notin Nat

VARIABLES
    memory,          \* s.idempotency: the response kept for a key, or NoResponse
    record,          \* the table: "none", "pending" or "completed" for a key
    stored,          \* response_json of the row
    runs,            \* executions of the body whose effect is in the database
    call,            \* where each call is
    late,            \* calls that began when the row was already completed
    misread,         \* calls whose replay could not read or use the row
    response,        \* the response a call holds or returned
    faults           \* faults so far

vars == <<memory, record, stored, runs, call, late, misread, response, faults>>

(* Responses are numbered by the execution that produced them. *)
Responses == (1..MaxRuns) \cup {NoResponse}

CallStates == {"idle", "memory", "table", "reserve", "existing", "body",
               "keep", "complete", "answered", "aborted", "failed"}
InFlight == {"memory", "table", "reserve", "existing", "body", "keep", "complete"}

Init ==
    /\ memory = [k \in Keys |-> NoResponse]
    /\ record = [k \in Keys |-> "none"]
    /\ stored = [k \in Keys |-> NoResponse]
    /\ runs = [k \in Keys |-> 0]
    /\ call = [c \in Calls |-> "idle"]
    /\ late = {}
    /\ misread = {}
    /\ response = [c \in Calls |-> NoResponse]
    /\ faults = 0

Goto(c, state) == call' = [call EXCEPT ![c] = state]

Answered(k) == \E c \in Calls : KeyOf[c] = k /\ call[c] = "answered"

(* The client sends its request, or sends it again: it has no response yet. *)
Send(c) ==
    /\ call[c] \in {"idle", "aborted", "failed"}
    /\ ~Answered(KeyOf[c])
    /\ Goto(c, "memory")
    /\ late' = IF record[KeyOf[c]] = "completed" THEN late \cup {c} ELSE late \ {c}
    /\ misread' = misread \ {c}
    /\ response' = [response EXCEPT ![c] = NoResponse]
    /\ UNCHANGED <<memory, record, stored, runs, faults>>

(* replay, first half: the map in memory. *)
ReplayFromMemory(c) ==
    /\ call[c] = "memory"
    /\ IF memory[KeyOf[c]] # NoResponse
         THEN /\ response' = [response EXCEPT ![c] = memory[KeyOf[c]]]
              /\ Goto(c, "answered")
         ELSE /\ Goto(c, "table")
              /\ UNCHANGED response
    /\ UNCHANGED <<memory, record, stored, runs, late, misread, faults>>

(* Variant: only the map in memory is consulted. *)
ReplaySkipsTable(c) ==
    /\ call[c] = "table"
    /\ Goto(c, "reserve")
    /\ UNCHANGED <<memory, record, stored, runs, late, misread, response, faults>>

(* replay, second half: a completed row of the table. *)
ReplayFromTable(c) ==
    /\ call[c] = "table"
    /\ IF record[KeyOf[c]] = "completed"
         THEN /\ response' = [response EXCEPT ![c] = stored[KeyOf[c]]]
              /\ Goto(c, "answered")
         ELSE /\ Goto(c, "reserve")
              /\ UNCHANGED response
    /\ UNCHANGED <<memory, record, stored, runs, late, misread, faults>>

(* Variant: the row is inserted with the schema's default status, completed. *)
ReserveAsCompleted(c) ==
    LET k == KeyOf[c] IN
    /\ call[c] = "reserve"
    /\ IF record[k] = "none"
         THEN /\ record' = [record EXCEPT ![k] = "completed"]
              /\ Goto(c, "body")
         ELSE /\ Goto(c, "existing")
              /\ UNCHANGED record
    /\ UNCHANGED <<memory, stored, runs, late, misread, response, faults>>

(* reserve: insert a pending row; the unique index refuses a second one. *)
Reserve(c) ==
    LET k == KeyOf[c] IN
    /\ call[c] = "reserve"
    /\ IF record[k] = "none"
         THEN /\ record' = [record EXCEPT ![k] = "pending"]
              /\ Goto(c, "body")
         ELSE /\ Goto(c, "existing")
              /\ UNCHANGED record
    /\ UNCHANGED <<memory, stored, runs, late, misread, response, faults>>

(* Variant: a pending row does not stop the call either. *)
ReadExistingIgnored(c) ==
    /\ call[c] = "existing"
    /\ Goto(c, "body")
    /\ UNCHANGED <<memory, record, stored, runs, late, misread, response, faults>>

(* reserve, the row exists: read it; "completed" lets the call go on, any  *)
(* other status aborts it.                                                 *)
ReadExisting(c) ==
    /\ call[c] = "existing"
    /\ Goto(c, IF record[KeyOf[c]] = "completed" THEN "body" ELSE "aborted")
    /\ UNCHANGED <<memory, record, stored, runs, late, misread, response, faults>>

(* The handler's body: its effect is in the database, its response is made. *)
RunBody(c) ==
    LET k == KeyOf[c] IN
    /\ call[c] = "body"
    /\ runs[k] < MaxRuns
    /\ runs' = [runs EXCEPT ![k] = @ + 1]
    /\ response' = [response EXCEPT ![c] = runs[k] + 1]
    /\ Goto(c, "keep")
    /\ UNCHANGED <<memory, record, stored, late, misread, faults>>

(* remember, first half: the map in memory. *)
KeepInMemory(c) ==
    /\ call[c] = "keep"
    /\ memory' = [memory EXCEPT ![KeyOf[c]] = response[c]]
    /\ Goto(c, "complete")
    /\ UNCHANGED <<record, stored, runs, late, misread, response, faults>>

(* remember, second half: CompleteIdempotencyRecord. *)
CompleteRecord(c) ==
    LET k == KeyOf[c] IN
    /\ call[c] = "complete"
    /\ record' = [record EXCEPT ![k] = "completed"]
    /\ stored' = [stored EXCEPT ![k] = response[c]]
    /\ Goto(c, "answered")
    /\ UNCHANGED <<memory, runs, late, misread, response, faults>>

Fault == faults < MaxFaults /\ faults' = faults + 1

(* The row cannot be read, or its response_json is empty or does not decode: *)
(* replay reports nothing found and the call goes on to reserve.             *)
ReplayReadFails(c) ==
    /\ call[c] = "table" /\ Fault
    /\ misread' = misread \cup {c}
    /\ Goto(c, "reserve")
    /\ UNCHANGED <<memory, record, stored, runs, late, response>>

(* CompleteIdempotencyRecord fails: remember ignores the error, the call is  *)
(* answered and its row stays as it is.                                      *)
CompleteFails(c) ==
    /\ call[c] = "complete" /\ Fault
    /\ Goto(c, "answered")
    /\ UNCHANGED <<memory, record, stored, runs, late, misread, response>>

(* Variant: a failed body leaves a status of its own, which nobody reads. *)
BodyFailsMarked(c) ==
    LET k == KeyOf[c] IN
    /\ call[c] = "body" /\ Fault
    /\ record' = [record EXCEPT ![k] = "failed"]
    /\ Goto(c, "failed")
    /\ UNCHANGED <<memory, stored, runs, late, misread, response>>

(* The body is refused (an invalid argument, a conflict) or the database   *)
(* fails under it, before its effect or after it, when a message is stored  *)
(* and the append of its event fails: the error is returned and the pending *)
(* row stays.                                                               *)
BodyFails(c) ==
    LET k == KeyOf[c] IN
    /\ call[c] = "body" /\ Fault
    /\ \E done \in {0, 1} :
        /\ runs[k] + done <= MaxRuns
        /\ runs' = [runs EXCEPT ![k] = @ + done]
    /\ Goto(c, "failed")
    /\ UNCHANGED <<memory, record, stored, late, misread, response>>

(* The request's context ends because the client hangs up, or the database  *)
(* fails under reserve: the call ends with an error, or with an answer that *)
(* nobody receives.                                                         *)
ContextCanceled(c) ==
    /\ call[c] \in InFlight \ {"memory", "keep"} /\ Fault
    /\ Goto(c, "failed")
    /\ UNCHANGED <<memory, record, stored, runs, late, misread, response>>

(* The response is lost on its way: the client has to ask again. *)
AnswerLost(c) ==
    /\ call[c] = "answered" /\ Fault
    /\ Goto(c, "failed")
    /\ UNCHANGED <<memory, record, stored, runs, late, misread, response>>

(* The server restarts: its memory and its calls are gone, the table stays. *)
Restart ==
    /\ Fault
    /\ memory' = [k \in Keys |-> NoResponse]
    /\ call' = [c \in Calls |-> IF call[c] \in InFlight THEN "failed" ELSE call[c]]
    /\ UNCHANGED <<record, stored, runs, late, misread, response>>

CallStep(c) ==
    \/ ReplayFromMemory(c) \/ ReplayFromTable(c) \/ Reserve(c)
    \/ ReadExisting(c) \/ RunBody(c) \/ KeepInMemory(c) \/ CompleteRecord(c)

Next ==
    \/ \E c \in Calls : Send(c) \/ CallStep(c) \/ ReplayReadFails(c) \/ BodyFails(c)
                       \/ CompleteFails(c) \/ ContextCanceled(c) \/ AnswerLost(c)
    \/ Restart

Spec == Init /\ [][Next]_vars

-----------------------------------------------------------------------------
(* Properties *)

TypeOK ==
    /\ memory \in [Keys -> Responses]
    /\ record \in [Keys -> {"none", "pending", "completed"}]
    /\ stored \in [Keys -> Responses]
    /\ runs \in [Keys -> 0..MaxRuns]
    /\ call \in [Calls -> CallStates]
    /\ late \subseteq Calls
    /\ misread \subseteq Calls
    /\ response \in [Calls -> Responses]
    /\ faults \in 0..MaxFaults

(* The body of a request is executed at most once, however often the        *)
(* request is repeated (the interface's "deduplicates retries").            *)
DeduplicatesRetries == \A k \in Keys : runs[k] <= 1

(* As long as a request is not recorded as completed its body is executed   *)
(* at most once, however many calls overlap, fail after their effect, lose  *)
(* their completion or are repeated after a restart: at most one call is at *)
(* the body, and none once the effect is in the database.                   *)
OnceUntilRecorded ==
    \A k \in Keys : record[k] # "completed" =>
        /\ runs[k] <= 1
        /\ \A c, d \in Calls :
             /\ KeyOf[c] = k /\ KeyOf[d] = k
             /\ call[c] = "body" /\ call[d] = "body"
             => c = d /\ runs[k] = 0

(* A retry sent after the request was recorded as completed is answered     *)
(* from the record, before and after a restart: it runs the body only if    *)
(* its own read of the record failed.                                       *)
CompletedIsReplayed ==
    \A c \in late \ misread : call[c] \notin {"body", "keep", "complete"}

(* What is replayed was produced by an execution whose effect is in the     *)
(* database, and a completed row always has a response to replay.           *)
ReplayIsReal ==
    /\ \A k \in Keys : record[k] = "completed" => stored[k] \in 1..runs[k]
    /\ \A c \in Calls : call[c] = "answered" => response[c] \in 1..runs[KeyOf[c]]

=============================================================================
