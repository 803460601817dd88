------------------------------ MODULE EventLog ------------------------------
(***************************************************************************)
(* The durable collaboration event log.  Writers: every mutating RPC calls *)
(* Store.AppendCollaborationEvent, a transaction that reads the highest    *)
(* sequence number and inserts the next one, retried when a unique index   *)
(* refuses it: the one on (server_id, sequence) or the one on event_id,    *)
(* which the caller may supply.  Readers: the SSE handler of the web       *)
(* console pages through the log by sequence number and keeps a cursor.    *)
(* The transaction is three steps, so that writers interleave: a reader    *)
(* and the max query see committed rows only (read committed), and an      *)
(* insert of a number or id that another open transaction holds waits.     *)
(***************************************************************************)
EXTENDS Naturals, Sequences, FiniteSets

CONSTANTS
    Appends,         \* calls of AppendCollaborationEvent
    TargetOf,        \* TargetOf[a]: the target of the event
    EventIdOf,       \* EventIdOf[a]: its event id, the caller's or a new one
    MaxAttempts,     \* transactions tried per call (5 in the code)
    Readers,         \* SSE connections
    FilterOf,        \* FilterOf[r]: the target a reader asks for, or AnyTarget
    AnyTarget,
    PageLimit,       \* events per page (100 in the code)
    MaxDrops         \* bound: how often connections break

ASSUME EventLogAssumption ==
    /\ MaxAttempts \in Nat \ {0}
    /\ PageLimit \in Nat \ {0}
    /\ MaxDrops \in Nat

VARIABLES
    rows,            \* committed rows: records [sequence, event]
    writer,          \* where each call is
    attempt,         \* its loop counter
    txSeq,           \* the sequence number its open transaction uses
    reader,          \* "closed", "query" or "writing"
    since,           \* the sequence in the URL the reader connected with
    cursor,          \* the handler's cursor
    page,            \* rows of the last response not yet written
    lost,            \* the connection is gone, the handler has not noticed
    seen,            \* sequence numbers the client has received
    drops            \* connections broken so far

writeVars == <<rows, writer, attempt, txSeq>>
readVars == <<reader, since, cursor, page, lost, seen, drops>>
vars == <<writeVars, readVars>>

UsedSequences == {e.sequence : e \in rows}
UsedEventIds == {EventIdOf[e.event] : e \in rows}

Init ==
    /\ rows = {}
    /\ writer = [a \in Appends |-> "begin"]
    /\ attempt = [a \in Appends |-> 0]
    /\ txSeq = [a \in Appends |-> 0]
    /\ reader = [r \in Readers |-> "closed"]
    /\ since = [r \in Readers |-> 0]
    /\ cursor = [r \in Readers |-> 0]
    /\ page = [r \in Readers |-> <<>>]
    /\ lost = [r \in Readers |-> FALSE]
    /\ seen = [r \in Readers |-> {}]
    /\ drops = 0

-----------------------------------------------------------------------------
(* AppendCollaborationEvent *)

(* Variant: the numbers of open transactions count as used, as with a       *)
(* sequence generator.                                                      *)
ReadLastReserving(a) ==
    LET open == {txSeq[b] : b \in {c \in Appends : writer[c] \in {"insert", "commit"}}} IN
    /\ writer[a] = "begin"
    /\ \E last \in {0} \cup UsedSequences \cup open :
        /\ \A n \in UsedSequences \cup open : n <= last
        /\ txSeq' = [txSeq EXCEPT ![a] = last + 1]
    /\ writer' = [writer EXCEPT ![a] = "insert"]
    /\ UNCHANGED <<rows, attempt, readVars>>

(* Variant: the last number is used again instead of the next. *)
ReadLastNoIncrement(a) ==
    /\ writer[a] = "begin"
    /\ \E last \in {0} \cup UsedSequences :
        /\ \A n \in UsedSequences : n <= last
        /\ txSeq' = [txSeq EXCEPT ![a] = last]
    /\ writer' = [writer EXCEPT ![a] = "insert"]
    /\ UNCHANGED <<rows, attempt, readVars>>

(* Begin a transaction and read the last committed sequence number. *)
ReadLast(a) ==
    /\ writer[a] = "begin"
    /\ \E last \in {0} \cup UsedSequences :
        /\ \A n \in UsedSequences : n <= last
        /\ txSeq' = [txSeq EXCEPT ![a] = last + 1]
    /\ writer' = [writer EXCEPT ![a] = "insert"]
    /\ UNCHANGED <<rows, attempt, readVars>>

(* The insert waits while another open transaction holds the same number or *)
(* the same event id.                                                       *)
HeldByOther(a) ==
    \E b \in Appends \ {a} :
        writer[b] = "commit" /\ (txSeq[b] = txSeq[a] \/ EventIdOf[b] = EventIdOf[a])

(* A unique index refuses the row. *)
Refused(a) == txSeq[a] \in UsedSequences \/ EventIdOf[a] \in UsedEventIds

(* Variant: no unique index. *)
InsertUnchecked(a) ==
    /\ writer[a] = "insert"
    /\ writer' = [writer EXCEPT ![a] = "commit"]
    /\ UNCHANGED <<rows, attempt, txSeq, readVars>>

(* Variant: no unique index on event_id. *)
InsertAnyId(a) ==
    /\ writer[a] = "insert"
    /\ ~HeldByOther(a)
    /\ txSeq[a] \notin UsedSequences
    /\ writer' = [writer EXCEPT ![a] = "commit"]
    /\ UNCHANGED <<rows, attempt, txSeq, readVars>>

(* Number and id are free: the row is inserted, not yet visible. *)
Insert(a) ==
    /\ writer[a] = "insert"
    /\ ~HeldByOther(a)
    /\ ~Refused(a)
    /\ writer' = [writer EXCEPT ![a] = "commit"]
    /\ UNCHANGED <<rows, attempt, txSeq, readVars>>

(* Variant: running out of attempts is not reported. *)
InsertRefusedSilently(a) ==
    /\ writer[a] = "insert"
    /\ ~HeldByOther(a)
    /\ Refused(a)
    /\ attempt' = [attempt EXCEPT ![a] = @ + 1]
    /\ writer' = [writer EXCEPT ![a] =
                    IF attempt[a] + 1 < MaxAttempts THEN "begin" ELSE "done"]
    /\ UNCHANGED <<rows, txSeq, readVars>>

(* Variant: a number held by an open transaction is refused at once. *)
InsertRefusedEarly(a) ==
    /\ writer[a] = "insert"
    /\ HeldByOther(a) \/ Refused(a)
    /\ attempt' = [attempt EXCEPT ![a] = @ + 1]
    /\ writer' = [writer EXCEPT ![a] =
                    IF attempt[a] + 1 < MaxAttempts THEN "begin" ELSE "conflict"]
    /\ UNCHANGED <<rows, txSeq, readVars>>

(* The number was taken meanwhile, or the id is in the log: a constraint    *)
(* error either way, rollback, next attempt, and ErrConflict after the last *)
(* one.  A new number helps against the first, nothing against the second.  *)
InsertRefused(a) ==
    /\ writer[a] = "insert"
    /\ ~HeldByOther(a)
    /\ Refused(a)
    /\ attempt' = [attempt EXCEPT ![a] = @ + 1]
    /\ writer' = [writer EXCEPT ![a] =
                    IF attempt[a] + 1 < MaxAttempts THEN "begin" ELSE "conflict"]
    /\ UNCHANGED <<rows, txSeq, readVars>>

(* Commit succeeds, or reports an error although the row went in. *)
Commit(a) ==
    /\ writer[a] = "commit"
    /\ rows' = rows \cup {[sequence |-> txSeq[a], event |-> a]}
    /\ \E outcome \in {"done", "failed"} :
        writer' = [writer EXCEPT ![a] = outcome]
    /\ UNCHANGED <<attempt, txSeq, readVars>>

(* Any other database error, or the server's end, at any point of the       *)
(* transaction: it rolls back and the call returns the error.                *)
DatabaseError(a) ==
    /\ writer[a] \in {"begin", "insert", "commit"}
    /\ writer' = [writer EXCEPT ![a] = "failed"]
    /\ UNCHANGED <<rows, attempt, txSeq, readVars>>

-----------------------------------------------------------------------------
(* handleServerEvents *)

Matches(e, r) == FilterOf[r] = AnyTarget \/ TargetOf[e.event] = FilterOf[r]

(* Variant: the cursor is taken for the next number wanted. *)
CandidatesPast(r) == {e \in rows : e.sequence > cursor[r] + 1 /\ Matches(e, r)}

(* The rows beyond the cursor that pass the filter. *)
Candidates(r) == {e \in rows : e.sequence > cursor[r] /\ Matches(e, r)}

(* What ListCollaborationEvents may return: their numbers in ascending      *)
(* order, none left out before the last, and fewer than PageLimit only if   *)
(* these are all.                                                           *)
ListCollaborationEvents(r) ==
    {p \in UNION {[1..n -> UsedSequences] : n \in 1..PageLimit} :
        /\ \A i \in 1..Len(p) : \E e \in Candidates(r) : e.sequence = p[i]
        /\ \A i, j \in 1..Len(p) : i < j => p[i] < p[j]
        /\ \A e \in Candidates(r) :
             \/ \E i \in 1..Len(p) : p[i] = e.sequence
             \/ Len(p) = PageLimit /\ \A i \in 1..Len(p) : p[i] < e.sequence}

(* The client opens the stream, from the start of the log or from the last  *)
(* event it has; a browser that reconnects by itself uses the old URL.      *)
Connect(r) ==
    /\ reader[r] = "closed"
    /\ \E n \in {0, since[r]} \cup seen[r] :
        /\ n \in {0, since[r]} \/ \A m \in seen[r] : m <= n
        /\ since' = [since EXCEPT ![r] = n]
        /\ cursor' = [cursor EXCEPT ![r] = n]
    /\ reader' = [reader EXCEPT ![r] = "query"]
    /\ page' = [page EXCEPT ![r] = <<>>]
    /\ lost' = [lost EXCEPT ![r] = FALSE]
    /\ UNCHANGED <<writeVars, seen, drops>>

(* One ListEventsSince call.  An empty page means waiting for the ticker.   *)
Query(r) ==
    /\ reader[r] = "query"
    /\ \E p \in ListCollaborationEvents(r) : page' = [page EXCEPT ![r] = p]
    /\ reader' = [reader EXCEPT ![r] = "writing"]
    /\ UNCHANGED <<writeVars, since, cursor, lost, seen, drops>>

(* Write one event of the page and move the cursor onto it; the error of a *)
(* write into a lost connection is ignored.                                 *)
WriteEvent(r) ==
    /\ reader[r] = "writing"
    /\ seen' = [seen EXCEPT ![r] = IF lost[r] THEN @ ELSE @ \cup {Head(page[r])}]
    /\ cursor' = [cursor EXCEPT ![r] = Head(page[r])]
    /\ page' = [page EXCEPT ![r] = Tail(@)]
    /\ reader' = [reader EXCEPT ![r] = IF Len(page[r]) = 1 THEN "query" ELSE "writing"]
    /\ UNCHANGED <<writeVars, since, lost, drops>>

(* The connection breaks: nothing written from now on arrives.  (A byte     *)
(* stream loses its end, never its middle.)                                 *)
ConnectionLost(r) ==
    /\ reader[r] # "closed" /\ ~lost[r]
    /\ drops < MaxDrops
    /\ drops' = drops + 1
    /\ lost' = [lost EXCEPT ![r] = TRUE]
    /\ UNCHANGED <<writeVars, reader, since, cursor, page, seen>>

(* The query fails, or the request's context ends with its connection: the  *)
(* handler returns.                                                         *)
HandlerReturns(r) ==
    /\ reader[r] # "closed"
    /\ lost[r] \/ drops < MaxDrops
    /\ drops' = IF lost[r] THEN drops ELSE drops + 1
    /\ reader' = [reader EXCEPT ![r] = "closed"]
    /\ page' = [page EXCEPT ![r] = <<>>]
    /\ UNCHANGED <<writeVars, since, cursor, lost, seen>>

-----------------------------------------------------------------------------
WriterStep(a) ==
    ReadLast(a) \/ Insert(a) \/ InsertRefused(a) \/ Commit(a)

ReaderStep(r) == Connect(r) \/ Query(r) \/ WriteEvent(r)

Next ==
    \/ \E a \in Appends : WriterStep(a) \/ DatabaseError(a)
    \/ \E r \in Readers : ReaderStep(r) \/ ConnectionLost(r) \/ HandlerReturns(r)

Spec == Init /\ [][Next]_vars

(* Calls run to their end, a connected handler keeps polling, and one whose *)
(* connection is lost has its context cancelled.                            *)
FairSpec ==
    /\ Spec
    /\ \A a \in Appends : WF_vars(WriterStep(a))
    /\ \A r \in Readers : WF_vars(ReaderStep(r))
    /\ \A r \in Readers : WF_vars(lost[r] /\ HandlerReturns(r))

-----------------------------------------------------------------------------
(* Properties *)

WriterStates == {"begin", "insert", "commit", "done", "failed", "conflict"}

TypeOK ==
    /\ rows \subseteq [sequence : Nat \ {0}, event : Appends]
    /\ writer \in [Appends -> WriterStates]
    /\ attempt \in [Appends -> Nat]
    /\ txSeq \in [Appends -> Nat]
    /\ reader \in [Readers -> {"closed", "query", "writing"}]
    /\ since \in [Readers -> Nat]
    /\ cursor \in [Readers -> Nat]
    /\ page \in [Readers -> Seq(Nat)]
    /\ lost \in [Readers -> BOOLEAN]
    /\ seen \in [Readers -> SUBSET Nat]
    /\ drops \in Nat

(* No two events share a sequence number and no number is left out, whatever *)
(* transactions overlapped, were refused or rolled back.                     *)
Gapless ==
    /\ \A e, f \in rows : e.sequence = f.sequence => e = f
    /\ \A e \in rows : \A n \in 1..e.sequence : n \in UsedSequences

(* A call that returned without error has its event in the log; a call that *)
(* gave up with ErrConflict has none; no event id is there twice, whoever    *)
(* supplied it.                                                              *)
AcknowledgedOnce ==
    /\ \A a \in Appends : writer[a] = "done" => \E e \in rows : e.event = a
    /\ \A a \in Appends : writer[a] = "conflict" => \A e \in rows : e.event # a
    /\ \A e, f \in rows : EventIdOf[e.event] = EventIdOf[f.event] => e = f

(* An append fails an attempt only because another one succeeded meanwhile,  *)
(* or because its own event id is in the log already: contention for the     *)
(* next number delays some writer, never all of them.                        *)
ConflictMeansProgress ==
    \A a \in Appends :
        attempt[a] <= Cardinality(rows) \/ EventIdOf[a] \in UsedEventIds

(* While the connection stands, a reader's cursor never passes an event it   *)
(* should have received: rows become visible in the order of their numbers,  *)
(* and a new connection starts behind nothing that a lost one swallowed.     *)
NoSkippedEvent ==
    \A r \in Readers : reader[r] # "closed" /\ ~lost[r] =>
        \A e \in rows :
            Matches(e, r) /\ e.sequence <= cursor[r] => e.sequence \in seen[r]

(* Every event of a reader's target reaches the reader in the end. *)
EventsDelivered ==
    \A r \in Readers : \A a \in Appends :
        (writer[a] = "done" /\ (FilterOf[r] = AnyTarget \/ TargetOf[a] = FilterOf[r]))
        ~> (\E e \in rows : e.event = a /\ e.sequence \in seen[r])

(* Refinement: the table is the append-only log. *)
Log == INSTANCE AppendLog WITH
    log <- [i \in 1..Cardinality(rows) |->
              (CHOOSE e \in rows : e.sequence = i).event],
    reply <- [a \in Appends |->
                CASE writer[a] = "done" -> "ok"
                  [] writer[a] \in {"failed", "conflict"} -> "error"
                  [] OTHER -> "none"]

LogSpec == Log!Spec

=============================================================================
