------------------------- MODULE EventLogRefinement -------------------------
(***************************************************************************)
(* The table of events implements AppendLog: read by sequence number it is *)
(* one log that grows at its end, and each call is answered once.          *)
(***************************************************************************)
EXTENDS EventLogProofs

(* The refinement mapping of Log. *)
LogOf == [i \in 1..Cardinality(rows) |-> (CHOOSE e \in rows : e.sequence = i).event]
ReplyOf(a) ==
    CASE writer[a] = "done" -> "ok"
      [] writer[a] \in {"failed", "conflict"} -> "error"
      [] OTHER -> "none"

(* The numbers in use are the positions of the log. *)
Counted == IsFiniteSet(rows) /\ UsedSequences = 1..Cardinality(rows)

LEMMA CountedInit == Init => Counted
<1> SUFFICES ASSUME Init PROVE Counted
  OBVIOUS
<1>1. rows = {} /\ UsedSequences = {}
  BY DEF Init, UsedSequences
<1>2. IsFiniteSet({}) /\ Cardinality({}) = 0
  BY FS_EmptySet
<1> QED BY <1>1, <1>2 DEF Counted

(* A commit adds one row, with the next number. *)
LEMMA CommitNext ==
    ASSUME NEW a \in Appends, WriteInv, Counted, Commit(a)
    PROVE  /\ txSeq[a] = Cardinality(rows) + 1 /\ Cardinality(rows) \in Nat
           /\ rows' = rows \cup {[sequence |-> txSeq[a], event |-> a]}
           /\ IsFiniteSet(rows') /\ Cardinality(rows') = Cardinality(rows) + 1
           /\ UsedSequences' = 1..Cardinality(rows')
<1> DEFINE row == [sequence |-> txSeq[a], event |-> a]
           n == Cardinality(rows)
<1>1. rows' = rows \cup {row} /\ writer[a] = "commit"
  BY DEF Commit
<1>2. /\ txSeq[a] \in Nat \ {0} /\ txSeq[a] \notin UsedSequences
      /\ \A m \in Nat \ {0} : m < txSeq[a] => m \in UsedSequences
  BY <1>1 DEF WriteInv, Numbered, Held
<1>3. n \in Nat
  BY FS_CardinalityType DEF Counted
<1>4. txSeq[a] = n + 1
  <2> HIDE DEF n
  <2>1. UsedSequences = 1..n
    BY DEF Counted, n
  <2>2. ~(n + 1 < txSeq[a])
    BY <1>2, <1>3, <2>1
  <2>3. ~(txSeq[a] < n + 1)
    BY <1>2, <1>3, <2>1
  <2> QED BY <1>2, <1>3, <2>2, <2>3
<1>5. row \notin rows
  <2>1. row.sequence = txSeq[a]
    OBVIOUS
  <2> HIDE DEF row
  <2> QED BY <1>2, <2>1 DEF UsedSequences
<1>6. IsFiniteSet(rows') /\ Cardinality(rows') = n + 1
  <2> HIDE DEF row
  <2> QED BY <1>1, <1>5, FS_AddElement DEF Counted
<1>7. UsedSequences' = 1..(n + 1)
  <2>1. UsedSequences' = (1..n) \cup {n + 1}
    BY <1>4, CommitStep DEF Counted
  <2> HIDE DEF n
  <2> QED BY <1>3, <2>1
<1> QED BY <1>1, <1>3, <1>4, <1>6, <1>7

LEMMA CountedStep == WriteInv /\ Counted /\ [Next]_vars => Counted'
<1> SUFFICES ASSUME WriteInv, Counted, [Next]_vars PROVE Counted'
  OBVIOUS
<1>1. CASE UNCHANGED rows
  BY <1>1 DEF Counted, UsedSequences
<1>2. ASSUME NEW a \in Appends, Commit(a) PROVE Counted'
  BY <1>2, CommitNext DEF Counted
<1>3. ASSUME NEW a \in Appends, ReadLast(a) \/ Insert(a) \/ InsertRefused(a) \/ DatabaseError(a)
      PROVE  UNCHANGED rows
  BY <1>3 DEF ReadLast, Insert, InsertRefused, DatabaseError
<1>4. ASSUME NEW r \in Readers, ReaderStep(r) \/ ConnectionLost(r) \/ HandlerReturns(r)
      PROVE  UNCHANGED rows
  BY <1>4 DEF ReaderStep, Connect, Query, WriteEvent, ConnectionLost, HandlerReturns,
              writeVars
<1> QED BY <1>1, <1>2, <1>3, <1>4 DEF Next, WriterStep, vars, writeVars

(* Looking a row up by its number finds it. *)
LEMMA LookupRow ==
    ASSUME NEW R, \A e, f \in R : e.sequence = f.sequence => e = f, NEW e \in R
    PROVE  (CHOOSE f \in R : f.sequence = e.sequence) = e
  OBVIOUS

LEMMA RefinesInit == Init => Log!Init
<1> SUFFICES ASSUME Init PROVE Log!Init
  OBVIOUS
<1>1. Cardinality(rows) = 0
  BY FS_EmptySet DEF Init
<1>2. LogOf = <<>>
  BY <1>1 DEF LogOf
<1>3. [a \in Appends |-> ReplyOf(a)] = [a \in Appends |-> "none"]
  BY DEF Init, ReplyOf
<1> QED BY <1>2, <1>3 DEF Log!Init, LogOf, ReplyOf

(* What the abstract steps amount to. *)
LEMMA StutterByCall ==
    ASSUME UNCHANGED rows, \A a \in Appends : ReplyOf(a)' = ReplyOf(a)
    PROVE  UNCHANGED Log!absVars
  BY DEF ReplyOf, Log!absVars

LEMMA RefuseByCall ==
    ASSUME NEW a \in Appends, UNCHANGED rows, ReplyOf(a) = "none", ReplyOf(a)' = "error",
           \A b \in Appends \ {a} : ReplyOf(b)' = ReplyOf(b)
    PROVE  Log!Refuse(a)
<1> DEFINE reply == [b \in Appends |-> ReplyOf(b)]
<1>1. reply[a] = "none" /\ reply' = [reply EXCEPT ![a] = "error"]
  OBVIOUS
<1>2. LogOf' = LogOf
  BY DEF LogOf
<1> QED BY <1>1, <1>2, Zenon DEF LogOf, ReplyOf, Log!Refuse

LEMMA AppendByCall ==
    ASSUME NEW a \in Appends, ReplyOf(a) = "none", NEW v \in {"ok", "error"}, ReplyOf(a)' = v,
           \A b \in Appends \ {a} : ReplyOf(b)' = ReplyOf(b),
           \A i \in 1..Len(LogOf) : EventIdOf[LogOf[i]] # EventIdOf[a],
           LogOf' = Append(LogOf, a)
    PROVE  Log!Append1(a)
  BY DEF LogOf, ReplyOf, Log!Append1, Log!InLog

(* Only the writer's own answer changes, as its state says. *)
LEMMA ReplyMoves ==
    ASSUME NEW a \in Appends, WriteInv, NEW x, writer' = [writer EXCEPT ![a] = x]
    PROVE  /\ \A b \in Appends \ {a} : ReplyOf(b)' = ReplyOf(b)
           /\ ReplyOf(a)' = CASE x = "done" -> "ok"
                              [] x \in {"failed", "conflict"} -> "error"
                              [] OTHER -> "none"
  BY DEF ReplyOf, WriteInv, WriteType

LEMMA CommitAppends ==
    ASSUME NEW a \in Appends, WriteInv, Counted, Commit(a)
    PROVE  /\ LogOf' = Append(LogOf, a)
           /\ \A i \in 1..Len(LogOf) : EventIdOf[LogOf[i]] # EventIdOf[a]
<1> DEFINE row == [sequence |-> txSeq[a], event |-> a]
           n == Cardinality(rows)
<1>1. /\ txSeq[a] = n + 1 /\ n \in Nat /\ rows' = rows \cup {row}
      /\ Cardinality(rows') = n + 1
  BY CommitNext
<1>2. /\ \A e, f \in rows : e.sequence = f.sequence => e = f
      /\ \A e, f \in rows' : e.sequence = f.sequence => e = f
  BY CommitStep DEF WriteInv, Gapless
<1>3. row \in rows' /\ row.sequence = n + 1 /\ row.event = a
  BY <1>1
<1> DEFINE at(R, i) == CHOOSE f \in R : f.sequence = i
<1> HIDE DEF row, n
<1>4. ASSUME NEW i \in 1..n
      PROVE  at(rows, i) \in rows /\ at(rows', i) = at(rows, i)
  <2>1. PICK e \in rows : e.sequence = i
    BY DEF Counted, UsedSequences, n
  <2>2. e \in rows'
    BY <1>1, <2>1
  <2>3. at(rows, i) = e
    BY <1>2, <2>1, LookupRow
  <2>4. at(rows', i) = e
    BY <1>2, <2>1, <2>2, LookupRow
  <2> QED BY <2>1, <2>3, <2>4
<1>5. at(rows', n + 1) = row
  BY <1>2, <1>3, LookupRow
<1> HIDE DEF at
<1>6. /\ LogOf = [i \in 1..n |-> at(rows, i).event]
      /\ LogOf' = [i \in 1..(n + 1) |-> at(rows', i).event]
  BY <1>1 DEF LogOf, n, at
<1>7. ASSUME NEW i \in 1..n
      PROVE  /\ at(rows, i).event \in Appends
             /\ EventIdOf[at(rows, i).event] # EventIdOf[a]
  BY <1>4 DEF WriteInv, WriteType, Held, UsedEventIds, Commit
<1>8. LogOf \in Seq(Appends) /\ Len(LogOf) = n
  BY <1>1, <1>6, <1>7
<1>9. LogOf' = Append(LogOf, a)
  <2>1. /\ Append(LogOf, a) \in Seq(Appends) /\ Len(Append(LogOf, a)) = n + 1
        /\ \A i \in 1..n : Append(LogOf, a)[i] = LogOf[i]
        /\ Append(LogOf, a)[n + 1] = a
    BY <1>8, AppendProperties
  <2>2. ASSUME NEW i \in 1..(n + 1)
        PROVE  at(rows', i).event = Append(LogOf, a)[i]
    <3>1. CASE i = n + 1
      BY <1>3, <1>5, <2>1, <3>1
    <3>2. CASE i \in 1..n
      <4>1. LogOf[i] = at(rows, i).event
        BY <1>6, <3>2
      <4>2. at(rows', i).event = at(rows, i).event
        BY <1>4, <3>2
      <4> QED BY <2>1, <3>2, <4>1, <4>2
    <3>3. i = n + 1 \/ i \in 1..n
      BY <1>1
    <3> QED BY <3>1, <3>2, <3>3
  <2>3. LogOf' \in Seq(Appends) /\ Len(LogOf') = n + 1
    <3> DEFINE m == n + 1
    <3>1. ASSUME NEW i \in 1..m PROVE at(rows', i).event \in Appends
      <4>1. i = n + 1 \/ i \in 1..n
        BY <1>1
      <4> QED BY <1>3, <1>4, <1>5, <1>7, <4>1
    <3>2. m \in Nat /\ LogOf' = [i \in 1..m |-> at(rows', i).event]
      BY <1>1, <1>6
    <3> HIDE DEF m
    <3>3. LogOf' \in Seq(Appends) /\ Len(LogOf') = m
      BY <3>1, <3>2
    <3> QED BY <3>3 DEF m
  <2>4. \A i \in 1..(n + 1) : LogOf'[i] = Append(LogOf, a)[i]
    BY <1>6, <2>2
  <2> QED BY <2>1, <2>3, <2>4, SeqEqual
<1> QED BY <1>6, <1>7, <1>8, <1>9

LEMMA RefinesStep == WriteInv /\ Counted /\ [Next]_vars => [Log!Next]_(Log!absVars)
<1> SUFFICES ASSUME WriteInv, Counted, [Next]_vars PROVE Log!Next \/ UNCHANGED Log!absVars
  OBVIOUS
<1>1. ASSUME UNCHANGED writeVars PROVE UNCHANGED Log!absVars
  BY <1>1, StutterByCall DEF writeVars, ReplyOf
<1>2. ASSUME NEW a \in Appends, ReadLast(a) \/ Insert(a) PROVE UNCHANGED Log!absVars
  <2>1. /\ UNCHANGED rows /\ writer[a] \in {"begin", "insert"}
        /\ \E x \in {"insert", "commit"} : writer' = [writer EXCEPT ![a] = x]
    BY <1>2 DEF ReadLast, Insert
  <2>2. ReplyOf(a) = "none" /\ ReplyOf(a)' = "none" /\ \A b \in Appends \ {a} : ReplyOf(b)' = ReplyOf(b)
    BY <2>1, ReplyMoves DEF ReplyOf
  <2> QED BY <2>1, <2>2, StutterByCall
<1>3. ASSUME NEW a \in Appends, InsertRefused(a) \/ DatabaseError(a)
      PROVE  Log!Refuse(a) \/ UNCHANGED Log!absVars
  <2>1. /\ UNCHANGED rows /\ writer[a] \in {"begin", "insert", "commit"}
        /\ \E x \in {"begin", "conflict", "failed"} : writer' = [writer EXCEPT ![a] = x]
    BY <1>3 DEF InsertRefused, DatabaseError
  <2>2. /\ ReplyOf(a) = "none" /\ ReplyOf(a)' \in {"none", "error"}
        /\ \A b \in Appends \ {a} : ReplyOf(b)' = ReplyOf(b)
    BY <2>1, ReplyMoves DEF ReplyOf
  <2> QED BY <2>1, <2>2, StutterByCall, RefuseByCall
<1>4. ASSUME NEW a \in Appends, Commit(a) PROVE Log!Append1(a)
  <2>1. writer[a] = "commit" /\ \E x \in {"done", "failed"} : writer' = [writer EXCEPT ![a] = x]
    BY <1>4 DEF Commit
  <2>2. /\ ReplyOf(a) = "none" /\ ReplyOf(a)' \in {"ok", "error"}
        /\ \A b \in Appends \ {a} : ReplyOf(b)' = ReplyOf(b)
    BY <2>1, ReplyMoves DEF ReplyOf
  <2> QED BY <1>4, <2>2, CommitAppends, AppendByCall
<1>5. ASSUME NEW r \in Readers, ReaderStep(r) \/ ConnectionLost(r) \/ HandlerReturns(r)
      PROVE  UNCHANGED writeVars
  BY <1>5 DEF ReaderStep, Connect, Query, WriteEvent, ConnectionLost, HandlerReturns
<1> QED BY <1>1, <1>2, <1>3, <1>4, <1>5 DEF Next, WriterStep, Log!Next, vars

(* Every behaviour of the table is one of the append-only log: an           *)
(* acknowledged append is at its end once, a refused one leaves nothing.    *)
THEOREM LogSpecHolds == Spec => LogSpec
<1>1. Spec => []Counted
  BY CountedInit, CountedStep, WriteInvariant, PTL DEF Spec
<1> QED BY <1>1, WriteInvariant, RefinesInit, RefinesStep, PTL DEF Spec, LogSpec, Log!Spec

=============================================================================
