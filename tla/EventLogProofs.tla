--------------------------- MODULE EventLogProofs ---------------------------
(***************************************************************************)
(* Proofs about EventLog, for any number of writers and readers, any bound *)
(* on attempts and any page size.                                          *)
(***************************************************************************)
EXTENDS EventLog, FiniteSetTheorems, SequenceTheorems, TLAPS

-----------------------------------------------------------------------------
(* The writers *)

WriteType ==
    /\ rows \subseteq [sequence : Nat \ {0}, event : Appends]
    /\ writer \in [Appends -> WriterStates]
    /\ attempt \in [Appends -> Nat]
    /\ txSeq \in [Appends -> Nat]

(* An open transaction uses the number after a used prefix of the log. *)
Numbered ==
    \A a \in Appends :
        writer[a] \in {"insert", "commit"} =>
            /\ txSeq[a] \in Nat \ {0}
            /\ \A n \in Nat \ {0} : n < txSeq[a] => n \in UsedSequences

(* An inserted row's number and event id are its own until it commits. *)
Held ==
    \A a \in Appends :
        writer[a] = "commit" =>
            /\ txSeq[a] \notin UsedSequences
            /\ EventIdOf[a] \notin UsedEventIds
            /\ \A b \in Appends : writer[b] = "commit" /\ b # a =>
                 txSeq[b] # txSeq[a] /\ EventIdOf[b] # EventIdOf[a]

(* A call that may still commit, or gave up, has no row. *)
Fresh ==
    \A a \in Appends :
        writer[a] \in {"begin", "insert", "commit", "conflict"} =>
            \A e \in rows : e.event # a

WriteInv ==
    /\ WriteType
    /\ Gapless
    /\ Numbered
    /\ Held
    /\ Fresh
    /\ AcknowledgedOnce

LEMMA WriteInit == Init => WriteInv
  BY DEF Init, WriteInv, WriteType, Gapless, Numbered, Held, Fresh,
         AcknowledgedOnce, UsedSequences, UsedEventIds, WriterStates

(* Steps of the readers leave the table and the writers alone. *)
LEMMA WriteStutter == WriteInv /\ UNCHANGED writeVars => WriteInv'
  BY DEF WriteInv, writeVars, WriteType, Gapless, Numbered, Held, Fresh,
         AcknowledgedOnce, UsedSequences, UsedEventIds

(* A transaction begins: the number it reads follows the last one. *)
LEMMA ReadLastStep ==
    ASSUME NEW a \in Appends, WriteInv, ReadLast(a)
    PROVE  WriteInv'
<1>1. PICK last \in {0} \cup UsedSequences :
        /\ \A n \in UsedSequences : n <= last
        /\ txSeq' = [txSeq EXCEPT ![a] = last + 1]
  BY DEF ReadLast
<1>2. last \in Nat /\ UsedSequences' = UsedSequences /\ UsedSequences \subseteq Nat \ {0}
  BY DEF WriteInv, WriteType, UsedSequences, ReadLast
<1>3. \A n \in Nat \ {0} : n <= last => n \in UsedSequences
  BY <1>2 DEF WriteInv, WriteType, Gapless, UsedSequences
<1>4. WriteType'
  BY <1>1, <1>2 DEF WriteInv, WriteType, ReadLast, WriterStates
<1>5. Gapless'
  BY DEF WriteInv, Gapless, ReadLast, UsedSequences
<1>6. Numbered'
  BY <1>1, <1>2, <1>3 DEF WriteInv, WriteType, Numbered, ReadLast
<1>7. Held'
  BY <1>1, <1>2 DEF WriteInv, WriteType, Held, ReadLast, UsedEventIds
<1>8. Fresh' /\ AcknowledgedOnce'
  BY DEF WriteInv, WriteType, Fresh, AcknowledgedOnce, ReadLast
<1> QED BY <1>4, <1>5, <1>6, <1>7, <1>8 DEF WriteInv

(* An insert succeeds only on a number nobody has. *)
LEMMA InsertStep ==
    ASSUME NEW a \in Appends, WriteInv, Insert(a)
    PROVE  WriteInv'
<1>1. UsedSequences' = UsedSequences
  BY DEF Insert, UsedSequences
<1>2. WriteType' /\ Gapless'
  BY DEF WriteInv, WriteType, Gapless, Insert, WriterStates, UsedSequences
<1>3. Numbered'
  BY <1>1 DEF WriteInv, WriteType, Numbered, Insert
<1>4. Held'
  BY <1>1 DEF WriteInv, WriteType, Held, Insert, HeldByOther, Refused, UsedEventIds
<1>5. Fresh' /\ AcknowledgedOnce'
  BY DEF WriteInv, WriteType, Fresh, AcknowledgedOnce, Insert
<1> QED BY <1>2, <1>3, <1>4, <1>5 DEF WriteInv

(* A refused insert leaves nothing behind. *)
LEMMA InsertRefusedStep ==
    ASSUME NEW a \in Appends, WriteInv, InsertRefused(a)
    PROVE  WriteInv'
<1>1. UsedSequences' = UsedSequences
  BY DEF InsertRefused, UsedSequences
<1>2. WriteType' /\ Gapless'
  BY EventLogAssumption
  DEF WriteInv, WriteType, Gapless, InsertRefused, WriterStates, UsedSequences
<1>3. Numbered' /\ Held'
  BY <1>1 DEF WriteInv, WriteType, Numbered, Held, InsertRefused, UsedEventIds
<1>4. Fresh' /\ AcknowledgedOnce'
  BY DEF WriteInv, WriteType, Fresh, AcknowledgedOnce, InsertRefused
<1> QED BY <1>2, <1>3, <1>4 DEF WriteInv

(* A commit extends the log at its end. *)
LEMMA CommitStep ==
    ASSUME NEW a \in Appends, WriteInv, Commit(a)
    PROVE  /\ WriteInv'
           /\ UsedSequences' = UsedSequences \cup {txSeq[a]}
           /\ UsedEventIds' = UsedEventIds \cup {EventIdOf[a]}
           /\ \A n \in UsedSequences : n < txSeq[a]
<1> DEFINE row == [sequence |-> txSeq[a], event |-> a]
<1>1. /\ writer[a] = "commit" /\ rows' = rows \cup {row}
      /\ UNCHANGED <<attempt, txSeq>>
  BY DEF Commit
<1>2. PICK outcome \in {"done", "failed"} : writer' = [writer EXCEPT ![a] = outcome]
  BY DEF Commit
<1>3. /\ txSeq[a] \in Nat \ {0} /\ txSeq[a] \notin UsedSequences
      /\ EventIdOf[a] \notin UsedEventIds
      /\ \A n \in Nat \ {0} : n < txSeq[a] => n \in UsedSequences
  BY <1>1 DEF WriteInv, Numbered, Held
<1>4. UsedSequences \subseteq Nat \ {0}
  BY DEF WriteInv, WriteType, UsedSequences
<1>5. UsedSequences' = UsedSequences \cup {txSeq[a]}
  <2>1. row.sequence = txSeq[a]
    OBVIOUS
  <2>2. UsedSequences' = {e.sequence : e \in rows \cup {row}}
    BY <1>1 DEF UsedSequences
  <2> HIDE DEF row
  <2> QED BY <2>1, <2>2, Zenon DEF UsedSequences
<1>13. UsedEventIds' = UsedEventIds \cup {EventIdOf[a]}
  <2>1. row.event = a
    OBVIOUS
  <2>2. UsedEventIds' = {EventIdOf[e.event] : e \in rows \cup {row}}
    BY <1>1 DEF UsedEventIds
  <2> HIDE DEF row
  <2> QED BY <2>1, <2>2, Zenon DEF UsedEventIds
<1>6. \A n \in UsedSequences : n < txSeq[a]
  <2>1. SUFFICES ASSUME NEW n \in UsedSequences, txSeq[a] <= n
                 PROVE  FALSE
    BY <1>3, <1>4
  <2>2. txSeq[a] \in 1..n
    BY <1>3, <1>4, <2>1
  <2> QED BY <1>3, <2>2 DEF WriteInv, Gapless, UsedSequences
<1>7. WriteType'
  BY <1>1, <1>2, <1>3 DEF WriteInv, WriteType, WriterStates
<1>8. Gapless'
  <2>1. \A e, f \in rows' : e.sequence = f.sequence => e = f
    BY <1>1, <1>3 DEF WriteInv, Gapless, UsedSequences
  <2>2. ASSUME NEW e \in rows', NEW n \in 1..e.sequence
        PROVE  n \in UsedSequences'
    <3>1. CASE e \in rows
      BY <3>1, <2>2, <1>5 DEF WriteInv, Gapless
    <3>2. CASE e = row
      BY <3>2, <2>2, <1>3, <1>5
    <3> QED BY <3>1, <3>2, <1>1
  <2> QED BY <2>1, <2>2 DEF Gapless
<1>9. Numbered'
  BY <1>1, <1>2, <1>5 DEF WriteInv, WriteType, Numbered
<1>10. Held'
  BY <1>1, <1>2, <1>5, <1>13 DEF WriteInv, WriteType, Held
<1>11. Fresh'
  BY <1>1, <1>2 DEF WriteInv, WriteType, Fresh
<1>12. AcknowledgedOnce'
  <2>1. \A e \in rows : EventIdOf[e.event] # EventIdOf[a]
    BY <1>3 DEF UsedEventIds
  <2>2. \A e, f \in rows' : EventIdOf[e.event] = EventIdOf[f.event] => e = f
    <3>1. row.event = a
      OBVIOUS
    <3> HIDE DEF row
    <3> QED BY <1>1, <2>1, <3>1 DEF WriteInv, AcknowledgedOnce
  <2>3. ASSUME NEW b \in Appends, writer'[b] = "done"
        PROVE  \E e \in rows' : e.event = b
    <3>1. CASE b = a
      <4>1. row \in rows' /\ row.event = b
        BY <3>1, <1>1
      <4> QED BY <4>1
    <3>2. CASE b # a
      <4>1. writer[b] = "done"
        BY <3>2, <2>3, <1>2 DEF WriteInv, WriteType
      <4>2. \E e \in rows : e.event = b
        BY <4>1 DEF WriteInv, AcknowledgedOnce
      <4> QED BY <4>2, <1>1
    <3> QED BY <3>1, <3>2
  <2>4. \A b \in Appends : writer'[b] = "conflict" => \A e \in rows' : e.event # b
    BY <1>1, <1>2 DEF WriteInv, WriteType, AcknowledgedOnce
  <2> QED BY <2>2, <2>3, <2>4 DEF AcknowledgedOnce
<1> QED BY <1>5, <1>6, <1>7, <1>8, <1>9, <1>10, <1>11, <1>12, <1>13 DEF WriteInv

(* A failed transaction leaves nothing behind. *)
LEMMA DatabaseErrorStep ==
    ASSUME NEW a \in Appends, WriteInv, DatabaseError(a)
    PROVE  WriteInv'
<1>1. UsedSequences' = UsedSequences
  BY DEF DatabaseError, UsedSequences
<1>2. WriteType' /\ Gapless'
  BY DEF WriteInv, WriteType, Gapless, DatabaseError, WriterStates, UsedSequences
<1>3. Numbered' /\ Held'
  BY <1>1 DEF WriteInv, WriteType, Numbered, Held, DatabaseError, UsedEventIds
<1>4. Fresh' /\ AcknowledgedOnce'
  BY DEF WriteInv, WriteType, Fresh, AcknowledgedOnce, DatabaseError
<1> QED BY <1>2, <1>3, <1>4 DEF WriteInv

LEMMA WriteStep == WriteInv /\ [Next]_vars => WriteInv'
<1> SUFFICES ASSUME WriteInv, [Next]_vars PROVE WriteInv'
  OBVIOUS
<1>1. CASE UNCHANGED vars
  BY <1>1, WriteStutter DEF vars
<1>2. ASSUME NEW a \in Appends, WriterStep(a) \/ DatabaseError(a)
      PROVE  WriteInv'
  BY <1>2, ReadLastStep, InsertStep, InsertRefusedStep, CommitStep,
     DatabaseErrorStep DEF WriterStep
<1>3. ASSUME NEW r \in Readers, ReaderStep(r) \/ ConnectionLost(r) \/ HandlerReturns(r)
      PROVE  WriteInv'
  BY <1>3, WriteStutter
  DEF ReaderStep, Connect, Query, WriteEvent, ConnectionLost, HandlerReturns
<1> QED BY <1>1, <1>2, <1>3 DEF Next

LEMMA WriteInvariant == Spec => []WriteInv
  BY WriteInit, WriteStep, PTL DEF Spec

(* No two events share a sequence number and no number is left out, for any *)
(* number of overlapping AppendCollaborationEvent calls.                     *)
THEOREM GaplessHolds == Spec => []Gapless
<1>1. WriteInv => Gapless BY DEF WriteInv
<1> QED BY <1>1, WriteInvariant, PTL

(* A call that returned without error has its event in the log exactly once, *)
(* and one that returned ErrConflict has none.                               *)
THEOREM AcknowledgedOnceHolds == Spec => []AcknowledgedOnce
<1>1. WriteInv => AcknowledgedOnce BY DEF WriteInv
<1> QED BY <1>1, WriteInvariant, PTL

-----------------------------------------------------------------------------
(* Contention *)

(* As long as a call's event id is not in the log, every failed attempt of  *)
(* it is matched by a number others have used.                              *)
Contended ==
    /\ IsFiniteSet(rows)
    /\ \A a \in Appends : EventIdOf[a] \notin UsedEventIds =>
        /\ attempt[a] = 0 \/ attempt[a] \in UsedSequences
        /\ writer[a] \in {"insert", "commit"} => attempt[a] < txSeq[a]

LEMMA ContendedInit == Init => Contended
  BY FS_EmptySet DEF Init, Contended, UsedSequences, UsedEventIds

LEMMA ContendedStep == WriteInv /\ Contended /\ [Next]_vars => Contended'
<1> SUFFICES ASSUME WriteInv, Contended, [Next]_vars PROVE Contended'
  OBVIOUS
<1>0. UsedSequences \subseteq Nat \ {0}
  BY DEF WriteInv, WriteType, UsedSequences
<1>1. CASE UNCHANGED writeVars
  BY <1>1 DEF writeVars, Contended, UsedSequences, UsedEventIds
<1>2. ASSUME NEW a \in Appends, ReadLast(a) PROVE Contended'
  <2>1. PICK last \in {0} \cup UsedSequences :
          /\ \A n \in UsedSequences : n <= last
          /\ txSeq' = [txSeq EXCEPT ![a] = last + 1]
    BY <1>2 DEF ReadLast
  <2>2. /\ UsedSequences' = UsedSequences /\ UsedEventIds' = UsedEventIds
        /\ rows' = rows /\ attempt' = attempt
    BY <1>2 DEF ReadLast, UsedSequences, UsedEventIds
  <2>3. EventIdOf[a] \notin UsedEventIds => attempt[a] < last + 1
    BY <1>0, <2>1 DEF Contended, WriteInv, WriteType
  <2> QED BY <1>2, <2>1, <2>2, <2>3 DEF Contended, ReadLast, WriteInv, WriteType
<1>3. ASSUME NEW a \in Appends, Insert(a) PROVE Contended'
  <2>1. UsedSequences' = UsedSequences /\ UsedEventIds' = UsedEventIds
    BY <1>3 DEF Insert, UsedSequences, UsedEventIds
  <2> QED BY <1>3, <2>1 DEF Contended, Insert, WriteInv, WriteType
<1>4. ASSUME NEW a \in Appends, InsertRefused(a) PROVE Contended'
  <2>1. /\ UsedSequences' = UsedSequences /\ UsedEventIds' = UsedEventIds
        /\ rows' = rows
    BY <1>4 DEF InsertRefused, UsedSequences, UsedEventIds
  <2>2. ASSUME EventIdOf[a] \notin UsedEventIds
        PROVE  attempt[a] + 1 \in UsedSequences
    <3>1. attempt[a] + 1 \in 1..txSeq[a] /\ txSeq[a] \in UsedSequences
      BY <1>4, <2>2 DEF InsertRefused, Refused, Contended, WriteInv, WriteType
    <3> QED BY <3>1 DEF WriteInv, Gapless, UsedSequences
  <2> QED BY <1>4, <2>1, <2>2 DEF Contended, InsertRefused, WriteInv, WriteType
<1>5. ASSUME NEW a \in Appends, Commit(a) PROVE Contended'
  <2>1. /\ UsedSequences' = UsedSequences \cup {txSeq[a]}
        /\ UsedEventIds' = UsedEventIds \cup {EventIdOf[a]}
    BY <1>5, CommitStep
  <2>2. IsFiniteSet(rows')
    BY <1>5, FS_AddElement DEF Commit, Contended
  <2> QED BY <1>5, <2>1, <2>2 DEF Contended, Commit, WriteInv, WriteType
<1>6. ASSUME NEW a \in Appends, DatabaseError(a) PROVE Contended'
  <2>1. UsedSequences' = UsedSequences /\ UsedEventIds' = UsedEventIds
    BY <1>6 DEF DatabaseError, UsedSequences, UsedEventIds
  <2> QED BY <1>6, <2>1 DEF Contended, DatabaseError, WriteInv, WriteType
<1>7. ASSUME NEW r \in Readers, ReaderStep(r) \/ ConnectionLost(r) \/ HandlerReturns(r)
      PROVE  UNCHANGED writeVars
  BY <1>7 DEF ReaderStep, Connect, Query, WriteEvent, ConnectionLost, HandlerReturns
<1> QED BY <1>1, <1>2, <1>3, <1>4, <1>5, <1>6, <1>7 DEF Next, WriterStep, vars

(* A used number is at most the number of rows: the log has no gaps. *)
LEMMA UsedBounded ==
    ASSUME WriteInv, IsFiniteSet(rows), NEW n \in UsedSequences
    PROVE  n <= Cardinality(rows)
<1>1. n \in Nat \ {0}
  BY DEF WriteInv, WriteType, UsedSequences
<1>2. 1..n \subseteq UsedSequences
  BY DEF WriteInv, Gapless, UsedSequences
<1>3. IsFiniteSet(UsedSequences) /\ Cardinality(UsedSequences) <= Cardinality(rows)
  <2> DEFINE f == [e \in rows |-> e.sequence]
  <2>1. f \in Surjection(rows, UsedSequences)
    BY DEF UsedSequences, Surjection
  <2> HIDE DEF f
  <2> QED BY <2>1, FS_Surjection
<1>4. Cardinality(1..n) <= Cardinality(UsedSequences)
  BY <1>2, <1>3, FS_Subset
<1>5. Cardinality(1..n) = n
  BY <1>1, FS_Interval
<1>6. Cardinality(rows) \in Nat /\ Cardinality(UsedSequences) \in Nat
  BY <1>3, FS_CardinalityType
<1> QED BY <1>1, <1>3, <1>4, <1>5, <1>6

(* An append whose event id is new fails an attempt only because others got *)
(* through: it never has more failed attempts than the log has rows.         *)
THEOREM ConflictMeansProgressHolds == Spec => []ConflictMeansProgress
<1>1. Spec => []Contended
  BY ContendedInit, ContendedStep, WriteInvariant, PTL DEF Spec
<1>2. WriteInv /\ Contended => ConflictMeansProgress
  <2> SUFFICES ASSUME WriteInv, Contended, NEW a \in Appends,
                      EventIdOf[a] \notin UsedEventIds
               PROVE  attempt[a] <= Cardinality(rows)
    BY DEF ConflictMeansProgress
  <2>1. IsFiniteSet(rows) /\ Cardinality(rows) \in Nat
    BY FS_CardinalityType DEF Contended
  <2>2. CASE attempt[a] = 0
    BY <2>1, <2>2
  <2>3. CASE attempt[a] \in UsedSequences
    BY <2>1, <2>3, UsedBounded
  <2> QED BY <2>2, <2>3 DEF Contended
<1> QED BY <1>1, <1>2, WriteInvariant, PTL

-----------------------------------------------------------------------------
(* The readers *)

(* The reader has received every matching event numbered up to n. *)
SeenUpTo(n, r) ==
    \A e \in rows : Matches(e, r) /\ e.sequence <= n => e.sequence \in seen[r]

ReadType ==
    /\ reader \in [Readers -> {"closed", "query", "writing"}]
    /\ since \in [Readers -> Nat]
    /\ cursor \in [Readers -> Nat]
    /\ page \in [Readers -> Seq(Nat)]
    /\ lost \in [Readers -> BOOLEAN]
    /\ seen \in [Readers -> SUBSET Nat]
    /\ drops \in Nat

(* Cursors and received numbers lie within the log. *)
WithinLog(r) ==
    /\ cursor[r] \in {0} \cup UsedSequences
    /\ since[r] \in {0} \cup UsedSequences
    /\ seen[r] \subseteq UsedSequences

(* Nothing was left out below the number in the URL and below any event     *)
(* received, which is where a new connection may start, and nothing below   *)
(* the cursor while the connection stands.                                  *)
NothingLeftOut(r) ==
    /\ reader[r] # "closed" /\ ~lost[r] => SeenUpTo(cursor[r], r)
    /\ SeenUpTo(since[r], r)
    /\ \A m \in seen[r] : SeenUpTo(m, r)

(* The rest of a page is ascending, beyond the cursor, and complete. *)
PageSound(r) ==
    reader[r] = "writing" =>
        /\ Len(page[r]) # 0
        /\ \A i \in 1..Len(page[r]) :
             page[r][i] \in UsedSequences /\ cursor[r] < page[r][i]
        /\ \A i, j \in 1..Len(page[r]) : i < j => page[r][i] < page[r][j]
        /\ \A e \in rows, i \in 1..Len(page[r]) :
             Matches(e, r) /\ cursor[r] < e.sequence /\ e.sequence <= page[r][i]
             => \E j \in 1..Len(page[r]) : page[r][j] = e.sequence

ReadInv ==
    /\ ReadType
    /\ \A r \in Readers : WithinLog(r) /\ NothingLeftOut(r) /\ PageSound(r)

LEMMA ReadInit == Init => ReadInv
  BY DEF Init, ReadInv, ReadType, WithinLog, NothingLeftOut, SeenUpTo,
         PageSound, UsedSequences

(* The writers disturb the readers only by a commit, whose row lies beyond  *)
(* everything they have.                                                    *)
LEMMA ReadUnderCommit ==
    ASSUME NEW a \in Appends, WriteInv, ReadInv, Commit(a)
    PROVE  ReadInv'
<1> DEFINE row == [sequence |-> txSeq[a], event |-> a]
<1>1. rows' = rows \cup {row} /\ UNCHANGED readVars
  BY DEF Commit
<1>2. /\ UsedSequences' = UsedSequences \cup {txSeq[a]}
      /\ \A n \in UsedSequences : n < txSeq[a]
  BY CommitStep
<1>3. txSeq[a] \in Nat \ {0} /\ row.sequence = txSeq[a]
  BY DEF Commit, WriteInv, Numbered
<1>4. ReadType'
  BY <1>1 DEF ReadInv, ReadType, readVars
<1>5. ASSUME NEW r \in Readers PROVE (WithinLog(r) /\ NothingLeftOut(r) /\ PageSound(r))'
  <2>1. WithinLog(r) /\ NothingLeftOut(r) /\ PageSound(r)
    BY DEF ReadInv
  <2>2. WithinLog(r)'
    BY <1>1, <1>2, <2>1 DEF WithinLog, readVars
  <2>3. \A n \in {0} \cup UsedSequences : SeenUpTo(n, r) => SeenUpTo(n, r)'
    BY <1>1, <1>2, <1>3 DEF SeenUpTo, readVars, Matches
  <2>4. NothingLeftOut(r)'
    BY <1>1, <2>1, <2>3 DEF NothingLeftOut, WithinLog, readVars
  <2>5. PageSound(r)'
    <3>1. SUFFICES ASSUME reader[r] = "writing" PROVE PageSound(r)'
      BY <1>1 DEF PageSound, readVars
    <3>2. ASSUME NEW e \in rows', NEW i \in 1..Len(page[r]), e.sequence <= page[r][i]
          PROVE  e \in rows
      <4>1. page[r][i] < txSeq[a] /\ page[r][i] \in Nat
        BY <1>2, <2>1, <3>1 DEF PageSound, WriteInv, WriteType, UsedSequences
      <4>2. e # row
        BY <1>3, <3>2, <4>1
      <4> QED BY <1>1, <4>2
    <3> HIDE DEF row
    <3> QED BY <1>1, <1>2, <2>1, <3>1, <3>2 DEF PageSound, readVars, Matches
  <2> QED BY <2>2, <2>4, <2>5
<1> QED BY <1>4, <1>5 DEF ReadInv

LEMMA ReadStutter ==
    ReadInv /\ UNCHANGED readVars /\ UNCHANGED rows => ReadInv'
<1> SUFFICES ASSUME ReadInv, UNCHANGED readVars, UNCHANGED rows PROVE ReadInv'
  OBVIOUS
<1>1. UsedSequences' = UsedSequences
  BY DEF UsedSequences
<1>2. ReadType'
  BY DEF ReadInv, ReadType, readVars
<1>3. ASSUME NEW r \in Readers PROVE (WithinLog(r) /\ NothingLeftOut(r) /\ PageSound(r))'
  <2>1. WithinLog(r)'
    BY <1>1 DEF ReadInv, WithinLog, readVars
  <2>2. NothingLeftOut(r)'
    BY DEF ReadInv, NothingLeftOut, SeenUpTo, Matches, readVars
  <2>3. PageSound(r)'
    BY <1>1 DEF ReadInv, PageSound, Matches, readVars
  <2> QED BY <2>1, <2>2, <2>3
<1> QED BY <1>2, <1>3 DEF ReadInv

(* A connection starts where nothing was left out. *)
LEMMA ReadUnderConnect ==
    ASSUME NEW r \in Readers, WriteInv, ReadInv, Connect(r)
    PROVE  ReadInv'
<1>1. PICK n \in {0, since[r]} \cup seen[r] :
        /\ since' = [since EXCEPT ![r] = n]
        /\ cursor' = [cursor EXCEPT ![r] = n]
  BY DEF Connect
<1>2. /\ UNCHANGED <<rows, seen, drops>>
      /\ reader' = [reader EXCEPT ![r] = "query"]
      /\ page' = [page EXCEPT ![r] = <<>>]
      /\ lost' = [lost EXCEPT ![r] = FALSE]
  BY DEF Connect, writeVars
<1>3. /\ WithinLog(r) /\ NothingLeftOut(r) /\ ReadType
      /\ UsedSequences \subseteq Nat \ {0} /\ UsedSequences' = UsedSequences
  BY <1>2 DEF ReadInv, WriteInv, WriteType, UsedSequences
<1>4. n \in Nat /\ n \in {0} \cup UsedSequences
  BY <1>3 DEF WithinLog
<1>5. SeenUpTo(n, r)
  BY <1>3 DEF NothingLeftOut, SeenUpTo, UsedSequences, WriteInv, WriteType
<1>6. ReadType'
  <2>1. <<>> \in Seq(Nat)
    OBVIOUS
  <2> QED BY <1>1, <1>2, <1>3, <1>4, <2>1 DEF ReadType
<1>7. ASSUME NEW q \in Readers PROVE (WithinLog(q) /\ NothingLeftOut(q) /\ PageSound(q))'
  <2>1. WithinLog(q) /\ NothingLeftOut(q) /\ PageSound(q)
    BY DEF ReadInv
  <2>2. CASE q = r
    BY <1>1, <1>2, <1>3, <1>4, <1>5, <2>1, <2>2
    DEF ReadType, WithinLog, NothingLeftOut, SeenUpTo, PageSound, Matches
  <2>3. CASE q # r
    BY <1>1, <1>2, <1>3, <2>1, <2>3
    DEF ReadType, WithinLog, NothingLeftOut, SeenUpTo, PageSound, Matches
  <2> QED BY <2>2, <2>3
<1> QED BY <1>6, <1>7 DEF ReadInv

(* A page is what PageSound asks for. *)
LEMMA ReadUnderQuery ==
    ASSUME NEW r \in Readers, WriteInv, ReadInv, Query(r)
    PROVE  ReadInv'
<1>1. PICK p \in ListCollaborationEvents(r) : page' = [page EXCEPT ![r] = p]
  BY DEF Query
<1>2. /\ UNCHANGED <<rows, since, cursor, lost, seen, drops>> /\ reader[r] = "query"
      /\ reader' = [reader EXCEPT ![r] = "writing"]
  BY DEF Query, writeVars
<1>3. PICK n \in 1..PageLimit : p \in [1..n -> UsedSequences]
  BY DEF ListCollaborationEvents
<1>4. UsedSequences \subseteq Nat \ {0} /\ UsedSequences' = UsedSequences
  BY <1>2 DEF WriteInv, WriteType, UsedSequences
<1>5. n \in Nat /\ n # 0
  BY EventLogAssumption
<1>6. p \in Seq(Nat) /\ Len(p) = n
  <2>1. p \in [1..n -> Nat]
    BY <1>3, <1>4
  <2> QED BY <1>5, <2>1, SeqDef
<1>7. ReadType'
  BY <1>1, <1>2, <1>6 DEF ReadInv, ReadType
<1>8. ASSUME NEW q \in Readers PROVE (WithinLog(q) /\ NothingLeftOut(q) /\ PageSound(q))'
  <2>1. WithinLog(q) /\ NothingLeftOut(q) /\ PageSound(q) /\ ReadType
    BY DEF ReadInv
  <2>2. WithinLog(q)' /\ NothingLeftOut(q)'
    BY <1>2, <1>4, <2>1 DEF WithinLog, NothingLeftOut, SeenUpTo, Matches, ReadType
  <2>3. CASE q = r
    <3>1. page'[q] = p /\ cursor'[q] = cursor[r] /\ rows' = rows
      BY <1>1, <1>2, <2>1, <2>3 DEF ReadType
    <3>2. \A i \in 1..Len(p) : p[i] \in UsedSequences /\ cursor[r] < p[i]
      BY <1>3, <1>6 DEF ListCollaborationEvents, Candidates
    <3>3. \A i, j \in 1..Len(p) : i < j => p[i] < p[j]
      BY DEF ListCollaborationEvents
    <3>4. ASSUME NEW e \in rows, NEW i \in 1..Len(p), Matches(e, r),
                 cursor[r] < e.sequence, e.sequence <= p[i]
          PROVE  \E j \in 1..Len(p) : p[j] = e.sequence
      <4>1. e \in Candidates(r)
        BY <3>4, <2>1, <2>3 DEF Candidates, ReadType, WriteInv, WriteType
      <4>2. ~(\A j \in 1..Len(p) : p[j] < e.sequence)
        <5>1. p[i] \in Nat /\ e.sequence \in Nat
          BY <1>4, <3>2 DEF WriteInv, WriteType
        <5> QED BY <3>4, <5>1
      <4> QED BY <4>1, <4>2 DEF ListCollaborationEvents
    <3>5. PageSound(q)'
      <4>1. page'[q] = p /\ cursor'[q] = cursor[q]
        BY <2>3, <3>1
      <4> QED BY <1>4, <1>5, <1>6, <2>3, <3>1, <3>2, <3>3, <3>4, <4>1
              DEF PageSound, Matches
    <3> QED BY <2>2, <3>5
  <2>4. CASE q # r
    BY <1>1, <1>2, <1>4, <2>1, <2>2, <2>4 DEF ReadType, PageSound, Matches
  <2> QED BY <2>3, <2>4
<1> QED BY <1>7, <1>8 DEF ReadInv

(* The cursor moves onto the next event of the page and passes none. *)
LEMMA ReadUnderWriteEvent ==
    ASSUME NEW r \in Readers, WriteInv, ReadInv, WriteEvent(r)
    PROVE  ReadInv'
<1> DEFINE h == Head(page[r])
<1>1. /\ reader[r] = "writing"
      /\ UNCHANGED <<rows, since, drops>>
      /\ cursor' = [cursor EXCEPT ![r] = h]
      /\ page' = [page EXCEPT ![r] = Tail(page[r])]
      /\ reader' = [reader EXCEPT ![r] = IF Len(page[r]) = 1 THEN "query" ELSE "writing"]
  BY DEF WriteEvent, writeVars
<1>9. /\ lost' = lost
      /\ seen' = [seen EXCEPT ![r] = IF lost[r] THEN seen[r] ELSE seen[r] \cup {h}]
  BY DEF WriteEvent
<1>2. UsedSequences \subseteq Nat \ {0} /\ UsedSequences' = UsedSequences
  BY <1>1 DEF WriteInv, WriteType, UsedSequences
<1>3. WithinLog(r) /\ NothingLeftOut(r) /\ PageSound(r) /\ ReadType
  BY DEF ReadInv
<1>4. /\ page[r] \in Seq(Nat) /\ page[r] # <<>> /\ Len(page[r]) \in Nat \ {0}
      /\ h = page[r][1] /\ h \in UsedSequences /\ cursor[r] < h
  BY <1>1, <1>3 DEF PageSound, ReadType
<1>5. /\ Tail(page[r]) \in Seq(Nat) /\ Len(Tail(page[r])) = Len(page[r]) - 1
      /\ \A i \in 1..Len(Tail(page[r])) : Tail(page[r])[i] = page[r][i + 1]
  BY <1>4
<1> HIDE DEF h
<1>6. ReadType'
  BY <1>1, <1>2, <1>3, <1>4, <1>5, <1>9 DEF ReadType
<1>7. ASSUME ~lost[r]
      PROVE  \A e \in rows :
               Matches(e, r) /\ e.sequence <= h => e.sequence \in seen[r] \cup {h}
  <2> SUFFICES ASSUME NEW e \in rows, Matches(e, r), e.sequence <= h, e.sequence # h
               PROVE  e.sequence \in seen[r]
    OBVIOUS
  <2>1. e.sequence \in Nat /\ h \in Nat /\ cursor[r] \in Nat
    BY <1>2, <1>3, <1>4 DEF WriteInv, WriteType, ReadType
  <2>2. CASE e.sequence <= cursor[r]
    BY <1>1, <1>3, <1>7, <2>2 DEF NothingLeftOut, SeenUpTo
  <2>3. CASE cursor[r] < e.sequence
    <3>1. PICK j \in 1..Len(page[r]) : page[r][j] = e.sequence
      BY <1>1, <1>3, <1>4, <2>3 DEF PageSound
    <3>2. j = 1 \/ page[r][1] < page[r][j]
      <4>1. \A i, k \in 1..Len(page[r]) : i < k => page[r][i] < page[r][k]
        BY <1>1, <1>3 DEF PageSound
      <4>2. Len(page[r]) \in Nat /\ (j # 1 => 1 \in 1..Len(page[r]) /\ 1 < j)
        BY <1>3 DEF ReadType
      <4> QED BY <4>1, <4>2
    <3> QED BY <1>4, <2>1, <3>1, <3>2
  <2> QED BY <2>1, <2>2, <2>3
<1>8. ASSUME NEW q \in Readers PROVE (WithinLog(q) /\ NothingLeftOut(q) /\ PageSound(q))'
  <2>1. WithinLog(q) /\ NothingLeftOut(q) /\ PageSound(q)
    BY DEF ReadInv
  <2>2. CASE q # r
    BY <1>1, <1>2, <1>3, <1>9, <2>1, <2>2
    DEF ReadType, WithinLog, NothingLeftOut, SeenUpTo, PageSound, Matches
  <2>3. CASE q = r
    <3>1. /\ cursor'[r] = h /\ since'[r] = since[r]
          /\ seen'[r] = IF lost[r] THEN seen[r] ELSE seen[r] \cup {h}
          /\ page'[r] = Tail(page[r]) /\ rows' = rows /\ lost' = lost
      BY <1>1, <1>3, <1>9 DEF ReadType
    <3>2. WithinLog(r)'
      BY <1>2, <1>3, <1>4, <3>1 DEF WithinLog
    <3>3. NothingLeftOut(r)'
      <4>1. \A n : SeenUpTo(n, r) => SeenUpTo(n, r)'
        BY <1>3, <3>1 DEF SeenUpTo, Matches, ReadType
      <4>2. CASE lost[r]
        <5>1. lost'[r] /\ seen'[r] = seen[r]
          BY <3>1, <4>2
        <5> QED BY <1>3, <3>1, <4>1, <5>1 DEF NothingLeftOut
      <4>3. CASE ~lost[r]
        <5>1. seen'[r] = seen[r] \cup {h}
          BY <3>1, <4>3
        <5>2. ASSUME NEW n, n = h PROVE SeenUpTo(n, r)'
          BY <1>7, <3>1, <4>3, <5>1, <5>2 DEF SeenUpTo, Matches
        <5>3. SeenUpTo(cursor[r], r)'
          BY <3>1, <5>2 DEF SeenUpTo
        <5> QED BY <1>3, <3>1, <4>1, <5>1, <5>2, <5>3 DEF NothingLeftOut
      <4> QED BY <4>2, <4>3
    <3>4. PageSound(r)'
      <4>1. SUFFICES ASSUME reader'[r] = "writing" PROVE PageSound(r)'
        BY DEF PageSound
      <4>2. Len(page[r]) # 1
        BY <1>1, <1>3, <4>1 DEF ReadType
      <4>3. \A i \in 1..Len(Tail(page[r])) :
              Tail(page[r])[i] \in UsedSequences /\ h < Tail(page[r])[i]
        BY <1>1, <1>3, <1>4, <1>5 DEF PageSound
      <4>4. \A i, j \in 1..Len(Tail(page[r])) :
              i < j => Tail(page[r])[i] < Tail(page[r])[j]
        BY <1>1, <1>3, <1>4, <1>5 DEF PageSound
      <4>5. ASSUME NEW e \in rows, NEW i \in 1..Len(Tail(page[r])), Matches(e, r),
                   h < e.sequence, e.sequence <= Tail(page[r])[i]
            PROVE  \E j \in 1..Len(Tail(page[r])) : Tail(page[r])[j] = e.sequence
        <5>1. e.sequence \in Nat /\ h \in Nat /\ cursor[r] \in Nat
          BY <1>2, <1>3, <1>4 DEF WriteInv, WriteType, ReadType
        <5>2. i + 1 \in 1..Len(page[r]) /\ e.sequence <= page[r][i + 1]
          BY <1>4, <1>5, <4>5
        <5>3. cursor[r] < e.sequence
          BY <1>4, <4>5, <5>1
        <5>4. PICK j \in 1..Len(page[r]) : page[r][j] = e.sequence
          BY <1>1, <1>3, <4>5, <5>2, <5>3 DEF PageSound
        <5>5. j # 1
          BY <1>4, <4>5, <5>1, <5>4
        <5>6. j - 1 \in 1..Len(Tail(page[r])) /\ Tail(page[r])[j - 1] = e.sequence
          BY <1>4, <1>5, <5>4, <5>5
        <5> QED BY <5>6
      <4> DEFINE t == Tail(page[r])
      <4>6. Len(t) # 0 /\ page'[r] = t /\ cursor'[r] = h /\ rows' = rows
        BY <1>4, <1>5, <3>1, <4>2
      <4>7. \A e \in rows, i \in 1..Len(t) :
              Matches(e, r) /\ h < e.sequence /\ e.sequence <= t[i]
              => \E j \in 1..Len(t) : t[j] = e.sequence
        BY <4>5
      <4> QED BY <1>2, <4>3, <4>4, <4>6, <4>7 DEF PageSound, Matches
    <3> QED BY <2>3, <3>2, <3>3, <3>4
  <2> QED BY <2>2, <2>3
<1> QED BY <1>6, <1>8 DEF ReadInv

(* From the loss of the connection on, nothing is asked of the cursor. *)
LEMMA ReadUnderLoss ==
    ASSUME NEW r \in Readers, ReadInv, ConnectionLost(r)
    PROVE  ReadInv'
<1>1. /\ UNCHANGED <<rows, reader, since, cursor, page, seen>> /\ drops' = drops + 1
      /\ lost' = [lost EXCEPT ![r] = TRUE]
  BY DEF ConnectionLost, writeVars
<1>2. ReadType'
  BY <1>1 DEF ReadInv, ReadType
<1>3. UsedSequences' = UsedSequences
  BY <1>1 DEF UsedSequences
<1>4. ASSUME NEW q \in Readers PROVE (WithinLog(q) /\ NothingLeftOut(q) /\ PageSound(q))'
  <2>1. WithinLog(q)' /\ PageSound(q)'
    BY <1>1, <1>3 DEF ReadInv, WithinLog, PageSound, Matches
  <2>2. NothingLeftOut(q)'
    BY <1>1 DEF ReadInv, ReadType, NothingLeftOut, SeenUpTo, Matches
  <2> QED BY <2>1, <2>2
<1> QED BY <1>2, <1>4 DEF ReadInv

(* A handler that returns drops its page, which nobody has seen. *)
LEMMA ReadUnderReturn ==
    ASSUME NEW r \in Readers, ReadInv, HandlerReturns(r)
    PROVE  ReadInv'
<1>1. /\ UNCHANGED <<rows, since, cursor, lost, seen>> /\ drops' \in {drops, drops + 1}
      /\ reader' = [reader EXCEPT ![r] = "closed"]
      /\ page' = [page EXCEPT ![r] = <<>>]
  BY DEF HandlerReturns, writeVars
<1>2. ReadType'
  <2>1. <<>> \in Seq(Nat)
    OBVIOUS
  <2> QED BY <1>1, <2>1 DEF ReadInv, ReadType
<1>3. UsedSequences' = UsedSequences
  BY <1>1 DEF UsedSequences
<1>4. ASSUME NEW q \in Readers PROVE (WithinLog(q) /\ NothingLeftOut(q) /\ PageSound(q))'
  <2>1. WithinLog(q)'
    BY <1>1, <1>3 DEF ReadInv, WithinLog
  <2>2. NothingLeftOut(q)'
    BY <1>1 DEF ReadInv, ReadType, NothingLeftOut, SeenUpTo, Matches
  <2>3. CASE q = r
    BY <1>1, <2>1, <2>2, <2>3 DEF ReadInv, ReadType, PageSound
  <2>4. CASE q # r
    <3>1. reader'[q] = reader[q] /\ page'[q] = page[q]
      BY <1>1, <2>4 DEF ReadInv, ReadType
    <3> QED BY <1>1, <1>3, <2>1, <2>2, <3>1 DEF ReadInv, PageSound, Matches
  <2> QED BY <2>3, <2>4
<1> QED BY <1>2, <1>4 DEF ReadInv

LEMMA ReadStep == WriteInv /\ ReadInv /\ [Next]_vars => ReadInv'
<1> SUFFICES ASSUME WriteInv, ReadInv, [Next]_vars PROVE ReadInv'
  OBVIOUS
<1>1. CASE UNCHANGED vars
  BY <1>1, ReadStutter DEF vars, writeVars
<1>2. ASSUME NEW a \in Appends, WriterStep(a) \/ DatabaseError(a)
      PROVE  ReadInv'
  BY <1>2, ReadUnderCommit, ReadStutter
  DEF WriterStep, ReadLast, Insert, InsertRefused, DatabaseError
<1>3. ASSUME NEW r \in Readers, ReaderStep(r) \/ ConnectionLost(r) \/ HandlerReturns(r)
      PROVE  ReadInv'
  BY <1>3, ReadUnderConnect, ReadUnderQuery, ReadUnderWriteEvent,
     ReadUnderLoss, ReadUnderReturn DEF ReaderStep
<1> QED BY <1>1, <1>2, <1>3 DEF Next

LEMMA ReadInvariant == Spec => []ReadInv
  BY ReadInit, ReadStep, WriteInvariant, PTL DEF Spec

(* Every variable keeps its type. *)
THEOREM TypeOKHolds == Spec => []TypeOK
<1>1. WriteInv /\ ReadInv => TypeOK
  BY DEF WriteInv, WriteType, ReadInv, ReadType, TypeOK
<1> QED BY <1>1, WriteInvariant, ReadInvariant, PTL

(* While its connection stands, no SSE reader's cursor passes a matching    *)
(* event it has not received, whatever appends overlap with its queries and *)
(* however often it lost its connection and reconnected.                    *)
THEOREM NoSkippedEventHolds == Spec => []NoSkippedEvent
<1>1. ReadInv => NoSkippedEvent
  BY DEF ReadInv, NothingLeftOut, SeenUpTo, NoSkippedEvent
<1> QED BY <1>1, ReadInvariant, PTL

=============================================================================
