--------------------------- MODULE ConsoleProofs ----------------------------
(***************************************************************************)
(* Proofs about the four parts of module Console, for any sets of keys,    *)
(* calls, decisions, votes, tunnels, connections, messages and deliveries. *)
(* Each part has an inductive invariant of its own, proved for its own      *)
(* specification; at the end the four are put together for ConsoleSpec.     *)
(***************************************************************************)
EXTENDS Console, FiniteSetTheorems, TLAPS

-----------------------------------------------------------------------------
(* RPC idempotency *)

(* A call that has run the body holds the response of an execution, and so   *)
(* does the map in memory.                                                   *)
ResponsesAreReal ==
    /\ \A k \in Keys : memory[k] # NoResponse => memory[k] \in 1..runs[k]
    /\ \A c \in Calls :
        call[c] \in {"keep", "complete", "answered"} => response[c] \in 1..runs[KeyOf[c]]
    /\ \A k \in Keys : record[k] = "completed" => stored[k] \in 1..runs[k]

(* The call is past its replay and holds no answer. *)
Past(state) == state \in {"reserve", "existing", "body", "keep", "complete"}

(* A call that began after completion finds the row completed, and has not   *)
(* got past the replay unless its read failed.                               *)
LateCallsReplay ==
    \A c \in late :
        /\ record[KeyOf[c]] = "completed"
        /\ Past(call[c]) => c \in misread

(* Nobody is at the body of a request that was never reserved. *)
NoneBeforeReserve ==
    \A k \in Keys : record[k] = "none" =>
        runs[k] = 0 /\ \A c \in Calls : KeyOf[c] = k => call[c] # "body"

IdempotencyInv ==
    /\ TypeOK
    /\ NoneBeforeReserve
    /\ OnceUntilRecorded
    /\ LateCallsReplay
    /\ ResponsesAreReal

LEMMA IdempotencyInit == Init => IdempotencyInv
  BY IdempotencyAssumption
     DEF Init, IdempotencyInv, TypeOK, NoneBeforeReserve, OnceUntilRecorded, LateCallsReplay,
         ResponsesAreReal, Responses, CallStates

(* A completed row stays completed, and executions are not undone. *)
LEMMA IdempotencyMonotonic ==
    ASSUME TypeOK, Next
    PROVE  \A k \in Keys : /\ record[k] = "completed" => record'[k] = "completed"
                           /\ runs[k] <= runs'[k]
<1>1. ASSUME NEW c \in Calls,
             Send(c) \/ ReplayFromMemory(c) \/ ReplayFromTable(c) \/ ReplayReadFails(c)
             \/ ReadExisting(c) \/ KeepInMemory(c) \/ CompleteFails(c)
             \/ ContextCanceled(c) \/ AnswerLost(c)
      PROVE  UNCHANGED <<record, runs>>
  BY <1>1 DEF Send, ReplayFromMemory, ReplayFromTable, ReplayReadFails, ReadExisting,
              KeepInMemory, CompleteFails, ContextCanceled, AnswerLost
<1>2. ASSUME NEW c \in Calls, Reserve(c) \/ CompleteRecord(c)
      PROVE  /\ UNCHANGED runs
             /\ \A k \in Keys : record[k] = "completed" => record'[k] = "completed"
  BY <1>2 DEF Reserve, CompleteRecord, TypeOK
<1>3. ASSUME NEW c \in Calls, RunBody(c) \/ BodyFails(c)
      PROVE  UNCHANGED record /\ \A k \in Keys : runs[k] <= runs'[k]
  BY <1>3, IdempotencyAssumption DEF RunBody, BodyFails, TypeOK
<1>4. Restart => UNCHANGED <<record, runs>>
  BY DEF Restart
<1>5. \A k \in Keys : runs[k] <= runs[k]
  BY DEF TypeOK
<1> QED BY <1>1, <1>2, <1>3, <1>4, <1>5 DEF Next, CallStep

LEMMA IdempotencyTypeStep == TypeOK /\ [Next]_vars => TypeOK'
<1> SUFFICES ASSUME TypeOK, [Next]_vars PROVE TypeOK'
  OBVIOUS
<1> USE IdempotencyAssumption
<1>1. ASSUME NEW c \in Calls, Send(c) PROVE TypeOK'
  BY <1>1 DEF Send, Goto, TypeOK, CallStates, Responses
<1>2. ASSUME NEW c \in Calls, ReplayFromMemory(c) PROVE TypeOK'
  BY <1>2 DEF ReplayFromMemory, Goto, TypeOK, CallStates
<1>3. ASSUME NEW c \in Calls, ReplayFromTable(c) PROVE TypeOK'
  BY <1>3 DEF ReplayFromTable, Goto, TypeOK, CallStates
<1>4. ASSUME NEW c \in Calls, Reserve(c) PROVE TypeOK'
  BY <1>4 DEF Reserve, Goto, TypeOK, CallStates
<1>5. ASSUME NEW c \in Calls, ReadExisting(c) PROVE TypeOK'
  BY <1>5 DEF ReadExisting, Goto, TypeOK, CallStates
<1>6. ASSUME NEW c \in Calls, RunBody(c) PROVE TypeOK'
  BY <1>6 DEF RunBody, Goto, TypeOK, CallStates, Responses
<1>7. ASSUME NEW c \in Calls, KeepInMemory(c) PROVE TypeOK'
  BY <1>7 DEF KeepInMemory, Goto, TypeOK, CallStates
<1>8. ASSUME NEW c \in Calls, CompleteRecord(c) PROVE TypeOK'
  BY <1>8 DEF CompleteRecord, Goto, TypeOK, CallStates
<1>9. ASSUME NEW c \in Calls, BodyFails(c) PROVE TypeOK'
  BY <1>9 DEF BodyFails, Fault, Goto, TypeOK, CallStates
<1>10. ASSUME NEW c \in Calls,
              ReplayReadFails(c) \/ CompleteFails(c) \/ ContextCanceled(c) \/ AnswerLost(c)
       PROVE  TypeOK'
  BY <1>10 DEF ReplayReadFails, CompleteFails, ContextCanceled, AnswerLost, Fault, Goto,
               TypeOK, CallStates
<1>11. CASE Restart
  BY <1>11 DEF Restart, Fault, TypeOK, CallStates, Responses
<1>12. CASE UNCHANGED vars
  BY <1>12 DEF vars, TypeOK
<1> QED BY <1>1, <1>2, <1>3, <1>4, <1>5, <1>6, <1>7, <1>8, <1>9, <1>10, <1>11, <1>12
        DEF Next, CallStep

LEMMA OnceStep ==
    IdempotencyInv /\ [Next]_vars => NoneBeforeReserve' /\ OnceUntilRecorded'
<1> SUFFICES ASSUME IdempotencyInv, [Next]_vars
             PROVE  NoneBeforeReserve' /\ OnceUntilRecorded'
  OBVIOUS
<1>0. TypeOK /\ NoneBeforeReserve /\ OnceUntilRecorded
  BY DEF IdempotencyInv
<1> USE IdempotencyAssumption DEF NoneBeforeReserve, OnceUntilRecorded
<1>1. ASSUME NEW c \in Calls,
             Send(c) \/ ReplayFromMemory(c) \/ ReplayFromTable(c) \/ ReplayReadFails(c)
             \/ KeepInMemory(c) \/ CompleteFails(c) \/ ContextCanceled(c) \/ AnswerLost(c)
      PROVE  NoneBeforeReserve' /\ OnceUntilRecorded'
  <2>1. /\ UNCHANGED <<record, runs>>
        /\ \A d \in Calls : call'[d] = "body" => call[d] = "body"
    BY <1>0, <1>1
    DEF Send, ReplayFromMemory, ReplayFromTable, ReplayReadFails, KeepInMemory,
        CompleteFails, ContextCanceled, AnswerLost, Goto, TypeOK
  <2> QED BY <1>0, <2>1
<1>2. ASSUME NEW c \in Calls, Reserve(c)
      PROVE  NoneBeforeReserve' /\ OnceUntilRecorded'
  BY <1>0, <1>2 DEF Reserve, Goto, TypeOK
<1>3. ASSUME NEW c \in Calls, ReadExisting(c)
      PROVE  NoneBeforeReserve' /\ OnceUntilRecorded'
  BY <1>0, <1>3 DEF ReadExisting, Goto, TypeOK
<1>4. ASSUME NEW c \in Calls, RunBody(c) \/ BodyFails(c)
      PROVE  NoneBeforeReserve' /\ OnceUntilRecorded'
  <2>1. /\ UNCHANGED record /\ call[c] = "body" /\ KeyOf[c] \in Keys
        /\ \E n \in {0, 1} : runs' = [runs EXCEPT ![KeyOf[c]] = runs[KeyOf[c]] + n]
        /\ call'[c] # "body"
        /\ \A d \in Calls : call'[d] = "body" => call[d] = "body" /\ d # c
    BY <1>0, <1>4 DEF RunBody, BodyFails, Goto, TypeOK
  <2> QED BY <1>0, <2>1 DEF TypeOK
<1>5. ASSUME NEW c \in Calls, CompleteRecord(c)
      PROVE  NoneBeforeReserve' /\ OnceUntilRecorded'
  BY <1>0, <1>5 DEF CompleteRecord, Goto, TypeOK
<1>6. CASE Restart
  <2>1. /\ UNCHANGED <<record, runs>>
        /\ \A d \in Calls : call'[d] # "body"
    BY <1>0, <1>6 DEF Restart, TypeOK, InFlight
  <2> QED BY <1>0, <2>1
<1>7. CASE UNCHANGED vars
  BY <1>0, <1>7 DEF vars
<1> QED BY <1>1, <1>2, <1>3, <1>4, <1>5, <1>6, <1>7 DEF Next, CallStep

LEMMA LateStep == IdempotencyInv /\ [Next]_vars => LateCallsReplay'
<1> SUFFICES ASSUME IdempotencyInv, [Next]_vars, NEW c \in late'
             PROVE  /\ record'[KeyOf[c]] = "completed"
                    /\ (Past(call'[c]) => c \in misread')
  BY DEF LateCallsReplay
<1>0. TypeOK /\ TypeOK' /\ LateCallsReplay /\ c \in Calls /\ KeyOf[c] \in Keys
  BY IdempotencyTypeStep, IdempotencyAssumption DEF IdempotencyInv, TypeOK
<1>1. CASE UNCHANGED vars
  BY <1>0, <1>1 DEF vars, LateCallsReplay
<1>2. CASE Next
  <2>1. \A k \in Keys : record[k] = "completed" => record'[k] = "completed"
    BY <1>0, <1>2, IdempotencyMonotonic
  <2>2. ASSUME NEW d \in Calls, Send(d)
        PROVE  /\ record[KeyOf[c]] = "completed"
               /\ (Past(call'[c]) => c \in misread')
    BY <1>0, <2>2 DEF Send, Goto, TypeOK, LateCallsReplay, Past
  <2>3. ASSUME NEW d \in Calls,
               ReplayFromMemory(d) \/ ReplayFromTable(d) \/ Reserve(d) \/ ReadExisting(d)
        PROVE  /\ record[KeyOf[c]] = "completed"
               /\ (Past(call'[c]) => c \in misread')
    BY <1>0, <2>3 DEF ReplayFromMemory, ReplayFromTable, Reserve, ReadExisting, Goto,
                      TypeOK, LateCallsReplay, Past
  <2>4. ASSUME NEW d \in Calls, RunBody(d) \/ KeepInMemory(d) \/ CompleteRecord(d)
        PROVE  /\ record[KeyOf[c]] = "completed"
               /\ (Past(call'[c]) => c \in misread')
    BY <1>0, <2>4 DEF RunBody, KeepInMemory, CompleteRecord, Goto, TypeOK,
                      LateCallsReplay, Past
  <2>5. ASSUME NEW d \in Calls,
               ReplayReadFails(d) \/ BodyFails(d) \/ CompleteFails(d)
               \/ ContextCanceled(d) \/ AnswerLost(d)
        PROVE  /\ record[KeyOf[c]] = "completed"
               /\ (Past(call'[c]) => c \in misread')
    BY <1>0, <2>5 DEF ReplayReadFails, BodyFails, CompleteFails, ContextCanceled,
                      AnswerLost, Goto, TypeOK,
                      LateCallsReplay, Past
  <2>6. ASSUME Restart
        PROVE  /\ record[KeyOf[c]] = "completed"
               /\ (Past(call'[c]) => c \in misread')
    BY <1>0, <2>6 DEF Restart, TypeOK, LateCallsReplay, Past, InFlight
  <2> QED BY <1>0, <1>2, <2>1, <2>2, <2>3, <2>4, <2>5, <2>6 DEF Next, CallStep
<1> QED BY <1>1, <1>2

LEMMA ResponsesStep == IdempotencyInv /\ [Next]_vars => ResponsesAreReal'
<1> SUFFICES ASSUME IdempotencyInv, [Next]_vars PROVE ResponsesAreReal'
  OBVIOUS
<1>0. TypeOK /\ TypeOK' /\ ResponsesAreReal
  BY IdempotencyTypeStep DEF IdempotencyInv
<1>1. CASE UNCHANGED vars
  BY <1>0, <1>1 DEF vars, ResponsesAreReal
<1> USE IdempotencyAssumption
<1>2. ASSUME NEW c \in Calls, Send(c) PROVE ResponsesAreReal'
  BY <1>0, <1>2 DEF Send, Goto, TypeOK, ResponsesAreReal
<1>3. ASSUME NEW c \in Calls, ReplayFromMemory(c) PROVE ResponsesAreReal'
  BY <1>0, <1>3 DEF ReplayFromMemory, Goto, TypeOK, ResponsesAreReal
<1>4. ASSUME NEW c \in Calls, ReplayFromTable(c) PROVE ResponsesAreReal'
  BY <1>0, <1>4 DEF ReplayFromTable, Goto, TypeOK, ResponsesAreReal
<1>5. ASSUME NEW c \in Calls, Reserve(c) \/ ReadExisting(c) PROVE ResponsesAreReal'
  BY <1>0, <1>5 DEF Reserve, ReadExisting, Goto, TypeOK, ResponsesAreReal
<1>6. ASSUME NEW c \in Calls, RunBody(c) PROVE ResponsesAreReal'
  BY <1>0, <1>6 DEF RunBody, Goto, TypeOK, ResponsesAreReal
<1>7. ASSUME NEW c \in Calls, KeepInMemory(c) PROVE ResponsesAreReal'
  BY <1>0, <1>7 DEF KeepInMemory, Goto, TypeOK, ResponsesAreReal
<1>8. ASSUME NEW c \in Calls, CompleteRecord(c) PROVE ResponsesAreReal'
  BY <1>0, <1>8 DEF CompleteRecord, Goto, TypeOK, ResponsesAreReal
<1>9. ASSUME NEW c \in Calls, BodyFails(c) PROVE ResponsesAreReal'
  BY <1>0, <1>9 DEF BodyFails, Goto, TypeOK, ResponsesAreReal
<1>10. ASSUME NEW c \in Calls,
              ReplayReadFails(c) \/ CompleteFails(c) \/ ContextCanceled(c) \/ AnswerLost(c)
       PROVE  ResponsesAreReal'
  BY <1>0, <1>10 DEF ReplayReadFails, CompleteFails, ContextCanceled, AnswerLost, Goto,
                     TypeOK, ResponsesAreReal
<1>11. CASE Restart
  BY <1>0, <1>11 DEF Restart, TypeOK, ResponsesAreReal, InFlight
<1> QED BY <1>1, <1>2, <1>3, <1>4, <1>5, <1>6, <1>7, <1>8, <1>9, <1>10, <1>11
        DEF Next, CallStep

LEMMA IdempotencyStep == IdempotencyInv /\ [Next]_vars => IdempotencyInv'
  BY IdempotencyTypeStep, OnceStep, LateStep, ResponsesStep DEF IdempotencyInv

LEMMA IdempotencyConclusions ==
    IdempotencyInv => OnceUntilRecorded /\ CompletedIsReplayed /\ ReplayIsReal
  BY DEF IdempotencyInv, LateCallsReplay, Past, CompletedIsReplayed, ResponsesAreReal,
         ReplayIsReal

LEMMA IdempotencyInvariant == Spec => []IdempotencyInv
  BY IdempotencyInit, IdempotencyStep, PTL DEF Spec

(* However calls of one key overlap, fail after their effect, lose their     *)
(* completion and are retried across restarts, the body is executed at most  *)
(* once until the row is completed (reserve, remember).                      *)
THEOREM ExecutedOnceUntilRecorded == Spec => []OnceUntilRecorded
  BY IdempotencyInvariant, IdempotencyConclusions, PTL

(* A retry sent after completion never gets past the replay, unless its own  *)
(* read of the record fails (replay).                                        *)
THEOREM CompletionIsReplayed == Spec => []CompletedIsReplayed
  BY IdempotencyInvariant, IdempotencyConclusions, PTL

(* Every response that is answered, kept or stored came from an execution    *)
(* whose effect is in the database (remember, replay).                       *)
THEOREM ReplaysAreReal == Spec => []ReplayIsReal
  BY IdempotencyInvariant, IdempotencyConclusions, PTL

-----------------------------------------------------------------------------
(* Tunnel rows *)

TransitionRecords ==
    [pc : {"idle", "write", "done"}, id : Tunnels \cup {NoTunnel},
     from : TunnelStates, to : TunnelStates]

(* A row that ended, was dropped or is being swept exists. *)
RowsExist == \A t \in everEnded \cup dropped \cup sweep : tunnel[t] # "none"

(* A call about to write read a state that allows what it writes. *)
TransitionsAreValid ==
    \A c \in Transitions :
        transition[c].pc = "write" =>
            /\ transition[c].id \in Tunnels
            /\ tunnel[transition[c].id] # "none"
            /\ ValidTransition(transition[c].from, transition[c].to)

(* The registry holds the stream of a handler that has not detached it. *)
DaemonIsAttached == daemon # NoExchange => exchange[daemon] = "attached"

(* While a row that was dropped is open, some handler has its cleanup before *)
(* it, or a check that leaves the cleanup to a newer handler.                *)
SomeoneCleansUp ==
    (\E t \in dropped \ excused : tunnel[t] \notin Ended) =>
        \E x \in Exchanges : exchange[x] \in {"attached", "detached", "cleanup"}

TunnelRecordInv ==
    /\ TunnelRecordTypeOK
    /\ transition \in [Transitions -> TransitionRecords]
    /\ RowsExist
    /\ TransitionsAreValid
    /\ DaemonIsAttached
    /\ EndedIsFinal
    /\ SomeoneCleansUp

LEMMA TunnelRecordInitial == TunnelRecordInit => TunnelRecordInv
  BY TunnelRecordsAssumption
     DEF TunnelRecordInit, TunnelRecordInv, TunnelRecordTypeOK, TransitionRecords,
         IdleTransition, TunnelStates, RowsExist, TransitionsAreValid,
         DaemonIsAttached, EndedIsFinal, SomeoneCleansUp

LEMMA TunnelRecordStep ==
    TunnelRecordInv /\ [TunnelRecordNext]_tunnelRecordVars => TunnelRecordInv'
<1> SUFFICES ASSUME TunnelRecordInv, [TunnelRecordNext]_tunnelRecordVars
             PROVE  TunnelRecordInv'
  OBVIOUS
<1> USE TunnelRecordsAssumption
    DEF TunnelRecordInv, TunnelRecordTypeOK, RowsExist, TransitionsAreValid,
        DaemonIsAttached, EndedIsFinal, SomeoneCleansUp, TunnelStates, Open, Ended
<1>1. ASSUME NEW t \in Tunnels, CreateTunnel(t) PROVE TunnelRecordInv'
  BY <1>1 DEF CreateTunnel, Write
<1>2. ASSUME NEW t \in Tunnels, Lapse(t) PROVE TunnelRecordInv'
  BY <1>2 DEF Lapse
<1>3. ASSUME NEW t \in Tunnels, SweepCloses(t) PROVE TunnelRecordInv'
  BY <1>3 DEF SweepCloses, Write
<1>4. ASSUME NEW c \in Transitions, TransitionReads(c) PROVE TunnelRecordInv'
  BY <1>4 DEF TransitionReads, TransitionRecords, DoneTransition, IdleTransition,
              ValidTransition
<1>5. ASSUME NEW c \in Transitions, TransitionWrites(c) PROVE TunnelRecordInv'
  BY <1>5 DEF TransitionWrites, Write, TransitionRecords, DoneTransition,
              IdleTransition, ValidTransition
<1>6. ASSUME NEW c \in Transitions, TransitionFails(c) PROVE TunnelRecordInv'
  BY <1>6 DEF TransitionFails, TransitionRecords, DoneTransition, IdleTransition
<1>7. CASE SweepLists
  BY <1>7 DEF SweepLists, OpenTunnels
<1>8. CASE SweepFails
  BY <1>8 DEF SweepFails
<1>9. ASSUME NEW x \in Exchanges, ExchangeAttaches(x) PROVE TunnelRecordInv'
  BY <1>9 DEF ExchangeAttaches
<1>10. ASSUME NEW x \in Exchanges, ExchangeDetaches(x) PROVE TunnelRecordInv'
  BY <1>10 DEF ExchangeDetaches, OpenTunnels
<1>11. ASSUME NEW x \in Exchanges, HasDaemon(x) PROVE TunnelRecordInv'
  BY <1>11 DEF HasDaemon
<1>12. ASSUME NEW x \in Exchanges, Cleanup(x) PROVE TunnelRecordInv'
  BY <1>12 DEF Cleanup, Write
<1>13. ASSUME NEW x \in Exchanges, CleanupFails(x) PROVE TunnelRecordInv'
  BY <1>13 DEF CleanupFails, OpenTunnels
<1>14. CASE UNCHANGED tunnelRecordVars
  BY <1>14 DEF tunnelRecordVars
<1> QED BY <1>1, <1>2, <1>3, <1>4, <1>5, <1>6, <1>7, <1>8, <1>9, <1>10, <1>11, <1>12,
           <1>13, <1>14 DEF TunnelRecordNext

LEMMA TunnelRecordConclusion == TunnelRecordInv => DisconnectEndsTunnels
  BY DEF TunnelRecordInv, DisconnectEndsTunnels, NoOpenRowLeftBehind, SomeoneCleansUp

(* Nothing reopens an ended row, and no row that was open when the registry  *)
(* lost the computer's stream outlives the handlers, for any number of        *)
(* reconnecting streams and racing calls (the deferred cleanup of             *)
(* ProxyExchange, UpdateTunnelState, the sweeper).                            *)
THEOREM DisconnectsEndTunnels == TunnelRecordSpec => []DisconnectEndsTunnels
  BY TunnelRecordInitial, TunnelRecordStep, TunnelRecordConclusion, PTL
     DEF TunnelRecordSpec

-----------------------------------------------------------------------------
(* Channel decisions *)

Tallies == [Stances -> 0 .. Cardinality(Voters)]

BallotRecords ==
    [pc : {"idle", "count", "commit", "done"}, id : Decisions \cup {NoDecision},
     stance : Stances \cup {"none"}, first : BOOLEAN, tally : Tallies,
     overtaken : BOOLEAN]

CloserRecords ==
    [pc : {"idle", "ratify", "retire", "done"}, id : Decisions \cup {NoDecision},
     overtaken : BOOLEAN]

DecisionTypes ==
    /\ DecisionTypeOK
    /\ ballot \in [Ballots -> BallotRecords]
    /\ closer \in [Closers -> CloserRecords]

(* The stance counted is one of the three. *)
BallotsHaveStances ==
    \A b \in Ballots : ballot[b].pc \in {"count", "commit"} =>
        ballot[b].id \in Decisions /\ ballot[b].stance \in Stances

(* A decision proposed references an earlier one, and none proposed has no   *)
(* votes counted.                                                            *)
ProposedAfterSuperseded ==
    \A d \in Decisions :
        /\ decision[d].status # "none" /\ Supersedes[d] # NoDecision =>
             Supersedes[d] # d /\ decision[Supersedes[d]].status # "none"
        /\ decision[d].status = "none" => decision[d].count = NoTally

(* A read that no commit has overtaken is still true. *)
FreshReadsHold ==
    /\ \A b \in Ballots : ballot[b].pc \in {"count", "commit"} =>
        /\ decision[ballot[b].id].status # "none"
        /\ ~ballot[b].overtaken => decision[ballot[b].id].status = "proposed"
    /\ \A b \in Ballots : ballot[b].pc = "commit" /\ ~ballot[b].overtaken =>
        ballot[b].tally = TallyOf([votes[ballot[b].id] EXCEPT ![VoterOf[b]] = ballot[b].stance])
    /\ \A c \in Closers : closer[c].pc \in {"ratify", "retire"} =>
        /\ closer[c].id \in Decisions
        /\ decision[closer[c].id].status # "none"
        /\ ~closer[c].overtaken => decision[closer[c].id].status # "retired"

(* What votes ratified was proposed. *)
RatifiedExist == \A d \in byVotes : decision[d].status # "none"

DecisionInv ==
    /\ DecisionTypes
    /\ BallotsHaveStances
    /\ ProposedAfterSuperseded
    /\ FreshReadsHold
    /\ RatifiedExist
    /\ CountsAreVotes
    /\ QuorumRatifies
    /\ SupersededByVotesRetired

(* The tally of a row of votes counts at most every voter. *)
LEMMA TallyType ==
    ASSUME NEW row PROVE TallyOf(row) \in Tallies
<1>1. ASSUME NEW s \in Stances
      PROVE  Cardinality({v \in Voters : row[v] = s}) \in 0 .. Cardinality(Voters)
  <2>1. {v \in Voters : row[v] = s} \in SUBSET Voters
    OBVIOUS
  <2>2. /\ IsFiniteSet({v \in Voters : row[v] = s})
        /\ Cardinality({v \in Voters : row[v] = s}) <= Cardinality(Voters)
    BY <2>1, DecisionsAssumption, FS_Subset
  <2>3. /\ Cardinality({v \in Voters : row[v] = s}) \in Nat
        /\ Cardinality(Voters) \in Nat
    BY <2>2, DecisionsAssumption, FS_CardinalityType
  <2> QED BY <2>2, <2>3
<1> QED BY <1>1 DEF TallyOf, Tallies

(* Nobody has voted: every count is zero. *)
LEMMA TallyOfNone ==
    ASSUME NEW row, \A v \in Voters : row[v] = "none"
    PROVE  TallyOf(row) = NoTally
<1>1. ASSUME NEW s \in Stances
      PROVE  Cardinality({v \in Voters : row[v] = s}) = 0
  <2>1. {v \in Voters : row[v] = s} = {}
    BY DEF Stances
  <2> QED BY <2>1, FS_EmptySet
<1> QED BY <1>1 DEF TallyOf, NoTally

LEMMA NoTallyFacts == NoTally \in Tallies /\ ~Quorum(NoTally)
<1>1. Cardinality(Voters) \in Nat
  BY DecisionsAssumption, FS_CardinalityType
<1>2. NoTally \in Tallies
  BY <1>1 DEF NoTally, Tallies
<1>3. ~Quorum(NoTally)
  BY DEF NoTally, Quorum, Stances
<1> QED BY <1>2, <1>3

LEMMA DecisionInitial == DecisionInit => DecisionInv
<1> SUFFICES ASSUME DecisionInit PROVE DecisionInv
  OBVIOUS
<1>1. IdleBallot \in BallotRecords /\ IdleCloser \in CloserRecords
  BY NoTallyFacts DEF IdleBallot, IdleCloser, BallotRecords, CloserRecords
<1>2. DecisionTypes
  BY <1>1, NoTallyFacts
     DEF DecisionInit, DecisionTypes, DecisionTypeOK, IdleBallot, IdleCloser, Tallies,
         DecisionStatuses
<1>3. BallotsHaveStances /\ FreshReadsHold
  BY DEF DecisionInit, BallotsHaveStances, FreshReadsHold, IdleBallot, IdleCloser
<1>4. ProposedAfterSuperseded /\ RatifiedExist /\ QuorumRatifies /\ SupersededByVotesRetired
  BY DEF DecisionInit, ProposedAfterSuperseded, RatifiedExist, QuorumRatifies,
         SupersededByVotesRetired
<1>5. CountsAreVotes
  <2> SUFFICES ASSUME NEW d \in Decisions PROVE decision[d].count = TallyOf(votes[d])
    BY DEF CountsAreVotes
  <2>1. decision[d].count = NoTally /\ \A v \in Voters : votes[d][v] = "none"
    BY DEF DecisionInit
  <2> QED BY <2>1, TallyOfNone
<1> QED BY <1>2, <1>3, <1>4, <1>5 DEF DecisionInv

(* A commit marks the reads of what it wrote and changes nothing else of the *)
(* calls in flight.                                                          *)
LEMMA OvertakenBallots ==
    ASSUME NEW calls \in [Ballots -> BallotRecords], NEW ds
    PROVE  /\ Overtake(calls, ds) \in [Ballots -> BallotRecords]
           /\ \A b \in Ballots :
               /\ Overtake(calls, ds)[b].pc = calls[b].pc
               /\ Overtake(calls, ds)[b].id = calls[b].id
               /\ Overtake(calls, ds)[b].stance = calls[b].stance
               /\ Overtake(calls, ds)[b].tally = calls[b].tally
               /\ ~Overtake(calls, ds)[b].overtaken =>
                      ~calls[b].overtaken /\ calls[b].id \notin ds
  BY DEF Overtake, BallotRecords

LEMMA OvertakenClosers ==
    ASSUME NEW calls \in [Closers -> CloserRecords], NEW ds
    PROVE  /\ Overtake(calls, ds) \in [Closers -> CloserRecords]
           /\ \A c \in Closers :
               /\ Overtake(calls, ds)[c].pc = calls[c].pc
               /\ Overtake(calls, ds)[c].id = calls[c].id
               /\ ~Overtake(calls, ds)[c].overtaken =>
                      ~calls[c].overtaken /\ calls[c].id \notin ds
  BY DEF Overtake, CloserRecords

LEMMA DoneRecords == DoneBallot \in BallotRecords /\ DoneCloser \in CloserRecords
  BY NoTallyFacts
     DEF DoneBallot, DoneCloser, IdleBallot, IdleCloser, BallotRecords, CloserRecords

LEMMA ProposeStep ==
    ASSUME DecisionInv, NEW d \in Decisions, ProposeDecision(d) PROVE DecisionInv'
<1> USE DecisionsAssumption DEF DecisionInv
<1>1. DecisionTypes'
  BY DEF ProposeDecision, DecisionTypes, DecisionTypeOK, DecisionStatuses
<1>2. /\ \A e \in Decisions : e # d => decision'[e] = decision[e]
      /\ decision[d].status = "none" /\ decision'[d].status = "proposed"
      /\ \A e \in Decisions : decision'[e].count = decision[e].count
      /\ Supersedes[d] # NoDecision =>
            Supersedes[d] # d /\ decision[Supersedes[d]].status # "none"
      /\ UNCHANGED <<votes, ballot, closer, byVotes, outdated>>
  BY DEF ProposeDecision, DecisionTypes, DecisionTypeOK
<1>3. BallotsHaveStances' /\ RatifiedExist'
  BY <1>2 DEF BallotsHaveStances, RatifiedExist, DecisionTypes, DecisionTypeOK
<1>4. ProposedAfterSuperseded'
  <2> SUFFICES ASSUME NEW e \in Decisions
               PROVE  /\ decision'[e].status # "none" /\ Supersedes[e] # NoDecision =>
                          Supersedes[e] # e /\ decision'[Supersedes[e]].status # "none"
                      /\ decision'[e].status = "none" => decision'[e].count = NoTally
    BY DEF ProposedAfterSuperseded
  <2>1. \A f \in Decisions : decision[f].status # "none" => decision'[f].status # "none"
    BY <1>2
  <2>2. CASE e = d
    BY <1>2, <2>1, <2>2
  <2>3. CASE e # d
    BY <1>2, <2>1, <2>3 DEF ProposedAfterSuperseded
  <2> QED BY <2>2, <2>3
<1>5. FreshReadsHold'
  BY <1>2 DEF FreshReadsHold, BallotsHaveStances
<1>6. CountsAreVotes'
  BY <1>2 DEF CountsAreVotes
<1>7. QuorumRatifies'
  BY <1>2, NoTallyFacts DEF QuorumRatifies, ProposedAfterSuperseded
<1>8. SupersededByVotesRetired'
  BY <1>2 DEF SupersededByVotesRetired, DecisionTypes, DecisionTypeOK
<1> QED BY <1>1, <1>3, <1>4, <1>5, <1>6, <1>7, <1>8

(* The steps of a vote transaction before its commit. *)
LEMMA VoteStep ==
    ASSUME DecisionInv, NEW b \in Ballots, VoteBegins(b) \/ VoteCounts(b) \/ VoteFails(b)
    PROVE  DecisionInv'
<1> USE DEF DecisionInv
<1>0. UNCHANGED <<decision, votes, closer, byVotes, outdated>>
  BY DEF VoteBegins, VoteCounts, VoteFails
<1>1. ballot' \in [Ballots -> BallotRecords]
  <2>1. CASE VoteBegins(b)
    <3>1. ASSUME NEW d \in Decisions, NEW stance \in Stances
          PROVE  [IdleBallot EXCEPT !.pc = "count", !.id = d, !.stance = stance]
                     \in BallotRecords
      BY NoTallyFacts DEF IdleBallot, BallotRecords
    <3> QED BY <2>1, <3>1, DoneRecords DEF VoteBegins, DecisionTypes
  <2>2. CASE VoteCounts(b)
    <3>1. TallyOf([votes[ballot[b].id] EXCEPT ![VoterOf[b]] = ballot[b].stance]) \in Tallies
      BY TallyType
    <3>2. ASSUME NEW first \in BOOLEAN, NEW tally \in Tallies
          PROVE  [ballot EXCEPT ![b].pc = "commit", ![b].first = first, ![b].tally = tally]
                     \in [Ballots -> BallotRecords]
      <4>1. [ballot EXCEPT ![b].pc = "commit"] \in [Ballots -> BallotRecords]
        BY DEF DecisionTypes, BallotRecords
      <4>2. ASSUME NEW f \in [Ballots -> BallotRecords]
            PROVE  [f EXCEPT ![b].first = first] \in [Ballots -> BallotRecords]
        BY DEF BallotRecords
      <4>3. ASSUME NEW f \in [Ballots -> BallotRecords]
            PROVE  [f EXCEPT ![b].tally = tally] \in [Ballots -> BallotRecords]
        BY DEF BallotRecords
      <4> QED BY <4>1, <4>2, <4>3
    <3>3. (votes[ballot[b].id][VoterOf[b]] = "none") \in BOOLEAN
      OBVIOUS
    <3> QED BY <2>2, <3>1, <3>2, <3>3 DEF VoteCounts
  <2>3. CASE VoteFails(b)
    BY <2>3, DoneRecords DEF VoteFails, DecisionTypes
  <2> QED BY <2>1, <2>2, <2>3
<1>2. \A e \in Ballots : e # b => ballot'[e] = ballot[e]
  BY DEF VoteBegins, VoteCounts, VoteFails, DecisionTypes
<1>3. DecisionTypes'
  BY <1>0, <1>1 DEF DecisionTypes, DecisionTypeOK, BallotRecords
<1>4. /\ ballot'[b].pc \in {"count", "commit"} =>
           /\ ballot'[b].id \in Decisions /\ ballot'[b].stance \in Stances
           /\ decision[ballot'[b].id].status # "none"
           /\ ~ballot'[b].overtaken => decision[ballot'[b].id].status = "proposed"
      /\ ballot'[b].pc = "commit" /\ ~ballot'[b].overtaken =>
           ballot'[b].tally =
             TallyOf([votes[ballot'[b].id] EXCEPT ![VoterOf[b]] = ballot'[b].stance])
  <2>1. CASE VoteBegins(b)
    BY <2>1 DEF VoteBegins, IdleBallot, DoneBallot, DecisionTypes
  <2>2. CASE VoteCounts(b)
    BY <2>2 DEF VoteCounts, DecisionTypes, BallotRecords, BallotsHaveStances, FreshReadsHold
  <2>3. CASE VoteFails(b)
    BY <2>3 DEF VoteFails, IdleBallot, DoneBallot, DecisionTypes
  <2> QED BY <2>1, <2>2, <2>3
<1>5. BallotsHaveStances'
  BY <1>2, <1>4 DEF BallotsHaveStances
<1>6. FreshReadsHold'
  BY <1>0, <1>2, <1>4 DEF FreshReadsHold
<1>7. /\ ProposedAfterSuperseded' /\ RatifiedExist' /\ CountsAreVotes' /\ QuorumRatifies'
      /\ SupersededByVotesRetired'
  BY <1>0 DEF ProposedAfterSuperseded, RatifiedExist, CountsAreVotes, QuorumRatifies,
              SupersededByVotesRetired
<1> QED BY <1>3, <1>5, <1>6, <1>7

(* The commit: a read that no commit overtook is still true, so what it       *)
(* writes follows from the rows as they are.                                  *)
LEMMA VoteCommitStep ==
    ASSUME DecisionInv, NEW b \in Ballots, VoteCommits(b) PROVE DecisionInv'
<1> DEFINE d == ballot[b].id
           v == VoterOf[b]
           tally == ballot[b].tally
           voted == [votes[d] EXCEPT ![v] = ballot[b].stance]
           over == [ballot EXCEPT ![b] = DoneBallot]
           ds == {d} \cup Retired(b)
<1> USE DecisionsAssumption DEF DecisionInv
<1>1. /\ d \in Decisions /\ ballot[b].stance \in Stances /\ v \in Voters
      /\ tally \in Tallies /\ ballot[b].pc = "commit"
      /\ decision[d].status # "none"
      /\ ~ballot[b].overtaken => decision[d].status = "proposed"
      /\ ~ballot[b].overtaken => tally = TallyOf(voted)
      /\ ballot[b].overtaken \in BOOLEAN
  BY DEF VoteCommits, BallotsHaveStances, DecisionTypes, BallotRecords, FreshReadsHold
<1>2. /\ d \notin Retired(b)
      /\ Retired(b) \subseteq Decisions
      /\ \A e \in Retired(b) : decision[e].status # "none"
      /\ Quorum(tally) /\ Supersedes[d] # NoDecision => Supersedes[d] \in Retired(b)
  BY <1>1 DEF Retired, ProposedAfterSuperseded
<1>3. /\ votes' = [votes EXCEPT ![d] = voted]
      /\ byVotes' = IF Quorum(tally) THEN byVotes \cup {d} ELSE byVotes
      /\ outdated' = IF ballot[b].overtaken THEN outdated \cup {d} ELSE outdated
      /\ ballot' = Overtake(over, ds)
      /\ closer' = Overtake(closer, ds)
  BY <1>1 DEF VoteCommits, DecisionTypes, DecisionTypeOK
<1>4. /\ decision' \in [Decisions -> [status : DecisionStatuses, count : Tallies]]
      /\ decision'[d].count = tally
      /\ decision'[d].status = IF Quorum(tally) THEN "ratified" ELSE decision[d].status
      /\ \A e \in Retired(b) : decision'[e].status = "retired" /\ decision'[e].count = decision[e].count
      /\ \A e \in Decisions \ ds : decision'[e] = decision[e]
  BY <1>1, <1>2 DEF VoteCommits, DecisionTypes, DecisionTypeOK, Tallies, DecisionStatuses
<1>5. over \in [Ballots -> BallotRecords] /\ closer \in [Closers -> CloserRecords]
  BY DoneRecords DEF DecisionTypes
<1>6. /\ ballot' \in [Ballots -> BallotRecords]
      /\ \A c \in Ballots :
           /\ ballot'[c].pc = over[c].pc /\ ballot'[c].id = over[c].id
           /\ ballot'[c].stance = over[c].stance /\ ballot'[c].tally = over[c].tally
           /\ ~ballot'[c].overtaken => ~over[c].overtaken /\ over[c].id \notin ds
  <2> HIDE DEF over, ds
  <2> QED BY <1>3, <1>5, OvertakenBallots
<1>7. /\ closer' \in [Closers -> CloserRecords]
      /\ \A c \in Closers :
           /\ closer'[c].pc = closer[c].pc /\ closer'[c].id = closer[c].id
           /\ ~closer'[c].overtaken => ~closer[c].overtaken /\ closer[c].id \notin ds
  BY <1>3, <1>5, OvertakenClosers
<1>8. over[b].pc = "done" /\ \A c \in Ballots : c # b => over[c] = ballot[c]
  BY DEF DoneBallot, IdleBallot, DecisionTypes
<1>9. \A e \in Decisions : e # d => votes'[e] = votes[e]
  BY <1>3 DEF DecisionTypes, DecisionTypeOK
<1>10. votes'[d] = voted
  BY <1>1, <1>3 DEF DecisionTypes, DecisionTypeOK
<1>11. DecisionTypes'
  <2>1. votes' \in [Decisions -> [Voters -> Stances \cup {"none"}]]
    BY <1>1, <1>3 DEF DecisionTypes, DecisionTypeOK
  <2>2. byVotes' \subseteq Decisions /\ outdated' \subseteq Decisions
    BY <1>1, <1>3 DEF DecisionTypes, DecisionTypeOK
  <2> QED BY <1>4, <1>6, <1>7, <2>1, <2>2
          DEF DecisionTypes, DecisionTypeOK, Tallies, BallotRecords, CloserRecords
<1>12. \A e \in Decisions : decision[e].status # "none" <=> decision'[e].status # "none"
  BY <1>1, <1>2, <1>4
<1>13. BallotsHaveStances'
  BY <1>6, <1>8 DEF BallotsHaveStances
<1>14. ProposedAfterSuperseded'
  <2> SUFFICES ASSUME NEW e \in Decisions
               PROVE  /\ decision'[e].status # "none" /\ Supersedes[e] # NoDecision =>
                          Supersedes[e] # e /\ decision'[Supersedes[e]].status # "none"
                      /\ decision'[e].status = "none" => decision'[e].count = NoTally
    BY DEF ProposedAfterSuperseded
  <2>1. decision'[e].status = "none" => decision'[e] = decision[e]
    BY <1>1, <1>2, <1>4, <1>12
  <2> QED BY <1>12, <2>1 DEF ProposedAfterSuperseded
<1>15. FreshReadsHold'
  <2>1. ASSUME NEW c \in Ballots, ballot'[c].pc \in {"count", "commit"}
        PROVE  /\ decision'[ballot'[c].id].status # "none"
               /\ ~ballot'[c].overtaken => decision'[ballot'[c].id].status = "proposed"
    BY <1>4, <1>6, <1>8, <1>12, <2>1 DEF FreshReadsHold, BallotsHaveStances
  <2>2. ASSUME NEW c \in Ballots, ballot'[c].pc = "commit", ~ballot'[c].overtaken
        PROVE  ballot'[c].tally =
                 TallyOf([votes'[ballot'[c].id] EXCEPT ![VoterOf[c]] = ballot'[c].stance])
    <3>1. c # b /\ ballot[c].id \in Decisions /\ ballot[c].id # d
      BY <1>6, <1>8, <2>2 DEF BallotsHaveStances
    <3>2. votes'[ballot[c].id] = votes[ballot[c].id]
      BY <1>9, <3>1
    <3>3. /\ ballot'[c].id = ballot[c].id /\ ballot'[c].stance = ballot[c].stance
          /\ ballot'[c].tally = ballot[c].tally /\ ballot[c].pc = "commit"
          /\ ~ballot[c].overtaken
      BY <1>6, <1>8, <2>2, <3>1
    <3>4. ballot[c].tally =
            TallyOf([votes[ballot[c].id] EXCEPT ![VoterOf[c]] = ballot[c].stance])
      BY <3>3 DEF FreshReadsHold
    <3> QED BY <3>2, <3>3, <3>4
  <2>3. ASSUME NEW c \in Closers, closer'[c].pc \in {"ratify", "retire"}
        PROVE  /\ closer'[c].id \in Decisions
               /\ decision'[closer'[c].id].status # "none"
               /\ ~closer'[c].overtaken => decision'[closer'[c].id].status # "retired"
    BY <1>4, <1>7, <1>12, <2>3 DEF FreshReadsHold
  <2> QED BY <2>1, <2>2, <2>3 DEF FreshReadsHold
<1>16. RatifiedExist'
  BY <1>1, <1>3, <1>12 DEF RatifiedExist, DecisionTypes, DecisionTypeOK
<1>17. CountsAreVotes'
  <2> SUFFICES ASSUME NEW e \in Decisions, e \notin outdated'
               PROVE  decision'[e].count = TallyOf(votes'[e])
    BY DEF CountsAreVotes
  <2>1. CASE e = d
    BY <1>1, <1>3, <1>4, <1>10, <2>1
  <2>2. CASE e # d
    <3>1. votes'[e] = votes[e] /\ e \notin outdated
      BY <1>3, <1>9, <2>2
    <3>2. decision'[e].count = decision[e].count
      BY <1>4, <2>2
    <3> QED BY <3>1, <3>2 DEF CountsAreVotes
  <2> QED BY <2>1, <2>2
<1>18. QuorumRatifies'
  BY <1>4, <1>2 DEF QuorumRatifies
<1>19. SupersededByVotesRetired'
  <2> SUFFICES ASSUME NEW e \in byVotes', Supersedes[e] \notin {NoDecision} \cup outdated'
               PROVE  decision'[Supersedes[e]].status = "retired"
    BY DEF SupersededByVotesRetired
  <2>1. e \in Decisions /\ Supersedes[e] \in Decisions /\ Supersedes[e] \notin outdated
    BY <1>3, <1>11 DEF DecisionTypes, DecisionTypeOK
  <2>2. CASE e \notin byVotes
    BY <1>2, <1>3, <1>4, <2>2
  <2>3. CASE e \in byVotes
    <3>1. decision[Supersedes[e]].status = "retired"
      BY <2>1, <2>3 DEF SupersededByVotesRetired
    <3>2. CASE Supersedes[e] = d
      BY <1>1, <1>3, <3>1, <3>2
    <3>3. CASE Supersedes[e] # d
      BY <1>4, <2>1, <3>1, <3>3
    <3> QED BY <3>2, <3>3
  <2> QED BY <2>2, <2>3
<1> QED BY <1>11, <1>13, <1>14, <1>15, <1>16, <1>17, <1>18, <1>19

(* The checks of the ratify and retire handlers. *)
LEMMA CloserCheckStep ==
    ASSUME DecisionInv, NEW c \in Closers, RatifyChecks(c) \/ RetireChecks(c)
    PROVE  DecisionInv'
<1> USE DEF DecisionInv
<1>1. PICK d \in Decisions, next \in {"ratify", "retire"} :
          decision[d].status \in {"proposed", "ratified"} /\ CloserReads(c, d, next)
  BY DEF RatifyChecks, RetireChecks
<1>2. /\ UNCHANGED <<decision, votes, ballot, byVotes, outdated>>
      /\ closer' = [closer EXCEPT ![c] = [pc |-> next, id |-> d, overtaken |-> FALSE]]
  BY <1>1 DEF CloserReads
<1>3. closer' \in [Closers -> CloserRecords]
  BY <1>2 DEF CloserRecords, DecisionTypes
<1>4. DecisionTypes'
  BY <1>2, <1>3 DEF DecisionTypes, DecisionTypeOK, CloserRecords
<1>5. FreshReadsHold'
  BY <1>1, <1>2 DEF FreshReadsHold, DecisionTypes
<1>6. /\ BallotsHaveStances' /\ ProposedAfterSuperseded' /\ RatifiedExist'
      /\ CountsAreVotes' /\ QuorumRatifies' /\ SupersededByVotesRetired'
  BY <1>2 DEF BallotsHaveStances, ProposedAfterSuperseded, RatifiedExist,
              CountsAreVotes, QuorumRatifies, SupersededByVotesRetired
<1> QED BY <1>4, <1>5, <1>6

(* Their writes: the status changes, the counts and the votes do not. *)
LEMMA CloserWriteStep ==
    ASSUME DecisionInv, NEW c \in Closers, ForceRatifyDecision(c) \/ RetireDecision(c)
    PROVE  DecisionInv'
<1> DEFINE d == closer[c].id
           over == [closer EXCEPT ![c] = DoneCloser]
<1> USE DecisionsAssumption DEF DecisionInv
<1>1. PICK status \in {"ratified", "retired"} : CloserWrites(c, status)
  BY DEF ForceRatifyDecision, RetireDecision
<1>2. /\ d \in Decisions /\ decision[d].status # "none"
      /\ ~closer[c].overtaken => decision[d].status # "retired"
      /\ closer[c].overtaken \in BOOLEAN
  BY DEF ForceRatifyDecision, RetireDecision, FreshReadsHold, DecisionTypes, CloserRecords
<1>3. /\ decision' = [decision EXCEPT ![d].status = status]
      /\ outdated' = IF closer[c].overtaken THEN outdated \cup {d} ELSE outdated
      /\ ballot' = Overtake(ballot, {d})
      /\ closer' = Overtake(over, {d})
      /\ UNCHANGED <<votes, byVotes>>
  BY <1>1 DEF CloserWrites
<1>4. over \in [Closers -> CloserRecords] /\ ballot \in [Ballots -> BallotRecords]
  BY DoneRecords DEF DecisionTypes
<1>5. /\ ballot' \in [Ballots -> BallotRecords]
      /\ \A b \in Ballots :
           /\ ballot'[b].pc = ballot[b].pc /\ ballot'[b].id = ballot[b].id
           /\ ballot'[b].stance = ballot[b].stance /\ ballot'[b].tally = ballot[b].tally
           /\ ~ballot'[b].overtaken => ~ballot[b].overtaken /\ ballot[b].id \notin {d}
  <2> HIDE DEF d
  <2> QED BY <1>3, <1>4, OvertakenBallots
<1>6. /\ closer' \in [Closers -> CloserRecords]
      /\ \A e \in Closers :
           /\ closer'[e].pc = over[e].pc /\ closer'[e].id = over[e].id
           /\ ~closer'[e].overtaken => ~over[e].overtaken /\ over[e].id \notin {d}
  <2> HIDE DEF d, over
  <2> QED BY <1>3, <1>4, OvertakenClosers
<1>7. over[c].pc = "done" /\ \A e \in Closers : e # c => over[e] = closer[e]
  BY DEF DoneCloser, IdleCloser, DecisionTypes
<1>8. /\ decision' \in [Decisions -> [status : DecisionStatuses, count : Tallies]]
      /\ decision'[d].status = status
      /\ \A e \in Decisions : decision'[e].count = decision[e].count
      /\ \A e \in Decisions : e # d => decision'[e] = decision[e]
  BY <1>2, <1>3 DEF DecisionTypes, DecisionTypeOK, DecisionStatuses, Tallies
<1>9. DecisionTypes'
  <2>1. outdated' \subseteq Decisions
    BY <1>2, <1>3 DEF DecisionTypes, DecisionTypeOK
  <2> QED BY <1>3, <1>5, <1>6, <1>8, <2>1
          DEF DecisionTypes, DecisionTypeOK, Tallies, BallotRecords, CloserRecords
<1>10. \A e \in Decisions : decision[e].status # "none" <=> decision'[e].status # "none"
  BY <1>2, <1>8
<1>11. BallotsHaveStances'
  BY <1>5 DEF BallotsHaveStances
<1>12. ProposedAfterSuperseded'
  <2> SUFFICES ASSUME NEW e \in Decisions
               PROVE  /\ decision'[e].status # "none" /\ Supersedes[e] # NoDecision =>
                          Supersedes[e] # e /\ decision'[Supersedes[e]].status # "none"
                      /\ decision'[e].status = "none" => decision'[e].count = NoTally
    BY DEF ProposedAfterSuperseded
  <2> QED BY <1>8, <1>10 DEF ProposedAfterSuperseded
<1>13. FreshReadsHold'
  <2>1. ASSUME NEW b \in Ballots, ballot'[b].pc \in {"count", "commit"}
        PROVE  /\ decision'[ballot'[b].id].status # "none"
               /\ ~ballot'[b].overtaken => decision'[ballot'[b].id].status = "proposed"
    BY <1>5, <1>8, <1>10, <2>1 DEF FreshReadsHold, BallotsHaveStances
  <2>2. ASSUME NEW b \in Ballots, ballot'[b].pc = "commit", ~ballot'[b].overtaken
        PROVE  ballot'[b].tally =
                 TallyOf([votes'[ballot'[b].id] EXCEPT ![VoterOf[b]] = ballot'[b].stance])
    <3>1. /\ ballot'[b].id = ballot[b].id /\ ballot'[b].stance = ballot[b].stance
          /\ ballot'[b].tally = ballot[b].tally /\ ballot[b].pc = "commit"
          /\ ~ballot[b].overtaken /\ votes' = votes
      BY <1>3, <1>5, <2>2
    <3>2. ballot[b].tally =
            TallyOf([votes[ballot[b].id] EXCEPT ![VoterOf[b]] = ballot[b].stance])
      BY <3>1 DEF FreshReadsHold
    <3> QED BY <3>1, <3>2
  <2>3. ASSUME NEW e \in Closers, closer'[e].pc \in {"ratify", "retire"}
        PROVE  /\ closer'[e].id \in Decisions
               /\ decision'[closer'[e].id].status # "none"
               /\ ~closer'[e].overtaken => decision'[closer'[e].id].status # "retired"
    BY <1>6, <1>7, <1>8, <1>10, <2>3 DEF FreshReadsHold
  <2> QED BY <2>1, <2>2, <2>3 DEF FreshReadsHold
<1>14. RatifiedExist'
  BY <1>3, <1>10 DEF RatifiedExist, DecisionTypes, DecisionTypeOK
<1>15. CountsAreVotes'
  BY <1>3, <1>8 DEF CountsAreVotes
<1>16. QuorumRatifies'
  BY <1>8 DEF QuorumRatifies
<1>17. SupersededByVotesRetired'
  <2> SUFFICES ASSUME NEW e \in byVotes', Supersedes[e] \notin {NoDecision} \cup outdated'
               PROVE  decision'[Supersedes[e]].status = "retired"
    BY DEF SupersededByVotesRetired
  <2>1. /\ e \in byVotes /\ e \in Decisions /\ Supersedes[e] \in Decisions
        /\ Supersedes[e] \notin outdated
    BY <1>3 DEF DecisionTypes, DecisionTypeOK
  <2>2. decision[Supersedes[e]].status = "retired"
    BY <2>1 DEF SupersededByVotesRetired
  <2>3. Supersedes[e] # d
    BY <1>2, <1>3, <2>2
  <2> QED BY <1>8, <2>1, <2>2, <2>3
<1> QED BY <1>9, <1>11, <1>12, <1>13, <1>14, <1>15, <1>16, <1>17

LEMMA DecisionStep == DecisionInv /\ [DecisionNext]_decisionVars => DecisionInv'
<1> SUFFICES ASSUME DecisionInv, [DecisionNext]_decisionVars PROVE DecisionInv'
  OBVIOUS
<1>1. CASE UNCHANGED decisionVars
  BY <1>1 DEF decisionVars, DecisionInv, DecisionTypes, DecisionTypeOK,
              BallotsHaveStances, ProposedAfterSuperseded, FreshReadsHold, RatifiedExist,
              CountsAreVotes, QuorumRatifies, SupersededByVotesRetired
<1>2. CASE DecisionNext
  BY <1>2, ProposeStep, VoteStep, VoteCommitStep, CloserCheckStep, CloserWriteStep
     DEF DecisionNext
<1> QED BY <1>1, <1>2

LEMMA DecisionConclusion == DecisionInv => VotesDecide /\ DecisionTypeOK
  BY DEF DecisionInv, DecisionTypes, VotesDecide

(* The counts are the votes, a quorum never stays proposed and a decision     *)
(* ratified by votes leaves the one it supersedes retired, for any number of  *)
(* overlapping votes and rulings, as long as no call wrote on the strength of *)
(* an overtaken read (UpsertDecisionVote, the ratify and retire handlers).    *)
THEOREM VotesAlwaysDecide == DecisionSpec => []VotesDecide
  BY DecisionInitial, DecisionStep, DecisionConclusion, PTL DEF DecisionSpec

-----------------------------------------------------------------------------
(* Messages from chat platforms *)

Rows == [exists : BOOLEAN, subscribed : BOOLEAN, verbose : BOOLEAN]

DeliveryRecords ==
    [pc : {"idle", "resolve", "subscribe", "command", "waiting", "done"},
     msg : Messages \cup {NoMessage}, sub : Rows]

ReviewerRecords ==
    [pc : {"idle", "expire", "approve", "reject", "commit", "done"},
     id : Deliveries \cup {NoDelivery}, hadRow : BOOLEAN]

ImTypes ==
    /\ seen \subseteq Messages /\ refused \subseteq Messages
    /\ unmarked \subseteq Messages /\ before \subseteq Messages
    /\ overdue \subseteq Deliveries /\ approved \subseteq Deliveries
    /\ granted \subseteq Deliveries
    /\ delivery \in [Deliveries -> DeliveryRecords]
    /\ fn \in [Deliveries -> {"none", "queued", "running", "ok", "error"}]
    /\ authRequest \in
         [Deliveries -> {"none", "pending", "approved", "rejected", "expired"}]
    /\ subscription \in Rows
    /\ reviewer \in [Reviewers -> ReviewerRecords]
    /\ copies \in [Messages -> Nat]
    /\ restarted \in BOOLEAN

(* Where a call or a reviewer has a message, a content or a request. *)
HandlersHaveWork ==
    /\ \A d \in Deliveries :
        /\ delivery[d].pc # "idle" => delivery[d].msg \in Messages
        /\ delivery[d].pc \in {"idle", "resolve", "subscribe", "command"} => fn[d] = "none"
        /\ delivery[d].pc = "subscribe" => ContentOf[delivery[d].msg] = "subscribe"
        /\ delivery[d].pc = "command" =>
             ContentOf[delivery[d].msg] \in {"unsubscribe", "verbose", "other"}
    /\ \A a \in Reviewers :
        reviewer[a].pc \notin {"idle", "done"} => reviewer[a].id \in Deliveries

(* A row is made by an approval; while the chat is subscribed every call at  *)
(* work is granted; a function in the queue was authorised.                  *)
GrantedWhileSubscribed ==
    /\ subscription.subscribed => subscription.exists
    /\ subscription.exists => approved # {}
    /\ subscription.subscribed => \A d \in Deliveries : Working(d) => d \in granted
    /\ \A d \in Deliveries :
        fn[d] \in {"queued", "running", "ok"} /\ Guarded(d) => d \in granted /\ approved # {}

(* A call that may still store its message. *)
MayStore(d) ==
    delivery[d].pc \in {"resolve", "subscribe", "command"} \/ fn[d] \in {"queued", "running"}

(* Of a message whose mark was never dropped there is one call that may      *)
(* store it, or one copy.                                                    *)
MarkedOnce ==
    /\ \A m \in Messages \ unmarked : copies[m] <= 1 /\ (copies[m] > 0 => m \in seen)
    /\ \A d \in Deliveries : MayStore(d) /\ MessageOf(d) \notin unmarked =>
        MessageOf(d) \in seen /\ copies[MessageOf(d)] = 0
    /\ \A d, e \in Deliveries :
        MayStore(d) /\ MayStore(e) /\ MessageOf(d) = MessageOf(e)
            /\ MessageOf(d) \notin unmarked => d = e

(* A text that is marked has a call that has not returned, a copy or a       *)
(* refusal.                                                                  *)
SeenIsHandled ==
    /\ \A d \in Deliveries : fn[d] = "ok" => copies[MessageOf(d)] > 0
    /\ \A m \in seen : ContentOf[m] = "text" =>
        \/ \E d \in Deliveries : MessageOf(d) = m /\ delivery[d].pc \notin {"idle", "done"}
        \/ copies[m] > 0
        \/ m \in refused

ImCore ==
    /\ ImTypes
    /\ HandlersHaveWork
    /\ GrantedWhileSubscribed
    /\ MarkedOnce
    /\ SeenIsHandled

LEMMA ImCoreInitial == ImInit => ImCore
<1> SUFFICES ASSUME ImInit PROVE ImCore
  OBVIOUS
<1>1. NoRow \in Rows /\ IdleDelivery \in DeliveryRecords /\ IdleReviewer \in ReviewerRecords
  BY DEF NoRow, Rows, IdleDelivery, DeliveryRecords, IdleReviewer, ReviewerRecords
<1>2. ImTypes
  BY <1>1 DEF ImInit, ImTypes
<1>3. HandlersHaveWork /\ SeenIsHandled
  BY DEF ImInit, HandlersHaveWork, SeenIsHandled, IdleDelivery, IdleReviewer
<1>4. GrantedWhileSubscribed
  BY DEF ImInit, GrantedWhileSubscribed, NoRow
<1>5. MarkedOnce
  BY DEF ImInit, MarkedOnce, MayStore, IdleDelivery
<1> QED BY <1>2, <1>3, <1>4, <1>5 DEF ImCore

LEMMA DeliverStep ==
    ASSUME ImCore, NEW d \in Deliveries, StaleDraft(d) \/ Deliver(d) PROVE ImCore'
<1> USE ImInboundAssumption DEF ImCore, chatVars
<1>1. PICK m \in Messages, to \in {"resolve", "done"} :
        /\ delivery' = [delivery EXCEPT ![d] = [IdleDelivery EXCEPT !.pc = to, !.msg = m]]
        /\ to = "resolve" => m \notin seen
        /\ m \in seen' => m \in seen \/ to = "resolve"
        /\ to = "resolve" => seen' = seen \cup {m}
        /\ to = "done" => seen' = seen
        /\ to = "resolve" => granted' = IF subscription.subscribed THEN granted \cup {d} ELSE granted
        /\ granted \subseteq granted' /\ granted' \subseteq granted \cup {d}
  <2>1. CASE StaleDraft(d)
    BY <2>1 DEF StaleDraft, ImTypes
  <2>2. CASE Deliver(d)
    <3>1. PICK m \in Messages :
            /\ delivery' = [delivery EXCEPT
                 ![d] = [IdleDelivery EXCEPT !.pc = IF m \in seen THEN "done" ELSE "resolve",
                                             !.msg = m]]
            /\ seen' = seen \cup {m}
      BY <2>2 DEF Deliver
    <3>2. granted' = IF subscription.subscribed THEN granted \cup {d} ELSE granted
      BY <2>2 DEF Deliver
    <3>3. CASE m \in seen
      BY <3>1, <3>2, <3>3
    <3>4. CASE m \notin seen
      BY <3>1, <3>2, <3>4
    <3> QED BY <3>3, <3>4
  <2> QED BY <2>1, <2>2
<1>2. /\ UNCHANGED <<fn, copies, refused, unmarked, restarted, before, authRequest,
                     overdue, subscription, reviewer, approved>>
      /\ delivery[d].pc = "idle" /\ fn[d] = "none"
  BY DEF StaleDraft, Deliver, HandlersHaveWork
<1>3. /\ delivery'[d].pc = to /\ delivery'[d].msg = m
      /\ \A e \in Deliveries : e # d => delivery'[e] = delivery[e]
      /\ delivery' \in [Deliveries -> DeliveryRecords]
  BY <1>1 DEF ImTypes, DeliveryRecords, IdleDelivery, NoRow, Rows
<1>4. ImTypes'
  BY <1>1, <1>2, <1>3 DEF ImTypes
<1>5. HandlersHaveWork'
  BY <1>1, <1>2, <1>3 DEF HandlersHaveWork
<1>6. GrantedWhileSubscribed'
  BY <1>1, <1>2, <1>3 DEF GrantedWhileSubscribed, Working, Guarded, MessageOf
<1>7. MarkedOnce'
  BY <1>1, <1>2, <1>3 DEF MarkedOnce, MayStore, MessageOf, ImTypes
<1>8. SeenIsHandled'
  BY <1>1, <1>2, <1>3 DEF SeenIsHandled, MessageOf, ImTypes
<1> QED BY <1>4, <1>5, <1>6, <1>7, <1>8

(* A call moves on with another row in hand. *)
LEMMA DeliveryMoves ==
    ASSUME NEW d \in Deliveries, NEW row \in Rows,
           NEW to \in {"idle", "resolve", "subscribe", "command", "waiting", "done"},
           delivery \in [Deliveries -> DeliveryRecords],
           delivery' = [delivery EXCEPT ![d].pc = to, ![d].sub = row]
    PROVE  /\ delivery' \in [Deliveries -> DeliveryRecords]
           /\ delivery'[d].pc = to /\ delivery'[d].msg = delivery[d].msg
           /\ \A e \in Deliveries : e # d => delivery'[e] = delivery[e]
<1>1. delivery' \in [Deliveries -> DeliveryRecords]
  BY DEF DeliveryRecords
<1>2. delivery'[d].pc = to
  BY DEF DeliveryRecords
<1>3. delivery'[d].msg = delivery[d].msg
  BY DEF DeliveryRecords
<1>4. \A e \in Deliveries : e # d => delivery'[e] = delivery[e]
  OBVIOUS
<1> QED BY <1>1, <1>2, <1>3, <1>4

LEMMA ResolveStep ==
    ASSUME ImCore, NEW d \in Deliveries, Resolve(d) PROVE ImCore'
<1> USE ImInboundAssumption DEF ImCore, chatVars
<1>1. PICK to \in {"done", "subscribe", "waiting", "command"}, row \in Rows :
        /\ delivery' = [delivery EXCEPT ![d].pc = to, ![d].sub = row]
        /\ fn' = IF to = "waiting" THEN [fn EXCEPT ![d] = "queued"] ELSE fn
        /\ to = "waiting" /\ Guarded(d) => subscription.exists /\ subscription.subscribed
        /\ to = "subscribe" => ContentOf[delivery[d].msg] = "subscribe"
        /\ to = "command" =>
             ContentOf[delivery[d].msg] \in {"unsubscribe", "verbose", "other"}
        /\ to = "done" /\ ContentOf[delivery[d].msg] = "text" => MessageOf(d) \in refused'
        /\ refused \subseteq refused' /\ refused' \subseteq refused \cup {MessageOf(d)}
  <2> DEFINE content == ContentOf[MessageOf(d)]
             row == IF Guarded(d) THEN subscription ELSE NoRow
             refuse == Guarded(d) /\ content # "subscribe" /\ ~Authorized(row)
             target == CASE refuse -> "done"
                         [] content = "subscribe" -> "subscribe"
                         [] ~refuse /\ content = "text" -> "waiting"
                         [] ~refuse /\ content \in {"unsubscribe", "verbose", "other"} ->
                              IF row.exists THEN "command" ELSE "done"
             sub == IF target = "command" THEN row ELSE NoRow
  <2>1. content \in Contents /\ MessageOf(d) = delivery[d].msg
    BY DEF Resolve, HandlersHaveWork, MessageOf
  <2>2. /\ target \in {"done", "subscribe", "waiting", "command"}
        /\ target = "waiting" /\ Guarded(d) => Authorized(row)
        /\ target = "subscribe" => content = "subscribe"
        /\ target = "command" => content \in {"unsubscribe", "verbose", "other"}
        /\ target = "done" /\ content = "text" => refuse
    BY <2>1 DEF Contents
  <2>3. row \in Rows /\ sub \in Rows
    BY DEF ImTypes, NoRow, Rows
  <2>4. /\ delivery' = [delivery EXCEPT ![d].pc = target, ![d].sub = sub]
        /\ fn' = IF target = "waiting" THEN [fn EXCEPT ![d] = "queued"] ELSE fn
        /\ refused' = IF refuse THEN refused \cup {MessageOf(d)} ELSE refused
    BY DEF Resolve
  <2>5. Guarded(d) /\ Authorized(row) => subscription.exists /\ subscription.subscribed
    BY DEF Authorized
  <2> HIDE DEF target, sub, refuse, content
  <2> QED BY <2>1, <2>2, <2>3, <2>4, <2>5 DEF content
<1>2. /\ UNCHANGED <<seen, copies, granted, unmarked, restarted, before, authRequest,
                     overdue, subscription, reviewer, approved>>
      /\ delivery[d].pc = "resolve" /\ fn[d] = "none" /\ delivery[d].msg \in Messages
  BY DEF Resolve, HandlersHaveWork
<1>3. /\ delivery'[d].pc = to /\ delivery'[d].msg = delivery[d].msg
      /\ \A e \in Deliveries : e # d => delivery'[e] = delivery[e]
      /\ delivery' \in [Deliveries -> DeliveryRecords]
      /\ fn' \in [Deliveries -> {"none", "queued", "running", "ok", "error"}]
      /\ \A e \in Deliveries : e # d => fn'[e] = fn[e]
      /\ fn'[d] = IF to = "waiting" THEN "queued" ELSE "none"
  <2>1. /\ delivery'[d].pc = to /\ delivery'[d].msg = delivery[d].msg
        /\ \A e \in Deliveries : e # d => delivery'[e] = delivery[e]
        /\ delivery' \in [Deliveries -> DeliveryRecords]
    <3>1. delivery \in [Deliveries -> DeliveryRecords]
      BY DEF ImTypes
    <3>2. to \in {"idle", "resolve", "subscribe", "command", "waiting", "done"}
      BY <1>1
    <3> QED BY <1>1, <3>1, <3>2, DeliveryMoves
  <2> QED BY <1>1, <1>2, <2>1 DEF ImTypes
<1>4. ImTypes'
  BY <1>1, <1>2, <1>3 DEF ImTypes, MessageOf
<1>5. HandlersHaveWork'
  BY <1>1, <1>2, <1>3 DEF HandlersHaveWork
<1>6. GrantedWhileSubscribed'
  BY <1>1, <1>2, <1>3 DEF GrantedWhileSubscribed, Working, Guarded, MessageOf
<1>7. MarkedOnce'
  BY <1>1, <1>2, <1>3 DEF MarkedOnce, MayStore, MessageOf, ImTypes
<1>8. SeenIsHandled'
  BY <1>1, <1>2, <1>3 DEF SeenIsHandled, MessageOf, ImTypes
<1> QED BY <1>4, <1>5, <1>6, <1>7, <1>8

(* A call returns, or its function moves on: no message changes hands. *)
LEMMA CallReturnStep ==
    ASSUME ImCore, NEW d \in Deliveries,
           ResolveFails(d) \/ HandleSubscribe(d) \/ HandleCommand(d) \/ CommandFails(d)
           \/ Return(d) \/ Leave(d)
    PROVE  ImCore'
<1> USE ImInboundAssumption DEF ImCore, chatVars
<1>1. /\ UNCHANGED <<fn, copies, granted, refused, restarted, before, overdue, reviewer, approved>>
      /\ delivery[d].pc # "idle" /\ delivery[d].msg \in Messages
      /\ \/ UNCHANGED <<seen, unmarked>>
         \/ seen' = seen \ {delivery[d].msg} /\ unmarked' = unmarked \cup {delivery[d].msg}
  BY DEF ResolveFails, HandleSubscribe, HandleCommand, CommandFails, Return, Leave,
         Forget, MessageOf, HandlersHaveWork
<1>2. /\ delivery' \in [Deliveries -> DeliveryRecords]
      /\ delivery'[d].pc = "done" /\ delivery'[d].msg = delivery[d].msg
      /\ \A e \in Deliveries : e # d => delivery'[e] = delivery[e]
  <2>1. CASE ResolveFails(d) \/ HandleSubscribe(d) \/ Return(d) \/ Leave(d)
    <3>1. delivery' = [delivery EXCEPT ![d].pc = "done"]
      BY <2>1 DEF ResolveFails, HandleSubscribe, Return, Leave, Step
    <3> QED BY <3>1 DEF ImTypes, DeliveryRecords
  <2>2. CASE HandleCommand(d) \/ CommandFails(d)
    <3>1. delivery' = [delivery EXCEPT ![d].pc = "done", ![d].sub = NoRow]
      BY <2>2 DEF HandleCommand, CommandFails
    <3>2. NoRow \in Rows
      BY DEF NoRow, Rows
    <3>3. delivery \in [Deliveries -> DeliveryRecords]
      BY DEF ImTypes
    <3> QED BY <3>1, <3>2, <3>3, DeliveryMoves
  <2> QED BY <2>1, <2>2
<1>3. authRequest' \in
         [Deliveries -> {"none", "pending", "approved", "rejected", "expired"}]
  BY DEF ResolveFails, HandleSubscribe, HandleCommand, CommandFails, Return, Leave, ImTypes
<1>4. /\ subscription' \in Rows
      /\ subscription'.exists = subscription.exists
      /\ subscription'.subscribed => subscription.subscribed
  <2>1. CASE HandleCommand(d)
    <3> DEFINE content == ContentOf[MessageOf(d)]
    <3>1. content \in {"unsubscribe", "verbose", "other"}
      BY <2>1 DEF HandleCommand, HandlersHaveWork, MessageOf
    <3>2. CASE content = "unsubscribe"
      BY <2>1, <3>2 DEF HandleCommand, ImTypes, Rows
    <3>3. CASE content = "verbose"
      <4>1. (~delivery[d].sub.verbose) \in BOOLEAN
        OBVIOUS
      <4> QED BY <2>1, <3>3, <4>1 DEF HandleCommand, ImTypes, Rows
    <3>4. CASE content = "other"
      BY <2>1, <3>4 DEF HandleCommand, ImTypes
    <3> QED BY <3>1, <3>2, <3>3, <3>4
  <2>2. CASE ~HandleCommand(d)
    BY <2>2 DEF ResolveFails, HandleSubscribe, CommandFails, Return, Leave, ImTypes
  <2> QED BY <2>1, <2>2
<1>5. ImTypes'
  BY <1>1, <1>2, <1>3, <1>4 DEF ImTypes
<1>6. HandlersHaveWork'
  BY <1>1, <1>2 DEF HandlersHaveWork
<1>7. GrantedWhileSubscribed'
  BY <1>1, <1>2, <1>4 DEF GrantedWhileSubscribed, Working, Guarded, MessageOf
<1>8. MarkedOnce'
  BY <1>1, <1>2 DEF MarkedOnce, MayStore, MessageOf, ImTypes
<1>9. SeenIsHandled'
  <2>1. delivery[d].msg \in seen' /\ ContentOf[delivery[d].msg] = "text" =>
            copies[delivery[d].msg] > 0
    BY DEF ResolveFails, HandleSubscribe, HandleCommand, CommandFails, Return, Leave,
           Forget, MessageOf, HandlersHaveWork, SeenIsHandled
  <2> QED BY <1>1, <1>2, <2>1 DEF SeenIsHandled, MessageOf, ImTypes
<1> QED BY <1>5, <1>6, <1>7, <1>8, <1>9

LEMMA FnStep ==
    ASSUME ImCore, NEW d \in Deliveries,
           FnStarts(d) \/ FnStores(d) \/ FnAborted(d) \/ FnFails(d)
    PROVE  ImCore'
<1> USE ImInboundAssumption DEF ImCore, chatVars
<1> DEFINE m == MessageOf(d)
<1>1. PICK to \in {"running", "ok", "error"}, n \in {0, 1} :
        /\ fn[d] \in {"queued", "running"}
        /\ fn' = [fn EXCEPT ![d] = to]
        /\ copies' = [copies EXCEPT ![m] = @ + n]
        /\ to = "ok" => n = 1
        /\ to = "running" => n = 0
        /\ \/ UNCHANGED <<seen, unmarked>> /\ (n = 1 => to = "ok")
           \/ seen' = seen \ {m} /\ unmarked' = unmarked \cup {m} /\ to = "error"
  <2>1. CASE FnStarts(d) \/ FnAborted(d)
    <3>1. copies' = [copies EXCEPT ![m] = @ + 0]
      BY <2>1 DEF FnStarts, FnAborted, ImTypes
    <3> QED BY <2>1, <3>1 DEF FnStarts, FnAborted
  <2>2. CASE FnStores(d)
    BY <2>2 DEF FnStores
  <2>3. CASE FnFails(d)
    BY <2>3 DEF FnFails, Forget
  <2> QED BY <2>1, <2>2, <2>3
<1>2. /\ UNCHANGED <<delivery, granted, refused, restarted, before, authRequest, overdue,
                     subscription, reviewer, approved>>
      /\ m \in Messages /\ delivery[d].pc \notin {"idle", "resolve", "subscribe", "command"}
  BY DEF FnStarts, FnStores, FnAborted, FnFails, HandlersHaveWork, MessageOf
<1>3. /\ fn' \in [Deliveries -> {"none", "queued", "running", "ok", "error"}]
      /\ fn'[d] = to /\ \A e \in Deliveries : e # d => fn'[e] = fn[e]
      /\ copies' \in [Messages -> Nat]
      /\ copies'[m] = copies[m] + n
      /\ \A k \in Messages : k # m => copies'[k] = copies[k]
  BY <1>1, <1>2 DEF ImTypes
<1>4. ImTypes'
  BY <1>1, <1>2, <1>3 DEF ImTypes
<1>5. HandlersHaveWork'
  BY <1>2, <1>3 DEF HandlersHaveWork
<1>6. GrantedWhileSubscribed'
  BY <1>1, <1>2, <1>3 DEF GrantedWhileSubscribed, Working, Guarded, MessageOf
<1>7. MarkedOnce'
  <2>1. \A e \in Deliveries :
          /\ MessageOf(e)' = MessageOf(e)
          /\ MayStore(e)' => MayStore(e)
          /\ MayStore(e)' => e # d \/ to = "running"
    BY <1>1, <1>2, <1>3 DEF MayStore, MessageOf
  <2>2. MayStore(d) /\ unmarked \subseteq unmarked'
    BY <1>1 DEF MayStore
  <2>3. \A k \in Messages \ unmarked' : copies'[k] <= 1 /\ (copies'[k] > 0 => k \in seen')
    BY <1>1, <1>2, <1>3, <2>2 DEF MarkedOnce, ImTypes
  <2>4. \A e \in Deliveries : MayStore(e)' /\ MessageOf(e) \notin unmarked' =>
          MessageOf(e) \in seen' /\ copies'[MessageOf(e)] = 0
    <3> SUFFICES ASSUME NEW e \in Deliveries, MayStore(e)', MessageOf(e) \notin unmarked'
                 PROVE  MessageOf(e) \in seen' /\ copies'[MessageOf(e)] = 0
      OBVIOUS
    <3>1. MessageOf(e) \in seen /\ copies[MessageOf(e)] = 0 /\ MessageOf(e) \in Messages
      BY <2>1, <2>2 DEF MarkedOnce, ImTypes
    <3>2. CASE e = d
      BY <1>1, <1>3, <2>1, <3>1, <3>2 DEF ImTypes
    <3>3. CASE e # d
      BY <1>1, <1>3, <2>1, <2>2, <3>1, <3>3 DEF MarkedOnce
    <3> QED BY <3>2, <3>3
  <2>5. \A e, f \in Deliveries :
          MayStore(e)' /\ MayStore(f)' /\ MessageOf(e) = MessageOf(f)
            /\ MessageOf(e) \notin unmarked' => e = f
    BY <2>1, <2>2 DEF MarkedOnce
  <2> QED BY <2>1, <2>3, <2>4, <2>5 DEF MarkedOnce
<1>8. SeenIsHandled'
  BY <1>1, <1>2, <1>3 DEF SeenIsHandled, MessageOf, ImTypes, HandlersHaveWork
<1> QED BY <1>4, <1>5, <1>6, <1>7, <1>8

LEMMA PruneStep ==
    ASSUME ImCore, NEW m \in Messages, Prune(m) PROVE ImCore'
<1> USE DEF ImCore, chatVars
<1>1. /\ seen' = seen \ {m} /\ unmarked' = unmarked \cup {m}
      /\ UNCHANGED <<delivery, fn, copies, granted, refused, restarted, before,
                     authRequest, overdue, subscription, reviewer, approved>>
  BY DEF Prune, Forget
<1>2. ImTypes' /\ HandlersHaveWork'
  BY <1>1 DEF ImTypes, HandlersHaveWork
<1>3. GrantedWhileSubscribed'
  BY <1>1 DEF GrantedWhileSubscribed, Working, Guarded, MessageOf
<1>4. MarkedOnce' /\ SeenIsHandled'
  BY <1>1 DEF MarkedOnce, SeenIsHandled, MayStore, MessageOf
<1> QED BY <1>2, <1>3, <1>4

LEMMA RestartStep == ASSUME ImCore, ServerRestarts PROVE ImCore'
<1> USE DEF ImCore
<1>1. /\ UNCHANGED <<authRequest, overdue, subscription, copies, approved, granted, refused>>
      /\ seen' = {} /\ restarted' = TRUE
      /\ before' = {MessageOf(d) : d \in {e \in Deliveries : delivery[e].pc # "idle"}}
      /\ unmarked' = unmarked \cup seen
                       \cup {MessageOf(d) : d \in {e \in Deliveries : Working(e)}}
  BY DEF ServerRestarts
<1>2. /\ delivery' \in [Deliveries -> DeliveryRecords]
      /\ fn' \in [Deliveries -> {"none", "queued", "running", "ok", "error"}]
      /\ \A d \in Deliveries :
           /\ delivery'[d].msg = delivery[d].msg
           /\ delivery'[d].pc = IF delivery[d].pc = "idle" THEN "idle" ELSE "done"
           /\ fn'[d] = IF fn[d] \in {"queued", "running"} THEN "error" ELSE fn[d]
  <2>1. NoRow \in Rows
    BY DEF NoRow, Rows
  <2>2. /\ delivery' \in [Deliveries -> DeliveryRecords]
        /\ \A d \in Deliveries :
             /\ delivery'[d].msg = delivery[d].msg
             /\ delivery'[d].pc = IF delivery[d].pc = "idle" THEN "idle" ELSE "done"
    BY <2>1 DEF ServerRestarts, ImTypes, DeliveryRecords
  <2>3. /\ fn' \in [Deliveries -> {"none", "queued", "running", "ok", "error"}]
        /\ \A d \in Deliveries :
             fn'[d] = IF fn[d] \in {"queued", "running"} THEN "error" ELSE fn[d]
    BY DEF ServerRestarts, ImTypes
  <2> QED BY <2>2, <2>3
<1>3. /\ reviewer' \in [Reviewers -> ReviewerRecords]
      /\ \A a \in Reviewers : reviewer'[a].pc \in {"idle", "done"}
  BY DEF ServerRestarts, ImTypes, ReviewerRecords, IdleReviewer
<1>4. before' \subseteq Messages /\ unmarked' \subseteq Messages
  BY <1>1 DEF HandlersHaveWork, ImTypes, Working, MessageOf
<1>5. ImTypes'
  BY <1>1, <1>2, <1>3, <1>4 DEF ImTypes
<1>6. HandlersHaveWork'
  BY <1>2, <1>3 DEF HandlersHaveWork
<1>7. GrantedWhileSubscribed'
  BY <1>1, <1>2 DEF GrantedWhileSubscribed, Working, Guarded, MessageOf
<1>8. MarkedOnce'
  BY <1>1, <1>2 DEF MarkedOnce, MayStore, MessageOf
<1>9. SeenIsHandled'
  BY <1>1, <1>2 DEF SeenIsHandled, MessageOf
<1> QED BY <1>5, <1>6, <1>7, <1>8, <1>9

(* Reviews and edits change the requests and the row, never the calls. *)
LEMMA ReviewStep ==
    ASSUME ImCore,
           \/ \E r \in Deliveries : RequestExpires(r)
           \/ \E a \in Reviewers : \/ ReviewBegins(a) \/ UpdateRequestStatus(a)
                                   \/ ApproveReads(a) \/ ApproveCommits(a) \/ ReviewFails(a)
           \/ UpdateSubscription
    PROVE  ImCore'
<1> USE ImInboundAssumption DEF ImCore
<1>1. UNCHANGED <<seen, delivery, fn, copies, refused, unmarked, restarted, before>>
  BY DEF RequestExpires, ReviewBegins, UpdateRequestStatus, ApproveReads, ApproveCommits,
         ReviewFails, UpdateSubscription, handleVars
<1>2. /\ [IdleReviewer EXCEPT !.pc = "done"] \in ReviewerRecords
      /\ [IdleReviewer EXCEPT !.pc = "done"].pc = "done"
  BY DEF IdleReviewer, ReviewerRecords
<1>3. /\ reviewer' \in [Reviewers -> ReviewerRecords]
      /\ \A a \in Reviewers :
           reviewer'[a].pc \notin {"idle", "done"} => reviewer'[a].id \in Deliveries
  <2>0. ASSUME NEW a \in Reviewers, NEW rec \in ReviewerRecords,
               rec.pc \notin {"idle", "done"} => rec.id \in Deliveries,
               reviewer' = [reviewer EXCEPT ![a] = rec]
        PROVE  <1>3!1 /\ <1>3!2
    BY <2>0 DEF ImTypes, HandlersHaveWork
  <2>1. ASSUME NEW a \in Reviewers,
               UpdateRequestStatus(a) \/ ApproveCommits(a) \/ ReviewFails(a)
        PROVE  <1>3!1 /\ <1>3!2
    <3>1. reviewer' = [reviewer EXCEPT ![a] = [IdleReviewer EXCEPT !.pc = "done"]]
      BY <2>1 DEF UpdateRequestStatus, ApproveCommits, ReviewFails, ReviewEnds
    <3> QED BY <1>2, <2>0, <3>1
  <2>2. ASSUME NEW a \in Reviewers, ReviewBegins(a)
        PROVE  <1>3!1 /\ <1>3!2
    <3>1. PICK r \in Deliveries, pc \in {"expire", "approve", "reject"} :
            reviewer' = [reviewer EXCEPT ![a] = [IdleReviewer EXCEPT !.pc = pc, !.id = r]]
      BY <2>2 DEF ReviewBegins
    <3>2. /\ [IdleReviewer EXCEPT !.pc = pc, !.id = r] \in ReviewerRecords
          /\ [IdleReviewer EXCEPT !.pc = pc, !.id = r].id = r
      BY DEF IdleReviewer, ReviewerRecords
    <3> QED BY <2>0, <3>1, <3>2
  <2>3. ASSUME NEW a \in Reviewers, ApproveReads(a)
        PROVE  <1>3!1 /\ <1>3!2
    <3> DEFINE kept == [reviewer[a] EXCEPT !.pc = "commit", !.hadRow = subscription.exists]
    <3>1. kept \in ReviewerRecords /\ kept.id = reviewer[a].id
      BY DEF ImTypes, ReviewerRecords, Rows
    <3>2. reviewer[a].id \in Deliveries
      BY <2>3 DEF ApproveReads, HandlersHaveWork
    <3>3. \/ reviewer' = [reviewer EXCEPT ![a] = kept]
          \/ reviewer' = [reviewer EXCEPT ![a] = [IdleReviewer EXCEPT !.pc = "done"]]
      BY <2>3 DEF ApproveReads, ImTypes
    <3> HIDE DEF kept
    <3> QED BY <1>2, <2>0, <3>1, <3>2, <3>3
  <2>4. CASE UpdateSubscription \/ \E r \in Deliveries : RequestExpires(r)
    BY <2>4 DEF UpdateSubscription, RequestExpires, ImTypes, HandlersHaveWork
  <2> QED BY <2>1, <2>2, <2>3, <2>4
<1>4. /\ authRequest' \in
           [Deliveries -> {"none", "pending", "approved", "rejected", "expired"}]
      /\ overdue' \subseteq Deliveries
  BY DEF RequestExpires, ReviewBegins, UpdateRequestStatus, ApproveReads, ApproveCommits,
         ReviewFails, UpdateSubscription, ImTypes
<1>5. /\ subscription' \in Rows
      /\ approved \subseteq approved' /\ approved' \subseteq Deliveries
      /\ granted \subseteq granted' /\ granted' \subseteq Deliveries
      /\ \/ subscription' = subscription
         \/ subscription'.exists /\ approved' # {}
      /\ \/ subscription'.subscribed => subscription.subscribed
         \/ \A d \in Deliveries : Working(d) => d \in granted'
  <2>1. ASSUME NEW a \in Reviewers, ApproveCommits(a)
        PROVE  <1>5!1 /\ <1>5!2 /\ <1>5!3 /\ <1>5!4 /\ <1>5!5
    BY <2>1 DEF ApproveCommits, Grant, ImTypes, HandlersHaveWork, Rows
  <2>2. ASSUME UpdateSubscription
        PROVE  <1>5!1 /\ <1>5!2 /\ <1>5!3 /\ <1>5!4 /\ <1>5!5
    BY <2>2 DEF UpdateSubscription, Grant, ImTypes, GrantedWhileSubscribed, Rows
  <2>3. ASSUME UNCHANGED <<subscription, approved, granted>>
        PROVE  <1>5!1 /\ <1>5!2 /\ <1>5!3 /\ <1>5!4 /\ <1>5!5
    BY <2>3 DEF ImTypes
  <2> QED BY <2>1, <2>2, <2>3
          DEF RequestExpires, ReviewBegins, UpdateRequestStatus, ApproveReads, ReviewFails
<1>6. ImTypes'
  BY <1>1, <1>3, <1>4, <1>5 DEF ImTypes
<1>7. HandlersHaveWork'
  BY <1>1, <1>3 DEF HandlersHaveWork
<1>8. GrantedWhileSubscribed'
  BY <1>1, <1>5 DEF GrantedWhileSubscribed, Working, Guarded, MessageOf
<1>9. MarkedOnce' /\ SeenIsHandled'
  BY <1>1 DEF MarkedOnce, SeenIsHandled, MayStore, MessageOf
<1> QED BY <1>6, <1>7, <1>8, <1>9

(* The calls whose function has run for a message, and the copies they left. *)
Storers(m) == {d \in Deliveries : fn[d] \in {"ok", "error"} /\ delivery[d].msg = m}

CopiesBounded == \A m \in Messages : copies[m] <= Cardinality(Storers(m))

ImInv == ImCore /\ CopiesBounded

LEMMA ImInitial == ImInit => ImInv
<1> SUFFICES ASSUME ImInit PROVE CopiesBounded
  BY ImCoreInitial DEF ImInv
<1> SUFFICES ASSUME NEW m \in Messages PROVE copies[m] <= Cardinality(Storers(m))
  BY DEF CopiesBounded
<1>1. copies[m] = 0 /\ Storers(m) = {}
  BY DEF ImInit, Storers
<1> QED BY <1>1, FS_EmptySet

LEMMA StorersFinite ==
    \A m : IsFiniteSet(Storers(m)) /\ Cardinality(Storers(m)) \in Nat
           /\ Cardinality(Storers(m)) <= Cardinality(Deliveries)
<1> SUFFICES ASSUME NEW m
             PROVE  IsFiniteSet(Storers(m)) /\ Cardinality(Storers(m)) \in Nat
                    /\ Cardinality(Storers(m)) <= Cardinality(Deliveries)
  OBVIOUS
<1>1. Storers(m) \in SUBSET Deliveries
  BY DEF Storers
<1>2. IsFiniteSet(Storers(m)) /\ Cardinality(Storers(m)) <= Cardinality(Deliveries)
  BY <1>1, FS_Subset, ImInboundAssumption
<1> QED BY <1>2, FS_CardinalityType

(* A function that has run has run for good. *)
LEMMA RunFunctionsStay ==
    ASSUME ImCore, ImNext, NEW d \in Deliveries, fn[d] \in {"ok", "error"}
    PROVE  fn'[d] \in {"ok", "error"} /\ delivery'[d].msg = delivery[d].msg
<1> USE DEF ImCore, ImTypes, HandlersHaveWork, chatVars, handleVars
<1>0. delivery[d].pc \in {"waiting", "done"} /\ delivery[d] \in DeliveryRecords
  BY DEF DeliveryRecords
<1>1. ASSUME NEW e \in Deliveries, StaleDraft(e) \/ Deliver(e)
      PROVE  fn'[d] = fn[d] /\ delivery'[d] = delivery[d]
  BY <1>0, <1>1 DEF StaleDraft, Deliver
<1>2. ASSUME NEW e \in Deliveries, Resolve(e)
      PROVE  fn'[d] = fn[d] /\ delivery'[d] = delivery[d]
  BY <1>0, <1>2 DEF Resolve
<1>3. ASSUME NEW e \in Deliveries,
             ResolveFails(e) \/ HandleSubscribe(e) \/ HandleCommand(e) \/ CommandFails(e)
      PROVE  fn'[d] = fn[d] /\ delivery'[d] = delivery[d]
  BY <1>0, <1>3 DEF ResolveFails, HandleSubscribe, HandleCommand, CommandFails, Step
<1>4. ASSUME NEW e \in Deliveries, Return(e) \/ Leave(e)
      PROVE  fn'[d] = fn[d] /\ delivery'[d].msg = delivery[d].msg
  BY <1>0, <1>4 DEF Return, Leave, Step, DeliveryRecords
<1>5. ASSUME NEW e \in Deliveries, FnStarts(e) \/ FnStores(e) \/ FnAborted(e) \/ FnFails(e)
      PROVE  fn'[d] = fn[d] /\ delivery'[d] = delivery[d]
  BY <1>5 DEF FnStarts, FnStores, FnAborted, FnFails
<1>6. ASSUME ServerRestarts
      PROVE  fn'[d] = fn[d] /\ delivery'[d].msg = delivery[d].msg
  BY <1>0, <1>6 DEF ServerRestarts, DeliveryRecords
<1>7. ASSUME \/ \E m \in Messages : Prune(m)
             \/ \E r \in Deliveries : RequestExpires(r)
             \/ \E a \in Reviewers : \/ ReviewBegins(a) \/ UpdateRequestStatus(a)
                                     \/ ApproveReads(a) \/ ApproveCommits(a) \/ ReviewFails(a)
             \/ UpdateSubscription
      PROVE  UNCHANGED <<fn, delivery>>
  BY <1>7 DEF Prune, RequestExpires, ReviewBegins, UpdateRequestStatus, ApproveReads,
              ApproveCommits, ReviewFails, UpdateSubscription
<1> QED BY <1>1, <1>2, <1>3, <1>4, <1>5, <1>6, <1>7 DEF ImNext

(* Only a function that has just run adds a copy. *)
LEMMA CopiesAdded ==
    ASSUME ImCore, ImNext
    PROVE  \/ UNCHANGED copies
           \/ \E d \in Deliveries :
                /\ fn[d] = "running" /\ fn'[d] \in {"ok", "error"}
                /\ delivery' = delivery
                /\ delivery[d].msg \in Messages
                /\ copies' = [copies EXCEPT ![delivery[d].msg] = @ + 1]
<1> USE DEF ImCore, ImTypes, HandlersHaveWork, chatVars, handleVars
<1>1. ASSUME NEW d \in Deliveries, FnStores(d) \/ FnFails(d)
      PROVE  \/ UNCHANGED copies
             \/ /\ fn[d] = "running" /\ fn'[d] \in {"ok", "error"}
                /\ delivery' = delivery
                /\ delivery[d].msg \in Messages
                /\ copies' = [copies EXCEPT ![delivery[d].msg] = @ + 1]
  <2>1. [copies EXCEPT ![delivery[d].msg] = @ + 0] = copies
    OBVIOUS
  <2> QED BY <1>1, <2>1 DEF FnStores, FnFails, MessageOf
<1>2. ASSUME NEW d \in Deliveries,
             StaleDraft(d) \/ Deliver(d) \/ Resolve(d) \/ ResolveFails(d)
             \/ HandleSubscribe(d) \/ HandleCommand(d) \/ CommandFails(d)
             \/ FnStarts(d) \/ FnAborted(d) \/ Return(d) \/ Leave(d) \/ RequestExpires(d)
      PROVE  UNCHANGED copies
  BY <1>2 DEF StaleDraft, Deliver, Resolve, ResolveFails, HandleSubscribe, HandleCommand,
              CommandFails, FnStarts, FnAborted, Return, Leave, RequestExpires
<1>3. ASSUME \/ \E m \in Messages : Prune(m)
             \/ \E a \in Reviewers : \/ ReviewBegins(a) \/ UpdateRequestStatus(a)
                                     \/ ApproveReads(a) \/ ApproveCommits(a) \/ ReviewFails(a)
             \/ UpdateSubscription \/ ServerRestarts
      PROVE  UNCHANGED copies
  BY <1>3 DEF Prune, ReviewBegins, UpdateRequestStatus, ApproveReads,
              ApproveCommits, ReviewFails, UpdateSubscription, ServerRestarts
<1> QED BY <1>1, <1>2, <1>3 DEF ImNext

LEMMA CopiesStep == ASSUME ImInv, ImNext PROVE CopiesBounded'
<1> USE DEF ImInv
<1> SUFFICES ASSUME NEW m \in Messages PROVE copies'[m] <= Cardinality(Storers(m)')
  BY DEF CopiesBounded
<1>0. /\ IsFiniteSet(Storers(m)) /\ IsFiniteSet(Storers(m)')
      /\ Cardinality(Storers(m)) \in Nat /\ Cardinality(Storers(m)') \in Nat
  <2>1. IsFiniteSet(Storers(m)) /\ Cardinality(Storers(m)) \in Nat
    BY StorersFinite
  <2>2. Storers(m)' \in SUBSET Deliveries
    BY DEF Storers
  <2>3. IsFiniteSet(Storers(m)')
    BY <2>2, FS_Subset, ImInboundAssumption
  <2> QED BY <2>1, <2>3, FS_CardinalityType
<1>1. Storers(m) \in SUBSET Storers(m)'
  BY RunFunctionsStay DEF Storers
<1>2. copies[m] \in Nat /\ copies[m] <= Cardinality(Storers(m))
  BY DEF CopiesBounded, ImCore, ImTypes
<1>3. Cardinality(Storers(m)) <= Cardinality(Storers(m)')
  BY <1>0, <1>1, FS_Subset
<1>4. CASE copies'[m] = copies[m]
  BY <1>0, <1>2, <1>3, <1>4
<1>5. CASE copies'[m] # copies[m]
  <2>1. PICK d \in Deliveries :
          /\ fn[d] = "running" /\ fn'[d] \in {"ok", "error"}
          /\ delivery' = delivery /\ delivery[d].msg \in Messages
          /\ copies' = [copies EXCEPT ![delivery[d].msg] = @ + 1]
    BY <1>5, CopiesAdded
  <2>2. delivery[d].msg = m /\ copies'[m] = copies[m] + 1
    BY <1>5, <2>1 DEF ImCore, ImTypes
  <2>3. d \notin Storers(m) /\ d \in Storers(m)'
    BY <2>1, <2>2 DEF Storers
  <2>4. Cardinality(Storers(m) \cup {d}) = Cardinality(Storers(m)) + 1
        /\ IsFiniteSet(Storers(m) \cup {d})
    BY <1>0, <2>3, FS_AddElement
  <2>5. Storers(m) \cup {d} \in SUBSET Storers(m)'
    BY <1>1, <2>3
  <2>6. Cardinality(Storers(m) \cup {d}) <= Cardinality(Storers(m)')
    BY <1>0, <2>5, FS_Subset
  <2> QED BY <1>0, <1>2, <2>2, <2>4, <2>6
<1> QED BY <1>4, <1>5

LEMMA ImStep == ImInv /\ [ImNext]_imVars => ImInv'
<1> SUFFICES ASSUME ImInv, [ImNext]_imVars PROVE ImInv'
  OBVIOUS
<1>1. CASE UNCHANGED imVars
  <2>1. ImTypes' /\ HandlersHaveWork'
    BY <1>1 DEF imVars, ImInv, ImCore, ImTypes, HandlersHaveWork
  <2>2. GrantedWhileSubscribed'
    BY <1>1 DEF imVars, ImInv, ImCore, GrantedWhileSubscribed, Working, Guarded, MessageOf
  <2>3. MarkedOnce' /\ SeenIsHandled'
    BY <1>1 DEF imVars, ImInv, ImCore, MarkedOnce, SeenIsHandled, MayStore, MessageOf
  <2>4. CopiesBounded'
    BY <1>1 DEF imVars, ImInv, CopiesBounded, Storers
  <2> QED BY <2>1, <2>2, <2>3, <2>4 DEF ImInv, ImCore
<1>2. CASE ImNext
  <2>1. ImCore'
    BY <1>2, DeliverStep, ResolveStep, CallReturnStep, FnStep, PruneStep, RestartStep,
       ReviewStep DEF ImNext, ImInv
  <2> QED BY <1>2, <2>1, CopiesStep DEF ImInv
<1> QED BY <1>1, <1>2

LEMMA ImConclusions ==
    ImInv => ImTypeOK /\ OnlySubscribedChats /\ NothingSwallowed /\ StoredOnce
<1> SUFFICES ASSUME ImInv PROVE ImTypeOK /\ OnlySubscribedChats /\ NothingSwallowed /\ StoredOnce
  OBVIOUS
<1> USE DEF ImInv, ImCore
<1>1. copies \in [Messages -> 0 .. Cardinality(Deliveries)]
  <2>1. Cardinality(Deliveries) \in Nat
    BY ImInboundAssumption, FS_CardinalityType
  <2>2. \A m \in Messages : copies[m] \in 0 .. Cardinality(Deliveries)
    BY <2>1, StorersFinite DEF CopiesBounded, ImTypes
  <2> QED BY <2>2 DEF ImTypes
<1>2. ImTypeOK
  BY <1>1 DEF ImTypes, ImTypeOK, DeliveryRecords, ReviewerRecords
<1>3. OnlySubscribedChats
  BY DEF OnlySubscribedChats, GrantedWhileSubscribed
<1>4. NothingSwallowed
  BY DEF NothingSwallowed, SeenIsHandled, Working
<1>5. StoredOnce
  BY DEF StoredOnce, MarkedOnce
<1> QED BY <1>2, <1>3, <1>4, <1>5

LEMMA ImInvariant == ImSpec => []ImInv
  BY ImInitial, ImStep, PTL DEF ImSpec

(* A message reaches the guarded chat's channel only if a reviewer approved a *)
(* request and the chat was subscribed at some moment of the call, however    *)
(* deliveries, reviews and edits interleave (resolveChatPolicy).              *)
THEOREM SubscriptionIsRequired == ImSpec => []OnlySubscribedChats
  BY ImInvariant, ImConclusions, PTL

(* A mark never swallows a text that is neither handled, stored nor refused   *)
(* (DedupeCache.Forget on every failing path of Coordinator.Handle).          *)
THEOREM MarksSwallowNothing == ImSpec => []NothingSwallowed
  BY ImInvariant, ImConclusions, PTL

(* A message whose mark was not dropped is stored at most once, for any       *)
(* number of overlapping deliveries (DedupeCache.MarkSeen).                   *)
THEOREM MarkedIsStoredOnce == ImSpec => []StoredOnce
  BY ImInvariant, ImConclusions, PTL

-----------------------------------------------------------------------------
(* The four parts together *)

ConsoleInv == IdempotencyInv /\ DecisionInv /\ TunnelRecordInv /\ ImInv

LEMMA ConsoleInvariant == ConsoleSpec => []ConsoleInv
<1>1. ConsoleInit => ConsoleInv
  BY IdempotencyInit, DecisionInitial, TunnelRecordInitial, ImInitial
     DEF ConsoleInit, ConsoleInv
<1>2. ConsoleInv /\ [ConsoleNext]_consoleVars => ConsoleInv'
  <2> SUFFICES ASSUME ConsoleInv, [ConsoleNext]_consoleVars PROVE ConsoleInv'
    OBVIOUS
  <2>1. /\ [Next]_vars /\ [DecisionNext]_decisionVars
        /\ [TunnelRecordNext]_tunnelRecordVars /\ [ImNext]_imVars
    BY DEF ConsoleNext, consoleVars
  <2> QED BY <2>1, IdempotencyStep, DecisionStep, TunnelRecordStep, ImStep DEF ConsoleInv
<1> QED BY <1>1, <1>2, PTL DEF ConsoleSpec

(* Whatever handlers of the four parts interleave in the server, statuses,    *)
(* counts and handler states stay ones the code knows.                        *)
THEOREM ConsoleTypes == ConsoleSpec => []ConsoleTypeOK
<1>1. ConsoleInv => ConsoleTypeOK
  BY DecisionConclusion, ImConclusions
     DEF ConsoleInv, ConsoleTypeOK, IdempotencyInv, TunnelRecordInv
<1> QED BY <1>1, ConsoleInvariant, PTL

(* No part disturbs another: the guarantees of all four hold of the server    *)
(* that runs them side by side.                                               *)
THEOREM ConsoleSafety ==
    ConsoleSpec => [](/\ OnceUntilRecorded /\ CompletedIsReplayed /\ ReplayIsReal
                      /\ VotesDecide /\ DisconnectEndsTunnels
                      /\ OnlySubscribedChats /\ NothingSwallowed /\ StoredOnce)
<1>1. ConsoleInv => /\ OnceUntilRecorded /\ CompletedIsReplayed /\ ReplayIsReal
                    /\ VotesDecide /\ DisconnectEndsTunnels
                    /\ OnlySubscribedChats /\ NothingSwallowed /\ StoredOnce
  BY IdempotencyConclusions, DecisionConclusion, TunnelRecordConclusion, ImConclusions
     DEF ConsoleInv
<1> QED BY <1>1, ConsoleInvariant, PTL

=============================================================================
