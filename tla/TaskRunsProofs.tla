--------------------------- MODULE TaskRunsProofs ---------------------------
(***************************************************************************)
(* Proofs about module TaskRuns, for any sets of tasks, agents, claims,    *)
(* reports and edits and any number of faults.                             *)
(*                                                                         *)
(* None of the safety properties is inductive: each talks about rows and   *)
(* runs, and what a handler does to them next depends on what it has read. *)
(* TaskRunsInv says what the handlers under way hold.                      *)
(***************************************************************************)
EXTENDS TaskRuns, FiniteSetTheorems, TLAPS

-----------------------------------------------------------------------------
(* The inductive invariant *)

(* A claim names its run from the moment it has one. *)
RunIsNamed ==
    \A c \in Claims :
        /\ claim[c].at \in {"read", "promote", "ensure"} => claim[c].run = NoRun
        /\ claim[c].at \in {"lookup", "record"} => claim[c].run \in Claims

(* A run in memory was made by the claim it is named after, for its agent.   *)
RunsComeFromClaims ==
    \A r \in Claims :
        runs[r] # NoRun =>
            /\ claim[r].at \in {"lookup", "record", "announce", "done", "failed"}
            /\ claim[r].run = r
            /\ claim[r].agent # Nobody => runs[r].agent = claim[r].agent

(* What names a run acts for the agent the run was claimed for, if it was    *)
(* claimed for one.                                                          *)
Held(r) == claim[r].at \notin {"new", "rejected"}
ActsFor(agent, r) == Held(r) /\ (claim[r].agent # Nobody => agent = claim[r].agent)

AttemptKeepsAgent ==
    \A t \in Tasks : attempt[t] # NoAttempt => ActsFor(attempt[t].agent, attempt[t].run)
ClaimKeepsAgent ==
    \A c \in Claims : claim[c].at \in {"lookup", "record"}
                         => ActsFor(claim[c].agent, claim[c].run)
ReportKeepsAgent ==
    \A p \in Reports : report[p].at \in ReportOpen => ActsFor(report[p].agent, report[p].run)

(* Only a terminal report goes on to the task. *)
TaskFollowsTerminal ==
    \A p \in Reports : report[p].at = "task" => report[p].state \in Terminal

(* A task without a row has no owner. *)
UncreatedIsUnowned ==
    \A t \in Tasks : task[t].version = 0 => task[t].assignee = Nobody /\ t \notin reassigned

(* Until a user reassigns the task, the handlers that act for an agent act   *)
(* for its assignee.                                                         *)
HandlersActForOwner ==
    \A t \in Tasks \ reassigned :
        /\ \A c \in Claims :
              claim[c].at \in ClaimOpen /\ claim[c].task = t /\ claim[c].agent # Nobody
                => claim[c].agent = task[t].assignee
        /\ \A p \in Reports :
              /\ report[p].at \in ReportOpen /\ report[p].task = t
              /\ claim[report[p].run].agent # Nobody
              => report[p].agent = task[t].assignee

(* Two live runs claimed for one task and agent are the same run. *)
OwnLive(r) ==
    runs[r] # NoRun /\ runs[r].agent = claim[r].agent /\ runs[r].state \notin Terminal
LiveRunIsUnique ==
    \A q, r \in Claims \ reopened :
        /\ OwnLive(q) /\ OwnLive(r)
        /\ runs[q].task = runs[r].task /\ runs[q].task \in Tasks
        /\ runs[q].agent = runs[r].agent
        => q = r

(* The handlers that are going to announce the task's present version. *)
ClaimWillAnnounce(c, t) ==
    /\ claim[c].at \in ClaimOpen /\ claim[c].task = t
    /\ claim[c].at \in {"read", "promote"} \/ claim[c].version = task[t].version
ReportWillAnnounce(p, t) ==
    report[p].at = "announce" /\ report[p].task = t /\ report[p].version = task[t].version
EditWillAnnounce(e, t) ==
    edit[e].at = "announce" /\ edit[e].task = t /\ edit[e].version = task[t].version

AnnouncedOrPending ==
    \A t \in Tasks \ faulty :
        task[t].version > 0 =>
            \/ task[t].version \in announced[t]
            \/ \E c \in Claims : ClaimWillAnnounce(c, t)
            \/ \E p \in Reports : ReportWillAnnounce(p, t)
            \/ \E e \in Edits : EditWillAnnounce(e, t)

TaskRunsInv ==
    /\ TypeOK
    /\ RunIsNamed
    /\ TaskFollowsTerminal
    /\ RunsComeFromClaims
    /\ AttemptKeepsAgent /\ ClaimKeepsAgent /\ ReportKeepsAgent
    /\ UncreatedIsUnowned
    /\ HandlersActForOwner
    /\ SingleOwner
    /\ LiveRunIsUnique
    /\ AnnouncedOrPending

-----------------------------------------------------------------------------
(* Shapes of the records *)

(* A handler's record has the fields its place in the code calls for. *)
LEMMA HandlerShapes ==
    ASSUME TypeOK
    PROVE  /\ \A c \in Claims :
                /\ claim[c].at \in {"new", "rejected", "done", "failed"} \cup ClaimOpen
                /\ claim[c].at \in ClaimOpen => claim[c] \in OpenClaims
                /\ claim[c].at \in {"done", "failed"} => claim[c] \in EndedClaims
           /\ \A p \in Reports :
                /\ report[p].at \in {"new", "done", "failed"} \cup ReportOpen
                /\ report[p].at \in ReportOpen => report[p] \in OpenReports
           /\ \A e \in Edits :
                /\ edit[e].at \in {"new", "done", "failed", "announce"}
                /\ edit[e].at = "announce" => edit[e] \in OpenEdits
<1>1. ASSUME NEW c \in Claims
      PROVE  /\ claim[c].at \in {"new", "rejected", "done", "failed"} \cup ClaimOpen
             /\ claim[c].at \in ClaimOpen => claim[c] \in OpenClaims
             /\ claim[c].at \in {"done", "failed"} => claim[c] \in EndedClaims
  BY DEF TypeOK, ClaimOpen, OpenClaims, EndedClaims
<1>2. ASSUME NEW p \in Reports
      PROVE  /\ report[p].at \in {"new", "done", "failed"} \cup ReportOpen
             /\ report[p].at \in ReportOpen => report[p] \in OpenReports
  BY DEF TypeOK, ReportOpen, OpenReports
<1>3. ASSUME NEW e \in Edits
      PROVE  /\ edit[e].at \in {"new", "done", "failed", "announce"}
             /\ edit[e].at = "announce" => edit[e] \in OpenEdits
  BY DEF TypeOK, OpenEdits
<1> QED BY <1>1, <1>2, <1>3

(* Store.UpdateTask with a state: the row keeps its owner. *)
LEMMA PatchedState ==
    ASSUME TypeOK, NEW t \in Tasks, NEW s \in TaskStates
    PROVE  /\ Patched(t, "state", s) \in TaskRows
           /\ Patched(t, "state", s).version = task[t].version + 1
           /\ Patched(t, "state", s).assignee = task[t].assignee
<1> DEFINE row == task[t]
           moved == [row EXCEPT !["state"] = s]
<1>1. row \in TaskRows
  BY DEF TypeOK
<1>2. moved \in TaskRows /\ moved.version = row.version /\ moved.assignee = row.assignee
  BY <1>1 DEF TaskRows
<1>3. Patched(t, "state", s) = [moved EXCEPT !.version = @ + 1]
  BY DEF Patched
<1> HIDE DEF moved, row
<1>4. [moved EXCEPT !.version = @ + 1] \in TaskRows
  BY <1>2 DEF TaskRows
<1>5. /\ [moved EXCEPT !.version = @ + 1].version = row.version + 1
      /\ [moved EXCEPT !.version = @ + 1].assignee = row.assignee
  BY <1>2 DEF TaskRows
<1> QED BY <1>3, <1>4, <1>5 DEF row

LEMMA PatchedAssignee ==
    ASSUME TypeOK, NEW t \in Tasks, NEW a \in Claimants
    PROVE  /\ Patched(t, "assignee", a) \in TaskRows
           /\ Patched(t, "assignee", a).version = task[t].version + 1
           /\ Patched(t, "assignee", a).assignee = a
<1> DEFINE row == task[t]
           moved == [row EXCEPT !["assignee"] = a]
<1>1. row \in TaskRows
  BY DEF TypeOK
<1>2. moved \in TaskRows /\ moved.version = row.version /\ moved.assignee = a
  BY <1>1 DEF TaskRows
<1>3. Patched(t, "assignee", a) = [moved EXCEPT !.version = @ + 1]
  BY DEF Patched
<1> HIDE DEF moved, row
<1>4. [moved EXCEPT !.version = @ + 1] \in TaskRows
  BY <1>2 DEF TaskRows
<1>5. /\ [moved EXCEPT !.version = @ + 1].version = row.version + 1
      /\ [moved EXCEPT !.version = @ + 1].assignee = a
  BY <1>2 DEF TaskRows
<1> QED BY <1>3, <1>4, <1>5 DEF row

(* A claim that ends keeps its agent and its run. *)
LEMMA EndedClaim ==
    ASSUME NEW h \in OpenClaims, NEW how \in {"done", "failed"}
    PROVE  /\ Ended(h, how) \in EndedClaims
           /\ Ended(h, how).at = how /\ Ended(h, how).agent = h.agent
           /\ Ended(h, how).run = h.run
  BY DEF Ended, OpenClaims, EndedClaims

LEMMA ReportedStates ==
    /\ \A s \in RunStates : AttemptStatus(s) \in
         {"claimed", "running", "completed", "failed", "canceled"}
    /\ \A s \in Terminal : TaskStateAfter(s) \in TaskStates
    /\ Terminal \subseteq RunStates
  BY DEF AttemptStatus, TaskStateAfter, RunStates, Terminal, TaskStates

(* The row after ClaimTaskCAS. *)
LEMMA ClaimedRow ==
    ASSUME NEW row \in TaskRows, NEW a \in Claimants, NEW c \in Claims
    PROVE  LET new == [row EXCEPT !.assignee = a, !.lease = c, !.version = @ + 1]
           IN new \in TaskRows /\ new.assignee = a /\ new.version = row.version + 1
<1> DEFINE owned == [row EXCEPT !.assignee = a]
           leased == [owned EXCEPT !.lease = c]
<1>1. owned \in TaskRows /\ owned.assignee = a /\ owned.version = row.version
  BY DEF TaskRows
<1> HIDE DEF owned
<1>2. leased \in TaskRows /\ leased.assignee = a /\ leased.version = row.version
  BY <1>1 DEF TaskRows
<1> HIDE DEF leased
<1>3. [leased EXCEPT !.version = @ + 1] \in TaskRows
  BY <1>2 DEF TaskRows
<1>4. /\ [leased EXCEPT !.version = @ + 1].assignee = a
      /\ [leased EXCEPT !.version = @ + 1].version = row.version + 1
  BY <1>2 DEF TaskRows
<1> QED BY <1>3, <1>4 DEF owned, leased

(* A handler that moves on and sets one more field keeps the others. *)
Moved(h, w) == [h EXCEPT !.at = w]
MovedVersion(h, w, v) == [h EXCEPT !.at = w, !.version = v]
MovedRun(h, w, r) == [h EXCEPT !.at = w, !.run = r]
MovedFresh(h, w, b) == [h EXCEPT !.at = w, !.fresh = b]

LEMMA MovedClaim ==
    ASSUME NEW h \in OpenClaims, NEW w \in ClaimOpen
    PROVE  LET m == Moved(h, w) IN
           /\ m \in OpenClaims /\ m.at = w /\ m.task = h.task /\ m.agent = h.agent
           /\ m.version = h.version /\ m.run = h.run /\ m.owner = h.owner
  BY DEF Moved, OpenClaims

LEMMA MovedClaimVersion ==
    ASSUME NEW h \in OpenClaims, NEW w \in ClaimOpen, NEW v \in Nat
    PROVE  LET m == MovedVersion(h, w, v) IN
           /\ m \in OpenClaims /\ m.at = w /\ m.task = h.task /\ m.agent = h.agent
           /\ m.version = v /\ m.run = h.run
<1> DEFINE g == [h EXCEPT !.at = w]
<1>1. g \in OpenClaims /\ g.at = w /\ g.task = h.task /\ g.agent = h.agent /\ g.run = h.run
  BY MovedClaim DEF Moved
<1> HIDE DEF g
<1>2. [g EXCEPT !.version = v] \in OpenClaims
  BY <1>1 DEF OpenClaims
<1>3. LET m == [g EXCEPT !.version = v] IN
      m.at = w /\ m.task = h.task /\ m.agent = h.agent /\ m.version = v /\ m.run = h.run
  BY <1>1 DEF OpenClaims
<1> QED BY <1>2, <1>3 DEF g, MovedVersion

LEMMA MovedClaimRun ==
    ASSUME NEW h \in OpenClaims, NEW w \in ClaimOpen, NEW r \in Claims
    PROVE  LET m == MovedRun(h, w, r) IN
           /\ m \in OpenClaims /\ m.at = w /\ m.task = h.task /\ m.agent = h.agent
           /\ m.version = h.version /\ m.run = r
<1> DEFINE g == [h EXCEPT !.at = w]
<1>1. /\ g \in OpenClaims /\ g.at = w /\ g.task = h.task /\ g.agent = h.agent
      /\ g.version = h.version
  BY MovedClaim DEF Moved
<1> HIDE DEF g
<1>2. [g EXCEPT !.run = r] \in OpenClaims
  BY <1>1 DEF OpenClaims
<1>3. LET m == [g EXCEPT !.run = r] IN
      m.at = w /\ m.task = h.task /\ m.agent = h.agent /\ m.version = h.version /\ m.run = r
  BY <1>1 DEF OpenClaims
<1> QED BY <1>2, <1>3 DEF g, MovedRun

LEMMA MovedClaimFresh ==
    ASSUME NEW h \in OpenClaims, NEW w \in ClaimOpen, NEW b \in BOOLEAN
    PROVE  LET m == MovedFresh(h, w, b) IN
           /\ m \in OpenClaims /\ m.at = w /\ m.task = h.task /\ m.agent = h.agent
           /\ m.version = h.version /\ m.run = h.run
<1> DEFINE g == [h EXCEPT !.at = w]
<1>1. /\ g \in OpenClaims /\ g.at = w /\ g.task = h.task /\ g.agent = h.agent
      /\ g.version = h.version /\ g.run = h.run
  BY MovedClaim DEF Moved
<1> HIDE DEF g
<1>2. [g EXCEPT !.fresh = b] \in OpenClaims
  BY <1>1 DEF OpenClaims
<1>3. LET m == [g EXCEPT !.fresh = b] IN
      m.at = w /\ m.task = h.task /\ m.agent = h.agent /\ m.version = h.version /\ m.run = h.run
  BY <1>1 DEF OpenClaims
<1> QED BY <1>2, <1>3 DEF g, MovedFresh

LEMMA MovedReport ==
    ASSUME NEW h \in OpenReports, NEW w \in ReportOpen
    PROVE  LET m == Moved(h, w) IN
           /\ m \in OpenReports /\ m.at = w /\ m.task = h.task /\ m.agent = h.agent
           /\ m.state = h.state /\ m.run = h.run
  BY DEF Moved, OpenReports

LEMMA MovedReportVersion ==
    ASSUME NEW h \in OpenReports, NEW w \in ReportOpen, NEW v \in Nat
    PROVE  LET m == MovedVersion(h, w, v) IN
           /\ m \in OpenReports /\ m.at = w /\ m.task = h.task /\ m.agent = h.agent
           /\ m.state = h.state /\ m.version = v /\ m.run = h.run
<1> DEFINE g == [h EXCEPT !.at = w]
<1>1. /\ g \in OpenReports /\ g.at = w /\ g.task = h.task /\ g.agent = h.agent
      /\ g.state = h.state /\ g.run = h.run
  BY MovedReport DEF Moved
<1> HIDE DEF g
<1>2. [g EXCEPT !.version = v] \in OpenReports
  BY <1>1 DEF OpenReports
<1>3. LET m == [g EXCEPT !.version = v] IN
      /\ m.at = w /\ m.task = h.task /\ m.agent = h.agent /\ m.state = h.state
      /\ m.version = v /\ m.run = h.run
  BY <1>1 DEF OpenReports
<1> QED BY <1>2, <1>3 DEF g, MovedVersion

LEMMA MovedReportFresh ==
    ASSUME NEW h \in OpenReports, NEW w \in ReportOpen, NEW b \in BOOLEAN
    PROVE  LET m == MovedFresh(h, w, b) IN
           /\ m \in OpenReports /\ m.at = w /\ m.task = h.task /\ m.agent = h.agent
           /\ m.state = h.state /\ m.run = h.run
<1> DEFINE g == [h EXCEPT !.at = w]
<1>1. /\ g \in OpenReports /\ g.at = w /\ g.task = h.task /\ g.agent = h.agent
      /\ g.state = h.state /\ g.run = h.run
  BY MovedReport DEF Moved
<1> HIDE DEF g
<1>2. [g EXCEPT !.fresh = b] \in OpenReports
  BY <1>1 DEF OpenReports
<1>3. LET m == [g EXCEPT !.fresh = b] IN
      /\ m.at = w /\ m.task = h.task /\ m.agent = h.agent /\ m.state = h.state
      /\ m.run = h.run
  BY <1>1 DEF OpenReports
<1> QED BY <1>2, <1>3 DEF g, MovedFresh

-----------------------------------------------------------------------------
(* The invariant holds initially and every step keeps it *)

LEMMA TaskRunsInit == Init => TaskRunsInv
<1> SUFFICES ASSUME Init PROVE TaskRunsInv
  OBVIOUS
<1> USE TaskRunsAssumption
<1>1. TypeOK
  BY DEF Init, TypeOK, TaskRows, TaskStates, Claimants
<1>2. RunIsNamed /\ TaskFollowsTerminal /\ RunsComeFromClaims
  BY DEF Init, RunIsNamed, TaskFollowsTerminal, RunsComeFromClaims
<1>5. AttemptKeepsAgent /\ ClaimKeepsAgent /\ ReportKeepsAgent
  BY DEF Init, AttemptKeepsAgent, ClaimKeepsAgent, ReportKeepsAgent, ReportOpen
<1>3. UncreatedIsUnowned /\ HandlersActForOwner /\ SingleOwner
  BY DEF Init, UncreatedIsUnowned, HandlersActForOwner, SingleOwner, ClaimOpen, ReportOpen
<1>4. LiveRunIsUnique /\ AnnouncedOrPending
  BY DEF Init, LiveRunIsUnique, OwnLive, AnnouncedOrPending
<1> QED BY <1>1, <1>2, <1>3, <1>4, <1>5 DEF TaskRunsInv

(* A task that has no row yet, or no owner, has no handler, run or attempt   *)
(* that acts for an agent.                                                   *)
LEMMA UnownedIsIdle ==
    ASSUME TaskRunsInv, NEW t \in Tasks \ reassigned, task[t].assignee = Nobody
    PROVE  /\ \A c \in Claims : claim[c].at \in ClaimOpen /\ claim[c].task = t
                                    => claim[c].agent = Nobody
           /\ \A p \in Reports : report[p].at \in ReportOpen /\ report[p].task = t
                                    => claim[report[p].run].agent = Nobody
           /\ \A c \in Claims : runs[c] # NoRun /\ runs[c].task = t
                                    => claim[c].agent = Nobody
           /\ attempt[t] # NoAttempt => claim[attempt[t].run].agent = Nobody
<1>1. \A c \in Claims : claim[c].at \in ClaimOpen /\ claim[c].task = t
                           => claim[c].agent = Nobody
  BY DEF TaskRunsInv, HandlersActForOwner
<1>2. \A p \in Reports : report[p].at \in ReportOpen /\ report[p].task = t
                           => claim[report[p].run].agent = Nobody
  BY DEF TaskRunsInv, HandlersActForOwner, ReportKeepsAgent, ActsFor
<1>3. \A c \in Claims : runs[c] # NoRun /\ runs[c].task = t => claim[c].agent = Nobody
  BY DEF TaskRunsInv, SingleOwner, RunsComeFromClaims
<1>4. attempt[t] # NoAttempt => claim[attempt[t].run].agent = Nobody
  BY DEF TaskRunsInv, SingleOwner, AttemptKeepsAgent, ActsFor
<1> QED BY <1>1, <1>2, <1>3, <1>4

(* Steps that make no new run, row or handler: a claim once accepted keeps   *)
(* its agent, so what acts for an agent goes on doing so.                    *)
ClaimantsStay ==
    \A d \in Claims : Held(d) => claim'[d].at \notin {"new", "rejected"}
                                /\ claim'[d].agent = claim[d].agent

LEMMA RunsStay ==
    ASSUME TaskRunsInv, ClaimantsStay, UNCHANGED <<attempt, runs, reopened>>
    PROVE  /\ AttemptKeepsAgent' /\ LiveRunIsUnique'
           /\ \A r \in Claims : runs[r] # NoRun => claim'[r].agent = claim[r].agent
           /\ \A t \in Tasks : attempt[t] # NoAttempt =>
                claim'[attempt[t].run].agent = claim[attempt[t].run].agent
<1>1. \A r \in Claims : runs[r] # NoRun => claim'[r].agent = claim[r].agent
  BY DEF TaskRunsInv, RunsComeFromClaims, ClaimantsStay, Held
<1>2. ASSUME NEW t \in Tasks, attempt[t] # NoAttempt
      PROVE  /\ claim'[attempt[t].run].agent = claim[attempt[t].run].agent
             /\ ActsFor(attempt[t].agent, attempt[t].run)'
  <2>1. attempt[t].run \in Claims /\ ActsFor(attempt[t].agent, attempt[t].run)
    BY <1>2 DEF TaskRunsInv, TypeOK, AttemptRows, AttemptKeepsAgent
  <2> QED BY <2>1 DEF ClaimantsStay, ActsFor, Held
<1>3. AttemptKeepsAgent'
  BY <1>2 DEF AttemptKeepsAgent
<1>4. LiveRunIsUnique'
  <2>1. \A r \in Claims : OwnLive(r)' => OwnLive(r)
    BY <1>1 DEF OwnLive
  <2> QED BY <2>1 DEF TaskRunsInv, LiveRunIsUnique
<1> QED BY <1>1, <1>2, <1>3, <1>4

(* So the ownership of runs and rows stays too, where the assignee does. *)
LEMMA OwnershipStays ==
    ASSUME TaskRunsInv, ClaimantsStay, UNCHANGED <<attempt, runs, reassigned, reopened>>,
           \A t \in Tasks \ reassigned : task'[t].assignee = task[t].assignee
    PROVE  AttemptKeepsAgent' /\ LiveRunIsUnique' /\ SingleOwner'
<1>1. SingleOwner'
  BY RunsStay DEF TaskRunsInv, SingleOwner
<1> QED BY <1>1, RunsStay

(* The same for the reports under way. *)
LEMMA ReportsStay ==
    ASSUME TaskRunsInv, ClaimantsStay, UNCHANGED <<report>>
    PROVE  /\ ReportKeepsAgent'
           /\ \A p \in Reports : report[p].at \in ReportOpen
                => claim'[report[p].run].agent = claim[report[p].run].agent
<1> SUFFICES ASSUME NEW p \in Reports, report[p].at \in ReportOpen
             PROVE  /\ ActsFor(report[p].agent, report[p].run)'
                    /\ claim'[report[p].run].agent = claim[report[p].run].agent
  BY DEF ReportKeepsAgent
<1>1. report[p].run \in Claims /\ ActsFor(report[p].agent, report[p].run)
  BY HandlerShapes DEF TaskRunsInv, OpenReports, ReportKeepsAgent
<1> QED BY <1>1 DEF ClaimantsStay, ActsFor, Held

LEMMA CreateTaskStep ==
    ASSUME TaskRunsInv, NEW e \in Edits, NEW t \in Tasks, CreateTask(e, t)
    PROVE  TaskRunsInv'
<1> USE TaskRunsAssumption
<1>1. PICK s \in TaskStates, a \in Claimants :
        task' = [task EXCEPT ![t] = [state |-> s, assignee |-> a,
                                     lease |-> NoRun, version |-> 1]]
  BY DEF CreateTask, TaskStates
<1> DEFINE h == [at |-> "announce", task |-> t, version |-> 1]
<1>2. /\ edit' = [edit EXCEPT ![e] = h] /\ edit[e].at = "new" /\ task[t].version = 0
      /\ UNCHANGED <<attempt, announced, runs, leases, claim, report, reassigned,
                     reopened, faulty, faults>>
  BY DEF CreateTask, memVars, history
<1>3. h \in OpenEdits /\ [state |-> s, assignee |-> a, lease |-> NoRun, version |-> 1] \in TaskRows
  BY DEF OpenEdits, TaskRows
<1>4. /\ task'[t].version = 1 /\ \A u \in Tasks \ {t} : task'[u] = task[u]
      /\ edit'[e] = h /\ \A f \in Edits \ {e} : edit'[f] = edit[f]
  BY <1>1, <1>2 DEF TaskRunsInv, TypeOK
<1>5. t \notin reassigned /\ task[t].assignee = Nobody
  BY <1>2 DEF TaskRunsInv, UncreatedIsUnowned
<1>6. TypeOK'
  BY <1>1, <1>2, <1>3 DEF TaskRunsInv, TypeOK
<1>7. RunIsNamed' /\ TaskFollowsTerminal' /\ RunsComeFromClaims' /\ LiveRunIsUnique'
  BY <1>2 DEF TaskRunsInv, RunIsNamed, TaskFollowsTerminal, RunsComeFromClaims, LiveRunIsUnique, OwnLive
<1>8. UncreatedIsUnowned'
  BY <1>2, <1>4 DEF TaskRunsInv, UncreatedIsUnowned
<1>9. HandlersActForOwner' /\ SingleOwner'
  BY <1>2, <1>4, <1>5, UnownedIsIdle DEF TaskRunsInv, HandlersActForOwner, SingleOwner
<1>10. AnnouncedOrPending'
  <2> SUFFICES ASSUME NEW u \in Tasks \ faulty', task'[u].version > 0
               PROVE  \/ task'[u].version \in announced'[u]
                      \/ \E c \in Claims : ClaimWillAnnounce(c, u)'
                      \/ \E p \in Reports : ReportWillAnnounce(p, u)'
                      \/ \E f \in Edits : EditWillAnnounce(f, u)'
    BY DEF AnnouncedOrPending
  <2>1. CASE u = t
    BY <2>1, <1>4 DEF EditWillAnnounce
  <2>2. CASE u # t
    BY <2>2, <1>2, <1>4 DEF TaskRunsInv, AnnouncedOrPending, ClaimWillAnnounce,
                            ReportWillAnnounce, EditWillAnnounce
  <2> QED BY <2>1, <2>2
<1>11. AttemptKeepsAgent' /\ ClaimKeepsAgent' /\ ReportKeepsAgent'
  BY <1>2
     DEF TaskRunsInv, AttemptKeepsAgent, ClaimKeepsAgent, ReportKeepsAgent, ActsFor, Held
<1> QED BY <1>6, <1>7, <1>8, <1>9, <1>10, <1>11 DEF TaskRunsInv

LEMMA PatchTaskStep ==
    ASSUME TaskRunsInv, NEW e \in Edits, NEW t \in Tasks,
           PatchState(e, t) \/ PatchAssignee(e, t)
    PROVE  TaskRunsInv'
<1> USE TaskRunsAssumption
<1>1. PICK row \in TaskRows :
        /\ task' = [task EXCEPT ![t] = row]
        /\ row.version = task[t].version + 1
        /\ \/ row.assignee = task[t].assignee /\ reassigned' = reassigned
           \/ reassigned' = reassigned \cup {t}
  <2>1. CASE PatchState(e, t)
    <3>1. PICK s \in TaskStates : task' = [task EXCEPT ![t] = Patched(t, "state", s)]
      BY <2>1 DEF PatchState
    <3>2. reassigned' = reassigned
      BY <2>1 DEF PatchState, history
    <3> QED BY <3>1, <3>2, PatchedState DEF TaskRunsInv
  <2>2. CASE PatchAssignee(e, t)
    <3>1. PICK a \in Claimants : task' = [task EXCEPT ![t] = Patched(t, "assignee", a)]
      BY <2>2 DEF PatchAssignee
    <3>2. reassigned' = reassigned \cup {t}
      BY <2>2 DEF PatchAssignee
    <3> QED BY <3>1, <3>2, PatchedAssignee DEF TaskRunsInv
  <2> QED BY <2>1, <2>2
<1> DEFINE h == [at |-> "announce", task |-> t, version |-> task'[t].version]
<1>2. /\ edit' = [edit EXCEPT ![e] = h] /\ edit[e].at = "new" /\ task[t].version > 0
      /\ UNCHANGED <<attempt, announced, runs, leases, claim, report,
                     reopened, faulty, faults>>
  BY DEF PatchState, PatchAssignee, memVars, history
<1>3. /\ task'[t] = row /\ \A u \in Tasks \ {t} : task'[u] = task[u]
      /\ task[t].version \in Nat /\ row.version \in Nat
  BY <1>1 DEF TaskRunsInv, TypeOK, TaskRows
<1>4. h \in OpenEdits /\ h.at = "announce" /\ h.task = t /\ h.version = row.version
  BY <1>3 DEF OpenEdits
<1> HIDE DEF h
<1>5. edit'[e] = h /\ \A f \in Edits \ {e} : edit'[f] = edit[f]
  BY <1>2 DEF TaskRunsInv, TypeOK
<1>6. TypeOK'
  BY <1>1, <1>2, <1>4 DEF TaskRunsInv, TypeOK
<1>7. RunIsNamed' /\ TaskFollowsTerminal' /\ RunsComeFromClaims' /\ LiveRunIsUnique'
  BY <1>2 DEF TaskRunsInv, RunIsNamed, TaskFollowsTerminal, RunsComeFromClaims, LiveRunIsUnique, OwnLive
<1>8. UncreatedIsUnowned'
  BY <1>1, <1>3 DEF TaskRunsInv, UncreatedIsUnowned
<1>9. HandlersActForOwner' /\ SingleOwner'
  BY <1>1, <1>2, <1>3 DEF TaskRunsInv, HandlersActForOwner, SingleOwner
<1>10. AnnouncedOrPending'
  <2> SUFFICES ASSUME NEW u \in Tasks \ faulty', task'[u].version > 0
               PROVE  \/ task'[u].version \in announced'[u]
                      \/ \E c \in Claims : ClaimWillAnnounce(c, u)'
                      \/ \E p \in Reports : ReportWillAnnounce(p, u)'
                      \/ \E f \in Edits : EditWillAnnounce(f, u)'
    BY DEF AnnouncedOrPending
  <2>1. CASE u = t
    BY <2>1, <1>3, <1>4, <1>5 DEF EditWillAnnounce
  <2>2. CASE u # t
    BY <2>2, <1>2, <1>3, <1>5 DEF TaskRunsInv, AnnouncedOrPending, ClaimWillAnnounce,
                                  ReportWillAnnounce, EditWillAnnounce
  <2> QED BY <2>1, <2>2
<1>11. AttemptKeepsAgent' /\ ClaimKeepsAgent' /\ ReportKeepsAgent'
  BY <1>2
     DEF TaskRunsInv, AttemptKeepsAgent, ClaimKeepsAgent, ReportKeepsAgent, ActsFor, Held
<1> QED BY <1>6, <1>7, <1>8, <1>9, <1>10, <1>11 DEF TaskRunsInv

LEMMA AnnounceEditStep ==
    ASSUME TaskRunsInv, NEW e \in Edits, AnnounceEdit(e)
    PROVE  TaskRunsInv'
<1> DEFINE t == edit[e].task
<1>1. /\ edit' = [edit EXCEPT ![e] = [at |-> "done"]] /\ edit[e].at = "announce"
      /\ announced' = [announced EXCEPT ![t] = @ \cup {edit[e].version}]
      /\ UNCHANGED <<task, attempt, runs, leases, claim, report, reassigned,
                     reopened, faulty, faults>>
  BY DEF AnnounceEdit, Announce, memVars, history
<1>2. t \in Tasks /\ edit[e].version \in Nat
  BY <1>1, HandlerShapes DEF TaskRunsInv, OpenEdits
<1>3. /\ announced'[t] = announced[t] \cup {edit[e].version}
      /\ \A u \in Tasks \ {t} : announced'[u] = announced[u]
      /\ \A f \in Edits \ {e} : edit'[f] = edit[f]
  BY <1>1, <1>2 DEF TaskRunsInv, TypeOK
<1>4. TypeOK'
  BY <1>1, <1>2 DEF TaskRunsInv, TypeOK
<1>5. RunIsNamed' /\ TaskFollowsTerminal' /\ RunsComeFromClaims' /\ LiveRunIsUnique'
  BY <1>1 DEF TaskRunsInv, RunIsNamed, TaskFollowsTerminal, RunsComeFromClaims, LiveRunIsUnique, OwnLive
<1>6. UncreatedIsUnowned' /\ HandlersActForOwner' /\ SingleOwner'
  BY <1>1 DEF TaskRunsInv, UncreatedIsUnowned, HandlersActForOwner, SingleOwner
<1>7. AnnouncedOrPending'
  BY <1>1, <1>3 DEF TaskRunsInv, AnnouncedOrPending, ClaimWillAnnounce,
                    ReportWillAnnounce, EditWillAnnounce
<1>8. AttemptKeepsAgent' /\ ClaimKeepsAgent' /\ ReportKeepsAgent'
  BY <1>1
     DEF TaskRunsInv, AttemptKeepsAgent, ClaimKeepsAgent, ReportKeepsAgent, ActsFor, Held
<1> QED BY <1>4, <1>5, <1>6, <1>7, <1>8 DEF TaskRunsInv

LEMMA ClaimCASStep ==
    ASSUME TaskRunsInv, NEW c \in Claims, NEW t \in Tasks, NEW a \in Claimants,
           NEW owner \in BOOLEAN, ClaimCAS(c, t, a, owner)
    PROVE  TaskRunsInv'
<1> USE TaskRunsAssumption
<1>1. /\ claim[c].at = "new" /\ task[t].version > 0
      /\ UNCHANGED <<attempt, announced, runs, leases, report, edit, reassigned,
                     reopened, faulty, faults>>
  BY DEF ClaimCAS, memVars, history
<1>2. CASE task[t].assignee \in {Nobody, a}
  <2> DEFINE h == [at |-> "read", task |-> t, agent |-> a, owner |-> owner,
                   version |-> 0, run |-> NoRun, fresh |-> FALSE]
             row == Claimed(t, a, c)
  <2>1. task' = [task EXCEPT ![t] = row] /\ claim' = [claim EXCEPT ![c] = h]
    BY <1>2 DEF ClaimCAS
  <2>2. /\ h \in OpenClaims /\ h.at = "read" /\ h.task = t /\ h.agent = a /\ h.run = NoRun
    BY DEF OpenClaims, ClaimOpen
  <2>3. row \in TaskRows /\ row.assignee = a /\ row.version = task[t].version + 1
        /\ task[t].version \in Nat
    BY ClaimedRow DEF TaskRunsInv, TypeOK, TaskRows, Claimed
  <2> HIDE DEF h, row
  <2>4. /\ task'[t] = row /\ \A u \in Tasks \ {t} : task'[u] = task[u]
        /\ claim'[c] = h /\ \A d \in Claims \ {c} : claim'[d] = claim[d]
    BY <2>1 DEF TaskRunsInv, TypeOK
  <2>5. TypeOK'
    BY <1>1, <2>1, <2>2, <2>3 DEF TaskRunsInv, TypeOK
  <2>6. RunIsNamed' /\ TaskFollowsTerminal' /\ RunsComeFromClaims'
    BY <1>1, <2>2, <2>4 DEF TaskRunsInv, RunIsNamed, TaskFollowsTerminal,
                            RunsComeFromClaims
  <2>10. ClaimantsStay
    BY <1>1, <2>4 DEF ClaimantsStay, Held
  <2>11. /\ AttemptKeepsAgent' /\ LiveRunIsUnique'
         /\ \A r \in Claims : runs[r] # NoRun => claim'[r].agent = claim[r].agent
         /\ \A u \in Tasks : attempt[u] # NoAttempt =>
              claim'[attempt[u].run].agent = claim[attempt[u].run].agent
    BY <1>1, <2>10, RunsStay
  <2>12. /\ ReportKeepsAgent'
         /\ \A p \in Reports : report[p].at \in ReportOpen
              => claim'[report[p].run].agent = claim[report[p].run].agent
    BY <1>1, <2>10, ReportsStay
  <2>13. ClaimKeepsAgent'
    <3> SUFFICES ASSUME NEW d \in Claims, claim'[d].at \in {"lookup", "record"}
                 PROVE  ActsFor(claim[d].agent, claim[d].run)'
      BY DEF ClaimKeepsAgent
    <3>1. d # c /\ claim'[d] = claim[d] /\ claim[d].run \in Claims
      BY <2>2, <2>4 DEF TaskRunsInv, RunIsNamed
    <3> QED BY <3>1, <2>10 DEF TaskRunsInv, ClaimKeepsAgent, ActsFor, Held, ClaimantsStay
  <2>7. UncreatedIsUnowned'
    BY <1>1, <2>3, <2>4 DEF TaskRunsInv, UncreatedIsUnowned
  <2>8. HandlersActForOwner' /\ SingleOwner'
    <3>1. CASE task[t].assignee = a
      BY <3>1, <1>1, <2>2, <2>3, <2>4, <2>11, <2>12
         DEF TaskRunsInv, HandlersActForOwner, SingleOwner
    <3>2. CASE task[t].assignee = Nobody
      BY <3>2, <1>1, <2>2, <2>3, <2>4, <2>11, <2>12, UnownedIsIdle
         DEF TaskRunsInv, HandlersActForOwner, SingleOwner
    <3> QED BY <1>2, <3>1, <3>2
  <2>9. AnnouncedOrPending'
    <3> SUFFICES ASSUME NEW u \in Tasks \ faulty', task'[u].version > 0
                 PROVE  \/ task'[u].version \in announced'[u]
                        \/ \E d \in Claims : ClaimWillAnnounce(d, u)'
                        \/ \E p \in Reports : ReportWillAnnounce(p, u)'
                        \/ \E e \in Edits : EditWillAnnounce(e, u)'
      BY DEF AnnouncedOrPending
    <3>1. CASE u = t
      BY <3>1, <2>2, <2>4 DEF ClaimWillAnnounce, ClaimOpen
    <3>2. CASE u # t
      BY <3>2, <1>1, <2>4 DEF TaskRunsInv, AnnouncedOrPending, ClaimWillAnnounce,
                              ReportWillAnnounce, EditWillAnnounce, ClaimOpen
    <3> QED BY <3>1, <3>2
  <2> QED BY <2>5, <2>6, <2>7, <2>8, <2>9, <2>11, <2>12, <2>13 DEF TaskRunsInv
<1>3. CASE task[t].assignee \notin {Nobody, a}
  <2>1. claim' = [claim EXCEPT ![c] = [at |-> "rejected"]] /\ UNCHANGED task
    BY <1>3 DEF ClaimCAS
  <2>2. claim'[c].at = "rejected" /\ \A d \in Claims \ {c} : claim'[d] = claim[d]
    BY <2>1 DEF TaskRunsInv, TypeOK
  <2>3. TypeOK'
    BY <1>1, <2>1 DEF TaskRunsInv, TypeOK
  <2>4. RunIsNamed' /\ TaskFollowsTerminal' /\ RunsComeFromClaims'
    BY <1>1, <2>2 DEF TaskRunsInv, RunIsNamed, TaskFollowsTerminal, RunsComeFromClaims
  <2>7. ClaimantsStay
    BY <1>1, <2>2 DEF ClaimantsStay, Held
  <2>8. AttemptKeepsAgent' /\ LiveRunIsUnique' /\ SingleOwner'
    BY <1>1, <2>1, <2>7, OwnershipStays
  <2>9. /\ ReportKeepsAgent'
        /\ \A p \in Reports : report[p].at \in ReportOpen
             => claim'[report[p].run].agent = claim[report[p].run].agent
    BY <1>1, <2>7, ReportsStay
  <2>10. ClaimKeepsAgent'
    <3> SUFFICES ASSUME NEW d \in Claims, claim'[d].at \in {"lookup", "record"}
                 PROVE  ActsFor(claim[d].agent, claim[d].run)'
      BY DEF ClaimKeepsAgent
    <3>1. d # c /\ claim'[d] = claim[d] /\ claim[d].run \in Claims
      BY <2>2 DEF TaskRunsInv, RunIsNamed
    <3> QED BY <3>1, <2>7 DEF TaskRunsInv, ClaimKeepsAgent, ActsFor, Held, ClaimantsStay
  <2>5. UncreatedIsUnowned' /\ HandlersActForOwner'
    BY <1>1, <2>1, <2>2, <2>9 DEF TaskRunsInv, UncreatedIsUnowned, HandlersActForOwner,
                                  ClaimOpen
  <2>6. AnnouncedOrPending'
    BY <1>1, <2>1, <2>2 DEF TaskRunsInv, AnnouncedOrPending, ClaimWillAnnounce,
                            ReportWillAnnounce, EditWillAnnounce, ClaimOpen
  <2> QED BY <2>3, <2>4, <2>5, <2>6, <2>8, <2>9, <2>10 DEF TaskRunsInv
<1> QED BY <1>2, <1>3

(* The steps of a claim that leave the task row alone: the handler moves on, *)
(* still open, for the same task and agent, without losing sight of a        *)
(* version it has to announce.                                               *)
LEMMA ClaimMoves ==
    ASSUME TaskRunsInv, NEW c \in Claims, NEW h \in OpenClaims,
           claim[c].at \in ClaimOpen,
           claim' = [claim EXCEPT ![c] = h],
           h.task = claim[c].task, h.agent = claim[c].agent,
           \/ h.version = task[h.task].version
           \/ h.version = claim[c].version /\ claim[c].at \notin {"read", "promote"},
           UNCHANGED <<task, announced, report, edit, reassigned, reopened, faulty, faults>>
    PROVE  /\ claim'[c] = h /\ \A d \in Claims \ {c} : claim'[d] = claim[d]
           /\ claim' \in [Claims -> [at : {"new", "rejected"}] \cup OpenClaims \cup EndedClaims]
           /\ TaskFollowsTerminal' /\ UncreatedIsUnowned'
           /\ HandlersActForOwner' /\ AnnouncedOrPending'
           /\ ClaimantsStay /\ ReportKeepsAgent'
<1>1. claim'[c] = h /\ \A d \in Claims \ {c} : claim'[d] = claim[d]
  BY DEF TaskRunsInv, TypeOK
<1>2. claim' \in [Claims -> [at : {"new", "rejected"}] \cup OpenClaims \cup EndedClaims]
  BY DEF TaskRunsInv, TypeOK
<1>3. TaskFollowsTerminal' /\ UncreatedIsUnowned'
  BY DEF TaskRunsInv, TaskFollowsTerminal, UncreatedIsUnowned
<1>6. h.at \in ClaimOpen /\ ClaimantsStay
  BY <1>1 DEF OpenClaims, ClaimOpen, ClaimantsStay, Held
<1>7. /\ ReportKeepsAgent'
      /\ \A p \in Reports : report[p].at \in ReportOpen
           => claim'[report[p].run].agent = claim[report[p].run].agent
  BY <1>6, ReportsStay
<1>4. HandlersActForOwner'
  BY <1>1, <1>7 DEF TaskRunsInv, HandlersActForOwner
<1>5. AnnouncedOrPending'
  <2> SUFFICES ASSUME NEW u \in Tasks \ faulty', task'[u].version > 0
               PROVE  \/ task'[u].version \in announced'[u]
                      \/ \E d \in Claims : ClaimWillAnnounce(d, u)'
                      \/ \E p \in Reports : ReportWillAnnounce(p, u)'
                      \/ \E e \in Edits : EditWillAnnounce(e, u)'
    BY DEF AnnouncedOrPending
  <2>1. ASSUME NEW d \in Claims, ClaimWillAnnounce(d, u)
        PROVE  ClaimWillAnnounce(d, u)'
    <3>1. CASE d = c
      <4>1. h.at \in ClaimOpen
        BY DEF OpenClaims
      <4> QED BY <4>1, <3>1, <2>1, <1>1 DEF ClaimWillAnnounce
    <3>2. CASE d # c
      BY <3>2, <2>1, <1>1 DEF ClaimWillAnnounce
    <3> QED BY <3>1, <3>2
  <2>2. ASSUME NEW p \in Reports, ReportWillAnnounce(p, u)
        PROVE  ReportWillAnnounce(p, u)'
    BY <2>2 DEF ReportWillAnnounce
  <2>3. ASSUME NEW e \in Edits, EditWillAnnounce(e, u)
        PROVE  EditWillAnnounce(e, u)'
    BY <2>3 DEF EditWillAnnounce
  <2> QED BY <2>1, <2>2, <2>3 DEF TaskRunsInv, AnnouncedOrPending
<1> QED BY <1>1, <1>2, <1>3, <1>4, <1>5, <1>6, <1>7

(* A claim that already has its run, or has none to look up, keeps it. *)
LEMMA ClaimRunsStay ==
    ASSUME TaskRunsInv, ClaimantsStay, NEW c \in Claims,
           \A d \in Claims \ {c} : claim'[d] = claim[d],
           claim'[c].at \in {"lookup", "record"} => ActsFor(claim[c].agent, claim[c].run)'
    PROVE  ClaimKeepsAgent'
<1> SUFFICES ASSUME NEW d \in Claims, claim'[d].at \in {"lookup", "record"}, d # c
             PROVE  ActsFor(claim[d].agent, claim[d].run)'
  BY DEF ClaimKeepsAgent
<1>1. claim'[d] = claim[d] /\ claim[d].run \in Claims
  BY DEF TaskRunsInv, RunIsNamed
<1> QED BY <1>1 DEF TaskRunsInv, ClaimKeepsAgent, ActsFor, Held, ClaimantsStay

LEMMA ReadClaimedStep ==
    ASSUME TaskRunsInv, NEW c \in Claims, ReadClaimed(c)
    PROVE  TaskRunsInv'
<1> DEFINE t == claim[c].task
           w == IF claim[c].owner /\ task[t].state = "todo" THEN "promote" ELSE "ensure"
           h == MovedVersion(claim[c], w, task[t].version)
<1>1. /\ claim[c].at = "read" /\ claim' = [claim EXCEPT ![c] = h]
      /\ UNCHANGED <<task, attempt, announced, runs, leases, report, edit, reassigned,
                     reopened, faulty, faults>>
  BY DEF ReadClaimed, MovedVersion, dbVars, memVars, history
<1>2. claim[c] \in OpenClaims /\ claim[c].at \in ClaimOpen /\ w \in {"promote", "ensure"}
  BY <1>1, HandlerShapes DEF TaskRunsInv, ClaimOpen
<1>3. w \in ClaimOpen /\ t \in Tasks /\ task[t].version \in Nat
  BY <1>2 DEF ClaimOpen, OpenClaims, TaskRunsInv, TypeOK, TaskRows
<1> HIDE DEF w
<1>4. /\ h \in OpenClaims /\ h.at = w /\ h.task = t /\ h.agent = claim[c].agent
      /\ h.version = task[t].version /\ h.run = claim[c].run
  BY <1>2, <1>3, MovedClaimVersion
<1> HIDE DEF h
<1>5. /\ claim'[c] = h /\ \A d \in Claims \ {c} : claim'[d] = claim[d]
      /\ claim' \in [Claims -> [at : {"new", "rejected"}] \cup OpenClaims \cup EndedClaims]
      /\ TaskFollowsTerminal' /\ UncreatedIsUnowned'
      /\ HandlersActForOwner' /\ AnnouncedOrPending'
      /\ ClaimantsStay /\ ReportKeepsAgent'
  BY <1>1, <1>2, <1>4, ClaimMoves
<1>6. TypeOK'
  BY <1>1, <1>5 DEF TaskRunsInv, TypeOK
<1>7. RunIsNamed' /\ RunsComeFromClaims'
  BY <1>1, <1>2, <1>4, <1>5 DEF TaskRunsInv, RunIsNamed, RunsComeFromClaims
<1>8. SingleOwner' /\ LiveRunIsUnique'
  BY <1>1, <1>5, OwnershipStays
<1>9. AttemptKeepsAgent' /\ ClaimKeepsAgent'
  <2>1. claim'[c].at \notin {"lookup", "record"}
    BY <1>2, <1>4, <1>5
  <2> QED BY <2>1, <1>1, <1>5, OwnershipStays, ClaimRunsStay
<1> QED BY <1>5, <1>6, <1>7, <1>8, <1>9 DEF TaskRunsInv

LEMMA LookupAttemptStep ==
    ASSUME TaskRunsInv, NEW c \in Claims, LookupAttempt(c)
    PROVE  TaskRunsInv'
<1> DEFINE b == attempt[claim[c].task] = NoAttempt
           h == MovedFresh(claim[c], "record", b)
<1>1. /\ claim[c].at = "lookup" /\ claim' = [claim EXCEPT ![c] = h]
      /\ UNCHANGED <<task, attempt, announced, runs, leases, report, edit, reassigned,
                     reopened, faulty, faults>>
  BY DEF LookupAttempt, MovedFresh, dbVars, memVars, history
<1>2. claim[c] \in OpenClaims /\ claim[c].at \in ClaimOpen /\ "record" \in ClaimOpen
  BY <1>1, HandlerShapes DEF TaskRunsInv, ClaimOpen
<1>3. b \in BOOLEAN
  OBVIOUS
<1> HIDE DEF b
<1>4. /\ h \in OpenClaims /\ h.at = "record" /\ h.task = claim[c].task
      /\ h.agent = claim[c].agent /\ h.version = claim[c].version /\ h.run = claim[c].run
  BY <1>2, <1>3, MovedClaimFresh
<1> HIDE DEF h
<1>5. /\ claim'[c] = h /\ \A d \in Claims \ {c} : claim'[d] = claim[d]
      /\ claim' \in [Claims -> [at : {"new", "rejected"}] \cup OpenClaims \cup EndedClaims]
      /\ TaskFollowsTerminal' /\ UncreatedIsUnowned'
      /\ HandlersActForOwner' /\ AnnouncedOrPending'
      /\ ClaimantsStay /\ ReportKeepsAgent'
  BY <1>1, <1>2, <1>4, ClaimMoves
<1>6. TypeOK'
  BY <1>1, <1>5 DEF TaskRunsInv, TypeOK
<1>7. RunIsNamed' /\ RunsComeFromClaims'
  BY <1>1, <1>4, <1>5 DEF TaskRunsInv, RunIsNamed, RunsComeFromClaims
<1>8. SingleOwner' /\ LiveRunIsUnique'
  BY <1>1, <1>5, OwnershipStays
<1>9. AttemptKeepsAgent' /\ ClaimKeepsAgent'
  <2>1. claim[c].run \in Claims /\ ActsFor(claim[c].agent, claim[c].run)
    BY <1>1 DEF TaskRunsInv, RunIsNamed, ClaimKeepsAgent
  <2>2. ActsFor(claim[c].agent, claim[c].run)'
    BY <2>1, <1>4, <1>5 DEF ActsFor, Held, ClaimantsStay
  <2> QED BY <2>2, <1>1, <1>5, OwnershipStays, ClaimRunsStay
<1> QED BY <1>5, <1>6, <1>7, <1>8, <1>9 DEF TaskRunsInv

LEMMA RecordAttemptStep ==
    ASSUME TaskRunsInv, NEW c \in Claims, RecordAttempt(c)
    PROVE  TaskRunsInv'
<1> DEFINE t == claim[c].task
           h == Moved(claim[c], "announce")
           a == IF claim[c].agent = Nobody /\ attempt[t] # NoAttempt
                  THEN attempt[t].agent ELSE claim[c].agent
           row == [run |-> claim[c].run, agent |-> a, status |-> "claimed"]
<1>1. /\ claim[c].at = "record" /\ claim' = [claim EXCEPT ![c] = h]
      /\ attempt' = attempt \/ attempt' = [attempt EXCEPT ![t] = row]
      /\ UNCHANGED <<task, announced, runs, leases, report, edit, reassigned,
                     reopened, faulty, faults>>
  BY DEF RecordAttempt, Moved, memVars, history
<1>2. /\ claim[c] \in OpenClaims /\ claim[c].at \in ClaimOpen /\ "announce" \in ClaimOpen
      /\ claim[c].run \in Claims
  BY <1>1, HandlerShapes DEF TaskRunsInv, ClaimOpen, RunIsNamed
<1>3. /\ t \in Tasks /\ row \in AttemptRows /\ row.run = claim[c].run
      /\ claim[c].agent # Nobody => row.agent = claim[c].agent
  <2>1. t \in Tasks /\ a \in Claimants
    BY <1>2 DEF OpenClaims, TaskRunsInv, TypeOK, AttemptRows
  <2>2. claim[c].agent # Nobody => a = claim[c].agent
    OBVIOUS
  <2> HIDE DEF a
  <2> QED BY <1>2, <2>1, <2>2 DEF AttemptRows
<1>4. /\ h \in OpenClaims /\ h.at = "announce" /\ h.task = claim[c].task
      /\ h.agent = claim[c].agent /\ h.version = claim[c].version /\ h.run = claim[c].run
  BY <1>2, MovedClaim
<1> HIDE DEF h, row
<1>5. /\ claim'[c] = h /\ \A d \in Claims \ {c} : claim'[d] = claim[d]
      /\ claim' \in [Claims -> [at : {"new", "rejected"}] \cup OpenClaims \cup EndedClaims]
      /\ TaskFollowsTerminal' /\ UncreatedIsUnowned'
      /\ HandlersActForOwner' /\ AnnouncedOrPending'
      /\ ClaimantsStay /\ ReportKeepsAgent'
  BY <1>1, <1>2, <1>4, ClaimMoves
<1>6. TypeOK'
  BY <1>1, <1>3, <1>5 DEF TaskRunsInv, TypeOK
<1>7. RunIsNamed' /\ RunsComeFromClaims'
  BY <1>1, <1>4, <1>5 DEF TaskRunsInv, RunIsNamed, RunsComeFromClaims
<1>8. /\ \A u \in Tasks \ {t} : attempt'[u] = attempt[u]
      /\ attempt'[t] = attempt[t] \/ attempt'[t] = row
  BY <1>1, <1>3 DEF TaskRunsInv, TypeOK
<1>9. /\ ActsFor(row.agent, row.run)
      /\ claim[row.run].agent # Nobody => row.agent = claim[c].agent /\ claim[c].agent # Nobody
  BY <1>1, <1>3 DEF TaskRunsInv, ClaimKeepsAgent, ActsFor
<1>10. ASSUME NEW u \in Tasks, attempt'[u] # NoAttempt
       PROVE  /\ ActsFor(attempt[u].agent, attempt[u].run)'
              /\ u \notin reassigned /\ claim'[attempt'[u].run].agent # Nobody
                   => attempt'[u].agent = task[u].assignee
  <2>1. CASE attempt'[u] = attempt[u]
    <3>1. attempt[u].run \in Claims /\ ActsFor(attempt[u].agent, attempt[u].run)
      BY <1>10, <2>1 DEF TaskRunsInv, TypeOK, AttemptRows, AttemptKeepsAgent
    <3>2. u \notin reassigned /\ claim[attempt[u].run].agent # Nobody
            => attempt[u].agent = task[u].assignee
      BY <1>10, <2>1 DEF TaskRunsInv, SingleOwner
    <3> QED BY <3>1, <3>2, <2>1, <1>5 DEF ClaimantsStay, ActsFor, Held
  <2>2. CASE u = t /\ attempt'[u] = row
    <3>1. t \notin reassigned /\ claim[row.run].agent # Nobody => row.agent = task[t].assignee
      BY <1>2, <1>3, <1>9 DEF TaskRunsInv, HandlersActForOwner
    <3> QED BY <3>1, <2>2, <1>2, <1>3, <1>5, <1>9 DEF ClaimantsStay, ActsFor, Held
  <2> QED BY <2>1, <2>2, <1>8
<1>11. AttemptKeepsAgent'
  BY <1>10 DEF AttemptKeepsAgent
<1>12. \A r \in Claims : runs[r] # NoRun => claim'[r].agent = claim[r].agent
  BY <1>5 DEF TaskRunsInv, RunsComeFromClaims, ClaimantsStay, Held
<1>13. SingleOwner' /\ LiveRunIsUnique'
  BY <1>1, <1>10, <1>12 DEF TaskRunsInv, SingleOwner, LiveRunIsUnique, OwnLive
<1>14. ClaimKeepsAgent'
  BY <1>4, <1>5, ClaimRunsStay
<1> QED BY <1>5, <1>6, <1>7, <1>11, <1>13, <1>14 DEF TaskRunsInv

LEMMA PromoteStep ==
    ASSUME TaskRunsInv, NEW c \in Claims, Promote(c)
    PROVE  TaskRunsInv'
<1> DEFINE t == claim[c].task
           row == Patched(t, "state", "in_progress")
           h == MovedVersion(claim[c], "ensure", task'[t].version)
<1>1. /\ claim[c].at = "promote" /\ task' = [task EXCEPT ![t] = row]
      /\ claim' = [claim EXCEPT ![c] = h]
      /\ UNCHANGED <<attempt, announced, runs, leases, report, edit, reassigned,
                     reopened, faulty, faults>>
  BY DEF Promote, MovedVersion, memVars, history
<1>2. claim[c] \in OpenClaims /\ claim[c].at \in ClaimOpen /\ "ensure" \in ClaimOpen
  BY <1>1, HandlerShapes DEF TaskRunsInv, ClaimOpen
<1>3. t \in Tasks /\ "in_progress" \in TaskStates
  BY <1>2 DEF OpenClaims, TaskStates
<1>4. /\ row \in TaskRows /\ row.version = task[t].version + 1
      /\ row.assignee = task[t].assignee
  BY <1>3, PatchedState DEF TaskRunsInv
<1> HIDE DEF row
<1>5. /\ task'[t] = row /\ \A u \in Tasks \ {t} : task'[u] = task[u]
      /\ row.version \in Nat /\ task[t].version \in Nat /\ task'[t].version \in Nat
  BY <1>1, <1>3, <1>4 DEF TaskRunsInv, TypeOK, TaskRows
<1>6. /\ h \in OpenClaims /\ h.at = "ensure" /\ h.task = t
      /\ h.agent = claim[c].agent /\ h.version = task'[t].version /\ h.run = claim[c].run
  BY <1>2, <1>5, MovedClaimVersion
<1> HIDE DEF h
<1>7. claim'[c] = h /\ \A d \in Claims \ {c} : claim'[d] = claim[d]
  BY <1>1 DEF TaskRunsInv, TypeOK
<1>8. TypeOK'
  BY <1>1, <1>4, <1>6 DEF TaskRunsInv, TypeOK
<1>9. RunIsNamed' /\ TaskFollowsTerminal' /\ RunsComeFromClaims'
  BY <1>1, <1>6, <1>7 DEF TaskRunsInv, RunIsNamed, TaskFollowsTerminal, RunsComeFromClaims
<1>13. ClaimantsStay
  BY <1>1, <1>6, <1>7 DEF ClaimantsStay, Held
<1>14. AttemptKeepsAgent' /\ LiveRunIsUnique' /\ SingleOwner'
  BY <1>1, <1>4, <1>5, <1>13, OwnershipStays
<1>15. /\ ReportKeepsAgent'
       /\ \A p \in Reports : report[p].at \in ReportOpen
            => claim'[report[p].run].agent = claim[report[p].run].agent
  BY <1>1, <1>13, ReportsStay
<1>16. ClaimKeepsAgent'
  BY <1>6, <1>7, <1>13, ClaimRunsStay
<1>10. UncreatedIsUnowned'
  BY <1>1, <1>4, <1>5 DEF TaskRunsInv, UncreatedIsUnowned
<1>11. HandlersActForOwner'
  BY <1>1, <1>2, <1>4, <1>5, <1>6, <1>7, <1>15 DEF TaskRunsInv, HandlersActForOwner
<1>12. AnnouncedOrPending'
  <2> SUFFICES ASSUME NEW u \in Tasks \ faulty', task'[u].version > 0
               PROVE  \/ task'[u].version \in announced'[u]
                      \/ \E d \in Claims : ClaimWillAnnounce(d, u)'
                      \/ \E p \in Reports : ReportWillAnnounce(p, u)'
                      \/ \E e \in Edits : EditWillAnnounce(e, u)'
    BY DEF AnnouncedOrPending
  <2>1. CASE u = t
    BY <2>1, <1>2, <1>6, <1>7 DEF ClaimWillAnnounce
  <2>2. CASE u # t
    BY <2>2, <1>1, <1>5, <1>7 DEF TaskRunsInv, AnnouncedOrPending, ClaimWillAnnounce,
                                  ReportWillAnnounce, EditWillAnnounce
  <2> QED BY <2>1, <2>2
<1> QED BY <1>8, <1>9, <1>10, <1>11, <1>12, <1>14, <1>15, <1>16 DEF TaskRunsInv

LEMMA AnnounceClaimStep ==
    ASSUME TaskRunsInv, NEW c \in Claims, AnnounceClaim(c)
    PROVE  TaskRunsInv'
<1> DEFINE t == claim[c].task
           v == claim[c].version
           h == Ended(claim[c], "done")
<1>1. /\ claim[c].at = "announce" /\ claim' = [claim EXCEPT ![c] = h]
      /\ announced' = [announced EXCEPT ![t] = @ \cup {v}]
      /\ UNCHANGED <<task, attempt, runs, leases, report, edit, reassigned,
                     reopened, faulty, faults>>
  BY DEF AnnounceClaim, Announce, memVars, history
<1>2. claim[c] \in OpenClaims /\ claim[c].at \in ClaimOpen
  BY <1>1, HandlerShapes DEF TaskRunsInv, ClaimOpen
<1>3. t \in Tasks /\ v \in Nat
  BY <1>2 DEF OpenClaims
<1>4. h \in EndedClaims /\ h.at = "done" /\ h.agent = claim[c].agent /\ h.run = claim[c].run
  BY <1>2, EndedClaim
<1> HIDE DEF h
<1>5. /\ claim'[c] = h /\ \A d \in Claims \ {c} : claim'[d] = claim[d]
      /\ announced'[t] = announced[t] \cup {v}
      /\ \A u \in Tasks \ {t} : announced'[u] = announced[u]
  BY <1>1, <1>3 DEF TaskRunsInv, TypeOK
<1>6. TypeOK'
  BY <1>1, <1>3, <1>4 DEF TaskRunsInv, TypeOK
<1>7. RunIsNamed' /\ TaskFollowsTerminal' /\ RunsComeFromClaims'
  BY <1>1, <1>4, <1>5 DEF TaskRunsInv, RunIsNamed, TaskFollowsTerminal, RunsComeFromClaims
<1>10. ClaimantsStay
  BY <1>1, <1>4, <1>5 DEF ClaimantsStay, Held
<1>11. AttemptKeepsAgent' /\ LiveRunIsUnique' /\ SingleOwner'
  BY <1>1, <1>10, OwnershipStays
<1>12. /\ ReportKeepsAgent'
       /\ \A p \in Reports : report[p].at \in ReportOpen
            => claim'[report[p].run].agent = claim[report[p].run].agent
  BY <1>1, <1>10, ReportsStay
<1>13. ClaimKeepsAgent'
  BY <1>4, <1>5, <1>10, ClaimRunsStay
<1>8. UncreatedIsUnowned' /\ HandlersActForOwner'
  BY <1>1, <1>4, <1>5, <1>12 DEF TaskRunsInv, UncreatedIsUnowned, HandlersActForOwner,
                                 ClaimOpen
<1>9. AnnouncedOrPending'
  <2> SUFFICES ASSUME NEW u \in Tasks \ faulty', task'[u].version > 0
               PROVE  \/ task'[u].version \in announced'[u]
                      \/ \E d \in Claims : ClaimWillAnnounce(d, u)'
                      \/ \E p \in Reports : ReportWillAnnounce(p, u)'
                      \/ \E e \in Edits : EditWillAnnounce(e, u)'
    BY DEF AnnouncedOrPending
  <2>1. CASE ClaimWillAnnounce(c, u)
    BY <2>1, <1>1, <1>5 DEF ClaimWillAnnounce
  <2>2. ASSUME NEW d \in Claims \ {c}, ClaimWillAnnounce(d, u)
        PROVE  ClaimWillAnnounce(d, u)'
    BY <2>2, <1>1, <1>5 DEF ClaimWillAnnounce
  <2>3. task[u].version \in announced[u] => task'[u].version \in announced'[u]
    BY <1>1, <1>5
  <2>4. ASSUME NEW p \in Reports, ReportWillAnnounce(p, u) PROVE ReportWillAnnounce(p, u)'
    BY <2>4, <1>1 DEF ReportWillAnnounce
  <2>5. ASSUME NEW e \in Edits, EditWillAnnounce(e, u) PROVE EditWillAnnounce(e, u)'
    BY <2>5, <1>1 DEF EditWillAnnounce
  <2>6. task'[u].version = task[u].version /\ u \in Tasks \ faulty
    BY <1>1
  <2> QED BY <2>1, <2>2, <2>3, <2>4, <2>5, <2>6 DEF TaskRunsInv, AnnouncedOrPending
<1> QED BY <1>6, <1>7, <1>8, <1>9, <1>11, <1>12, <1>13 DEF TaskRunsInv

LEMMA EnsureRunStep ==
    ASSUME TaskRunsInv, NEW c \in Claims, EnsureRun(c)
    PROVE  TaskRunsInv'
<1> USE TaskRunsAssumption
<1> DEFINE t == claim[c].task
           a == claim[c].agent
           live == LiveRuns(t, a)
           new == [task |-> t, agent |-> a, state |-> "queued"]
<1>1. /\ claim[c].at = "ensure" /\ leases' = leases \cup {c}
      /\ UNCHANGED <<task, attempt, announced, report, edit, reassigned,
                     reopened, faulty, faults>>
  BY DEF EnsureRun, dbVars, history
<1>2. claim[c] \in OpenClaims /\ claim[c].at \in ClaimOpen
      /\ "announce" \in ClaimOpen /\ "lookup" \in ClaimOpen
  BY <1>1, HandlerShapes DEF TaskRunsInv, ClaimOpen
<1>3. t \in Tasks /\ a \in Claimants /\ new \in RunRecords
  BY <1>2 DEF OpenClaims, RunRecords, RunStates
<1>4. runs[c] = NoRun
  BY <1>1 DEF TaskRunsInv, RunsComeFromClaims
<1>5. CASE ~claim[c].owner
  <2> DEFINE h == Moved(claim[c], "announce")
  <2>1. claim' = [claim EXCEPT ![c] = h] /\ runs' = runs
    BY <1>5 DEF EnsureRun, Moved
  <2>2. /\ h \in OpenClaims /\ h.at = "announce" /\ h.task = t
        /\ h.agent = a /\ h.version = claim[c].version /\ h.run = claim[c].run
    BY <1>2, MovedClaim
  <2> HIDE DEF h
  <2>3. /\ claim'[c] = h /\ \A d \in Claims \ {c} : claim'[d] = claim[d]
        /\ claim' \in [Claims -> [at : {"new", "rejected"}] \cup OpenClaims \cup EndedClaims]
        /\ TaskFollowsTerminal' /\ UncreatedIsUnowned'
        /\ HandlersActForOwner' /\ AnnouncedOrPending'
        /\ ClaimantsStay /\ ReportKeepsAgent'
    BY <1>1, <1>2, <2>1, <2>2, ClaimMoves
  <2>4. TypeOK'
    BY <1>1, <2>1, <2>3 DEF TaskRunsInv, TypeOK
  <2>5. RunIsNamed' /\ RunsComeFromClaims'
    BY <1>4, <2>1, <2>2, <2>3 DEF TaskRunsInv, RunIsNamed, RunsComeFromClaims
  <2>6. AttemptKeepsAgent' /\ SingleOwner' /\ LiveRunIsUnique'
    BY <1>1, <2>1, <2>3, OwnershipStays
  <2>7. ClaimKeepsAgent'
    BY <2>2, <2>3, ClaimRunsStay
  <2> QED BY <2>3, <2>4, <2>5, <2>6, <2>7 DEF TaskRunsInv
<1>6. CASE claim[c].owner
  <2>1. PICK r \in (IF live = {} THEN {c} ELSE live) :
          /\ claim' = [claim EXCEPT ![c] = MovedRun(claim[c], "lookup", r)]
          /\ runs' = IF live = {} THEN [runs EXCEPT ![c] = new] ELSE runs
    BY <1>6 DEF EnsureRun, MovedRun
  <2>2. r \in Claims /\ (live = {} => r = c)
    BY <2>1 DEF LiveRuns
  <2> DEFINE h == MovedRun(claim[c], "lookup", r)
  <2>3. /\ h \in OpenClaims /\ h.at = "lookup" /\ h.task = t
        /\ h.agent = a /\ h.version = claim[c].version /\ h.run = r
    BY <1>2, <2>2, MovedClaimRun
  <2>4. claim' = [claim EXCEPT ![c] = h]
    BY <2>1
  <2> HIDE DEF h
  <2>5. /\ claim'[c] = h /\ \A d \in Claims \ {c} : claim'[d] = claim[d]
        /\ claim' \in [Claims -> [at : {"new", "rejected"}] \cup OpenClaims \cup EndedClaims]
        /\ TaskFollowsTerminal' /\ UncreatedIsUnowned'
        /\ HandlersActForOwner' /\ AnnouncedOrPending'
        /\ ClaimantsStay /\ ReportKeepsAgent'
    BY <1>1, <1>2, <2>3, <2>4, ClaimMoves
  <2>6. TypeOK'
    BY <1>1, <1>3, <2>1, <2>5 DEF TaskRunsInv, TypeOK
  <2>7. RunIsNamed'
    BY <2>2, <2>3, <2>5 DEF TaskRunsInv, RunIsNamed
  <2>10. ClaimKeepsAgent'
    <3>1. CASE r = c
      BY <3>1, <2>3, <2>5, ClaimRunsStay DEF ActsFor, Held
    <3>2. CASE r # c
      <4>1. runs[r] # NoRun /\ runs[r].agent = a
        BY <2>1, <2>2, <3>2 DEF LiveRuns
      <4>2. ActsFor(a, r)
        BY <4>1, <2>2 DEF TaskRunsInv, RunsComeFromClaims, ActsFor, Held
      <4>3. claim'[c].agent = a /\ claim'[c].run = r
        BY <2>3, <2>5
      <4> HIDE DEF a
      <4>4. ActsFor(claim[c].agent, claim[c].run)'
        BY <4>2, <4>3, <2>2, <2>5 DEF ActsFor, Held, ClaimantsStay
      <4> QED BY <4>4, <2>5, ClaimRunsStay
    <3> QED BY <3>1, <3>2
  <2>11. \A q \in Claims : runs[q] # NoRun => claim'[q].agent = claim[q].agent
    BY <2>5 DEF TaskRunsInv, RunsComeFromClaims, ClaimantsStay, Held
  <2>12. \A u \in Tasks : attempt[u] # NoAttempt =>
           claim'[attempt[u].run].agent = claim[attempt[u].run].agent
    BY <2>5 DEF TaskRunsInv, TypeOK, AttemptRows, AttemptKeepsAgent, ActsFor, Held,
                ClaimantsStay
  <2>13. AttemptKeepsAgent'
    <3> SUFFICES ASSUME NEW u \in Tasks, attempt[u] # NoAttempt
                 PROVE  ActsFor(attempt[u].agent, attempt[u].run)'
      BY <1>1 DEF AttemptKeepsAgent
    <3>1. attempt[u].run \in Claims /\ ActsFor(attempt[u].agent, attempt[u].run)
      BY DEF TaskRunsInv, TypeOK, AttemptRows, AttemptKeepsAgent
    <3> QED BY <3>1, <1>1, <2>5 DEF ClaimantsStay, ActsFor, Held
  <2>8. CASE live = {}
    <3> HIDE DEF live
    <3>1. runs'[c] = new /\ \A q \in Claims \ {c} : runs'[q] = runs[q]
      BY <2>1, <2>8 DEF TaskRunsInv, TypeOK
    <3>2. new.task = t /\ new.agent = a
      OBVIOUS
    <3> HIDE DEF new
    <3>3. RunsComeFromClaims'
      BY <2>2, <2>3, <2>5, <2>8, <3>1, <3>2 DEF TaskRunsInv, RunsComeFromClaims
    <3>4. t \notin reassigned /\ a # Nobody => a = task[t].assignee
      BY <1>2, <1>3 DEF TaskRunsInv, HandlersActForOwner
    <3>8. claim'[c].agent = a
      BY <2>3, <2>5
    <3> HIDE DEF a, t
    <3>5. SingleOwner'
      BY <1>1, <2>11, <2>12, <3>1, <3>2, <3>4, <3>8 DEF TaskRunsInv, SingleOwner
    <3>6. ASSUME NEW q \in Claims, runs[q] # NoRun, runs[q].task = t, runs[q].agent = a
          PROVE  runs[q].state \in Terminal
      BY <2>8, <3>6 DEF live, LiveRuns
    <3>7. LiveRunIsUnique'
      <4>1. \A q \in Claims \ {c} : OwnLive(q)' => OwnLive(q)
        BY <2>11, <3>1 DEF OwnLive
      <4>2. \A q \in Claims \ {c} : OwnLive(q)' => runs'[q].task # t \/ runs'[q].agent # a
        BY <3>1, <3>6, <4>1 DEF OwnLive
      <4> SUFFICES ASSUME NEW q \in Claims \ reopened, NEW m \in Claims \ reopened,
                          OwnLive(q)', OwnLive(m)', runs'[q].task = runs'[m].task,
                          runs'[q].task \in Tasks, runs'[q].agent = runs'[m].agent
                   PROVE  q = m
        BY <1>1 DEF LiveRunIsUnique
      <4>3. CASE q # c /\ m # c
        <5>1. OwnLive(q) /\ OwnLive(m) /\ runs'[q] = runs[q] /\ runs'[m] = runs[m]
          BY <4>1, <4>3, <3>1
        <5> QED BY <5>1 DEF TaskRunsInv, LiveRunIsUnique
      <4>4. CASE q = c \/ m = c
        BY <4>4, <4>2, <3>1, <3>2
      <4> QED BY <4>3, <4>4
    <3> QED BY <2>5, <2>6, <2>7, <2>10, <2>13, <3>3, <3>5, <3>7 DEF TaskRunsInv
  <2>9. CASE live # {}
    <3>1. runs' = runs
      BY <2>1, <2>9
    <3>2. RunsComeFromClaims'
      BY <1>4, <2>5, <3>1 DEF TaskRunsInv, RunsComeFromClaims
    <3>3. SingleOwner' /\ LiveRunIsUnique'
      BY <1>1, <2>5, <3>1, OwnershipStays
    <3> QED BY <2>5, <2>6, <2>7, <2>10, <2>13, <3>2, <3>3 DEF TaskRunsInv
  <2> QED BY <2>8, <2>9
<1> QED BY <1>2, <1>5, <1>6 DEF OpenClaims

LEMMA ReportRunStep ==
    ASSUME TaskRunsInv, NEW p \in Reports, NEW r \in Claims, NEW s \in ReportStates,
           NEW reporter \in Agents, ReportRun(p, r, s, reporter)
    PROVE  TaskRunsInv'
<1> USE TaskRunsAssumption
<1> DEFINE known == runs[r] # NoRun
           t == IF known THEN runs[r].task ELSE NoTask
           a == IF known /\ runs[r].agent # Nobody THEN runs[r].agent ELSE reporter
           run == [task |-> t, agent |-> a, state |-> s]
           open == [at |-> "lookup", run |-> r, task |-> t, agent |-> a,
                    state |-> s, fresh |-> FALSE, version |-> 0]
           h == IF t = NoTask THEN [at |-> "done"] ELSE open
<1>1. /\ report[p].at = "new" /\ claim[r].at \notin {"new", "rejected"} /\ claim[r].run = r
      /\ claim[r].agent \in {Nobody, reporter}
      /\ runs' = [runs EXCEPT ![r] = run]
      /\ reopened' = IF known /\ runs[r].state \in Terminal /\ s \notin Terminal
                       THEN reopened \cup {r} ELSE reopened
      /\ UNCHANGED <<task, attempt, announced, leases, claim, edit, reassigned, faulty, faults>>
  BY DEF ReportRun, dbVars
<1>2. /\ claim[r].at \in {"lookup", "record", "announce", "done", "failed"}
      /\ a \in Agents /\ a \in Claimants /\ s \in RunStates /\ t \in Tasks \cup {NoTask}
  <2>1. claim[r].at \in {"lookup", "record", "announce", "done", "failed"}
    BY <1>1, HandlerShapes DEF TaskRunsInv, RunIsNamed, ClaimOpen
  <2>2. a \in Agents /\ a \in Claimants
    BY DEF TaskRunsInv, TypeOK, RunRecords, Claimants
  <2>3. t \in Tasks \cup {NoTask}
    BY DEF TaskRunsInv, TypeOK, RunRecords
  <2> QED BY <2>1, <2>2, <2>3
<1>3. run \in RunRecords /\ run.task = t /\ run.agent = a /\ run.state = s
  BY <1>2 DEF RunRecords
<1>4. runs'[r] = run /\ \A q \in Claims \ {r} : runs'[q] = runs[q]
  BY <1>1 DEF TaskRunsInv, TypeOK
<1>5. report' = [report EXCEPT ![p] = h]
  <2>1. runs'[r].task = t
    BY <1>3, <1>4
  <2>2. report' = [report EXCEPT ![p] =
            IF runs'[r].task = NoTask THEN [at |-> "done"]
            ELSE [at |-> "lookup", run |-> r, task |-> runs'[r].task,
                  agent |-> a, state |-> s, fresh |-> FALSE, version |-> 0]]
    BY DEF ReportRun
  <2> HIDE DEF t, a
  <2> QED BY <2>1, <2>2
<1>6. /\ h.at \in {"done", "lookup"}
      /\ h.at = "lookup" => /\ h \in OpenReports /\ h.task = t /\ h.agent = a
                            /\ h.run = r /\ t \in Tasks
      /\ h \in [at : {"new", "done", "failed"}] \cup OpenReports
  <2>1. CASE t = NoTask
    <3>1. h = [at |-> "done"]
      BY <2>1
    <3> HIDE DEF h
    <3> QED BY <3>1
  <2>2. CASE t # NoTask
    <3>1. h = open /\ t \in Tasks
      BY <1>2, <2>2
    <3> HIDE DEF h, t, a
    <3>2. /\ open \in OpenReports /\ open.at = "lookup" /\ open.task = t
          /\ open.agent = a /\ open.run = r
      BY <1>2, <3>1 DEF OpenReports, ReportOpen
    <3> QED BY <3>1, <3>2
  <2> QED BY <2>1, <2>2
<1>7. h.at = "lookup" => known
  BY <1>6
<1> HIDE DEF h, run
<1>8. report'[p] = h /\ \A q \in Reports \ {p} : report'[q] = report[q]
  BY <1>5 DEF TaskRunsInv, TypeOK
<1>9. TypeOK'
  BY <1>1, <1>3, <1>5, <1>6 DEF TaskRunsInv, TypeOK
<1>10. RunIsNamed' /\ TaskFollowsTerminal' /\ UncreatedIsUnowned'
  BY <1>1, <1>6, <1>8 DEF TaskRunsInv, RunIsNamed, TaskFollowsTerminal, UncreatedIsUnowned
<1>18. claim[r].agent # Nobody => a = claim[r].agent
  BY <1>1 DEF TaskRunsInv, RunsComeFromClaims
<1>12. ASSUME known, t \in Tasks \ reassigned, claim[r].agent # Nobody
       PROVE  a = task[t].assignee
  BY <1>12 DEF TaskRunsInv, RunsComeFromClaims, SingleOwner
<1>13. ASSUME ~known PROVE t \notin Tasks
  BY <1>13
<1>19. /\ known => t = runs[r].task
       /\ known /\ a = claim[r].agent => runs[r].agent = a
  BY <1>2 DEF TaskRunsInv, RunsComeFromClaims
<1> HIDE DEF t, a
<1>11. RunsComeFromClaims'
  BY <1>1, <1>2, <1>3, <1>4, <1>18 DEF TaskRunsInv, RunsComeFromClaims
<1>20. AttemptKeepsAgent' /\ ClaimKeepsAgent' /\ ReportKeepsAgent'
  <2>1. AttemptKeepsAgent' /\ ClaimKeepsAgent'
    BY <1>1 DEF TaskRunsInv, AttemptKeepsAgent, ClaimKeepsAgent, ActsFor, Held
  <2>2. ReportKeepsAgent'
    BY <1>1, <1>6, <1>8, <1>18 DEF TaskRunsInv, ReportKeepsAgent, ActsFor, Held, ReportOpen
  <2> QED BY <2>1, <2>2
<1>14. HandlersActForOwner'
  BY <1>1, <1>6, <1>7, <1>8, <1>12 DEF TaskRunsInv, HandlersActForOwner, ReportOpen
<1>15. SingleOwner'
  BY <1>1, <1>3, <1>4, <1>12, <1>13 DEF TaskRunsInv, SingleOwner
<1>16. LiveRunIsUnique'
  <2>2. ASSUME r \notin reopened', s \notin Terminal, known
        PROVE  runs[r].state \notin Terminal /\ r \notin reopened
    BY <2>2, <1>1
  <2>3. \A q \in Claims : q \notin reopened' => q \notin reopened
    BY <1>1
  <2>4. ASSUME NEW q \in Claims, OwnLive(q)', q \notin reopened', runs'[q].task \in Tasks
        PROVE  /\ OwnLive(q) /\ q \notin reopened
               /\ runs[q].task = runs'[q].task /\ runs[q].agent = runs'[q].agent
    <3>1. CASE q = r
      <4>1. known /\ a = claim[r].agent /\ s \notin Terminal
        BY <2>4, <3>1, <1>1, <1>3, <1>4, <1>13 DEF OwnLive
      <4> QED BY <4>1, <2>4, <3>1, <1>3, <1>4, <1>19, <2>2 DEF OwnLive
    <3>2. CASE q # r
      BY <2>4, <3>2, <1>1, <1>4, <2>3 DEF OwnLive
    <3> QED BY <3>1, <3>2
  <2> QED BY <2>4 DEF TaskRunsInv, LiveRunIsUnique
<1>17. AnnouncedOrPending'
  <2>1. ASSUME NEW u \in Tasks, NEW q \in Reports, ReportWillAnnounce(q, u)
        PROVE  ReportWillAnnounce(q, u)'
    BY <2>1, <1>1, <1>8 DEF ReportWillAnnounce
  <2> QED BY <1>1, <2>1 DEF TaskRunsInv, AnnouncedOrPending, ClaimWillAnnounce,
                            EditWillAnnounce
<1> QED BY <1>9, <1>10, <1>11, <1>14, <1>15, <1>16, <1>17, <1>20 DEF TaskRunsInv

LEMMA LookupReportedStep ==
    ASSUME TaskRunsInv, NEW p \in Reports, LookupReported(p)
    PROVE  TaskRunsInv'
<1> DEFINE b == attempt[report[p].task] = NoAttempt
           h == MovedFresh(report[p], "record", b)
<1>1. /\ report[p].at = "lookup" /\ report' = [report EXCEPT ![p] = h]
      /\ UNCHANGED <<task, attempt, announced, runs, leases, claim, edit, reassigned,
                     reopened, faulty, faults>>
  BY DEF LookupReported, MovedFresh, dbVars, memVars, history
<1>2. report[p] \in OpenReports /\ report[p].at \in ReportOpen /\ "record" \in ReportOpen
  BY <1>1, HandlerShapes DEF TaskRunsInv, ReportOpen
<1>3. b \in BOOLEAN
  OBVIOUS
<1> HIDE DEF b
<1>4. /\ h \in OpenReports /\ h.at = "record" /\ h.task = report[p].task
      /\ h.agent = report[p].agent /\ h.run = report[p].run
  BY <1>2, <1>3, MovedReportFresh
<1> HIDE DEF h
<1>5. report'[p] = h /\ \A q \in Reports \ {p} : report'[q] = report[q]
  BY <1>1 DEF TaskRunsInv, TypeOK
<1>6. TypeOK'
  BY <1>1, <1>4 DEF TaskRunsInv, TypeOK
<1>7. RunIsNamed' /\ TaskFollowsTerminal' /\ RunsComeFromClaims' /\ UncreatedIsUnowned'
  BY <1>1, <1>4, <1>5 DEF TaskRunsInv, RunIsNamed, TaskFollowsTerminal,
                          RunsComeFromClaims, UncreatedIsUnowned
<1>8. HandlersActForOwner' /\ SingleOwner' /\ LiveRunIsUnique'
  BY <1>1, <1>2, <1>4, <1>5 DEF TaskRunsInv, HandlersActForOwner, SingleOwner, LiveRunIsUnique, OwnLive
<1>9. AnnouncedOrPending'
  BY <1>1, <1>5 DEF TaskRunsInv, AnnouncedOrPending, ClaimWillAnnounce,
                    ReportWillAnnounce, EditWillAnnounce
<1>10. AttemptKeepsAgent' /\ ClaimKeepsAgent' /\ ReportKeepsAgent'
  BY <1>1, <1>2, <1>4, <1>5
     DEF TaskRunsInv, AttemptKeepsAgent, ClaimKeepsAgent, ReportKeepsAgent, ActsFor, Held
<1> QED BY <1>6, <1>7, <1>8, <1>9, <1>10 DEF TaskRunsInv

LEMMA RecordReportedStep ==
    ASSUME TaskRunsInv, NEW p \in Reports, RecordReported(p)
    PROVE  TaskRunsInv'
<1> DEFINE t == report[p].task
           clash == report[p].fresh /\ attempt[t] # NoAttempt
           row == [run |-> report[p].run, agent |-> report[p].agent,
                   status |-> AttemptStatus(report[p].state)]
           h == CASE clash -> [at |-> "failed"]
                  [] ~clash /\ report[p].state \in Terminal -> Moved(report[p], "task")
                  [] OTHER -> [at |-> "done"]
<1>1. /\ report[p].at = "record" /\ report' = [report EXCEPT ![p] = h]
      /\ attempt' = attempt \/ attempt' = [attempt EXCEPT ![t] = row]
      /\ faulty' = faulty \/ faulty' = faulty \cup {t}
      /\ UNCHANGED <<task, announced, runs, leases, claim, edit, reassigned, reopened, faults>>
  BY DEF RecordReported, Moved, memVars
<1>2. /\ report[p] \in OpenReports /\ report[p].at \in ReportOpen /\ "task" \in ReportOpen
      /\ t \in Tasks
  BY <1>1, HandlerShapes DEF TaskRunsInv, ReportOpen, OpenReports
<1>3. row \in AttemptRows /\ row.agent = report[p].agent /\ row.run = report[p].run
  BY <1>2, ReportedStates DEF OpenReports, AttemptRows, Claimants
<1>4. \/ h = [at |-> "failed"] \/ h = [at |-> "done"]
      \/ h = Moved(report[p], "task") /\ report[p].state \in Terminal
  BY DEF Moved
<1>5. /\ h \in [at : {"new", "done", "failed"}] \cup OpenReports
      /\ h.at \in {"failed", "done", "task"}
      /\ h.at = "task" => /\ h.task = t /\ h.agent = report[p].agent /\ h.run = report[p].run
                          /\ h.state \in Terminal
  <2> HIDE DEF h
  <2>1. CASE h = [at |-> "failed"] \/ h = [at |-> "done"]
    BY <2>1
  <2>2. CASE h = Moved(report[p], "task") /\ report[p].state \in Terminal
    BY <2>2, <1>2, MovedReport
  <2> QED BY <1>4, <2>1, <2>2
<1> HIDE DEF h, row
<1>6. report'[p] = h /\ \A q \in Reports \ {p} : report'[q] = report[q]
  BY <1>1 DEF TaskRunsInv, TypeOK
<1>7. TypeOK'
  BY <1>1, <1>2, <1>3, <1>5 DEF TaskRunsInv, TypeOK
<1>8. RunIsNamed' /\ TaskFollowsTerminal' /\ RunsComeFromClaims' /\ UncreatedIsUnowned'
  BY <1>1, <1>5, <1>6 DEF TaskRunsInv, RunIsNamed, TaskFollowsTerminal,
                          RunsComeFromClaims, UncreatedIsUnowned
<1>9. /\ \A u \in Tasks \ {t} : attempt'[u] = attempt[u]
      /\ attempt'[t] = attempt[t] \/ attempt'[t] = row
  BY <1>1, <1>2 DEF TaskRunsInv, TypeOK
<1>10. t \notin reassigned /\ claim[row.run].agent # Nobody => row.agent = task[t].assignee
  BY <1>2, <1>3 DEF TaskRunsInv, HandlersActForOwner
<1>11. SingleOwner' /\ LiveRunIsUnique'
  BY <1>1, <1>9, <1>10 DEF TaskRunsInv, SingleOwner, LiveRunIsUnique, OwnLive
<1>12. HandlersActForOwner'
  BY <1>1, <1>2, <1>5, <1>6 DEF TaskRunsInv, HandlersActForOwner, ReportOpen
<1>13. AnnouncedOrPending'
  BY <1>1, <1>6 DEF TaskRunsInv, AnnouncedOrPending, ClaimWillAnnounce,
                    ReportWillAnnounce, EditWillAnnounce
<1>14. AttemptKeepsAgent' /\ ClaimKeepsAgent' /\ ReportKeepsAgent'
  <2>1. ActsFor(row.agent, row.run)
    BY <1>2, <1>3 DEF TaskRunsInv, ReportKeepsAgent
  <2>2. AttemptKeepsAgent'
    BY <1>1, <1>9, <2>1 DEF TaskRunsInv, AttemptKeepsAgent, ActsFor, Held
  <2>3. ClaimKeepsAgent'
    BY <1>1 DEF TaskRunsInv, ClaimKeepsAgent, ActsFor, Held
  <2>4. ReportKeepsAgent'
    BY <1>1, <1>2, <1>5, <1>6 DEF TaskRunsInv, ReportKeepsAgent, ActsFor, Held, ReportOpen
  <2> QED BY <2>2, <2>3, <2>4
<1> QED BY <1>7, <1>8, <1>11, <1>12, <1>13, <1>14 DEF TaskRunsInv

LEMMA UpdateTaskFromRunStep ==
    ASSUME TaskRunsInv, NEW p \in Reports, UpdateTaskFromRun(p)
    PROVE  TaskRunsInv'
<1> DEFINE t == report[p].task
           s == TaskStateAfter(report[p].state)
           row == Patched(t, "state", s)
           h == MovedVersion(report[p], "announce", task'[t].version)
<1>1. /\ report[p].at = "task" /\ task' = [task EXCEPT ![t] = row]
      /\ report' = [report EXCEPT ![p] = h]
      /\ UNCHANGED <<attempt, announced, runs, leases, claim, edit, reassigned,
                     reopened, faulty, faults>>
  BY DEF UpdateTaskFromRun, MovedVersion, memVars, history
<1>2. /\ report[p] \in OpenReports /\ report[p].at \in ReportOpen
      /\ "announce" \in ReportOpen /\ t \in Tasks
  BY <1>1, HandlerShapes DEF TaskRunsInv, ReportOpen, OpenReports
<1>3. s \in TaskStates
  BY <1>1, ReportedStates DEF TaskRunsInv, TaskFollowsTerminal
<1>4. /\ row \in TaskRows /\ row.version = task[t].version + 1
      /\ row.assignee = task[t].assignee
  BY <1>2, <1>3, PatchedState DEF TaskRunsInv
<1> HIDE DEF row, s
<1>5. /\ task'[t] = row /\ \A u \in Tasks \ {t} : task'[u] = task[u]
      /\ row.version \in Nat /\ task[t].version \in Nat /\ task'[t].version \in Nat
  BY <1>1, <1>2, <1>4 DEF TaskRunsInv, TypeOK, TaskRows
<1>6. /\ h \in OpenReports /\ h.at = "announce" /\ h.task = t
      /\ h.agent = report[p].agent /\ h.run = report[p].run /\ h.version = task'[t].version
  BY <1>2, <1>5, MovedReportVersion
<1> HIDE DEF h
<1>7. report'[p] = h /\ \A q \in Reports \ {p} : report'[q] = report[q]
  BY <1>1 DEF TaskRunsInv, TypeOK
<1>8. TypeOK'
  BY <1>1, <1>4, <1>6 DEF TaskRunsInv, TypeOK
<1>9. RunIsNamed' /\ TaskFollowsTerminal' /\ RunsComeFromClaims' /\ LiveRunIsUnique'
  BY <1>1, <1>6, <1>7 DEF TaskRunsInv, RunIsNamed, TaskFollowsTerminal,
                          RunsComeFromClaims, LiveRunIsUnique, OwnLive
<1>10. UncreatedIsUnowned'
  BY <1>1, <1>4, <1>5 DEF TaskRunsInv, UncreatedIsUnowned
<1>11. HandlersActForOwner' /\ SingleOwner'
  BY <1>1, <1>2, <1>4, <1>5, <1>6, <1>7 DEF TaskRunsInv, HandlersActForOwner, SingleOwner
<1>12. AnnouncedOrPending'
  <2> SUFFICES ASSUME NEW u \in Tasks \ faulty', task'[u].version > 0
               PROVE  \/ task'[u].version \in announced'[u]
                      \/ \E d \in Claims : ClaimWillAnnounce(d, u)'
                      \/ \E q \in Reports : ReportWillAnnounce(q, u)'
                      \/ \E e \in Edits : EditWillAnnounce(e, u)'
    BY DEF AnnouncedOrPending
  <2>1. CASE u = t
    BY <2>1, <1>6, <1>7 DEF ReportWillAnnounce
  <2>2. CASE u # t
    BY <2>2, <1>1, <1>5, <1>7 DEF TaskRunsInv, AnnouncedOrPending, ClaimWillAnnounce,
                                  ReportWillAnnounce, EditWillAnnounce
  <2> QED BY <2>1, <2>2
<1>13. AttemptKeepsAgent' /\ ClaimKeepsAgent' /\ ReportKeepsAgent'
  BY <1>1, <1>2, <1>6, <1>7
     DEF TaskRunsInv, AttemptKeepsAgent, ClaimKeepsAgent, ReportKeepsAgent, ActsFor, Held
<1> QED BY <1>8, <1>9, <1>10, <1>11, <1>12, <1>13 DEF TaskRunsInv

LEMMA AnnounceReportStep ==
    ASSUME TaskRunsInv, NEW p \in Reports, AnnounceReport(p)
    PROVE  TaskRunsInv'
<1> DEFINE t == report[p].task
           v == report[p].version
<1>1. /\ report[p].at = "announce" /\ report' = [report EXCEPT ![p] = [at |-> "done"]]
      /\ announced' = [announced EXCEPT ![t] = @ \cup {v}]
      /\ UNCHANGED <<task, attempt, runs, leases, claim, edit, reassigned,
                     reopened, faulty, faults>>
  BY DEF AnnounceReport, Announce, memVars, history
<1>2. t \in Tasks /\ v \in Nat
  BY <1>1, HandlerShapes DEF TaskRunsInv, ReportOpen, OpenReports
<1>3. /\ report'[p].at = "done" /\ \A q \in Reports \ {p} : report'[q] = report[q]
      /\ announced'[t] = announced[t] \cup {v}
      /\ \A u \in Tasks \ {t} : announced'[u] = announced[u]
  BY <1>1, <1>2 DEF TaskRunsInv, TypeOK
<1>4. TypeOK'
  BY <1>1, <1>2 DEF TaskRunsInv, TypeOK
<1>5. RunIsNamed' /\ TaskFollowsTerminal' /\ RunsComeFromClaims' /\ LiveRunIsUnique'
  BY <1>1, <1>3 DEF TaskRunsInv, RunIsNamed, TaskFollowsTerminal, RunsComeFromClaims,
                    LiveRunIsUnique, OwnLive
<1>6. UncreatedIsUnowned' /\ HandlersActForOwner' /\ SingleOwner'
  BY <1>1, <1>3 DEF TaskRunsInv, UncreatedIsUnowned, HandlersActForOwner, SingleOwner,
                    ReportOpen
<1>7. AnnouncedOrPending'
  <2> SUFFICES ASSUME NEW u \in Tasks \ faulty', task'[u].version > 0
               PROVE  \/ task'[u].version \in announced'[u]
                      \/ \E d \in Claims : ClaimWillAnnounce(d, u)'
                      \/ \E q \in Reports : ReportWillAnnounce(q, u)'
                      \/ \E e \in Edits : EditWillAnnounce(e, u)'
    BY DEF AnnouncedOrPending
  <2>1. CASE ReportWillAnnounce(p, u)
    BY <2>1, <1>1, <1>3 DEF ReportWillAnnounce
  <2>2. ASSUME NEW q \in Reports \ {p}, ReportWillAnnounce(q, u)
        PROVE  ReportWillAnnounce(q, u)'
    BY <2>2, <1>1, <1>3 DEF ReportWillAnnounce
  <2>3. task[u].version \in announced[u] => task'[u].version \in announced'[u]
    BY <1>1, <1>3
  <2>4. ASSUME NEW d \in Claims, ClaimWillAnnounce(d, u) PROVE ClaimWillAnnounce(d, u)'
    BY <2>4, <1>1 DEF ClaimWillAnnounce
  <2>5. ASSUME NEW e \in Edits, EditWillAnnounce(e, u) PROVE EditWillAnnounce(e, u)'
    BY <2>5, <1>1 DEF EditWillAnnounce
  <2>6. task'[u].version = task[u].version /\ u \in Tasks \ faulty
    BY <1>1
  <2> QED BY <2>1, <2>2, <2>3, <2>4, <2>5, <2>6 DEF TaskRunsInv, AnnouncedOrPending
<1>8. AttemptKeepsAgent' /\ ClaimKeepsAgent' /\ ReportKeepsAgent'
  BY <1>1, <1>3
     DEF TaskRunsInv, AttemptKeepsAgent, ClaimKeepsAgent, ReportKeepsAgent, ActsFor, Held,
         ReportOpen
<1> QED BY <1>4, <1>5, <1>6, <1>7, <1>8 DEF TaskRunsInv

LEMMA HandlerFailsStep ==
    ASSUME TaskRunsInv, HandlerFails
    PROVE  TaskRunsInv'
<1> USE TaskRunsAssumption
<1>1. /\ faults' = faults + 1
      /\ UNCHANGED <<task, attempt, announced, runs, leases, reassigned, reopened>>
  BY DEF HandlerFails, dbVars, memVars
<1>2. UncreatedIsUnowned'
  BY <1>1 DEF TaskRunsInv, UncreatedIsUnowned
<1>6. ASSUME UNCHANGED claim
      PROVE  AttemptKeepsAgent' /\ ClaimKeepsAgent' /\ SingleOwner' /\ LiveRunIsUnique'
  BY <1>1, <1>6 DEF TaskRunsInv, AttemptKeepsAgent, ClaimKeepsAgent, SingleOwner,
                    LiveRunIsUnique, OwnLive, ActsFor, Held
<1>3. ASSUME NEW c \in Claims, claim[c].at \in ClaimOpen,
             claim' = [claim EXCEPT ![c] = Ended(claim[c], "failed")],
             claim[c].at # "ensure",
             faulty' = faulty \cup {claim[c].task}, UNCHANGED <<report, edit>>
      PROVE  TaskRunsInv'
  <2> DEFINE h == Ended(claim[c], "failed")
  <2>1. claim[c] \in OpenClaims /\ claim[c].task \in Tasks
    BY <1>3, HandlerShapes DEF TaskRunsInv, OpenClaims
  <2>2. /\ h \in EndedClaims /\ h.at = "failed" /\ h.agent = claim[c].agent
        /\ h.run = claim[c].run
    BY <2>1, EndedClaim
  <2>3. claim' = [claim EXCEPT ![c] = h]
    BY <1>3
  <2> HIDE DEF h
  <2>4. claim'[c] = h /\ \A d \in Claims \ {c} : claim'[d] = claim[d]
    BY <2>3 DEF TaskRunsInv, TypeOK
  <2>5. TypeOK'
    BY <1>1, <1>3, <2>1, <2>2, <2>3 DEF TaskRunsInv, TypeOK
  <2>6. RunIsNamed' /\ TaskFollowsTerminal' /\ RunsComeFromClaims'
    BY <1>1, <1>3, <2>2, <2>4 DEF TaskRunsInv, RunIsNamed, TaskFollowsTerminal,
                                  RunsComeFromClaims
  <2>9. ClaimantsStay
    BY <1>3, <2>2, <2>4 DEF ClaimantsStay, Held
  <2>10. AttemptKeepsAgent' /\ LiveRunIsUnique' /\ SingleOwner'
    BY <1>1, <2>9, OwnershipStays
  <2>11. /\ ReportKeepsAgent'
         /\ \A p \in Reports : report[p].at \in ReportOpen
              => claim'[report[p].run].agent = claim[report[p].run].agent
    BY <1>3, <2>9, ReportsStay
  <2>12. ClaimKeepsAgent'
    BY <2>2, <2>4, <2>9, ClaimRunsStay
  <2>7. HandlersActForOwner'
    BY <1>1, <1>3, <2>2, <2>4, <2>11 DEF TaskRunsInv, HandlersActForOwner, ClaimOpen
  <2>8. AnnouncedOrPending'
    BY <1>1, <1>3, <2>4 DEF TaskRunsInv, AnnouncedOrPending, ClaimWillAnnounce,
                            ReportWillAnnounce, EditWillAnnounce
  <2> QED BY <1>2, <2>5, <2>6, <2>7, <2>8, <2>10, <2>11, <2>12 DEF TaskRunsInv
<1>4. ASSUME NEW p \in Reports, report[p].at \in ReportOpen,
             report' = [report EXCEPT ![p] = [at |-> "failed"]],
             faulty' = faulty \cup {report[p].task}, UNCHANGED <<claim, edit>>
      PROVE  TaskRunsInv'
  <2>1. report[p].task \in Tasks
    BY <1>4, HandlerShapes DEF TaskRunsInv, OpenReports
  <2>2. report'[p].at = "failed" /\ \A q \in Reports \ {p} : report'[q] = report[q]
    BY <1>4 DEF TaskRunsInv, TypeOK
  <2>3. TypeOK'
    BY <1>1, <1>4, <2>1 DEF TaskRunsInv, TypeOK
  <2>4. RunIsNamed' /\ TaskFollowsTerminal' /\ RunsComeFromClaims'
    BY <1>1, <1>4, <2>2 DEF TaskRunsInv, RunIsNamed, TaskFollowsTerminal, RunsComeFromClaims
  <2>5. HandlersActForOwner' /\ ReportKeepsAgent'
    BY <1>1, <1>4, <2>2 DEF TaskRunsInv, HandlersActForOwner, ReportKeepsAgent, ActsFor,
                            Held, ReportOpen
  <2>6. AnnouncedOrPending'
    BY <1>1, <1>4, <2>2 DEF TaskRunsInv, AnnouncedOrPending, ClaimWillAnnounce,
                            ReportWillAnnounce, EditWillAnnounce
  <2> QED BY <1>2, <1>4, <1>6, <2>3, <2>4, <2>5, <2>6 DEF TaskRunsInv
<1>5. ASSUME NEW e \in Edits, edit[e].at = "announce",
             edit' = [edit EXCEPT ![e] = [at |-> "failed"]],
             faulty' = faulty \cup {edit[e].task}, UNCHANGED <<claim, report>>
      PROVE  TaskRunsInv'
  <2>1. edit[e].task \in Tasks
    BY <1>5, HandlerShapes DEF TaskRunsInv, OpenEdits
  <2>2. edit'[e].at = "failed" /\ \A f \in Edits \ {e} : edit'[f] = edit[f]
    BY <1>5 DEF TaskRunsInv, TypeOK
  <2>3. TypeOK'
    BY <1>1, <1>5, <2>1 DEF TaskRunsInv, TypeOK
  <2>4. RunIsNamed' /\ TaskFollowsTerminal' /\ RunsComeFromClaims'
    BY <1>1, <1>5 DEF TaskRunsInv, RunIsNamed, TaskFollowsTerminal, RunsComeFromClaims
  <2>6. HandlersActForOwner' /\ ReportKeepsAgent'
    BY <1>1, <1>5 DEF TaskRunsInv, HandlersActForOwner, ReportKeepsAgent, ActsFor, Held
  <2>5. AnnouncedOrPending'
    BY <1>1, <1>5, <2>2 DEF TaskRunsInv, AnnouncedOrPending, ClaimWillAnnounce,
                            ReportWillAnnounce, EditWillAnnounce
  <2> QED BY <1>2, <1>5, <1>6, <2>3, <2>4, <2>5, <2>6 DEF TaskRunsInv
<1> QED BY <1>3, <1>4, <1>5 DEF HandlerFails

LEMMA RestartStep ==
    ASSUME TaskRunsInv, Restart
    PROVE  TaskRunsInv'
<1> USE TaskRunsAssumption
<1>1. /\ faults' = faults + 1 /\ runs' = [c \in Claims |-> NoRun] /\ leases' = {}
      /\ UNCHANGED <<task, attempt, announced, reassigned, reopened>>
  BY DEF Restart, dbVars
<1>2. /\ claim' = [c \in Claims |-> IF claim[c].at \in ClaimOpen
                     THEN Ended(claim[c], "failed") ELSE claim[c]]
      /\ report' = [p \in Reports |-> IF report[p].at \in ReportOpen
                      THEN [at |-> "failed"] ELSE report[p]]
      /\ edit' = [e \in Edits |-> IF edit[e].at = "announce"
                    THEN [at |-> "failed"] ELSE edit[e]]
  BY DEF Restart
<1>3. ASSUME NEW c \in Claims
      PROVE  /\ claim'[c] \in [at : {"new", "rejected"}] \cup EndedClaims
             /\ claim'[c].at \notin ClaimOpen
             /\ Held(c) => claim'[c].at \notin {"new", "rejected"}
                            /\ claim'[c].agent = claim[c].agent
  <2>1. CASE claim[c].at \in ClaimOpen
    <3>1. claim'[c] = Ended(claim[c], "failed") /\ claim[c] \in OpenClaims
      BY <2>1, <1>2, HandlerShapes DEF TaskRunsInv
    <3> QED BY <3>1, EndedClaim DEF ClaimOpen
  <2>2. CASE claim[c].at \notin ClaimOpen
    BY <2>2, <1>2 DEF TaskRunsInv, TypeOK, OpenClaims, Held
  <2> QED BY <2>1, <2>2
<1>4. ASSUME NEW p \in Reports
      PROVE  /\ report'[p] \in [at : {"new", "done", "failed"}]
             /\ report'[p].at \notin ReportOpen
  BY <1>2 DEF TaskRunsInv, TypeOK, OpenReports, ReportOpen
<1>5. ASSUME NEW e \in Edits
      PROVE  edit'[e] \in [at : {"new", "done", "failed"}] /\ edit'[e].at # "announce"
  BY <1>2 DEF TaskRunsInv, TypeOK, OpenEdits
<1>6. /\ faulty \subseteq faulty'
      /\ \A c \in Claims : claim[c].at \in ClaimOpen => claim[c].task \in faulty'
      /\ \A p \in Reports : report[p].at \in ReportOpen => report[p].task \in faulty'
      /\ \A e \in Edits : edit[e].at = "announce" => edit[e].task \in faulty'
  BY DEF Restart
<1>7. faulty' \subseteq Tasks
  <2>1. /\ \A c \in Claims : claim[c].at \in ClaimOpen => claim[c].task \in Tasks
        /\ \A p \in Reports : report[p].at \in ReportOpen => report[p].task \in Tasks
        /\ \A e \in Edits : edit[e].at = "announce" => edit[e].task \in Tasks
    BY HandlerShapes DEF TaskRunsInv, OpenClaims, OpenReports, OpenEdits
  <2> QED BY <2>1 DEF Restart, TaskRunsInv, TypeOK
<1>8. TypeOK'
  <2>1. claim' \in [Claims -> [at : {"new", "rejected"}] \cup OpenClaims \cup EndedClaims]
    BY <1>2, <1>3
  <2>2. /\ report' \in [Reports -> [at : {"new", "done", "failed"}] \cup OpenReports]
        /\ edit' \in [Edits -> [at : {"new", "done", "failed"}] \cup OpenEdits]
    BY <1>2, <1>4, <1>5
  <2>3. runs' \in [Claims -> RunRecords \cup {NoRun}] /\ leases' \subseteq Claims
    BY <1>1
  <2> QED BY <1>1, <1>7, <2>1, <2>2, <2>3 DEF TaskRunsInv, TypeOK
<1>9. RunIsNamed' /\ TaskFollowsTerminal' /\ RunsComeFromClaims'
  BY <1>1, <1>3, <1>4 DEF RunIsNamed, TaskFollowsTerminal, RunsComeFromClaims, ClaimOpen,
                          ReportOpen
<1>10. UncreatedIsUnowned' /\ HandlersActForOwner'
  BY <1>1, <1>3, <1>4 DEF TaskRunsInv, UncreatedIsUnowned, HandlersActForOwner
<1>13. ASSUME NEW t \in Tasks, attempt[t] # NoAttempt
       PROVE  /\ claim'[attempt[t].run].agent = claim[attempt[t].run].agent
              /\ ActsFor(attempt[t].agent, attempt[t].run)'
  <2>1. attempt[t].run \in Claims /\ ActsFor(attempt[t].agent, attempt[t].run)
    BY <1>13 DEF TaskRunsInv, TypeOK, AttemptRows, AttemptKeepsAgent
  <2> QED BY <1>1, <1>3, <2>1 DEF ActsFor, Held
<1>14. AttemptKeepsAgent' /\ ClaimKeepsAgent' /\ ReportKeepsAgent'
  BY <1>1, <1>3, <1>4, <1>13 DEF AttemptKeepsAgent, ClaimKeepsAgent, ReportKeepsAgent,
                                 ClaimOpen
<1>11. SingleOwner' /\ LiveRunIsUnique'
  BY <1>1, <1>13 DEF TaskRunsInv, SingleOwner, LiveRunIsUnique, OwnLive
<1>12. AnnouncedOrPending'
  <2> SUFFICES ASSUME NEW u \in Tasks \ faulty', task'[u].version > 0
               PROVE  task'[u].version \in announced'[u]
    BY DEF AnnouncedOrPending
  <2>1. u \in Tasks \ faulty /\ task[u].version > 0
    BY <1>1, <1>6
  <2>2. \A c \in Claims : ~ClaimWillAnnounce(c, u)
    BY <1>6 DEF ClaimWillAnnounce
  <2>3. \A p \in Reports : ~ReportWillAnnounce(p, u)
    BY <1>6 DEF ReportWillAnnounce, ReportOpen
  <2>4. \A e \in Edits : ~EditWillAnnounce(e, u)
    BY <1>6 DEF EditWillAnnounce
  <2> QED BY <1>1, <2>1, <2>2, <2>3, <2>4 DEF TaskRunsInv, AnnouncedOrPending
<1> QED BY <1>8, <1>9, <1>10, <1>11, <1>12, <1>14 DEF TaskRunsInv

LEMMA TaskRunsStutter ==
    ASSUME TaskRunsInv, UNCHANGED vars
    PROVE  TaskRunsInv'
<1>1. UNCHANGED <<task, attempt, announced, runs, leases, claim, report, edit, reassigned,
                  reopened, faulty, faults>>
  BY DEF vars, dbVars, memVars, history
<1>2. TypeOK'
  BY <1>1 DEF TaskRunsInv, TypeOK
<1>3. RunIsNamed' /\ TaskFollowsTerminal' /\ RunsComeFromClaims' /\ UncreatedIsUnowned'
  BY <1>1 DEF TaskRunsInv, RunIsNamed, TaskFollowsTerminal, RunsComeFromClaims,
              UncreatedIsUnowned
<1>4. HandlersActForOwner' /\ SingleOwner' /\ LiveRunIsUnique'
  BY <1>1 DEF TaskRunsInv, HandlersActForOwner, SingleOwner, LiveRunIsUnique, OwnLive
<1>5. AnnouncedOrPending'
  BY <1>1 DEF TaskRunsInv, AnnouncedOrPending, ClaimWillAnnounce, ReportWillAnnounce,
              EditWillAnnounce
<1>6. AttemptKeepsAgent' /\ ClaimKeepsAgent' /\ ReportKeepsAgent'
  BY <1>1
     DEF TaskRunsInv, AttemptKeepsAgent, ClaimKeepsAgent, ReportKeepsAgent, ActsFor, Held
<1> QED BY <1>2, <1>3, <1>4, <1>5, <1>6 DEF TaskRunsInv

LEMMA TaskRunsStep == TaskRunsInv /\ [Next]_vars => TaskRunsInv'
<1> SUFFICES ASSUME TaskRunsInv, [Next]_vars PROVE TaskRunsInv'
  OBVIOUS
<1>1. ASSUME NEW c \in Claims, ClaimStep(c) PROVE TaskRunsInv'
  BY <1>1, ReadClaimedStep, PromoteStep, EnsureRunStep, LookupAttemptStep,
     RecordAttemptStep, AnnounceClaimStep DEF ClaimStep
<1>2. ASSUME NEW p \in Reports, ReportStep(p) PROVE TaskRunsInv'
  BY <1>2, LookupReportedStep, RecordReportedStep, UpdateTaskFromRunStep,
     AnnounceReportStep DEF ReportStep
<1> QED BY <1>1, <1>2, CreateTaskStep, PatchTaskStep, AnnounceEditStep, ClaimCASStep,
           ReportRunStep, HandlerFailsStep, RestartStep, TaskRunsStutter DEF Next

-----------------------------------------------------------------------------
(* The theorems *)

LEMMA TaskRunsInductive == Spec => []TaskRunsInv
  BY TaskRunsInit, TaskRunsStep, PTL DEF Spec

(* Rows, runs and handlers keep their shapes, whatever interleaves, fails or *)
(* restarts: a report that reaches the task carries a terminal state, and a  *)
(* claim that reaches the attempt row names a run.                           *)
THEOREM TaskRunTypes == Spec => []TypeOK
<1>1. TaskRunsInv => TypeOK
  BY DEF TaskRunsInv
<1> QED BY <1>1, TaskRunsInductive, PTL

(* ClaimTaskCAS arbitrates: for any number of racing claims and reports,     *)
(* claims for nobody among them, the runs that were claimed for an agent and *)
(* the attempt row that shows one belong, for a task no user reassigned, to  *)
(* the agent in its row.                                                     *)
THEOREM TasksHaveOneOwner == Spec => []SingleOwner
<1>1. TaskRunsInv => SingleOwner
  BY DEF TaskRunsInv
<1> QED BY <1>1, TaskRunsInductive, PTL

(* ensureClaimRunLocked, under s.mu, makes no second live run for a task and *)
(* claimant, however many claims run concurrently.                           *)
THEOREM LiveRunsAreShared == Spec => []OneLiveRun
<1>1. ASSUME TaskRunsInv PROVE OneLiveRun
  <2> SUFFICES ASSUME NEW t \in Tasks, NEW a \in Claimants, NEW live,
                      live = {r \in LiveRuns(t, a) \ reopened : claim[r].agent = a}
               PROVE  Cardinality(live) <= 1
    BY DEF OneLiveRun
  <2>1. \A q, r \in live : q = r
    BY <1>1 DEF TaskRunsInv, LiveRunIsUnique, LiveRuns, OwnLive
  <2>2. CASE live = {}
    BY <2>2, FS_EmptySet
  <2>3. CASE live # {}
    <3>1. PICK r \in live : TRUE
      BY <2>3
    <3>2. live = {r}
      BY <2>1, <3>1
    <3>3. Cardinality({r}) = 1
      BY FS_Singleton
    <3>4. Cardinality(live) = 1
      BY <3>2, <3>3, Zenon
    <3> QED BY <3>4
  <2> QED BY <2>2, <2>3
<1> QED BY <1>1, TaskRunsInductive, PTL

(* Every committed version of a task that is still its latest is announced,  *)
(* or a handler under way is about to announce it: nothing goes unannounced  *)
(* without a fault.                                                          *)
THEOREM CommittedIsAnnounced == Spec => []LatestVersionAnnounced
<1>1. ASSUME TaskRunsInv PROVE LatestVersionAnnounced
  <2> SUFFICES ASSUME NEW t \in Tasks \ faulty, Quiet(t), task[t].version > 0
               PROVE  task[t].version \in announced[t]
    BY DEF LatestVersionAnnounced
  <2>1. \A c \in Claims : ~ClaimWillAnnounce(c, t)
    BY DEF Quiet, ClaimWillAnnounce
  <2>2. \A p \in Reports : ~ReportWillAnnounce(p, t)
    BY DEF Quiet, ReportWillAnnounce, ReportOpen
  <2>3. \A e \in Edits : ~EditWillAnnounce(e, t)
    BY DEF Quiet, EditWillAnnounce
  <2> QED BY <1>1, <2>1, <2>2, <2>3 DEF TaskRunsInv, AnnouncedOrPending
<1> QED BY <1>1, TaskRunsInductive, PTL

=============================================================================
