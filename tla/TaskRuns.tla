------------------------------ MODULE TaskRuns ------------------------------
(***************************************************************************)
(* Tasks, claims, runs and attempts on the server.  Tasks and task attempts *)
(* are database rows; runs and leases live in the server's memory, behind  *)
(* s.mu.  Handlers interleave at every database call and every critical    *)
(* section: a claim is a compare-and-swap on the task row, a read, a        *)
(* promotion to in_progress, the creation of a run, the attempt row and the *)
(* event; a run report changes the run, then the attempt, then the task.    *)
(* The lease and the run a claim makes are named after the claim.  The      *)
(* attempt number is always 1, so a task has at most one attempt row.       *)
(***************************************************************************)
EXTENDS Naturals, FiniteSets

CONSTANTS
    Tasks, Agents,
    Claims,          \* calls of ClaimCollaborationTask
    Reports,         \* calls of UpdateRunStatus
    Edits,           \* calls that create or patch a task (REST and RPC)
    EditStates,      \* bound: the states users set
    ReportStates,    \* bound: the run states daemons report
    MaxFaults,       \* bound: failing database calls and restarts
    Nobody,          \* the empty agent id: an unowned task, a claim that names nobody
    NoTask, NoRun, NoAttempt

TaskStates == {"todo", "in_progress", "blocked", "in_review", "done", "canceled"}

RunStates == {"queued", "running", "blocked", "completed", "failed", "canceled"}
Terminal == {"completed", "failed", "canceled"}

(* Who a task, a claim or a run is for: a claim with an empty agent_id is     *)
(* not refused.                                                              *)
Claimants == Agents \cup {Nobody}

ASSUME TaskRunsAssumption ==
    /\ EditStates \subseteq TaskStates
    /\ ReportStates \subseteq RunStates
    /\ MaxFaults \in Nat
    /\ Nobody \notin Agents
    /\ NoRun \notin Claims
    /\ NoTask \notin Tasks

VARIABLES
    task,            \* the tasks table: state, assignee, lease, version (0: no row)
    attempt,         \* the task_attempts row of each task, or NoAttempt
    runs,            \* s.runs: task, agent and state of each run, or NoRun
    leases,          \* s.leases: the claim leases known in memory
    announced,       \* the versions of each task that its events carry
    claim,           \* the claim handlers
    report,          \* the report handlers
    edit,            \* the edit handlers
    reassigned,      \* tasks whose assignee a user changed (history)
    reopened,        \* runs reported live after a terminal report (history)
    faulty,          \* tasks some handler of which was cut short (history)
    faults

dbVars == <<task, attempt, announced>>
memVars == <<runs, leases>>
history == <<reassigned, reopened, faulty, faults>>
vars == <<dbVars, memVars, claim, report, edit, history>>

Init ==
    /\ task = [t \in Tasks |-> [state |-> "todo", assignee |-> Nobody,
                                lease |-> NoRun, version |-> 0]]
    /\ attempt = [t \in Tasks |-> NoAttempt]
    /\ runs = [c \in Claims |-> NoRun]
    /\ leases = {}
    /\ announced = [t \in Tasks |-> {}]
    /\ claim = [c \in Claims |-> [at |-> "new"]]
    /\ report = [p \in Reports |-> [at |-> "new"]]
    /\ edit = [e \in Edits |-> [at |-> "new"]]
    /\ reassigned = {} /\ reopened = {} /\ faulty = {} /\ faults = 0

Announce(t, version) ==
    announced' = [announced EXCEPT ![t] = @ \cup {version}]

(* What outlives a claim's handler: the run and the agent a daemon reports   *)
(* under.                                                                    *)
Ended(h, how) == [at |-> how, agent |-> h.agent, run |-> h.run]

(* Store.UpdateTask: the given fields, unconditionally, and the version. *)
Patched(t, field, value) == [task[t] EXCEPT ![field] = value, !.version = @ + 1]

-----------------------------------------------------------------------------
(* Users: create a task, or patch its state or its assignee; then the event. *)

CreateTask(e, t) ==
    /\ edit[e].at = "new" /\ task[t].version = 0
    /\ \E s \in {"todo"} \cup EditStates, a \in Claimants :
        task' = [task EXCEPT ![t] = [state |-> s, assignee |-> a,
                                     lease |-> NoRun, version |-> 1]]
    /\ edit' = [edit EXCEPT ![e] = [at |-> "announce", task |-> t, version |-> 1]]
    /\ UNCHANGED <<attempt, announced, memVars, claim, report, history>>

PatchState(e, t) ==
    /\ edit[e].at = "new" /\ task[t].version > 0
    /\ \E s \in EditStates : task' = [task EXCEPT ![t] = Patched(t, "state", s)]
    /\ edit' = [edit EXCEPT ![e] = [at |-> "announce", task |-> t,
                                    version |-> task'[t].version]]
    /\ UNCHANGED <<attempt, announced, memVars, claim, report, history>>

PatchAssignee(e, t) ==
    /\ edit[e].at = "new" /\ task[t].version > 0
    /\ \E a \in Claimants :
        task' = [task EXCEPT ![t] = Patched(t, "assignee", a)]
    /\ edit' = [edit EXCEPT ![e] = [at |-> "announce", task |-> t,
                                    version |-> task'[t].version]]
    /\ reassigned' = reassigned \cup {t}
    /\ UNCHANGED <<attempt, announced, memVars, claim, report, reopened, faulty, faults>>

AnnounceEdit(e) ==
    /\ edit[e].at = "announce"
    /\ Announce(edit[e].task, edit[e].version)
    /\ edit' = [edit EXCEPT ![e] = [at |-> "done"]]
    /\ UNCHANGED <<task, attempt, memVars, claim, report, history>>

-----------------------------------------------------------------------------
(* ClaimCollaborationTask *)

Claimed(t, a, c) == [task[t] EXCEPT !.assignee = a, !.lease = c, !.version = @ + 1]

(* Variant: the update has no condition on the assignee. *)
ClaimUnconditionally(c, t, a, owner) ==
    /\ claim[c].at = "new" /\ task[t].version > 0
    /\ task' = [task EXCEPT ![t] = Claimed(t, a, c)]
    /\ claim' = [claim EXCEPT ![c] =
            [at |-> "read", task |-> t, agent |-> a, owner |-> owner,
             version |-> 0, run |-> NoRun, fresh |-> FALSE]]
    /\ UNCHANGED <<attempt, announced, memVars, report, edit, history>>

(* ClaimTaskCAS: UPDATE ... WHERE the assignee is nobody or the claimant.    *)
(* A claim for nobody takes an unowned task and leaves it unowned.           *)
ClaimCAS(c, t, a, owner) ==
    /\ claim[c].at = "new" /\ task[t].version > 0
    /\ IF task[t].assignee \in {Nobody, a}
         THEN /\ task' = [task EXCEPT ![t] = Claimed(t, a, c)]
              /\ claim' = [claim EXCEPT ![c] =
                     [at |-> "read", task |-> t, agent |-> a, owner |-> owner,
                      version |-> 0, run |-> NoRun, fresh |-> FALSE]]
         ELSE /\ claim' = [claim EXCEPT ![c] = [at |-> "rejected"]]
              /\ UNCHANGED task
    /\ UNCHANGED <<attempt, announced, memVars, report, edit, history>>

(* The separate read of the claimed row; only a claim that starts execution *)
(* and reads "todo" promotes the task.                                       *)
ReadClaimed(c) ==
    LET t == claim[c].task IN
    /\ claim[c].at = "read"
    /\ claim' = [claim EXCEPT ![c] = [@ EXCEPT
            !.at = IF claim[c].owner /\ task[t].state = "todo"
                     THEN "promote" ELSE "ensure",
            !.version = task[t].version]]
    /\ UNCHANGED <<dbVars, memVars, report, edit, history>>

(* Variant: the handler goes on with the row it read before. *)
PromoteKeepsRow(c) ==
    LET t == claim[c].task IN
    /\ claim[c].at = "promote"
    /\ task' = [task EXCEPT ![t] = Patched(t, "state", "in_progress")]
    /\ claim' = [claim EXCEPT ![c].at = "ensure"]
    /\ UNCHANGED <<attempt, announced, memVars, report, edit, history>>

(* The task goes to in_progress, whatever its state is by now. *)
Promote(c) ==
    LET t == claim[c].task IN
    /\ claim[c].at = "promote"
    /\ task' = [task EXCEPT ![t] = Patched(t, "state", "in_progress")]
    /\ claim' = [claim EXCEPT ![c] = [@ EXCEPT !.at = "ensure",
                                               !.version = task'[t].version]]
    /\ UNCHANGED <<attempt, announced, memVars, report, edit, history>>

(* ensureClaimRunLocked reuses a run of this task and agent that is not      *)
(* terminal.                                                                 *)
LiveRuns(t, a) ==
    {r \in Claims : /\ runs[r] # NoRun
                    /\ runs[r].task = t /\ runs[r].agent = a
                    /\ runs[r].state \notin Terminal}

(* Variant: every owner's claim makes a run. *)
EnsureFreshRun(c) ==
    /\ claim[c].at = "ensure"
    /\ leases' = leases \cup {c}
    /\ IF ~claim[c].owner
         THEN /\ claim' = [claim EXCEPT ![c].at = "announce"]
              /\ UNCHANGED runs
         ELSE /\ claim' = [claim EXCEPT ![c] = [@ EXCEPT !.at = "lookup", !.run = c]]
              /\ runs' = [runs EXCEPT ![c] = [task |-> claim[c].task,
                              agent |-> claim[c].agent, state |-> "queued"]]
    /\ UNCHANGED <<dbVars, report, edit, history>>

(* Under s.mu: the lease, and for an owner's claim the run. *)
EnsureRun(c) ==
    LET t == claim[c].task
        a == claim[c].agent
        live == LiveRuns(t, a)
    IN
    /\ claim[c].at = "ensure"
    /\ leases' = leases \cup {c}
    /\ IF ~claim[c].owner
         THEN /\ claim' = [claim EXCEPT ![c].at = "announce"]
              /\ UNCHANGED runs
         ELSE \E r \in (IF live = {} THEN {c} ELSE live) :
              /\ claim' = [claim EXCEPT ![c] = [@ EXCEPT !.at = "lookup", !.run = r]]
              /\ runs' = IF live = {}
                           THEN [runs EXCEPT ![c] = [task |-> t, agent |-> a, state |-> "queued"]]
                           ELSE runs
    /\ UNCHANGED <<dbVars, report, edit, history>>

(* RecordTaskAttemptClaim: look for the row, then refresh it or create it;  *)
(* a creation that the unique index refuses leaves the other's row alone,   *)
(* and a claim for nobody does not change the agent of a row it refreshes.  *)
LookupAttempt(c) ==
    /\ claim[c].at = "lookup"
    /\ claim' = [claim EXCEPT ![c] = [@ EXCEPT !.at = "record",
                                    !.fresh = (attempt[claim[c].task] = NoAttempt)]]
    /\ UNCHANGED <<dbVars, memVars, report, edit, history>>

RecordAttempt(c) ==
    LET t == claim[c].task
        agent == IF claim[c].agent = Nobody /\ attempt[t] # NoAttempt
                   THEN attempt[t].agent ELSE claim[c].agent
    IN
    /\ claim[c].at = "record"
    /\ attempt' = IF claim[c].fresh /\ attempt[t] # NoAttempt
                    THEN attempt
                    ELSE [attempt EXCEPT ![t] = [run |-> claim[c].run,
                              agent |-> agent, status |-> "claimed"]]
    /\ claim' = [claim EXCEPT ![c].at = "announce"]
    /\ UNCHANGED <<task, announced, memVars, report, edit, history>>

(* The claimed event, and the state event when the claim promoted the task; *)
(* both carry the row the handler holds.                                     *)
AnnounceClaim(c) ==
    /\ claim[c].at = "announce"
    /\ Announce(claim[c].task, claim[c].version)
    /\ claim' = [claim EXCEPT ![c] = Ended(@, "done")]
    /\ UNCHANGED <<task, attempt, memVars, report, edit, history>>

-----------------------------------------------------------------------------
(* UpdateRunStatus *)

(* A daemon reports on any run it was ever given, under the run's agent or,  *)
(* for a run that names nobody, its own (supervisor.go:319).  Under s.mu: an *)
(* unknown run is recreated, without a task; a run without an agent takes    *)
(* the reporter's; the state is overwritten.                                 *)
ReportRun(p, r, s, reporter) ==
    LET known == runs[r] # NoRun
        agent == IF known /\ runs[r].agent # Nobody THEN runs[r].agent ELSE reporter
    IN
    /\ report[p].at = "new" /\ claim[r].at \notin {"new", "rejected"} /\ claim[r].run = r
    /\ claim[r].agent \in {Nobody, reporter}
    /\ runs' = [runs EXCEPT ![r] =
            [task |-> IF known THEN runs[r].task ELSE NoTask,
             agent |-> agent, state |-> s]]
    /\ reopened' = IF known /\ runs[r].state \in Terminal /\ s \notin Terminal
                     THEN reopened \cup {r} ELSE reopened
    /\ report' = [report EXCEPT ![p] =
            IF runs'[r].task = NoTask THEN [at |-> "done"]
            ELSE [at |-> "lookup", run |-> r, task |-> runs'[r].task,
                  agent |-> agent, state |-> s, fresh |-> FALSE, version |-> 0]]
    /\ UNCHANGED <<dbVars, leases, claim, edit, reassigned, faulty, faults>>

(* Variant: run states are stored as they are. *)
AttemptStatusRaw(s) == s

(* taskAttemptStatusFromRunState *)
AttemptStatus(s) ==
    CASE s = "queued" -> "claimed"
      [] s \in {"running", "blocked"} -> "running"
      [] OTHER -> s

LookupReported(p) ==
    /\ report[p].at = "lookup"
    /\ report' = [report EXCEPT ![p] = [@ EXCEPT !.at = "record",
                                      !.fresh = (attempt[report[p].task] = NoAttempt)]]
    /\ UNCHANGED <<dbVars, memVars, claim, edit, history>>

(* UpdateTaskAttemptFromRun; here a refused creation is an error. *)
RecordReported(p) ==
    LET t == report[p].task
        clash == report[p].fresh /\ attempt[t] # NoAttempt
    IN
    /\ report[p].at = "record"
    /\ attempt' = IF clash THEN attempt
                  ELSE [attempt EXCEPT ![t] = [run |-> report[p].run,
                          agent |-> report[p].agent,
                          status |-> AttemptStatus(report[p].state)]]
    /\ report' = [report EXCEPT ![p] =
            CASE clash -> [at |-> "failed"]
              [] ~clash /\ report[p].state \in Terminal -> [@ EXCEPT !.at = "task"]
              [] OTHER -> [at |-> "done"]]
    /\ faulty' = IF clash THEN faulty \cup {t} ELSE faulty
    /\ UNCHANGED <<task, announced, memVars, claim, edit, reassigned, reopened, faults>>

TaskStateAfter(s) ==
    CASE s = "completed" -> "in_review"
      [] s = "failed" -> "blocked"
      [] s = "canceled" -> "canceled"

(* updateTaskFromRunStatus: the task follows a terminal report. *)
UpdateTaskFromRun(p) ==
    LET t == report[p].task IN
    /\ report[p].at = "task"
    /\ task' = [task EXCEPT ![t] = Patched(t, "state", TaskStateAfter(report[p].state))]
    /\ report' = [report EXCEPT ![p] = [@ EXCEPT !.at = "announce",
                                                 !.version = task'[t].version]]
    /\ UNCHANGED <<attempt, announced, memVars, claim, edit, history>>

AnnounceReport(p) ==
    /\ report[p].at = "announce"
    /\ Announce(report[p].task, report[p].version)
    /\ report' = [report EXCEPT ![p] = [at |-> "done"]]
    /\ UNCHANGED <<task, attempt, memVars, claim, edit, history>>

-----------------------------------------------------------------------------
(* Faults *)

ClaimOpen == {"read", "promote", "ensure", "lookup", "record", "announce"}
ReportOpen == {"lookup", "record", "task", "announce"}

(* A database call of a handler fails, or its context is done. *)
HandlerFails ==
    /\ faults < MaxFaults
    /\ faults' = faults + 1
    /\ \/ \E c \in Claims : /\ claim[c].at \in ClaimOpen \ {"ensure"}
                            /\ claim' = [claim EXCEPT ![c] = Ended(@, "failed")]
                            /\ faulty' = faulty \cup {claim[c].task}
                            /\ UNCHANGED <<report, edit>>
       \/ \E p \in Reports : /\ report[p].at \in ReportOpen
                             /\ report' = [report EXCEPT ![p] = [at |-> "failed"]]
                             /\ faulty' = faulty \cup {report[p].task}
                             /\ UNCHANGED <<claim, edit>>
       \/ \E e \in Edits : /\ edit[e].at = "announce"
                           /\ edit' = [edit EXCEPT ![e] = [at |-> "failed"]]
                           /\ faulty' = faulty \cup {edit[e].task}
                           /\ UNCHANGED <<claim, report>>
    /\ UNCHANGED <<dbVars, memVars, reassigned, reopened>>

(* The server restarts: runs and leases are gone, handlers are cut short. *)
Restart ==
    /\ faults < MaxFaults
    /\ faults' = faults + 1
    /\ runs' = [c \in Claims |-> NoRun]
    /\ leases' = {}
    /\ claim' = [c \in Claims |-> IF claim[c].at \in ClaimOpen
                   THEN Ended(claim[c], "failed") ELSE claim[c]]
    /\ report' = [p \in Reports |-> IF report[p].at \in ReportOpen
                    THEN [at |-> "failed"] ELSE report[p]]
    /\ edit' = [e \in Edits |-> IF edit[e].at = "announce"
                  THEN [at |-> "failed"] ELSE edit[e]]
    /\ faulty' = faulty
         \cup {claim[c].task : c \in {d \in Claims : claim[d].at \in ClaimOpen}}
         \cup {report[p].task : p \in {q \in Reports : report[q].at \in ReportOpen}}
         \cup {edit[e].task : e \in {f \in Edits : edit[f].at = "announce"}}
    /\ UNCHANGED <<dbVars, reassigned, reopened>>

ClaimStep(c) ==
    \/ ReadClaimed(c) \/ Promote(c) \/ EnsureRun(c)
    \/ LookupAttempt(c) \/ RecordAttempt(c) \/ AnnounceClaim(c)

ReportStep(p) ==
    \/ LookupReported(p) \/ RecordReported(p)
    \/ UpdateTaskFromRun(p) \/ AnnounceReport(p)

Next ==
    \/ \E e \in Edits, t \in Tasks : CreateTask(e, t) \/ PatchState(e, t) \/ PatchAssignee(e, t)
    \/ \E e \in Edits : AnnounceEdit(e)
    \/ \E c \in Claims, t \in Tasks, a \in Claimants, owner \in BOOLEAN :
           ClaimCAS(c, t, a, owner)
    \/ \E c \in Claims : ClaimStep(c)
    \/ \E p \in Reports, r \in Claims, s \in ReportStates, a \in Agents :
           ReportRun(p, r, s, a)
    \/ \E p \in Reports : ReportStep(p)
    \/ HandlerFails
    \/ Restart

Spec == Init /\ [][Next]_vars

-----------------------------------------------------------------------------
(* Properties *)

TaskRows == [state : TaskStates, assignee : Claimants,
             lease : Claims \cup {NoRun}, version : Nat]
AttemptRows == [run : Claims, agent : Claimants,
                status : {"claimed", "running", "completed", "failed", "canceled"}]
RunRecords == [task : Tasks \cup {NoTask}, agent : Claimants, state : RunStates]

OpenClaims == [at : ClaimOpen, task : Tasks, agent : Claimants, owner : BOOLEAN,
               version : Nat, run : Claims \cup {NoRun}, fresh : BOOLEAN]
EndedClaims == [at : {"done", "failed"}, agent : Claimants, run : Claims \cup {NoRun}]
OpenReports == [at : ReportOpen, run : Claims, task : Tasks, agent : Agents,
                state : RunStates, fresh : BOOLEAN, version : Nat]
OpenEdits == [at : {"announce"}, task : Tasks, version : Nat]

TypeOK ==
    /\ task \in [Tasks -> TaskRows]
    /\ attempt \in [Tasks -> AttemptRows \cup {NoAttempt}]
    /\ runs \in [Claims -> RunRecords \cup {NoRun}]
    /\ leases \subseteq Claims
    /\ announced \in [Tasks -> SUBSET Nat]
    /\ claim \in [Claims -> [at : {"new", "rejected"}] \cup OpenClaims \cup EndedClaims]
    /\ report \in [Reports -> [at : {"new", "done", "failed"}] \cup OpenReports]
    /\ edit \in [Edits -> [at : {"new", "done", "failed"}] \cup OpenEdits]
    /\ reassigned \cup faulty \subseteq Tasks
    /\ reopened \subseteq Claims
    /\ faults \in Nat

Quiet(t) ==
    /\ \A c \in Claims : claim[c].at \in ClaimOpen => claim[c].task # t
    /\ \A p \in Reports : report[p].at \in ReportOpen => report[p].task # t
    /\ \A e \in Edits : edit[e].at = "announce" => edit[e].task # t

(* Unless a user reassigns it, a task has one owner: whatever claims and     *)
(* reports race, claims for nobody among them, every run that was claimed    *)
(* for an agent, and the attempt row while it shows such a run, belong to    *)
(* the agent in the task row.  (A run claimed for nobody goes to whichever   *)
(* daemon reports on it first.)                                              *)
SingleOwner ==
    \A t \in Tasks \ reassigned :
        /\ \A c \in Claims : runs[c] # NoRun /\ runs[c].task = t /\ claim[c].agent # Nobody
                                => runs[c].agent = task[t].assignee
        /\ attempt[t] # NoAttempt /\ claim[attempt[t].run].agent # Nobody
                                => attempt[t].agent = task[t].assignee

(* A claimant has one live run per task: repeated and concurrent claims      *)
(* share it.  (Not counted: a run reported live again after a terminal       *)
(* report, and a run claimed for nobody once an agent has reported on it.)   *)
OneLiveRun ==
    \A t \in Tasks, a \in Claimants :
        Cardinality({r \in LiveRuns(t, a) \ reopened : claim[r].agent = a}) <= 1

(* Once its handlers have finished without a fault, the latest version of a  *)
(* task is on the event log: no committed change goes unannounced.           *)
LatestVersionAnnounced ==
    \A t \in Tasks \ faulty :
        Quiet(t) /\ task[t].version > 0 => task[t].version \in announced[t]

=============================================================================
