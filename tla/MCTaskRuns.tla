----------------------------- MODULE MCTaskRuns -----------------------------
(* One task, two agents: every conflict is about one task row.              *)
EXTENDS TaskRuns, TLC

CallSymmetry ==
    Permutations(Claims) \cup Permutations(Reports) \cup Permutations(Edits)
    \cup Permutations(Agents)

(* Bound: tasks are created in state todo.  A fault or a restart happens to  *)
(* a task that is not edited again; without one, an edit follows.            *)
Scenario ==
    /\ \A t \in Tasks : task[t].version = 1 => task[t].state = "todo"
    /\ faults = 0 \/ \E e \in Edits : edit[e].at = "new"

=============================================================================
