----------------------------- MODULE RunStates -----------------------------
(***************************************************************************)
(* The run-state model of src/codexmon/state_machine.py, and the two pure  *)
(* helpers of the ledger that read it: what transition_run stores in the   *)
(* approval_status column and in the attempt it closes.                    *)
(***************************************************************************)

States == {"none", "queued", "preflight", "workspace_allocated", "running",
           "analyzing_failure", "awaiting_human", "retry_pending",
           "pr_handoff", "completed", "halted", "cancelled"}
    \* "none" is Python's None: create_run has not inserted the run yet

Terminal == {"completed", "halted", "cancelled"}

\* States whose run owns the worktree, or is about to use it again
Active == {"workspace_allocated", "running", "analyzing_failure",
           "awaiting_human", "retry_pending", "pr_handoff"}

\* execute_run accepts a run in these states, and the daemon looks for them
Runnable == {"queued", "preflight", "workspace_allocated", "retry_pending",
             "pr_handoff"}

Recoverable == {"running", "analyzing_failure"}

AllowedNext ==
  [none                |-> {"queued"},
   queued              |-> {"preflight"},
   preflight           |-> {"workspace_allocated", "halted"},
   workspace_allocated |-> {"running"},
   running             |-> {"pr_handoff", "analyzing_failure",
                            "awaiting_human", "halted"},
   analyzing_failure   |-> {"retry_pending", "awaiting_human", "halted"},
   retry_pending       |-> {"running"},
   awaiting_human      |-> {"retry_pending", "cancelled"},
   pr_handoff          |-> {"completed", "halted"},
   completed           |-> {},
   halted              |-> {},
   cancelled           |-> {}]

\* validate_transition: kill-switch edges first, then the table
ValidTransition(from, to) ==
  /\ from \notin Terminal
  /\ \/ from # "none" /\ to = "halted"
     \/ to \in AllowedNext[from]

ApprovalStatus == {"not_required", "pending", "approved"}

\* An explicit result wins, awaiting_human means pending, else unchanged
NextApproval(current, to, result) ==
  IF result # "" THEN result
  ELSE IF to = "awaiting_human" THEN "pending" ELSE current

\* "none": the attempts table has no row with that number
AttemptStatus == {"none", "active", "succeeded", "failed",
                  "approval_pending", "halted", "cancelled", "finished"}

\* Mutant: the state is stored as it is, without the table of statuses
AttemptStatusUnmapped(to) == to

\* Mutant: an attempt closed by a halt stays as it was
AttemptStatusNoHalt(to) ==
  CASE to = "pr_handoff"        -> "succeeded"
    [] to = "analyzing_failure" -> "failed"
    [] to = "awaiting_human"    -> "approval_pending"
    [] to \in {"halted", "cancelled"} -> "active"
    [] OTHER -> "finished"

AttemptStatusFor(to) ==
  CASE to = "pr_handoff"        -> "succeeded"
    [] to = "analyzing_failure" -> "failed"
    [] to = "awaiting_human"    -> "approval_pending"
    [] to \in {"halted", "cancelled"} -> to
    [] OTHER -> "finished"

\* The order in which the daemon serves runs: list_runnable_runs
ServeOrder == [pr_handoff |-> 1, retry_pending |-> 2,
               workspace_allocated |-> 3, preflight |-> 4, queued |-> 5]

\* ... and repairs them: list_recoverable_runs
RepairOrder == [running |-> 1, analyzing_failure |-> 2]
=============================================================================
