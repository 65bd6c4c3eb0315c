---------------------------- MODULE Orchestrator ----------------------------
(***************************************************************************)
(* SupervisorRuntime.execute_run (src/codexmon/orchestrator.py): preflight,*)
(* allocation, the adapter under the failure policy, the approval scan,    *)
(* the PR handoff, and the finally block that gives the lock back.         *)
(* Exceptions raised before the try block end the call; those raised       *)
(* inside it reach "finally".                                              *)
(***************************************************************************)
EXTENDS Allocator, CodexAdapter, FailurePolicy, ApprovalPolicy, PRHandoff

\* execute_run refuses a run that is not runnable
StartExecution(p) ==
  /\ At(p, "start")
  /\ Goto(p, CASE State(p) \in {"queued", "preflight"} -> "preflight"
               [] State(p) \in Runnable \ {"queued", "preflight"} -> "try"
               [] OTHER -> "idle")
  /\ ReadOnly

EnterPreflight(p) ==
  /\ At(p, "preflight")
  /\ IF State(p) = "queued"
     THEN BeginTransition(p, "preflight", "", "checks", "idle")
     ELSE Goto(p, "checks") /\ ReadOnly

\* The configuration checks; a failure halts the run and returns at once,
\* before the try block whose finally releases the lock
CheckPreflight(p) ==
  /\ At(p, "checks")
  /\ \/ Goto(p, "checked") /\ ReadOnly
     \/ /\ "preflight" \in Faults
        /\ BeginTransition(p, "halted", "", "idle", "idle")

\* The run is read again; a run halted meanwhile returns here too
AfterPreflight(p) ==
  /\ At(p, "checked")
  /\ Goto(p, IF State(p) = "halted" THEN "idle" ELSE "try")
  /\ ReadOnly

EnterTry(p) ==
  /\ At(p, "try")
  /\ Goto(p, IF State(p) = "preflight" THEN "allocate" ELSE "resume")
  /\ ReadOnly

\* The notification that work starts may itself time out, which raises
ResumeExecution(p) ==
  /\ At(p, "resume")
  /\ IF State(p) \in {"workspace_allocated", "retry_pending"}
     THEN \/ Goto(p, "adapter")
          \/ "timeout" \in Faults /\ Goto(p, "finally")
     ELSE Goto(p, "settle")
  /\ ReadOnly

\* The controller returned: a run still running succeeded and is scanned
AfterPolicy(p) ==
  /\ At(p, "ran")
  /\ Goto(p, IF State(p) = "running" THEN "scan" ELSE "settle")
  /\ ReadOnly

\* The scan asked for no approval
ReachHandoff(p) ==
  /\ At(p, "approved")
  /\ BeginTransition(p, "pr_handoff", "", "settle", "finally")

SettleHandoff(p) ==
  /\ At(p, "settle")
  /\ Goto(p, IF State(p) = "pr_handoff" THEN "handoff" ELSE "finally")
  /\ ReadOnly

\* except PRHandoffError
HandoffFailed(p) ==
  /\ At(p, "handoff_failed")
  /\ BeginTransition(p, "halted", "", "finally", "finally")

\* Mutants: the lock is given back whatever the state, or on success only
FinallyAlways(p) ==
  /\ At(p, "finally")
  /\ Goto(p, "release")
  /\ ReadOnly

FinallyCompleted(p) ==
  /\ At(p, "finally")
  /\ Goto(p, IF State(p) = "completed" THEN "release" ELSE "idle")
  /\ ReadOnly

\* The finally block: a terminal run gives the lock back
Finally(p) ==
  /\ At(p, "finally")
  /\ Goto(p, IF State(p) \in Terminal THEN "release" ELSE "idle")
  /\ ReadOnly

OrchestratorStep(p) ==
  \/ StartExecution(p) \/ EnterPreflight(p) \/ CheckPreflight(p)
  \/ AfterPreflight(p) \/ EnterTry(p) \/ ResumeExecution(p)
  \/ AfterPolicy(p) \/ ReachHandoff(p) \/ SettleHandoff(p)
  \/ HandoffFailed(p) \/ Finally(p)

OrchestratorLabels == {"start", "preflight", "checks", "checked", "try",
                       "resume", "ran", "approved", "settle",
                       "handoff_failed", "finally"}
=============================================================================
