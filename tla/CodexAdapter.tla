---------------------------- MODULE CodexAdapter ----------------------------
(***************************************************************************)
(* CodexAdapter.execute_run (src/codexmon/codex_adapter.py): start the     *)
(* runner in the worktree, record the launch, wait for it, record its      *)
(* exit.  The runner is a process of its own: it exits by itself, is       *)
(* killed at a timeout, or is killed by someone who found its pid in the   *)
(* event log.  proc.flag holds whether the runner succeeded.               *)
(***************************************************************************)
EXTENDS Ledger

\* execute_run refuses a run without a workspace or in another state
CheckLaunch(p) ==
  /\ At(p, "adapter")
  /\ Goto(p, IF /\ assigned[Run(p)]
                /\ State(p) \in {"workspace_allocated", "retry_pending"}
                /\ worktree[Run(p)]
             THEN "popen" ELSE Leave(p))
  /\ ReadOnly

\* A pid nobody can confuse with an earlier one: no live process has it, and
\* neither the event log nor a supervisor process remembers it
Forgotten(i) ==
  /\ ~Live(i)
  /\ \A r \in Runs, n \in Attempts : log[r].launch[n] # i
  /\ \A q \in Procs : proc[q].pid # i

\* subprocess.Popen: the runner is live before anything durable says so.
\* (The least forgotten pid: which one the kernel takes does not matter.)
Popen(p) ==
  \E i \in Pids :
    /\ At(p, "popen")
    /\ Forgotten(i)
    /\ \A j \in Pids : j < i => ~Forgotten(j)
    /\ runner' = [runner EXCEPT ![i] = [run |-> Run(p), by |-> p,
                                        status |-> "live"]]
    /\ proc' = [proc EXCEPT ![p].pc = "starting", ![p].pid = i]
    /\ UNCHANGED <<ledger, worktree, prs, spent>>

\* OSError: an event, and a return with the state unchanged
LaunchFailed(p) ==
  /\ At(p, "popen")
  /\ "launch" \in Faults
  /\ Goto(p, Done(p))
  /\ ReadOnly

\* The durable transition to running; its errors are not caught here, and
\* the runner is not killed when they are raised
MarkRunning(p) ==
  /\ At(p, "starting")
  /\ BeginTransition(p, "running", "", "launched", Leave(p))

\* The runner.launched event, the only place the pid is recorded
RecordLaunch(p) ==
  /\ At(p, "launched")
  /\ log' = IF log[Run(p)].full THEN log
            ELSE [log EXCEPT ![Run(p)].launch[proc[p].attempt] = proc[p].pid]
  /\ Goto(p, "wait")
  /\ UNCHANGED <<row, attempts, lock, assigned, approvals, fingerprints,
                 world>>

\* _capture_stream: each output line is an event; enough of them and the
\* 200-event window of list_events is full for good
RunnerOutput(p) ==
  /\ At(p, "wait")
  /\ "chatty" \in Faults
  /\ Live(proc[p].pid)
  /\ ~log[Run(p)].full
  /\ log' = [log EXCEPT ![Run(p)].full = TRUE]
  /\ UNCHANGED <<row, attempts, lock, assigned, approvals, fingerprints,
                 world, proc>>

\* The runner ends by itself, well or badly
RunnerExit(i) ==
  /\ Live(i)
  /\ \E status \in {"ok", "fail"} :
       runner' = [runner EXCEPT ![i] = Ended(i, status)]
  /\ UNCHANGED <<ledger, worktree, prs, spent, proc>>

\* Mutants: there is no limit; or the wait is given up and the process is
\* left alone
RunnerTimeoutNever(p) == FALSE

RunnerTimeoutUnkilled(p) ==
  /\ At(p, "wait")
  /\ Live(proc[p].pid)
  /\ \E fp \in Fingerprints :
       proc' = [proc EXCEPT ![p].pc = "exited", ![p].flag = FALSE,
                            ![p].fp = fp, ![p].pid = None]
  /\ ReadOnly

\* _wait_for_process: idle or wall-clock limit reached; terminate, then kill.
\* "runner run" sets no limit
RunnerTimeout(p) ==
  /\ At(p, "wait")
  /\ proc[p].cmd # "run"
  /\ Live(proc[p].pid)
  /\ runner' = [runner EXCEPT ![proc[p].pid] = Ended(proc[p].pid, "fail")]
  /\ UNCHANGED <<ledger, worktree, prs, spent, proc>>

\* The process is gone: the runner.exit event, with a failure signal that
\* becomes the fingerprint when it did not exit with 0
ObserveExit(p) ==
  /\ At(p, "wait")
  /\ ~Live(proc[p].pid)
  /\ log' = IF log[Run(p)].full THEN log
            ELSE [log EXCEPT ![Run(p)].exits = @ \cup {proc[p].attempt}]
  /\ LET ok == runner[proc[p].pid].status = "ok"
     IN \E fp \in IF ok THEN {None} ELSE Fingerprints :
          proc' = [proc EXCEPT ![p].pc = "exited", ![p].flag = ok,
                               ![p].fp = fp, ![p].pid = None]
  /\ runner' = [runner EXCEPT ![proc[p].pid] = NoRunner]
  /\ UNCHANGED <<row, attempts, lock, assigned, approvals, fingerprints,
                 worktree, prs, spent>>

\* The state is read again: a terminal run is left alone.  A failure is
\* durable before anybody analyzes it; "runner run" leaves it there.
\* (A terminal state seen by this read and one seen by the read inside
\* transition_run both leave the run as it is, so the two are one step.)
AfterFailure(p) ==
  /\ At(p, "exited")
  /\ ~proc[p].flag
  /\ IF State(p) \in Terminal
     THEN Goto(p, Done(p)) /\ ReadOnly
     ELSE BeginTransition(p, "analyzing_failure", "",
            IF proc[p].cmd = "run" THEN "idle" ELSE "policy", Leave(p))

\* Success.  The orchestrator defers the transition to after its scan; the
\* runner commands make it at once.  When somebody else moved the run to
\* analyzing_failure meanwhile, final_state says so to the controller.
AfterSuccess(p) ==
  /\ At(p, "exited")
  /\ proc[p].flag
  /\ CASE State(p) \in Terminal -> Goto(p, Done(p)) /\ ReadOnly
       [] State(p) \notin Terminal /\ proc[p].cmd # "execute" ->
            BeginTransition(p, "pr_handoff", "", "idle", "idle")
       [] State(p) = "analyzing_failure" /\ proc[p].cmd = "execute" ->
            /\ \E fp \in Fingerprints :
                 proc' = [proc EXCEPT ![p].pc = "policy", ![p].fp = fp]
            /\ ReadOnly
       [] OTHER -> Goto(p, "ran") /\ ReadOnly

AdapterStep(p) ==
  \/ CheckLaunch(p) \/ Popen(p) \/ LaunchFailed(p) \/ MarkRunning(p)
  \/ RecordLaunch(p) \/ RunnerOutput(p) \/ RunnerTimeout(p)
  \/ ObserveExit(p) \/ AfterFailure(p) \/ AfterSuccess(p)

AdapterLabels == {"adapter", "popen", "starting", "launched", "wait",
                  "exited"}
=============================================================================
