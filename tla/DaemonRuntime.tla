--------------------------- MODULE DaemonRuntime ---------------------------
(***************************************************************************)
(* SupervisorDaemon (src/codexmon/daemon_runtime.py): each tick repairs at *)
(* most one orphaned run and then executes at most one runnable run.  Any  *)
(* exception ends the tick.  Among runs of the same priority the code      *)
(* takes the oldest updated_at, a timestamp of one-second resolution; here *)
(* any of them may come first.                                             *)
(***************************************************************************)
EXTENDS Ledger

First(S, order) == {r \in S : \A s \in S :
                      order[row[r].state] <= order[row[s].state]}

\* Mutant: only a run with a runner is looked for
OrphansRunning == {r \in Runs : row[r].state = "running"}

Orphans == {r \in Runs : row[r].state \in Recoverable}
Waiting == {r \in Runs : row[r].state \in Runnable}

\* list_recoverable_runs: whatever is running or analyzing a failure is
\* taken for an orphan; the event log gives the failure class
FindOrphan(p) ==
  /\ p \in Daemons
  /\ At(p, "idle")
  /\ \E r \in First(Orphans, RepairOrder) :
       \E fp \in IF row[r].state = "running" THEN {None}
                 ELSE IF log[r].full \/ log[r].cause = None
                 THEN Fingerprints ELSE {log[r].cause} :
       proc' = [proc EXCEPT ![p] = [@ EXCEPT
         !.pc = IF row[r].state = "running" THEN "interrupt" ELSE "orphan",
         !.cmd = "recover", !.run = r, !.attempt = row[r].attempt, !.fp = fp]]
  /\ ReadOnly

\* _recover_running_process.  The process is missing when the exit is in the
\* log, the launch is not, the pid is gone, or the command name of the pid
\* is not the launched one ("comm": a wrapper script); else it is signalled.
\* The failure class it returns starts a fingerprint of its own.
InterruptOrphan(p) ==
  LET r == Run(p)
      n == proc[p].attempt
      pid == IF n = 0 THEN None ELSE log[r].launch[n]
      found == /\ pid # None
               /\ n \notin log[r].exits
               /\ Live(pid)
  IN /\ At(p, "interrupt")
     /\ \E fp \in Fingerprints :
          \/ /\ ~found \/ "comm" \in Faults
             /\ proc' = [proc EXCEPT ![p].pc = "orphan", ![p].fp = fp]
             /\ UNCHANGED runner
          \/ /\ found
             /\ runner' = [runner EXCEPT ![pid] = Ended(pid, "fail")]
             /\ proc' = [proc EXCEPT ![p].pc = "orphan", ![p].fp = fp]
          \/ /\ found /\ "signal" \in Faults
             /\ Goto(p, "uninterruptible")
             /\ UNCHANGED runner
     /\ UNCHANGED <<ledger, worktree, prs, spent>>

HaltUninterruptible(p) ==
  /\ At(p, "uninterruptible")
  /\ BeginTransition(p, "halted", "", "release", "idle")

\* Mutant: a run found in analyzing_failure is retried without the policy
RecoverOrphanUnchecked(p) ==
  /\ At(p, "orphan")
  /\ CASE State(p) = "running" ->
            BeginTransition(p, "analyzing_failure", "", "policy", "idle")
       [] State(p) = "analyzing_failure" ->
            BeginTransition(p, "retry_pending", "", "recovered", "idle")
       [] OTHER -> Goto(p, "idle") /\ ReadOnly

\* recover_orphaned_run: close the attempt, then the failure policy
RecoverOrphan(p) ==
  /\ At(p, "orphan")
  /\ CASE State(p) = "running" ->
            BeginTransition(p, "analyzing_failure", "", "policy", "idle")
       [] State(p) = "analyzing_failure" -> Goto(p, "policy") /\ ReadOnly
       [] OTHER -> Goto(p, "idle") /\ ReadOnly

\* A terminal run gives the lock back; a runnable one lets the tick go on
AfterRecovery(p) ==
  /\ At(p, "recovered")
  /\ Goto(p, CASE State(p) \in Terminal -> "release"
               [] State(p) \in Runnable -> "pick"
               [] OTHER -> "idle")
  /\ ReadOnly

\* list_recoverable_runs is empty
NoOrphan(p) ==
  /\ p \in Daemons
  /\ At(p, "idle")
  /\ Orphans = {}
  /\ proc' = [proc EXCEPT ![p] = [Idle EXCEPT !.pc = "pick"]]
  /\ ReadOnly

\* list_runnable_runs(limit=1), in a tick that found no orphan or that
\* turned one into a runnable run
PickRunnable(p) ==
  /\ At(p, "pick")
  /\ \E r \in First(Waiting, ServeOrder) :
       proc' = [proc EXCEPT ![p] =
         [Idle EXCEPT !.pc = "start", !.cmd = "execute", !.run = r]]
  /\ ReadOnly

\* Nothing to do: the idle heartbeat
IdleTick(p) ==
  /\ At(p, "pick")
  /\ Waiting = {}
  /\ Goto(p, "idle")
  /\ ReadOnly

DaemonStep(p) ==
  \/ FindOrphan(p) \/ InterruptOrphan(p) \/ HaltUninterruptible(p)
  \/ RecoverOrphan(p) \/ AfterRecovery(p)
  \/ NoOrphan(p) \/ PickRunnable(p) \/ IdleTick(p)

DaemonLabels == {"interrupt", "uninterruptible", "orphan", "recovered",
                 "pick"}
=============================================================================
