-------------------------- MODULE OperatorCommands --------------------------
(***************************************************************************)
(* TelegramNotifier's inbound commands (src/codexmon/telegram_notifier.py),*)
(* also reached from "codexmon stop" and "codexmon approvals approve".     *)
(* Each command is a process of its own, next to the executor that works   *)
(* on the run.  The retry command is not here: it wants a state reason     *)
(* that no code writes, so it changes nothing.                             *)
(***************************************************************************)
EXTENDS Ledger

\* _apply_stop: refused for a terminal run
Stop(p, r) ==
  /\ p \in Operators
  /\ At(p, "idle")
  /\ "stop" \in Commands
  /\ row[r].state \notin Terminal \cup {"none"}
  /\ proc' = [proc EXCEPT ![p].pc = "interrupt_runner", ![p].cmd = "stop",
                          ![p].run = r]
  /\ ReadOnly

\* _interrupt_active_runner: SIGINT, SIGTERM, SIGKILL to the pid of the last
\* launch in the log; gives up silently after the last
InterruptRunner(p) ==
  /\ At(p, "interrupt_runner")
  /\ Goto(p, "halt_run")
  /\ \/ \E i \in ActivePid(Run(p)) :
          /\ Live(i)
          /\ runner' = [runner EXCEPT ![i] = Ended(i, "fail")]
     \/ /\ \A i \in ActivePid(Run(p)) : ~Live(i) \/ "signal" \in Faults
        /\ UNCHANGED runner
  /\ UNCHANGED <<ledger, worktree, prs, spent>>

\* The final transition; then the lock is released
HaltRun(p) ==
  /\ At(p, "halt_run")
  /\ BeginTransition(p, "halted", "", "release", "idle")

\* _apply_approve: the newest pending request of the run, or, by id, any
\* request there is
Approve(p, r) ==
  /\ p \in Operators
  /\ At(p, "idle")
  /\ row[r].state = "awaiting_human"
  /\ row[r].attempt < MaxAttempt
  /\ \/ /\ "approve" \in Commands
        /\ \E i \in Latest(Pending(r)) :
             proc' = [proc EXCEPT ![p].pc = "resolve", ![p].cmd = "approve",
                        ![p].run = r, ![p].request = <<r, i>>]
     \/ /\ "approve_by_id" \in Commands
        /\ \E s \in Runs : \E i \in DOMAIN approvals[s] :
             proc' = [proc EXCEPT ![p].pc = "resolve", ![p].cmd = "approve",
                        ![p].run = r, ![p].request = <<s, i>>]
  /\ ReadOnly

\* resolve_approval: the request and the run it belongs to
ResolveApproval(p) ==
  LET s == proc[p].request[1]
      i == proc[p].request[2]
  IN /\ At(p, "resolve")
     /\ approvals' = [approvals EXCEPT ![s][i] = "approved"]
     /\ row' = [row EXCEPT ![s].approval = "approved"]
     /\ Goto(p, "continue_run")
     /\ UNCHANGED <<attempts, lock, assigned, fingerprints, log, world>>

ContinueRun(p) ==
  /\ At(p, "continue_run")
  /\ BeginTransition(p, "retry_pending", "approved", "idle", "idle")

OperatorStep(p) ==
  \/ \E r \in Runs : Stop(p, r) \/ Approve(p, r)
  \/ InterruptRunner(p) \/ HaltRun(p)
  \/ ResolveApproval(p) \/ ContinueRun(p)

OperatorLabels == {"interrupt_runner", "halt_run", "resolve",
                   "continue_run"}
=============================================================================
