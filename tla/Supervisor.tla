----------------------------- MODULE Supervisor -----------------------------
(***************************************************************************)
(* The whole of codexmon: executors (the daemon and foreground commands),  *)
(* operator commands, runner processes, and crashes, over one ledger.      *)
(***************************************************************************)
EXTENDS CommandLine, DaemonRuntime, OperatorCommands

CONSTANTS MaxCrashes,       \* bound: supervisor processes that die and
                            \* ledger calls that raise
          RunnersOutlive    \* a runner survives the process that started it
                            \* (foreground use); FALSE is the systemd unit,
                            \* whose control group is killed as a whole

\* SIGKILL, power loss, an unhandled signal: memory is gone, the ledger
\* stays.  Writes are atomic, so a crash falls between two ledger calls.
\* A daemon is a process between its ticks, too.
Crash(p) ==
  /\ p \in Daemons \/ ~At(p, "idle")
  /\ spent.crashes < MaxCrashes
  /\ spent' = [spent EXCEPT !.crashes = @ + 1]
  /\ Goto(p, "idle")
  /\ runner' = IF RunnersOutlive THEN runner
               ELSE [i \in Pids |-> IF runner[i].by = p THEN NoRunner
                                   ELSE runner[i]]
  /\ UNCHANGED <<ledger, worktree, prs>>

\* Steps without a ledger call: those in git, and GitHub's answer about CI
Unledgered == {"worktree", "undo", "ci"}

\* Who catches what a ledger call raises
Handler(p) ==
  CASE proc[p].pc = "commit" -> proc[p].call.handler
    [] proc[p].pc \in {"acquire", "insert_lock", "assign", "allocated"} ->
         "undo"
    [] proc[p].pc \in {"idle", "pick", "start", "preflight", "checks",
                      "checked", "finally", "release"} -> "idle"
    [] OTHER -> Leave(p)

\* The database stays locked for longer than a connection waits: the ledger
\* call raises OperationalError and changes nothing.  Between its ticks, too,
\* a daemon writes heartbeats
LedgerBusy(p) ==
  /\ "busy" \in Faults
  /\ p \in Daemons \/ ~At(p, "idle")
  /\ proc[p].pc \notin Unledgered
  /\ spent.crashes < MaxCrashes
  /\ spent' = [spent EXCEPT !.crashes = @ + 1]
  /\ Goto(p, Handler(p))
  /\ UNCHANGED <<ledger, worktree, runner, prs>>

ExecutorStep(p) ==
  \/ CommitTransition(p) \/ DuplicateAttempt(p) \/ LedgerBusy(p)
  \/ AllocatorStep(p) \/ AdapterStep(p) \/ PolicyStep(p)
  \/ ApprovalStep(p) \/ HandoffStep(p) \/ OrchestratorStep(p)
  \/ CommandStep(p)
  \/ DaemonStep(p) \/ OperatorStep(p)

Next ==
  \/ \E r \in Runs : CreateRun(r)
  \/ \E i \in Pids : RunnerExit(i)
  \/ \E p \in Procs : ExecutorStep(p) \/ Crash(p)

Spec == Init /\ [][Next]_vars

\* The daemon ticks for as long as it is up (systemd restarts it), and a
\* command that has begun runs on; nobody has to give a command, and a
\* runner need not exit by itself: RunnerTimeout is the executor's.
Fairness ==
  /\ \A p \in Daemons : WF_vars(ExecutorStep(p))
  /\ \A p \in Clis \cup Operators :
       WF_vars(~At(p, "idle") /\ ExecutorStep(p))

FairSpec == Spec /\ Fairness

---------------------------------------------------------------------------
Labels == {"idle", "commit"} \cup AllocatorLabels \cup AdapterLabels
          \cup PolicyLabels \cup ApprovalLabels \cup HandoffLabels
          \cup OrchestratorLabels \cup DaemonLabels \cup OperatorLabels

\* Where a transition, or any other step, may continue
Targets == Labels \ {"commit"}

CallType == [to: States, seen: RowType, result: {"", "approved"},
             next: Targets, handler: Targets]

ProcType ==
  [pc: Labels,
   cmd: DOMAIN Entry \cup {"none", "recover", "stop", "approve"},
   run: Runs \cup {None}, call: CallType \cup {None},
   pid: Pids \cup {None}, attempt: 0..MaxAttempt, flag: BOOLEAN,
   fp: Fingerprints \cup {None}, request: (Runs \X Nat) \cup {None}]

LedgerOK ==
  /\ row \in [Runs -> RowType]
  /\ attempts \in [Runs -> [Attempts -> AttemptStatus]]
  /\ lock \in Runs \cup {None}
  /\ assigned \in [Runs -> BOOLEAN]
  /\ approvals \in [Runs -> Seq({"pending", "approved"})]
  /\ fingerprints \in
       [Runs -> Seq([fp: Fingerprints \cup {None}, attempt: 0..MaxAttempt])]
  /\ log \in [Runs -> LogType]

RunnerType == [run: Runs \cup {None}, by: Procs \cup {None},
               status: {"unused", "live", "ok", "fail"}]

WorldOK ==
  /\ worktree \in [Runs -> BOOLEAN]
  /\ runner \in [Pids -> RunnerType]
  /\ prs \in [Runs -> BOOLEAN]
  /\ spent \in [commands: Nat, crashes: Nat]

\* A busy process works on a run unless it is looking for one, and one
\* between the two connections of transition_run has a call
ProcsOK ==
  /\ proc \in [Procs -> ProcType]
  /\ \A p \in Procs : /\ proc[p].pc \notin {"idle", "pick"} =>
                           proc[p].run \in Runs
                      /\ proc[p].pc = "commit" => proc[p].call \in CallType

\* The tables have the columns and the processes the locals they should
TypeOK == LedgerOK /\ WorldOK /\ ProcsOK
=============================================================================
