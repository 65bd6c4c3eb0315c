# codexmon: TLA+ models, checks and proofs

codexmon supervises an autonomous coding agent: it takes a task, gives it a git
worktree, runs the agent, retries a failed attempt within a budget, asks a human
about risky diffs, and hands a successful run over as a GitHub pull request. All
durable state is one SQLite ledger. There are no threads that share memory, but
there are many operating-system *processes* on that ledger: the daemon,
foreground commands, one process per operator command, and the agent ("runner")
itself. Any of them can die between two ledger calls. That is where this code can
go wrong, and what the modules here are about.

Paths below are relative to `src/codexmon/` in the repository, `docs/` is its
documentation.

## 1. Inventory

| Component | State it keeps | Operations | Talks to |
|---|---|---|---|
| state machine, `state_machine.py` | none (transition table, `validate_transition`) | pure | used by the ledger |
| run ledger, `ledger.py` | tables `runs`, `attempts`, `events`, `repository_locks`, `workspace_assignments`, `approvals`, `failure_fingerprints`, heartbeats | `create_run`, `transition_run` (two connections), lock acquire and release, record a fingerprint, request and resolve an approval, list queries | everybody |
| worktree allocator, `workspace.py` | the worktree on disk; lock and assignment rows | `allocate`, `release` | ledger, git |
| codex adapter, `codex_adapter.py` | the runner process | `execute_run`: Popen, transition to running, event log, timeouts, exit | ledger, operating system |
| failure policy, `failure_policy.py` | fingerprints (in the ledger) | the retry loop, `handle_terminal_failure`, recovery entry | ledger, adapter |
| approval policy, `approval_policy.py` | approval requests (in the ledger) | `scan` | ledger, git |
| PR handoff, `pr_handoff.py` | the pull request on GitHub, PR reference | `execute`: gate, local check, commit, push, create, CI, complete | ledger, git, GitHub |
| orchestrator, `orchestrator.py` | none | `execute_run` from preflight to the `finally` that releases the lock | all of the above |
| daemon, `daemon_runtime.py` | heartbeat rows (in the ledger), the reason of a requested stop | one tick: repair one orphan, then execute one runnable run; the serve loop around it | ledger, orchestrator, processes by pid |
| operator commands, `telegram_notifier.py` | none | stop, approve (retry, status) | ledger, processes by pid |
| command line, `cli.py` | none | start, execute, workspace allocate and release, stop, approvals, runner run and supervise, handoff, daemon | all |
| progress monitor, `progress_monitor.py` | none | a read-only snapshot out of four ledger reads | ledger |
| configuration, `config.py` | none | environment variables | all |
| service unit, `ops/systemd/codexmon-daemon.service` | — | start, restart on failure, SIGTERM, SIGKILL after 30 s, kills the whole control group | daemon |

What is hard here, and the property that makes each component correct:

* `transition_run` reads and validates the row in one connection and overwrites
  **every** column in another. Whatever happens in between is lost. Properties:
  `TerminalIsFinal`, `AttemptLedger`.
* The lock is taken by a SELECT and an INSERT, released by whoever gets to a
  `finally`, and must cover every active run: `ActiveRunHoldsLock`,
  `LockOutlivesRun`, `TerminalReleasesLock`, `ImplementsLifecycle`.
* The runner lives before the ledger says so and its pid is logged only later;
  a supervisor may die on either side: `RunnersAreIsolated`,
  `UnattendedRunnersAreCounted`, `ActiveAttemptMatchesRun`, `LaunchRecordIsFinal`.
* The failure policy records, decides and transitions in separate steps and is
  entered by two callers: `RetryBudgetHolds`, `RepeatedFailureHalts`.
* Approval, diff classification and the PR gate look at different columns and
  rows: `NoPRWithPendingApproval`, `CompletedIsEarned`, `BlockedHandoffHasNoPR`.
* The daemon serves runs by priority, forever, is stopped between ticks only and
  restarted after a failure: `PicksUpAgain`, `StopEnds`.
* A database that stays busy raises out of any ledger call, and each caller has a
  handler of its own, of which none stops a runner: the properties of run
  `recovery`, and `LeftRunnersAreReported` of the daemon, whose loop goes on.
* Every service can also be entered by a foreground command, in whatever state the
  run is: the properties of runs `recovery` and `two_executors`.
* A snapshot of the monitor relates four reads of different moments:
  `SnapshotAgrees`.

`PROJECT.json` lists every hazard with its source line.

## 2. Modules

```
RunStates                         the transition table, status mappings
  RunLifecycle                    abstract specification of runs
  Ledger                          tables, world, processes, transition_run
    Allocator  CodexAdapter  FailurePolicy  ApprovalPolicy  PRHandoff
      Orchestrator                execute_run over the five above
        CommandLine               foreground commands that enter any of them
    DaemonRuntime  OperatorCommands
      Supervisor                  Next, crashes, busy database, fairness, TypeOK
        SupervisorProperties      everything that should hold
          DaemonService           serve loop, signals, heartbeats, systemd
            ProgressMonitor       snapshots taken next to it
          MCSupervisor  MCService  MCMonitor    symmetry for TLC
          SupervisorProofs        theorems about Supervisor
            ServiceProofs         theorems about the service and the monitor
              SequentialProofs    theorems for one process at a time
                OrderlyProofs     one executor and one operator: the invariant
                  FootprintProofs where a step leads and what it writes
                    AttemptProofs     retry budget, repeated failures
                      HandoffProofs   completion, the PR gate
                        IsolationProofs   lock, life cycle, runners, service
```

| Module | Code | State and actions |
|---|---|---|
| `RunStates` | `state_machine.py`, two helpers of `ledger.py` | `AllowedNext`, `ValidTransition` (kill-switch edges first, as in the code), `NextApproval`, `AttemptStatusFor`, the daemon's two orders |
| `Ledger` | `ledger.py` | one variable per table; `BeginTransition`/`CommitTransition` are the two connections of `transition_run`, `DuplicateAttempt` its `IntegrityError`; `CreateRun` |
| `Allocator` | `workspace.py` | `Allocate`, `SelectLock`, `InsertLock`, `EnsureWorktree`, `AssignWorkspace`, `MarkAllocated`, the error path `Undo*`, `Cleanup`, `Release` |
| `CodexAdapter` | `codex_adapter.py` | `CheckLaunch`, `Popen`, `MarkRunning`, `RecordLaunch`, `RunnerOutput`, `RunnerExit`, `RunnerTimeout`, `ObserveExit`, `AfterFailure`, `AfterSuccess` |
| `FailurePolicy` | `failure_policy.py` | `ListFingerprints`, `RecordFingerprint`, `Decide`, `AllowRetry`, `DenyRetry` |
| `ApprovalPolicy` | `approval_policy.py` | `Scan`, `ListPending`, `RequestApproval`, `AwaitHuman` |
| `PRHandoff` | `pr_handoff.py` | `BeginHandoff` (the gate), `HandoffHalt`, `LocalCheck`, `CreatePullRequest`, `ReadCi`, `SetReference`, `Complete` |
| `Orchestrator` | `orchestrator.py` | `StartExecution`, preflight, try, settle, `Finally` |
| `CommandLine` | `cli.py` | `CliCommand` enters a service at the label `Entry` names; where it ends is said by `Leave`, `Done`, `Returned`, `Classified` and `Failed` of the services, which look at `cmd` |
| `DaemonRuntime` | `daemon_runtime.py` | `FindOrphan`, `InterruptOrphan`, `HaltUninterruptible`, `RecoverOrphan`, `AfterRecovery`, `NoOrphan`, `PickRunnable`, `IdleTick`; the search for an orphan and the search for a waiting run are two steps |
| `OperatorCommands` | `telegram_notifier.py` | `Stop`, `InterruptRunner`, `HaltRun`, `Approve`, `ResolveApproval`, `ContinueRun` |
| `Supervisor` | the whole; `_connect` of `ledger.py` | `Crash`, `LedgerBusy` with the `Handler` of each caller, `Next`, `Fairness` |
| `DaemonService` | `serve` and `run_once` of `daemon_runtime.py`, heartbeats of `ledger.py`, the systemd unit | per daemon a `phase` of the loop and `asked` (a stop was requested), the newest `heartbeat`, the `errors` recorded since the process started; `Start`, `StartFails`, `BeginTick`, `Tick`, `Record`, `RecordBusy`, `Signal`, `Stopped`, `Die` |
| `ProgressMonitor` | `build_snapshot` of `progress_monitor.py`, list calls of `ledger.py` | `view`, what the snapshot has read; `ReadRuns`, `ReadHeartbeats`, `ReadRunnable`, `ReadRecoverable`; `ExecutionStatus` and `Checkpoint` derived from it |

Each process is a record `proc[p]` with a program counter (`pc`), the command it
carries out and the locals that survive a ledger call: the run, the call in
progress with the row it has seen, the runner's pid and attempt, a flag, a
fingerprint, an approval request. A crash, or the end of a command, throws the
record away; the tables stay.

**The service around the supervisor.** `Supervisor` lets a daemon tick and die at
any time. `DaemonService` keeps its steps (`Tick` is `ExecutorStep`, `Die` is
`Crash`) and says when the process exists and when it ticks: a phase per daemon,
read off the label the tick has reached (`AfterStep`), with the heartbeat as a
step of its own because it is a ledger call of its own. A tick in which a ledger
call raised is `raised` until the exception has passed the handlers of its callers,
and ends with the heartbeat `error`; a heartbeat that cannot be written ends the
tick in the same way, or the process when it is `started`. systemd starts the unit
only when nothing of its control group is left. `ProgressMonitor` adds the reader. Neither changes what the supervisor may do to the ledger, and
`ServiceProofs` proves that.

**Atomicity.** One connection of the ledger is one step: SQLite makes it atomic
and durable. Everything between two ledger calls of one process is invisible to
the others and part of one of the steps; starting, killing and reaping a runner,
`git worktree add` and each GitHub request are steps of their own.

**Abstractions.** A fingerprint is a model value; the diff rules, checks, git and
GitHub are free choices, enabled by the constant `Faults`. Times are left out: of
two runs with one priority the daemon may take either (the code orders them by
`updated_at`, which has one-second resolution and is renewed by every write). Of
the `events` table only what code reads back is kept, as `log`: launches, exits,
the last failure, and whether the 200 events that `list_events` returns are full.
A pid is given to a new process only when nobody
remembers it. All runs belong to one repository: runs of different repositories
share no row. Heartbeats that nobody tells apart are one value,
`ended`, which includes the error of an exception that no ledger call raised.
`LedgerBusy` applies to every label whose step makes a ledger call; at three others
(`Unledgered`) there is none. Wording and notifications that succeed are left out; a
notification that times out raises out of `execute_run` and is modelled. The
operator's `retry` is left out because it asks for a state reason that no code
writes, so it never changes anything.

**Abstract specification.** `RunLifecycle` says what is promised about runs
without processes: single steps along the state machine, one active run at a
time, a retry only within the budget, a restart only where the table allows it,
with the number of starts counted. `SupervisorProperties` instantiates it with
`state` and `tries` read from the `runs` table; `ImplementsLifecycle` is checked.

## 3. Runs

The configurations below; all state spaces of passing runs are exhausted. Every
run names its bounds as constants: `MaxAttempt` (attempts of a run), `MaxPid`
(runner processes anybody remembers), `MaxCommands` (foreground commands),
`MaxCrashes` (processes that die, and ledger calls that raise), `ListLimit` (rows
of a list in a snapshot; 20 in the code).

| Run | Deployment | Distinct states | What it shows |
|---|---|---|---|
| `service` (`MCService`) | the systemd unit: one daemon that may be stopped and started, two runs, approvals, every fault of the environment, one crash that takes the runner along | 519 thousand | isolation, PR gate, meaning of completed, repeated failures, refinement of `RunLifecycle` |
| `recovery` (`MCSupervisor`) | one terminal: the daemon's tick or any of the eight commands on one run, one after the other, approvals of the run at any time; two crashes or busy ledger calls; the runner survives; recovery misses the process or cannot signal it | 1.6 million | attempts table mirrors the run, retry budget, meaning of completed, no more unattended runners than crashes and raised ledger calls |
| `kill_switch` (`MCSupervisor`) | stop and approve at any moment, one crash, a runner whose output hides its pid | 193 thousand | PR gate and attempt numbering under concurrent writers |
| `two_executors` (`MCSupervisor`) | any three foreground commands from two terminals on one run, and approvals by run or by id, also repeated | 1.0 million | attempt numbering and launch records with competing executors |
| `progress` (`MCService`) | fair; the served daemon with two runs, stops, restarts, one crash or busy ledger call anywhere, also between ticks and at the start, failures of git and GitHub, an approval per run | 288 thousand | every run settles unless the service is stopped, a stop ends the process, an ended run releases the lock, a runner left behind is reported |
| `monitor` (`MCMonitor`) | the served daemon with two runs, stops, restarts, one crash, and snapshots whose lists hold one of the two | 2.2 million | a snapshot agrees with itself |
| `stop_overwritten` … `lock_before_halt` | smallest deployment that shows the disagreement | | section 5 |

*Why the bounds are enough.* Two runs are what competition for the one lock
needs. With a budget of one, an attempt, its automatic retry and an approved third
attempt are all a policy decision can tell apart (`MaxAttempt` = 3; a human may not
approve beyond the bound). `progress` has a budget of zero and two attempts,
to leave room for a crash and an approval of each run: a retry then comes from an approval or not at
all, and takes the same path (`retry_pending`, picked by the daemon) as an
automatic one. Two fingerprints give "same" and "different". Two crashes let a
recovery crash during the repair of a first crash. `MaxPid` exceeds what is
remembered at once. A `ListLimit` of one with two runs is the smallest list that
leaves somebody out. The daemon is one process by deployment; two executors plus a
daemon are beyond exhaustive checking and are covered by the violation runs, which
need not be exhaustive, and by the proofs, which hold for any number.

*Symmetry.* Runs, fingerprints, foreground and operator processes are
interchangeable in the safety runs. The liveness runs use no symmetry.

*Deadlock.* Checked everywhere except `two_executors`, which has no daemon: when
the commands have been given and have ended, the system does stop.

*Fairness.* `ServiceFairness` assumes weak fairness of the serve loop (its tick,
its heartbeat, its look at a requested stop), because a process that runs keeps
running; of the start of a daemon that has failed, because the unit has
`Restart=on-failure`; and of a command's steps once it has begun. A daemon that
was stopped on request need not be started again, which is why `PicksUpAgain`
excuses that case. Nobody has to give a command, enter a task or ask for a stop,
and a runner need not exit: `RunnerTimeout`, the executor's own idle and
wall-clock limit, ends the wait (but not that of `runner run`, which sets no limit
and is in no fair run). What the model does assume to return is what the code waits
for without a limit: the local check, git, and the join of the two threads that read
the pipes of a runner that is gone, which a grandchild that keeps them open would
delay. `FairSpec` is the same for `Supervisor` alone and
is used by the violation run `launch_failure`.

*Mutants.* Every property of a passing run has a plausible bug that it catches;
the mutated operators stand before the originals in the modules, under a
`Mutant:` comment.

## 4. Proofs

`SupervisorProofs` proves, for every set of runs, daemons, commands and operators
and all faults, bounds and crashes:

* `TypeCorrect`: `Spec => []TypeOK`;
* `AttemptLedgerHolds`: `Spec => []AttemptLedger` — attempt numbers have no gap,
  and the number a run counts is in the attempts table;
* `LaunchRecordStays`: `Spec => LaunchRecordIsFinal` — the pid recorded for an
  attempt is never replaced, so recovery and stop find the process of that attempt.

The last two are not inductive: a process that holds an old row could write any
number. The invariant `IInv` adds

* `SeenAttempts`: the attempt number in every row a process holds is known to the
  attempts table (entries of that table are never removed), and
* `LaunchLedger`: a process that is about to record a launch works on an attempt
  that is in the table and has no pid, and is the only such process for it. This
  is where the primary key of `attempts` enters: of two processes that start the
  same attempt, one gets `IntegrityError`.

`LocalStep`, `GotoStep` and `BeginStep` prove once that a step which leaves
attempts, attempt numbers and recorded pids alone preserves `IInv`; every action
but two is an instance, one step each in `AllocatorKeeps` … `OperatorKeeps`.
`CommitKeeps` and `RecordLaunchKeeps` are the two that are not.

`BusyKeeps` and `CommandKeeps` cover a ledger call that raises and the foreground
commands; for them the return operators are shown to lead to a stop
(`ReturnFacts`, `EntryFacts`).

`ServiceProofs` proves about the served daemon and the monitor, again for all
constants:

* `ServiceImplementsSupervisor`: `ServiceSpec => Spec`, hence
  `ServiceKeepsAttemptLedger` and `ServiceKeepsLaunchRecord`;
* `MonitorOnlyReads`: `MonitorSpec => ServiceSpec`;
* `ServiceTyped`: `ServiceSpec => []ServiceOK`;
* `SnapshotsAgree`: `MonitorSpec /\ TerminalIsFinal => []SnapshotAgrees`. Its
  invariant `SnapshotInv` says that whatever the view shows as ended has ended in
  the ledger, and that nothing listed is shown as ended; the first part survives
  the steps between two reads exactly because ended runs stay ended. The
  hypothesis is needed: with `/stop` next to the daemon it fails (section 5);
  `SequentialProofs` shows where it holds.

`SequentialProofs` proves what the ledger guarantees where one process works at a
time (`Sole == \A p, q \in Procs : p = q`), be it a daemon or commands given one
after the other, still with every crash, busy database, timeout and other failure:

* `SoleProcessKeepsEnded`: `Sole /\ Spec => TerminalIsFinal`;
* `SoleProcessMatchesAttempts`: `Sole /\ Spec => []ActiveAttemptMatchesRun`;
* `SoleProcessSnapshots`: `Sole /\ MonitorSpec => []SnapshotAgrees`, where the
  hypothesis of `SnapshotsAgree` is gone: a monitor next to a lone daemon.

Neither of the first two is inductive, because a commit writes what an earlier
step computed. `FreshCalls` is what is missing: whoever is about to commit has seen
the row as it is now, and the table allows the step it is about to take. A step
either commits a call or is `Quiet`, moving no state and no attempt
(`CommitOrQuiet`, one lemma per module); `FreshCommit` says what a commit of a
fresh call does. With two processes the first fails (`stop_overwritten`). `Sole` is an assumption on the deployment that nothing in the code enforces.

### An orderly deployment

The deployment the documents describe has two writers, not one: an executor (the
daemon, or the commands of one terminal) and an operator who approves next to it.
The remaining modules are about that deployment:

```
Orderly == /\ \A p, q \in Executors : p = q
           /\ \A p, q \in Operators : p = q
           /\ "stop" \notin Commands
```

All faults, bounds, crashes, busy ledger calls and foreground commands stay. `stop`
is excluded because it moves a run in any state (`stop_overwritten`), a second
executor because the two share a run (`shared_retry`); nothing in the code enforces
either. Assumptions are predicates on the constants, so that each theorem names the
ones it needs; every one is true in run `service`, so no theorem is vacuous.

| Assumption | Excludes | Because otherwise |
|---|---|---|
| `ByRun` | approving by request id | an id given again restarts the run without a new approval |
| `Undisturbed` | a foreground `scan`; a runner that fills the 200 events | a scan takes a run whose failure came twice to `awaiting_human`; recovery no longer sees the cause and may choose another |
| `Unscanned` | a foreground `scan` | it asks for an approval while the operator, who found none, lets the run go on |
| `Exclusive` | `workspace release`, with or without `--cleanup` | it takes the lock from an active run |
| `Contained` | runners that outlive their supervisor; the fault `busy` | a crash, or a ledger call that raises in the adapter, leaves the runner alone |
| `~RunnersOutlive` | runners that outlive their supervisor | the next process of the daemon counts its errors from zero |
| `Served` | a daemon that is also a foreground or operator process | it is a process of its own under systemd |

**The invariant** (`OrderlyProofs`). What keeps the two writers apart is nowhere
checked by the code: an approval is given in `awaiting_human` only, and no executor
moves a run out of that state. `OrderlyInv` makes this inductive. `Fits` says in
which states of its run a process can be at each of the 55 labels, given its
command; `Committing` that a transition about to be written was validated against
the row as it still is, that it fits where control goes afterwards, and that only
an approving process is about to leave `awaiting_human`. `Control` joins the two
for one process. `OrderlyStep` shows that a step keeps the acting process under
control (one lemma per module: `AllocatorControl`, ...), and that it cannot put
another one out of control: the other is either idle, or an approval whose run the
executor does not move, or the other way round. From it follow

* `ApprovalsKeepEnded`: `Orderly /\ Spec => TerminalIsFinal`;
* `ApprovalsMatchAttempts`: `Orderly /\ Spec => []ActiveAttemptMatchesRun`;
* `OrderlySnapshotsAgree`: `Orderly /\ MonitorSpec => []SnapshotAgrees`.

**Footprints** (`FootprintProofs`). The invariants below each speak of a few labels,
transitions and tables. `StepLeads` says once which action leads to a label or
starts a transition, `StepWrites` which actions write a table; a proof then looks at
three or four actions instead of all of them.

**Attempts** (`AttemptProofs`).

* `ApprovalsKeepBudget`: `Orderly /\ ByRun /\ Spec => []RetryBudgetHolds`. The
  policy compares a number it read with the budget and writes the retry two steps
  later. `WithinBudget` says that what it compared is still true then. `RunBudget`
  counts: the attempt number, plus one for a start that is granted and not made, is
  at most one plus the budget plus the approvals; `Unused` that an approval on its
  way was not counted. The attempts used are the numbers up to the run's, by
  `ActiveAttemptMatchesRun` and the attempt ledger, hence their cardinality.
* `ApprovalsEndRepeated`: `Orderly /\ Undisturbed /\ Spec => []RepeatedFailureHalts`.
  `RunFailures` says that a run with a repeated failure is analyzed or halted and
  that, while it is analyzed, the cause in the log is one that is recorded: a
  recovery after a crash between record and decision reads that cause, finds it
  recorded, and halts. `Analyzing` carries the same through the labels of the policy.

**Approval and handoff** (`HandoffProofs`).

* `ApprovalsEarnCompletion`: `Orderly /\ Spec => []CompletedIsEarned`, with `Opened`:
  whoever is past the creation of the pull request has it.
* `ApprovalsKeepGate`: `Orderly /\ ByRun /\ Unscanned /\ Spec =>
  []NoPRWithPendingApproval`. The gate reads the column `approval_status`, the
  property is about the table of requests. `Awaited` relates them: a run has at most
  one pending request, it says `pending` whenever there is one, and a run with a
  pull request has none; `Cleared` that a process past the gate found none.

**Isolation** (`IsolationProofs`).

* `ApprovalsKeepLock`: `Orderly /\ Exclusive /\ Spec => []ActiveRunHoldsLock`, with
  `Locked`: whoever is between taking the lock and `workspace_allocated` has it.
* `ApprovalsImplementLifecycle`: `Orderly /\ Exclusive /\ Spec =>
  ImplementsLifecycle`. Initial states map to initial states, `CommitRefines` maps a
  commit to `Retry`, `Start` or `Move` of `RunLifecycle` (its guards come from the
  lock and from `WithinBudget`), `CreationRefines` maps `CreateRun`, and every other
  step is a stutter.
* `ApprovalsCountRunners`: `Orderly /\ Spec => []UnattendedRunnersAreCounted`, with
  runners that survive and ledger calls that raise. A runner is tended (`Tends`)
  while a process has its pid and is at a label from which it will wait for it.
  `UntendedStep` shows that only a crash or a busy call of the one process that
  tends a runner leaves it; the second attempt of the same number, the other way out
  of those labels, is excluded by `Unmade`: no attempt above the run's number was
  ever inserted. `CountInv` counts.
* `ApprovalsIsolateRunners`: `Orderly /\ Exclusive /\ Contained /\ Spec =>
  []RunnersAreIsolated`: where nobody leaves a runner, every live runner is tended.
* `LeftRunnersReported`: `Orderly /\ ~RunnersOutlive /\ Served /\ ServiceSpec =>
  []LeftRunnersAreReported`. `Follows` ties the phase of the serve loop to where
  the tick is: between ticks the process is idle, within one it either has
  announced the run it executes or repairs an orphan (`Mends`), which starts no
  runner, and an exception on its way out (`Unwinds`) starts none. `LeftInv` bounds
  the runners that the process has left by the errors it has recorded and the one it
  still owes (`Owed`).

By `ServiceImplementsSupervisor` whatever is proved of `Spec` holds for the served
daemon, too.

Assumptions of all theorems: the bounds are positive naturals, the budget is a
natural, the list limit is positive, `None` is neither a run nor a fingerprint.
Every invariant was model-checked in the deployments of the runs before it was
proved. This is how two of the assumptions above were found: `RetryBudgetHolds`
failed with approvals by id once the budget was zero (with a budget of one the
bound `MaxAttempt` hid it, so `recovery` now approves by run), and
`RepeatedFailureHalts` failed with a foreground scan.

**Only model-checked.** Everything under fairness (`PicksUpAgain`, `StopEnds`,
`TerminalReleasesLock`, `Settles`), which the prover does not handle; and the
violations. `NoPRWithPendingApproval` under `stop` (run `kill_switch`) is not proved:
`OrderlyInv` is false there.

## 5. Where the code and the documents disagree

Each has a run of its own in which TLC finds a counterexample.

| Run | Property | Code | Document |
|---|---|---|---|
| `stop_overwritten` | `TerminalIsFinal` | `ledger.py:444`: a transition validated before `stop` and written after it replaces `halted` | `docs/STATE_MACHINE.md:97` |
| `shared_retry` | `RetryBudgetHolds` | `failure_policy.py:186`: a foreground `execute` and the daemon both allow a retry of one run | `docs/POLICY_BASELINE.md:15` |
| `launch_failure` | `Settles` | `codex_adapter.py:99`: a runner that cannot be started leaves the run as it was; the daemon picks it forever | `docs/FOUNDATION.md:53` |
| `foreign_approval` | `NoPRWithPendingApproval` | `telegram_notifier.py:439`: an approval id is not checked to be the run's or pending | `docs/POLICY_BASELINE.md:100` |
| `ci_failure` | `BlockedHandoffHasNoPR` | `pr_handoff.py:228`: a failed CI read halts the run although its PR is open | `docs/STATE_MACHINE.md:90` |
| `lock_before_halt` | `LockOutlivesRun` | `workspace.py:118`: the error path releases the lock before the final transition | `docs/POLICY_BASELINE.md:61` |

Known limits that can be reproduced by changing a constant or the property of a
configuration and have no run of their own:

* a runner launched after the run was stopped (`codex_adapter.py:64-91`): same
  window as `stop_overwritten`. When the transition to running is then refused the
  runner is left alone, too: `UnattendedRunnersAreCounted` with `stop`;
* with `RunnersOutlive = TRUE` and a crash, two runners in one worktree
  (`codex_adapter.py:91`): `RunnersAreIsolated` in `recovery`;
* a repair after a crash between recording a fingerprint and deciding takes its
  own record for a repetition and halts (`failure_policy.py:154`);
* the daemon takes a run that a foreground command executes for an orphan
  (`daemon_runtime.py:265`);
* a crash between the final transition and the release leaves the lock behind
  (`orchestrator.py:195`), so that the next run is halted: `TerminalReleasesLock`
  without its second disjunct. `handoff` and `runner supervise` end a run and leave
  the lock in the same way (`cli.py:660`);
* when the transition to running raises, the runner that was just started is
  neither killed nor recorded (`codex_adapter.py:121`), and when the event of its
  launch or of its timeout cannot be written it is not killed, either
  (`codex_adapter.py:128`, `:343`): `RunnersAreIsolated` with the fault `busy`. The
  daemon records `error` and goes on, which is what `LeftRunnersAreReported` says;
* `approvals scan` next to an executor that has passed its own scan opens a request
  during the handoff (`approval_policy.py:109`): `NoPRWithPendingApproval` with a
  foreground `scan` beside the daemon;
* git failing in the scan of a successful attempt leaves the run in `running`, and
  the next tick repairs that attempt as a failed one (`approval_policy.py:65`);
* a stop takes effect after the tick, which may last as long as a runner may; after
  30 s the unit kills the daemon with its runner, and the attempt is spent;
* the monitor's runtime summary says that no run is active while one is shown as
  paused in `retry_pending` (`progress_monitor.py:323`);
* `stop` in `awaiting_human` gives `halted`; no code path reaches `cancelled`;
* approving a request again by its id starts the run again without a new approval
  (`telegram_notifier.py:439`): `RetryBudgetHolds` in `recovery` with
  `approve_by_id` and a budget of zero;
* a foreground `approvals scan` takes a run whose failure came twice, and whose
  supervisor died before it was halted, to `awaiting_human` instead
  (`approval_policy.py:109`): `RepeatedFailureHalts` with a foreground `scan`;
* the lock-rejected event is rolled back with its transaction (`ledger.py:880`).

## 6. Not modelled

`config.py` (its values are constants); the text and transport of Telegram
messages and GitHub requests; the HTTP server, the texts and the activity log of
the progress monitor; the tables that no decision reads (tasks, transitions,
`released_at`, all heartbeats but the newest); commands that only print (`status`,
`doctor`, `workspace diagnose`, `daemon status`); the operator's `retry`, which is
refused in every reachable state; an exception other than that of the ledger while a
runner is at work (git disappearing between allocation and the polls of
`_diff_snapshot`). Reuse of a pid that somebody remembers would need
a model of foreign processes.

## 7. Plan

Done: the ledger, the executors, the daemon and the operator commands; the
foreground commands; the serve loop with its signals, heartbeats and restarts; a
busy database; the monitor's snapshots; a theorem for every safety property that a
passing run checks. What is left is to need fewer assumptions, in this order:

1. `NoPRWithPendingApproval` with `stop`: an invariant like `OrderlyInv` in which a
   halted run may come back to life, but not past the gate.
2. `CompletedIsEarned` and `ActiveRunHoldsLock` with `Orderly` weakened to one
   executor per run.
3. `RepeatedFailureHalts` with a runner that fills the events, which needs what
   recovery then chooses as the cause to be followed.
