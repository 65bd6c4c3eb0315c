\* One terminal: the daemon or any command, one after the other, on one run, and
\* approvals at any time.  The runner outlives its supervisor; two crashes or busy
\* ledger calls; recovery may miss the runner or fail to signal it.
SPECIFICATION Spec
CONSTANTS
  None = None
  Runs = {r1}
  Daemons = {d}
  Clis = {d}
  Operators = {op}
  Fingerprints = {f1, f2}
  Commands = {"execute", "allocate", "run", "supervise", "scan", "handoff", "release", "cleanup", "approve"}
  Faults = {"risky_diff", "worktree", "launch", "preflight", "check", "git", "github", "crashing_check", "timeout", "signal", "comm", "busy"}
  Budget = 1
  MaxAttempt = 3
  MaxPid = 5
  MaxCommands = 2
  MaxCrashes = 2
  RunnersOutlive = TRUE
SYMMETRY Interchangeable
INVARIANT CompletedIsEarned
INVARIANT ActiveAttemptMatchesRun
INVARIANT RetryBudgetHolds
INVARIANT UnattendedRunnersAreCounted
