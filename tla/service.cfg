\* The deployment of ops/systemd: one daemon that may be stopped and started, two
\* runs, approvals, every failure of the environment, and one crash that takes
\* the runner with it.
SPECIFICATION ServiceSpec
CONSTANTS
  None = None
  Runs = {r1, r2}
  Daemons = {d}
  Clis = {}
  Operators = {op}
  Fingerprints = {f1, f2}
  Commands = {"approve"}
  Faults = {"risky_diff", "worktree", "launch", "preflight", "check", "git", "github", "crashing_check", "timeout", "signal"}
  Budget = 1
  MaxAttempt = 3
  MaxPid = 6
  MaxCommands = 0
  MaxCrashes = 1
  RunnersOutlive = FALSE
SYMMETRY Interchangeable
INVARIANT TypeOK
INVARIANT ActiveRunHoldsLock
INVARIANT RunnersAreIsolated
INVARIANT NoPRWithPendingApproval
INVARIANT CompletedIsEarned
INVARIANT RepeatedFailureHalts
PROPERTY ImplementsLifecycle
