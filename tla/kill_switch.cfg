\* Stop and approve at any moment of one run under the daemon, with a crash and
\* a runner whose output hides its pid.
SPECIFICATION Spec
CONSTANTS
  None = None
  Runs = {r1}
  Daemons = {d}
  Clis = {}
  Operators = {op}
  Fingerprints = {f1, f2}
  Commands = {"approve", "stop"}
  Faults = {"risky_diff", "signal", "check", "chatty"}
  Budget = 1
  MaxAttempt = 3
  MaxPid = 5
  MaxCommands = 0
  MaxCrashes = 1
  RunnersOutlive = FALSE
SYMMETRY Interchangeable
INVARIANT NoPRWithPendingApproval
INVARIANT AttemptLedger
