\* codexmon execute next to the daemon, on one run.
SPECIFICATION Spec
CONSTANTS
  None = None
  Runs = {r1}
  Daemons = {d}
  Clis = {c}
  Operators = {}
  Fingerprints = {f1, f2}
  Commands = {"execute"}
  Faults = {}
  Budget = 1
  MaxAttempt = 3
  MaxPid = 5
  MaxCommands = 1
  MaxCrashes = 0
  RunnersOutlive = FALSE
SYMMETRY Interchangeable
INVARIANT RetryBudgetHolds
