\* git worktree add fails during allocation.
SPECIFICATION Spec
CONSTANTS
  None = None
  Runs = {r1}
  Daemons = {d}
  Clis = {}
  Operators = {}
  Fingerprints = {f1, f2}
  Commands = {}
  Faults = {"worktree"}
  Budget = 1
  MaxAttempt = 3
  MaxPid = 6
  MaxCommands = 0
  MaxCrashes = 0
  RunnersOutlive = FALSE
SYMMETRY Interchangeable
PROPERTY LockOutlivesRun
