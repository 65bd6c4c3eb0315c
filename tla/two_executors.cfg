\* Three foreground commands, any of them, from two terminals on one run, where
\* requests are approved, too, also again.
SPECIFICATION Spec
CONSTANTS
  None = None
  Runs = {r1}
  Daemons = {}
  Clis = {c1, c2}
  Operators = {c1, c2}
  Fingerprints = {f1}
  Commands = {"execute", "allocate", "run", "supervise", "scan", "handoff", "release", "cleanup", "approve", "approve_by_id"}
  Faults = {"risky_diff", "worktree", "check"}
  Budget = 1
  MaxAttempt = 3
  MaxPid = 5
  MaxCommands = 3
  MaxCrashes = 0
  RunnersOutlive = FALSE
SYMMETRY Interchangeable
INVARIANT AttemptLedger
PROPERTY LaunchRecordIsFinal
\* No daemon: the system stops when the commands have been given.
CHECK_DEADLOCK FALSE
