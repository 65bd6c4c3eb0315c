\* /approve with the id of another request.
SPECIFICATION Spec
CONSTANTS
  None = None
  Runs = {r1}
  Daemons = {d}
  Clis = {}
  Operators = {op}
  Fingerprints = {f1, f2}
  Commands = {"approve", "approve_by_id"}
  Faults = {"risky_diff"}
  Budget = 1
  MaxAttempt = 3
  MaxPid = 6
  MaxCommands = 0
  MaxCrashes = 0
  RunnersOutlive = FALSE
SYMMETRY Interchangeable
INVARIANT NoPRWithPendingApproval
