\* The served daemon under the progress monitor: stops, restarts, one crash, and
\* snapshots taken meanwhile, whose lists hold one of the two runs.
SPECIFICATION MonitorSpec
CONSTANTS
  None = None
  Runs = {r1, r2}
  Daemons = {d}
  Clis = {}
  Operators = {}
  Fingerprints = {f1}
  Commands = {}
  Faults = {"risky_diff", "check"}
  Budget = 1
  MaxAttempt = 3
  MaxPid = 6
  MaxCommands = 0
  MaxCrashes = 1
  ListLimit = 1
  RunnersOutlive = FALSE
SYMMETRY Interchangeable
INVARIANT SnapshotAgrees
