\* GitHub fails after the pull request was created.
SPECIFICATION Spec
CONSTANTS
  None = None
  Runs = {r1}
  Daemons = {d}
  Clis = {}
  Operators = {}
  Fingerprints = {f1, f2}
  Commands = {}
  Faults = {"github"}
  Budget = 1
  MaxAttempt = 3
  MaxPid = 6
  MaxCommands = 0
  MaxCrashes = 0
  RunnersOutlive = FALSE
SYMMETRY Interchangeable
PROPERTY BlockedHandoffHasNoPR
