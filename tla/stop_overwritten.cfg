\* /stop while the daemon works on the run.
SPECIFICATION Spec
CONSTANTS
  None = None
  Runs = {r1}
  Daemons = {d}
  Clis = {}
  Operators = {op}
  Fingerprints = {f1, f2}
  Commands = {"stop"}
  Faults = {}
  Budget = 1
  MaxAttempt = 3
  MaxPid = 6
  MaxCommands = 0
  MaxCrashes = 0
  RunnersOutlive = FALSE
SYMMETRY Interchangeable
PROPERTY TerminalIsFinal
