\* Liveness of the service with two runs: stops, restarts, a crash or a busy ledger
\* in any step, and a human who may approve each run once.
SPECIFICATION FairServiceSpec
CONSTANTS
  None = None
  Runs = {r1, r2}
  Daemons = {d}
  Clis = {}
  Operators = {op}
  Fingerprints = {f1}
  Commands = {"approve"}
  Faults = {"risky_diff", "git", "github", "busy"}
  Budget = 0
  MaxAttempt = 2
  MaxPid = 6
  MaxCommands = 0
  MaxCrashes = 1
  RunnersOutlive = FALSE
INVARIANT LeftRunnersAreReported
PROPERTY PicksUpAgain
PROPERTY StopEnds
PROPERTY TerminalReleasesLock
