CONSTANTS
  a = a
  b = b
  Procs = {a, b}
  Pid <- MCPid
  MaxTries = 2
  MaxId = 3
  MaxCrashes = 2
SPECIFICATION Spec
SYMMETRY Symmetry
INVARIANTS TypeOK OwnName OnlyCrashesLeave StepsOverLeftovers
