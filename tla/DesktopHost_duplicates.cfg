SPECIFICATION Spec
CONSTANTS
  Nobody = Nobody
  Desktop = {h1, h2}
  Starter = {}
  GoRun = {}
  MaxKills = 0
  MaxSlow = 0
  MaxRequests = 0
  MaxErrors = 0
SYMMETRY Alike
INVARIANTS SingleHost
CHECK_DEADLOCK FALSE
