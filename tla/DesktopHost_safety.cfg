SPECIFICATION Spec
CONSTANTS
  Nobody = Nobody
  Desktop = {h1, h2}
  Starter = {s1}
  GoRun = {h1}
  MaxKills = 1
  MaxSlow = 1
  MaxRequests = 0
  MaxErrors = 1
INVARIANTS TypeOK OrphansExplained RunningRecordTrue DuplicatesExplained LiveHostRecorded
CHECK_DEADLOCK FALSE
