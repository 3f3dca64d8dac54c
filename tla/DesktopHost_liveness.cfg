SPECIFICATION FairSpec
CONSTANTS
  Nobody = Nobody
  Desktop = {h1, h2}
  Starter = {}
  GoRun = {h1}
  MaxKills = 1
  MaxSlow = 1
  MaxRequests = 1
  MaxErrors = 1
PROPERTIES BootResolves ShutdownObeyed
CHECK_DEADLOCK FALSE
