\* Two healthy images are deployed, then one that is not.
SPECIFICATION Spec
CONSTANTS
  MaxImages = 3
  Runners <- MCRunners
  Services = {"api"}
  Api = "api"
  Healthy = {1, 2}
  Latest = "latest"
  ShaTag <- MCShaTag
  NoTag = "none"
  MaxDeploys = 3
  MaxFaults = 0
CHECK_DEADLOCK FALSE
INVARIANT RollbackRestoresRunning
