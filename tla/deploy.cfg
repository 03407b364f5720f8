\* Three deployments of two commits' images, published in part or again, by
\* their own tags or latest, with two faults, of which a slow service is one.
SPECIFICATION Spec
CONSTANTS
  MaxImages = 2
  Runners <- MCRunners
  Services = {"api", "worker"}
  Api = "api"
  Healthy = {1, 2}
  Latest = "latest"
  ShaTag <- MCShaTag
  NoTag = "none"
  MaxDeploys = 3
  MaxFaults = 2
CHECK_DEADLOCK FALSE
INVARIANT MigrationsLeaveNoGap
INVARIANT StateFilesNameHealthyTags
PROPERTY SchemaCoversRunning
