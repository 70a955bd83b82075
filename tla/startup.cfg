CONSTANTS
  Hosts = {app, worker, manual}
  Scripted = {app, worker}
  Dialects = {"postgresql", "sqlite"}
  MaxFaults = 2
SPECIFICATION FairSpec
CHECK_DEADLOCK FALSE
INVARIANTS TypeOK StampedIsMigrated ServingIsMigrated
PROPERTY EventuallyServing SchemaUpgraded
