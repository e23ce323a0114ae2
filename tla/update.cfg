SPECIFICATION RetriedSpec
CONSTANTS
  MaxVersion = 2
  Revision <- MCRevision
  Services = {"nodeglow", "frontend"}
  Backend = "nodeglow"
  Retention = 1
  MaxDumps = 2
PROPERTIES ImplementsUpgrade MigratesWithFreshDump RerunDeploys
