SPECIFICATION FairSpec
CONSTANTS
  MaxVersion = 2
  Revision <- MCRevision
  Services = {"nodeglow", "frontend"}
  Backend = "nodeglow"
  Retention = 1
  MaxDumps = 2
PROPERTY FailedRunKeepsServing
