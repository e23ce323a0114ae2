SPECIFICATION RecoveryFairSpec
CONSTANTS
  Focus = {"update", "self", "rules", "schema"}
  UpdForms = {"script", "exe", "native", "wrapped"}
  UpdLast = 3
  UpdNative = {3}
  UpdFaults = 4
  JobDeadline = 2
  Alerts <- MCAlerts
  TitleOf <- MCTitle
  SeverityOf <- MCSeverity
  WantedBy <- MCWanted
  Channels = {"email"}
  MinSeverityOf <- MCMinSeverity
  NtfCooldown = 2
  AltRules <- MCRules
  AltSyslog = {"oom"}
  AltSource <- MCSource
  AltField <- MCField
  AltOperator <- MCOperator
  AltThresholds <- MCThresholds
  AltHosts = {}
  AltReadings = {1, 2}
  AltLines <- MCLines
  AltRequired <- MCRequired
  AltCooldown <- MCCooldown
  AltStale = 1
  AltRestarts = 0
  c1 = c1
  c2 = c2
  Containers <- MCContainers
  Olds <- MCOlds
  MaxStops = 1
INVARIANTS
  NeverWithoutACopy
  HeadMatchesModels
PROPERTIES
  ReachesPublished
  LastingProblemReturns
  AlertsKeepComing
  EventuallyServes
CHECK_DEADLOCK FALSE
