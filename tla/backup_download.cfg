SPECIFICATION DataSpec
CONSTANTS
  Focus = {"export"}
  t1 = t1
  t2 = t2
  s1 = s1
  s2 = s2
  Templates <- MCTemplates
  TplMessages = 2
  TplFaults = 1
  TplRestarts = 1
  FlpTemplates = {"fault"}
  FlpTagScore <- MCTagScore
  FlpStale = 2
  FlpCycles = 2
  FlpRates = {0, 5, 60, 200}
  BslHosts = {"a"}
  BslSeries <- MCSeries
  BslWeeks = 4
  RmcPorts = {8080}
  RmcStatuses = {"ok", "untrusted", "missing", "error", "none"}
  AccNames <- MCTemplates
  AccSlots <- MCSlots
  AccPasswords = 3
  AccTokens = 2
  AccDirectory = {"readonly"}
  KeyNames <- MCTemplates
  KeySlots <- MCSlots
  BkpDays = 3
  BkpStore <- MCStore
  BkpFrequency = 1
  DxpTables <- MCTables
  DxpRefers <- MCRefers
  DxpDropped = {"ping_results"}
  DxpDated = {"users"}
  DxpKeyed = {"settings"}
  DxpEngines = {"postgres", "sqlite"}
  DxpEdits = 1
  PrtPorts = {443}
  PrtScanners <- MCSlots
  PrtEditors <- MCTemplates
  PrtEdits = 1
  HstIds = 2
  HstTouches = 1
  HstImporters = {"proxmox", "unifi", "phpipam"}
INVARIANT DownloadIsAnswered
CHECK_DEADLOCK FALSE
