SPECIFICATION ServicesSpec
CONSTANTS
  Focus = {"session", "tail", "probe", "ping", "polling", "rules",
           "bandwidth", "snmp", "counters", "agent"}
  m1 = m1
  m2 = m2
  s1 = s1
  s2 = s2
  SesMachines <- MCMachines
  SesSlots <- MCSlots
  SesKeys = 1
  SesTokens = 2
  SesCommands = 1
  SesFaults = 1
  PrbWindow = 2
  PrbInterval = 1
  PrbUntil = 6
  SetThreshold = 2
  ClearThreshold = 1
  Grace = 1
  PngUntil = 6
  PngProcs <- MCProcs
  PngChanges = 2
  pve1 = pve1
  pve2 = pve2
  dns = dns
  NoName = NoName
  NoGroup = NoName
  PolGroups = {"lab"}
  PolOrder <- MCOrder
  PolType <- MCType
  PolCluster <- MCCluster
  PolInterval <- MCInterval
  PolUntil = 3
  PolFaults = 1
  PolEdits = 1
  app = app
  journal = journal
  docker = docker
  plain = plain
  TailSources <- MCSources
  TailKind <- MCKind
  TailMax = 2
  TailWrites = 3
  TailSwaps = 1
  TailRestarts = 1
  Alerts <- MCAlerts
  TitleOf <- MCTitle
  SeverityOf <- MCSeverity
  WantedBy <- MCWanted
  Channels <- MCChannels
  MinSeverityOf <- MCMinSeverity
  NtfCooldown = 2
  AltRules <- MCRules
  AltSyslog = {}
  AltSource <- MCSource
  AltField <- MCField
  AltOperator <- MCOperator
  AltThresholds <- MCThresholds
  AltHosts = {"host1", "host2"}
  AltReadings = {}
  AltLines = {}
  AltRequired <- MCRequired
  AltCooldown <- MCCooldown
  AltStale = 1
  AltRestarts = 1
  BwdSlots <- MCSlots
  BwdBytes = 3
  BwdTime = 2
  BwdHour = 1
  BwdLimit = 2
  BwdPolls = 3
  SnmPath <- MCPath
  SnmMibNames = {"IF-MIB"}
  SnmFiles <- MCFiles
  SnmDefaults <- MCDefaults
  SnmDefaultMib = "IF-MIB"
  SnmPollers <- MCSlots
  SnmRequests <- MCMachines
  SnmFresh = 1
  SnmTime = 2
  SnmEdits = 2
  ShrKeys <- MCKeys
  ShrWindow <- MCWindow
  ShrMax <- MCMax
  ShrSlots <- MCSlots
  ShrCleanup = 2
  ShrOutages = 1
  ShrLongest = 2
  PagHosts = {"a", "b"}
  PagOrder <- MCTold
  PagCap = 3
  PagRounds = 2
  PagHandlers = 2
  PagFaults = 2
SYMMETRY Symmetry
INVARIANTS
  CommandReceivedOnce
  OnlyNewestTokenWorks
  NoFalseGreen
  NothingPassedOver
  OneWriterPerCluster
  RateIsBacked
  AdmissionsBounded
  NoResultVanishes
PROPERTIES
  AlertsMatchOutages
  NoAlertStorm
  NamesAreFresh
CHECK_DEADLOCK FALSE
