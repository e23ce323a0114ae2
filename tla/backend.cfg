SPECIFICATION BackendFairSpec
CONSTANTS
  Focus = {"correlation", "lease", "logs"}
  h1 = h1 h2 = h2 h3 = h3 h4 = h4
  g1 = g1 g2 = g2 s1 = s1 s2 = s2 logs = logs
  NoHost = NoHost
  NoSlot = NoSlot
  Hosts = {h1}
  Slots = {i1,i2}
  Editors = {}
  StaleAfter = 1
  Parent <- MCParent
  Subnet <- MCSubnet
  Chatty = {h1}
  Ported = {}
  Serviced = {}
  Integrations = {}
  RunsOn <- MCRunsOn
  Sources = {s1}
  Signals = {logs}
  SignalOf <- MCSignalOf
  SignalKey <- MCSignalKey
  MinFailures = 1
  MinCycles = 2
  AutoFailures = 1
  MaxRestarts = 0
  Instances = {a, b, c}
  Nobody = Nobody
  TTL = 4
  Renew = 2
  MaxMessages = 4
  BufferSize = 2
  BufferMax = 3
INVARIANTS OverlapOnlyAfterExpiry Converges NoOvertaking
PROPERTIES OutageRaised RecoveryResolves Delivered
CHECK_DEADLOCK FALSE
