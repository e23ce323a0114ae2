SPECIFICATION Spec
CONSTANTS
  h1 = h1 h2 = h2 h3 = h3 h4 = h4
  g1 = g1 g2 = g2 s1 = s1 s2 = s2 logs = logs
  NoHost = NoHost
  NoSlot = NoSlot
  Hosts = {h1,h2,h3}
  Slots = {i1,i2}
  Editors = {}
  StaleAfter = 1
  Parent <- MCParent
  Subnet <- MCSubnet
  Chatty = {h1}
  Ported = {}
  Serviced = {}
  Integrations = {g1,g2}
  RunsOn <- MCRunsOn
  Sources = {}
  Signals = {logs}
  SignalOf <- MCSignalOf
  SignalKey <- MCSignalKey
  MinFailures = 1
  MinCycles = 2
  AutoFailures = 2
  MaxRestarts = 0
SYMMETRY MCSymmetry
PROPERTIES RaisedSurvivesRun RaisedAfterMinCycles
