--------------------------- MODULE MCCorrelation ---------------------------
(* Small instances of Correlation; the .cfg files choose among them.        *)
EXTENDS Correlation, TLC

CONSTANTS h1, h2, h3, h4, g1, g2, s1, s2, logs

\* h4 hangs on h1 (a VM and its node); the others are roots.
MCParent == [h \in Hosts |-> IF h = h4 THEN h1 ELSE NoHost]
MCSubnet == [h \in Hosts |-> "net1"]
MCRunsOn == [g \in Integrations |-> h1]
MCSignalOf == [s \in Sources |-> logs]
MCSignalKey == [s \in Signals |-> [rule |-> "log_anomaly", hosts |-> {}]]
MCSymmetry == Permutations(Slots)
=============================================================================
