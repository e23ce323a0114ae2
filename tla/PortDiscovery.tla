---------------------------- MODULE PortDiscovery ----------------------------
(***************************************************************************)
(* The open ports of one host: the scans that list them (backend/services/ *)
(* port_discovery.py), run by the scheduler and on request, and the        *)
(* decisions of editors about them (routers/ping.py).  A scan looks at the *)
(* network, then reads the list, then writes it; a decision reads the port,*)
(* then the host, then writes both; the unit of work writes the columns    *)
(* that differ from what it has read.                                      *)
(***************************************************************************)
EXTENDS Naturals

CONSTANTS
  PrtPorts,     \* COMMON_PORTS
  PrtScanners,  \* the job and the requests that scan at a time
  PrtEditors,   \* decisions at a time
  PrtEdits      \* bound: decisions ever begun

\* host.port is NULL or 0.
NoPort == 0

ASSUME PrtAssumption == NoPort \notin PrtPorts /\ PrtEdits \in Nat

VARIABLES
  prtOpen,      \* the ports that are open now
  prtRows,      \* the table discovered_ports; a port without a row is NoPortRow
  prtHost,      \* check_type and port of the host
  prtScan,      \* where each scan is
  prtEdit,      \* where each decision is
  prtEdits,     \* decisions begun
  (* history *)
  prtSeen,      \* the open ports as the written ones of the scans that overlapped
                \* last have found them
  prtDecided    \* the decisions that have been written

prtVars == <<prtOpen, prtRows, prtHost, prtScan, prtEdit, prtEdits, prtSeen, prtDecided>>

NoPortRow == [status |-> "none"]
Off == [at |-> "off"]
Decisions == {"monitor_port", "unmonitor_port", "dismiss_port",
              "monitor_ssl", "unmonitor_ssl", "dismiss_ssl"}
Undecided == [status |-> "new", tlsStatus |-> "new"]

PrtInit ==
  /\ prtOpen \in SUBSET PrtPorts
  /\ prtRows = [p \in PrtPorts |-> NoPortRow]
  /\ prtHost = [types |-> {"icmp"}, port |-> NoPort]
  /\ prtScan = [s \in PrtScanners |-> Off]
  /\ prtEdit = [e \in PrtEditors |-> Off]
  /\ prtEdits = 0
  /\ prtSeen = {}
  /\ prtDecided = [p \in PrtPorts |-> Undecided]

HasRow(p) == prtRows[p] # NoPortRow

-----------------------------------------------------------------------------
(* Scans.                                                                  *)

PortChanges(p) ==
  /\ prtOpen' = IF p \in prtOpen THEN prtOpen \ {p} ELSE prtOpen \union {p}
  /\ UNCHANGED <<prtRows, prtHost, prtScan, prtEdit, prtEdits, prtSeen, prtDecided>>

Quiet == \A s \in PrtScanners : prtScan[s] = Off

\* scan_host_ports.
ScanHostPorts(s) ==
  /\ prtScan[s] = Off
  /\ prtScan' = [prtScan EXCEPT ![s] = [at |-> "seen", open |-> prtOpen]]
  /\ prtSeen' = IF Quiet THEN {} ELSE prtSeen
  /\ UNCHANGED <<prtOpen, prtRows, prtHost, prtEdit, prtEdits, prtDecided>>

ReadRows(s) ==
  /\ prtScan[s].at = "seen"
  /\ prtScan' = [prtScan EXCEPT ![s] = [at |-> "read", open |-> @.open, rows |-> prtRows]]
  /\ UNCHANGED <<prtOpen, prtRows, prtHost, prtEdit, prtEdits, prtSeen, prtDecided>>

NewRow == [status |-> "new", tlsStatus |-> "new", open |-> TRUE]

\* Mutant of Rescanned: the whole row is written as it was read.
RescannedWhole(c, p, was, is) ==
  [was EXCEPT !.open = p \in c.open]

\* The row of port p after scan c: read as `was`, stored now as `is`.
Rescanned(c, p, was, is) ==
  [is EXCEPT !.open = IF was.open # (p \in c.open) THEN p \in c.open ELSE @]

\* The rest of discover_ports_for_host.  A row that another scan has added meanwhile
\* makes the whole commit fail.
CommitScan(s) ==
  /\ prtScan[s].at = "read"
  /\ LET c     == prtScan[s]
         added == {p \in c.open : c.rows[p] = NoPortRow}
     IN  /\ \A p \in added : ~HasRow(p)
         /\ prtRows' = [p \in PrtPorts |->
                         IF p \in added THEN NewRow
                         ELSE IF c.rows[p] = NoPortRow THEN prtRows[p]
                         ELSE Rescanned(c, p, c.rows[p], prtRows[p])]
         /\ prtSeen' = prtSeen \union {c.open}
  /\ prtScan' = [prtScan EXCEPT ![s] = Off]
  /\ UNCHANGED <<prtOpen, prtHost, prtEdit, prtEdits, prtDecided>>

\* It fails for that, or because the session it shares with the scans of four other
\* hosts is in use, or waits for a rollback after one of theirs has failed.
ScanFails(s) ==
  /\ prtScan[s].at \in {"seen", "read"}
  /\ prtScan' = [prtScan EXCEPT ![s] = Off]
  /\ UNCHANGED <<prtOpen, prtRows, prtHost, prtEdit, prtEdits, prtSeen, prtDecided>>

-----------------------------------------------------------------------------
(* update_discovered_port.                                                 *)

\* The port is read, and then the body of the request.
BeginDecision(e) ==
  /\ prtEdit[e] = Off
  /\ prtEdits < PrtEdits
  /\ prtEdits' = prtEdits + 1
  /\ \E p \in PrtPorts, d \in Decisions :
       /\ HasRow(p)
       /\ prtEdit' = [prtEdit EXCEPT ![e] = [at |-> "port", port |-> p, action |-> d,
                                             row |-> prtRows[p]]]
  /\ UNCHANGED <<prtOpen, prtRows, prtHost, prtScan, prtSeen, prtDecided>>

ReadHost(e) ==
  /\ prtEdit[e].at = "port"
  /\ prtEdit' = [prtEdit EXCEPT ![e] = [at |-> "host", port |-> @.port, action |-> @.action,
                                        row |-> @.row, host |-> prtHost]]
  /\ UNCHANGED <<prtOpen, prtRows, prtHost, prtScan, prtEdits, prtSeen, prtDecided>>

\* Without any check type the host is pinged.
OrIcmp(types) == IF types = {} THEN {"icmp"} ELSE types

DecidedHost(h, p, d) ==
  CASE d = "monitor_port"   -> [types |-> h.types \union {"tcp"},
                                port  |-> IF h.port = NoPort THEN p ELSE h.port]
    [] d = "unmonitor_port" -> [h EXCEPT !.types = OrIcmp(@ \ {"tcp"})]
    [] d = "monitor_ssl"    -> [h EXCEPT !.types = @ \union {"https"}]
    [] d = "unmonitor_ssl"  -> [h EXCEPT !.types = OrIcmp(@ \ {"https"})]
    [] OTHER                -> h

DecidedRow(row, d) ==
  CASE d = "monitor_port"   -> [row EXCEPT !.status = "monitored"]
    [] d = "unmonitor_port" -> [row EXCEPT !.status = "new"]
    [] d = "dismiss_port"   -> [row EXCEPT !.status = "dismissed"]
    [] d = "monitor_ssl"    -> [row EXCEPT !.tlsStatus = "monitored"]
    [] d = "unmonitor_ssl"  -> [row EXCEPT !.tlsStatus = "new"]
    [] d = "dismiss_ssl"    -> [row EXCEPT !.tlsStatus = "dismissed"]

\* A column is written when the value decided differs from the one that was read.
Written(is, was, new) == IF new # was THEN new ELSE is

CommitDecision(e) ==
  /\ prtEdit[e].at = "host"
  /\ LET c   == prtEdit[e]
         row == DecidedRow(c.row, c.action)
         h   == DecidedHost(c.host, c.port, c.action)
         now == prtRows[c.port]
     IN  /\ prtRows' = [prtRows EXCEPT ![c.port] =
               [now EXCEPT !.status = Written(@, c.row.status, row.status),
                           !.tlsStatus = Written(@, c.row.tlsStatus, row.tlsStatus)]]
         /\ prtHost' = [types |-> Written(prtHost.types, c.host.types, h.types),
                        port  |-> Written(prtHost.port, c.host.port, h.port)]
         /\ prtDecided' = [prtDecided EXCEPT ![c.port] =
               [status |-> prtRows'[c.port].status, tlsStatus |-> prtRows'[c.port].tlsStatus]]
  /\ prtEdit' = [prtEdit EXCEPT ![e] = Off]
  /\ UNCHANGED <<prtOpen, prtScan, prtEdits, prtSeen>>

PrtNext ==
  \/ \E p \in PrtPorts : PortChanges(p)
  \/ \E s \in PrtScanners : ScanHostPorts(s) \/ ReadRows(s) \/ CommitScan(s) \/ ScanFails(s)
  \/ \E e \in PrtEditors : BeginDecision(e) \/ ReadHost(e) \/ CommitDecision(e)

PrtSpec == PrtInit /\ [][PrtNext]_prtVars

-----------------------------------------------------------------------------
(* Properties.                                                             *)

\* Scans that overlap each other and the decisions of editors: the list shows of each
\* port what one of the scans that overlapped last has seen, once one of them is
\* written, and no scan undoes a decision made while it ran.
ListIsTrue ==
  \A p \in PrtPorts : HasRow(p) =>
    /\ prtSeen # {} => \E found \in prtSeen : prtRows[p].open = (p \in found)
    /\ prtRows[p].status = prtDecided[p].status
    /\ prtRows[p].tlsStatus = prtDecided[p].tlsStatus
=============================================================================
