------------------------------ MODULE RemoteChecks ------------------------------
(***************************************************************************)
(* One host checked twice: by the server (utils/ping.py, check_host) and,  *)
(* from an assignment the server writes of the same row, by a probe        *)
(* (agent/src/src/checks.rs, run_one), which "mirrors check_host".  Both   *)
(* are modelled as functions of the row and of what the network answers in *)
(* time.  A check type is <<kind, port>>, port 0 where none is written;    *)
(* "other" is any text neither of them knows.                              *)
(***************************************************************************)
EXTENDS Naturals, Sequences

CONSTANTS RmcPorts,      \* ports that are written in rows and types; 80 is the default
          RmcStatuses    \* what a web server may answer: "untrusted" for a good answer behind
                         \* a certificate that is not valid, "none" for nothing

ASSUME RmcAssumption ==
    /\ RmcPorts \subseteq Nat \ {0}
    /\ RmcStatuses \subseteq {"ok", "untrusted", "missing", "error", "none"}

VARIABLES rmcRow,       \* the row: types (check_type), ip (ip_address is set), port
          rmcNet,       \* the network: up (addresses that answer), open (ports), web (by port)
          rmcInsecure,  \* setting allow_insecure_tls of the probe
          rmcVerdicts   \* of both: up, latency (the type it is of), detail; or NoVerdict

rmcVars == <<rmcRow, rmcNet, rmcInsecure, rmcVerdicts>>

Ports == RmcPorts \cup {80}
Types == {<<k, 0>> : k \in {"icmp", "ICMP", "tcp", "http", "https", "other"}} \cup {<<"tcp", p>> : p \in RmcPorts}
NoVerdict == <<>>

RmcInit ==
    /\ rmcRow \in [types : UNION {[1..n -> Types] : n \in 1..2}, ip : BOOLEAN, port : RmcPorts \cup {0}]
    /\ rmcNet \in [up : SUBSET {"ip", "name"}, open : SUBSET Ports, web : [RmcPorts \cup {0} -> RmcStatuses]]
    /\ rmcInsecure \in BOOLEAN
    /\ rmcVerdicts = NoVerdict

-----------------------------------------------------------------------------
(* What a check gives: ok, and whether it measured a latency                 *)

Result(ok, timed) == [ok |-> ok, timed |-> timed]
Failed == Result(FALSE, FALSE)

\* The address where the row has one, else the name, for ICMP and TCP; the name for HTTP.
Target(row) == IF row.ip THEN "ip" ELSE "name"

Ping(target) == Result(target \in rmcNet.up, target \in rmcNet.up)
Connect(target, port) == LET ok == target \in rmcNet.up /\ port \in rmcNet.open IN Result(ok, ok)

\* tcp:8080 names its port, tcp takes that of the row, or 80.
TcpPort(type, row) == IF type[2] # 0 THEN type[2] ELSE IF row.port # 0 THEN row.port ELSE 80

\* check_http of the server, of any answer below 500, at the scheme's own port, whatever
\* the certificate.
ServerGet == Result(rmcNet.web[0] \in {"ok", "untrusted", "missing"}, rmcNet.web[0] # "none")
\* run_http of the probe, of 2xx and 3xx, at the port of the row; a certificate that is not
\* valid ends the connection before there is an answer, unless the probe allows it.
Unreached == {"none"} \cup (IF rmcInsecure THEN {} ELSE {"untrusted"})
ProbeGet(row) ==
    LET answer == rmcNet.web[row.port]
    IN  Result(answer \in {"ok", "untrusted"} \ Unreached, answer \notin Unreached)

\* _check_single; what it does not know it pings.
ServerCheck(type, row) ==
    CASE type[1] \in {"http", "https"} -> ServerGet
      [] type[1] = "tcp" -> Connect(Target(row), TcpPort(type, row))
      [] OTHER -> Ping(Target(row))

\* execute; what it does not know it cannot perform.
ProbeCheck(type, row) ==
    CASE type[1] \in {"http", "https"} -> ProbeGet(row)
      [] type[1] = "tcp" -> Connect(Target(row), TcpPort(type, row))
      [] type[1] = "icmp" -> Ping(Target(row))
      [] OTHER -> Failed

-----------------------------------------------------------------------------
(* The verdicts                                                              *)

Icmps(types) == {i \in DOMAIN types : types[i][1] = "icmp"}
FirstOf(S) == CHOOSE i \in S : \A j \in S : i <= j

\* The name of a check in the detail: a plain tcp takes the port of the row.
Label(type, row) == IF type = <<"tcp", 0>> THEN <<"tcp", row.port>> ELSE type

\* ICMP alone decides where there is one, else any check does; the latency is that of ICMP
\* where it has one, else the first one measured.  A label checked twice keeps the last.
IsUp(types, rs) ==
    IF Icmps(types) # {} THEN \A i \in Icmps(types) : rs[i].ok ELSE \E i \in DOMAIN rs : rs[i].ok

Latency(types, rs) ==
    LET timed == {i \in DOMAIN rs : rs[i].timed}
        icmp == {i \in Icmps(types) : i = FirstOf(Icmps(types))} \cap timed
    IN IF timed = {} THEN 0 ELSE FirstOf(IF icmp # {} THEN icmp ELSE timed)

Verdict(types, row, rs) ==
    LET labels == {Label(types[i], row) : i \in DOMAIN types}
        last(l) == CHOOSE i \in DOMAIN types :
                      Label(types[i], row) = l /\ \A j \in DOMAIN types : Label(types[j], row) = l => j <= i
    IN [up |-> IsUp(types, rs), latency |-> Latency(types, rs), detail |-> [l \in labels |-> rs[last(l)].ok]]

\* check_host of the server.  The types stay as they are written.
ServerVerdict(row) ==
    Verdict(row.types, row, [i \in DOMAIN row.types |-> ServerCheck(row.types[i], row)])

\* parse_check_types of the probe, which writes them small.
Small(types) == [i \in DOMAIN types |-> IF types[i][1] = "ICMP" THEN <<"icmp", 0>> ELSE types[i]]

\* A probe that lets any check decide, whether there is an ICMP or not.
SummarizeAny(types, row, rs) == [Verdict(types, row, rs) EXCEPT !.up = \E i \in DOMAIN rs : rs[i].ok]
Summarize(types, row, rs) == Verdict(types, row, rs)

ProbeVerdict(row) ==
    LET types == Small(row.types)
    IN Summarize(types, row, [i \in DOMAIN types |-> ProbeCheck(types[i], row)])

\* A round of checks by both, while nothing changes.
CheckRound ==
    /\ rmcVerdicts = NoVerdict
    /\ rmcVerdicts' = [server |-> ServerVerdict(rmcRow), probe |-> ProbeVerdict(rmcRow)]
    /\ UNCHANGED <<rmcRow, rmcNet, rmcInsecure>>

RmcNext == CheckRound

RmcSpec == RmcInit /\ [][RmcNext]_rmcVars

-----------------------------------------------------------------------------

\* What the two are known to judge differently: an answer 4xx, a certificate that is not
\* valid (the server never looks at it), a web check of a row that has a port, and types that are not written small or not known at all.
WebChecked == \E i \in DOMAIN rmcRow.types : rmcRow.types[i][1] \in {"http", "https"}
Divergent ==
    \/ WebChecked /\ rmcNet.web[0] = "missing"
    \/ WebChecked /\ rmcNet.web[0] = "untrusted" /\ ~rmcInsecure
    \/ WebChecked /\ rmcRow.port # 0
    \/ \E i \in DOMAIN rmcRow.types : rmcRow.types[i][1] \in {"ICMP", "other"}

\* A probe and the server judge a host alike, latency and detail included (checks.rs:677
\* "Mirrors check_host"), but for the divergences above: a host handed over to a probe does
\* not change its state by it.
ProbeJudgesLikeServer ==
    rmcVerdicts # NoVerdict /\ ~Divergent => rmcVerdicts.probe = rmcVerdicts.server
=============================================================================
