----------------------------- MODULE MCServices -----------------------------
(***************************************************************************)
(* Small instances of the components beside the engine, for safety.  They  *)
(* share no variable, so that one of them, the focus, moves in a behaviour *)
(* and the others rest in an initial state.                                *)
(***************************************************************************)
EXTENDS AgentSession, AgentTail, ProbeStatus, PingChecks, Polling, AlertRules, Bandwidth,
        SnmpNames, SharedCounters, ProbeAgent, TLC

CONSTANTS Focus, m1, m2, s1, s2, pve1, pve2, dns, NoName, app, journal, docker, plain

VARIABLE focus

\* Two machines that go by one hostname, and two handlers at a time.
MCMachines == {m1, m2}
MCSlots == {s1, s2}
Symmetry == Permutations(MCMachines) \cup Permutations(MCSlots)

\* Two processes of the backend, of which the first leads at first.
MCProcs == {"one", "two"}

\* One log of each kind.
MCSources == {app, journal, docker, plain}
MCKind == (app :> "file") @@ (journal :> "journal") @@ (docker :> "since") @@ (plain :> "tail")

\* A cluster of two Proxmox servers, one of which is polled every second run, and one
\* integration by itself.
MCOrder == <<pve1, pve2, dns>>
MCType == (pve1 :> "proxmox") @@ (pve2 :> "proxmox") @@ (dns :> "pihole")
MCCluster == (pve1 :> "lab") @@ (pve2 :> "lab") @@ (dns :> NoName)
MCInterval == (pve1 :> 1) @@ (pve2 :> 2) @@ (dns :> 1)

\* A rule on the pings of all hosts that asks for one channel, and the outages of two hosts of one
\* name.
MCAlerts == {"offline", "down1", "down2"}
MCTitle == [a \in MCAlerts |-> IF a = "offline" THEN a ELSE "down"]
MCSeverity == [a \in MCAlerts |-> IF a = "offline" THEN "warning" ELSE "critical"]
MCWanted == [a \in MCAlerts |-> IF a = "offline" THEN {"email"} ELSE {}]
MCChannels == {"email", "discord"}
MCMinSeverity == [c \in MCChannels |-> IF c = "email" THEN "all" ELSE "error"]
MCRules == <<"offline">>
MCSource == [r \in {"offline"} |-> "ping"]
MCField == [r \in {"offline"} |-> "offline"]
MCOperator == [r \in {"offline"} |-> "gt"]
MCThresholds == [r \in {"offline"} |-> {0, 1}]
MCRequired == [r \in {"offline"} |-> 0]
MCCooldown == [r \in {"offline"} |-> 1]

\* An object and one entry of its table, the file that names it anew, and the default.
MCPath == [o \in {"ifDescr", "ifDescr.1"} |->
             IF o = "ifDescr" THEN <<o>> ELSE <<o, "ifDescr">>]
MCFiles == {[o \in {"ifDescr"} |-> "new"]}
MCDefaults == [o \in {"ifDescr"} |-> "std"]

\* A form with a short window and a login with a longer one.
MCKeys == {"form", "login"}
MCWindow == [k \in MCKeys |-> IF k = "form" THEN 1 ELSE 2]
MCMax == [k \in MCKeys |-> 1]

MCTold == [told \in SUBSET {"a", "b"} |-> SelectSeq(<<"a", "b">>, LAMBDA h : h \in told)]

servicesVars == <<focus, sesVars, tailVars, prbVars, pngVars, polVars, altVars,
                    bwdVars, snmVars, shrVars, pagVars>>

ServicesInit ==
    /\ focus \in Focus
    /\ focus = "session" \/ sesRow = NoRow
    /\ focus = "tail" \/ tailSize = [s \in TailSources |-> 0]
    /\ focus = "probe" \/ prbOwner = "core"
    /\ focus = "ping" \/ pngSource = "manual"
    /\ pngLeader = "one"
    /\ focus = "rules" \/ altThreshold = [r \in AltSet |-> 0]
    /\ focus = "bandwidth" \/ bwdKind = "counter"
    /\ focus = "counters" \/ shrRedis = FALSE
    /\ SesInit /\ TailInit /\ PrbInit /\ PngInit /\ PolInit /\ AltInit
    /\ BwdInit /\ SnmInit /\ ShrInit /\ PagInit

ServicesNext ==
    /\ \/ focus = "session" /\ SesNext
          /\ UNCHANGED <<tailVars, prbVars, pngVars, polVars, altVars,
                            bwdVars, snmVars, shrVars, pagVars>>
       \/ focus = "tail" /\ TailNext
          /\ UNCHANGED <<sesVars, prbVars, pngVars, polVars, altVars,
                            bwdVars, snmVars, shrVars, pagVars>>
       \/ focus = "probe" /\ PrbNext
          /\ UNCHANGED <<sesVars, tailVars, pngVars, polVars, altVars,
                            bwdVars, snmVars, shrVars, pagVars>>
       \/ focus = "ping" /\ PngNext
          /\ UNCHANGED <<sesVars, tailVars, prbVars, polVars, altVars,
                            bwdVars, snmVars, shrVars, pagVars>>
       \/ focus = "polling" /\ PolNext
          /\ UNCHANGED <<sesVars, tailVars, prbVars, pngVars, altVars,
                            bwdVars, snmVars, shrVars, pagVars>>
       \/ focus = "rules" /\ AltNext
          /\ UNCHANGED <<sesVars, tailVars, prbVars, pngVars, polVars,
                            bwdVars, snmVars, shrVars, pagVars>>
       \/ focus = "bandwidth" /\ BwdNext
          /\ UNCHANGED <<sesVars, tailVars, prbVars, pngVars, polVars, altVars,
                            snmVars, shrVars, pagVars>>
       \/ focus = "snmp" /\ SnmNext
          /\ UNCHANGED <<sesVars, tailVars, prbVars, pngVars, polVars, altVars,
                            bwdVars, shrVars, pagVars>>
       \/ focus = "counters" /\ ShrNext
          /\ UNCHANGED <<sesVars, tailVars, prbVars, pngVars, polVars, altVars,
                            bwdVars, snmVars, pagVars>>
       \/ focus = "agent" /\ PagNext
          /\ UNCHANGED <<sesVars, tailVars, prbVars, pngVars, polVars, altVars,
                            bwdVars, snmVars, shrVars>>
    /\ UNCHANGED focus

ServicesSpec == ServicesInit /\ [][ServicesNext]_servicesVars
=============================================================================
