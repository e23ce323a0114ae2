------------------------------- MODULE MCData -------------------------------
(***************************************************************************)
(* Small instances of the components that gather and keep data, for        *)
(* safety.  They share no variable, so that one of them, the focus, moves  *)
(* in a behaviour and the others rest in an initial state.                 *)
(***************************************************************************)
EXTENDS LogTemplates, LogPatterns, LogBaselines, RemoteChecks, Accounts,
        ApiKeys, BackupMonitor, DataExport, PortDiscovery, HostTable, TLC

CONSTANTS Focus, t1, t2, s1, s2

VARIABLE focus

\* Two templates, names or editors, and two requests or scans at a time.
MCTemplates == {t1, t2}
MCSlots == {s1, s2}
Symmetry == Permutations(MCTemplates) \cup Permutations(MCSlots)

\* The tags of a template that make it noise of themselves.
MCTagScore == [t \in {"fault"} |-> 5]

\* A new template, one that comes evenly, and one that grows as it gets worse.
RestSeries == [i \in 1..3 |-> [count |-> 2, severity |-> 6]]
MCSeries == { [i \in 1..4 |-> [count |-> 2, severity |-> 6]],
              [i \in 1..4 |-> [count |-> i * i, severity |-> IF i < 4 THEN 4 ELSE 2]],
              RestSeries }

\* Two storages take turns; the tables of every kind that the export meets.
MCStore == <<1, 2, 1>>
MCTables == <<"settings", "users", "ping_results", "snmp_oids">>
MCRefers == {<<"sessions", "users">>}

\* Two users with one session between them, or one user with two.
SessionsBound == accToken' =< 1 \/ Cardinality(accEver') =< 1

\* What the checks of a host rest at.
RestRow == [types |-> << <<"icmp", 0>> >>, ip |-> FALSE, port |-> 0]
RestNet == [up |-> {}, open |-> {}, web |-> [p \in RmcPorts \cup {0} |-> "none"]]

dataVars == <<focus, tplVars, flpVars, bslVars, rmcVars, accVars,
                keyVars, bkpVars, dxpVars, prtVars, hstVars>>

DataInit ==
    /\ focus \in Focus
    /\ focus = "patterns" \/ (flpDaily = {} /\ flpRate = [t \in FlpTemplates |-> 0])
    /\ focus = "baselines" \/ bslSeries = RestSeries
    /\ focus = "checks" \/ (rmcRow = RestRow /\ rmcNet = RestNet /\ rmcInsecure = FALSE)
    /\ focus = "keys" \/ keyRow = [k \in KeyNames |-> Unstored]
    /\ focus = "export" \/ dxpEngine = "sqlite"
    /\ focus = "ports" \/ prtOpen = {}
    /\ focus = "hosts" \/ hstImporter = "proxmox"
    /\ TplInit /\ FlpInit /\ BslInit /\ RmcInit
    /\ AccInit /\ KeyInit /\ BkpInit /\ DxpInit /\ PrtInit /\ HstInit

DataNext ==
    /\ \/ focus = "templates" /\ TplNext
          /\ UNCHANGED <<flpVars, bslVars, rmcVars, accVars,
                            keyVars, bkpVars, dxpVars, prtVars, hstVars>>
       \/ focus = "patterns" /\ FlpNext
          /\ UNCHANGED <<tplVars, bslVars, rmcVars, accVars,
                            keyVars, bkpVars, dxpVars, prtVars, hstVars>>
       \/ focus = "baselines" /\ BslNext
          /\ UNCHANGED <<tplVars, flpVars, rmcVars, accVars,
                            keyVars, bkpVars, dxpVars, prtVars, hstVars>>
       \/ focus = "checks" /\ RmcNext
          /\ UNCHANGED <<tplVars, flpVars, bslVars, accVars,
                            keyVars, bkpVars, dxpVars, prtVars, hstVars>>
       \/ focus = "accounts" /\ AccNext /\ SessionsBound
          /\ UNCHANGED <<tplVars, flpVars, bslVars, rmcVars,
                            keyVars, bkpVars, dxpVars, prtVars, hstVars>>
       \/ focus = "keys" /\ KeyNext
          /\ UNCHANGED <<tplVars, flpVars, bslVars, rmcVars,
                            accVars, bkpVars, dxpVars, prtVars, hstVars>>
       \/ focus = "backups" /\ BkpNext
          /\ UNCHANGED <<tplVars, flpVars, bslVars, rmcVars,
                            accVars, keyVars, dxpVars, prtVars, hstVars>>
       \/ focus = "export" /\ DxpNext
          /\ UNCHANGED <<tplVars, flpVars, bslVars, rmcVars,
                            accVars, keyVars, bkpVars, prtVars, hstVars>>
       \/ focus = "ports" /\ PrtNext
          /\ UNCHANGED <<tplVars, flpVars, bslVars, rmcVars,
                            accVars, keyVars, bkpVars, dxpVars, hstVars>>
       \/ focus = "hosts" /\ HstNext
          /\ UNCHANGED <<tplVars, flpVars, bslVars, rmcVars,
                            accVars, keyVars, bkpVars, dxpVars, prtVars>>
    /\ UNCHANGED focus

DataSpec == DataInit /\ [][DataNext]_dataVars
=============================================================================
