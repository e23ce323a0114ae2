----------------------------- MODULE ProbeStatus -----------------------------
(***************************************************************************)
(* Who checks a host, and what the application says of it: one host, the   *)
(* core (scheduler.run_ping_checks) and one remote probe, an agent that    *)
(* checks hosts between two of its reports and hands the results up with   *)
(* the next one.  Status is services/probes.host_status, ListStatus the    *)
(* expression of GET /hosts.  Time is counted in probe intervals.          *)
(***************************************************************************)
EXTENDS Naturals, FiniteSets

CONSTANTS PrbWindow,    \* staleness_window in intervals (max(120 s, 3 intervals))
          PrbInterval,  \* one interval
          PrbUntil      \* bound: end of time

ASSUME PrbAssumption == PrbWindow \in Nat /\ PrbInterval \in Nat /\ PrbUntil \in Nat

Never == 0
NoCheck == [ts |-> Never, up |-> FALSE]

VARIABLES prbNow,
          prbOwner,     \* PingHost.probe_id: "core" is NULL
          prbShown,     \* the host is enabled and not in maintenance
          prbUp,        \* the host answers
          prbAlive,     \* the probe's process runs
          prbCarried,   \* the result the probe will hand up
          prbSeen,      \* Agent.last_seen
          prbFresh,     \* prbSeen has ever been set
          prbRow,       \* the newest row of ping_checks, by its timestamp
          prbBusy,      \* a run of the core's job holds the host as core-checked
          prbSawUp      \* history: when somebody last found the host up

prbVars == <<prbNow, prbOwner, prbShown, prbUp, prbAlive, prbCarried, prbSeen, prbFresh, prbRow, prbBusy, prbSawUp>>

PrbInit ==
    /\ prbNow = 1
    /\ prbOwner \in {"core", "probe"}
    /\ prbShown = TRUE /\ prbUp = TRUE /\ prbAlive = TRUE
    /\ prbCarried = NoCheck
    /\ prbSeen = Never /\ prbFresh = FALSE
    /\ prbRow = NoCheck
    /\ prbBusy = FALSE
    /\ prbSawUp = Never

\* ClickHouse answers with argMax over the timestamp, whatever arrived last.
Latest(row, new) == IF row.ts = Never \/ new.ts >= row.ts THEN new ELSE row

-----------------------------------------------------------------------------
(* The core's job                                                            *)

\* core_checked: a host with a probe is left out.
CoreChecked == prbOwner = "core"

StartCoreRun ==
    /\ ~prbBusy /\ prbShown /\ CoreChecked
    /\ prbBusy' = TRUE
    /\ UNCHANGED <<prbNow, prbOwner, prbShown, prbUp, prbAlive, prbCarried, prbSeen, prbFresh, prbRow, prbSawUp>>

\* check_host and insert_ping_checks: the host may have been assigned meanwhile.
FinishCoreRun ==
    /\ prbBusy
    /\ prbBusy' = FALSE
    /\ prbRow' = Latest(prbRow, [ts |-> prbNow, up |-> prbUp])
    /\ prbSawUp' = IF prbUp THEN prbNow ELSE prbSawUp
    /\ UNCHANGED <<prbNow, prbOwner, prbShown, prbUp, prbAlive, prbCarried, prbSeen, prbFresh>>

-----------------------------------------------------------------------------
(* The probe                                                                 *)

\* A check for a host of the last answer's assignments, stamped by the probe.
ProbeCheck ==
    /\ prbAlive /\ prbOwner = "probe" /\ prbShown /\ prbFresh
    /\ prbCarried' = [ts |-> prbNow, up |-> prbUp]
    /\ prbSawUp' = IF prbUp THEN prbNow ELSE prbSawUp
    /\ UNCHANGED <<prbNow, prbOwner, prbShown, prbUp, prbAlive, prbSeen, prbFresh, prbRow, prbBusy>>

\* _record_probe_results: the rows carry the time of the check.
Recorded == IF prbCarried.ts = Never THEN prbRow ELSE Latest(prbRow, prbCarried)

\* agent_report: last_seen is committed first, the results are stored afterwards;
\* when ClickHouse refuses them the failure is logged and they are gone.
ProbeReport ==
    /\ prbAlive
    /\ prbSeen' = prbNow /\ prbFresh' = TRUE
    /\ prbRow' \in {Recorded, prbRow}
    /\ prbCarried' = NoCheck
    /\ UNCHANGED <<prbNow, prbOwner, prbShown, prbUp, prbAlive, prbBusy, prbSawUp>>

\* The probe's process ends, taking the result along, and is started again.
LoseProbe ==
    /\ prbAlive
    /\ prbAlive' = FALSE /\ prbCarried' = NoCheck
    /\ UNCHANGED <<prbNow, prbOwner, prbShown, prbUp, prbSeen, prbFresh, prbRow, prbBusy, prbSawUp>>

RestartProbe ==
    /\ ~prbAlive /\ prbAlive' = TRUE
    /\ UNCHANGED <<prbNow, prbOwner, prbShown, prbUp, prbCarried, prbSeen, prbFresh, prbRow, prbBusy, prbSawUp>>

-----------------------------------------------------------------------------
(* The operator, the host and the clock                                      *)

\* A host gets a probe, or loses it (ON DELETE SET NULL of a deleted agent too).
Assign ==
    /\ prbOwner' \in {"core", "probe"} \ {prbOwner}
    /\ UNCHANGED <<prbNow, prbShown, prbUp, prbAlive, prbCarried, prbSeen, prbFresh, prbRow, prbBusy, prbSawUp>>

\* Disabled or put in maintenance, and back.
Show ==
    /\ prbShown' = ~prbShown
    /\ UNCHANGED <<prbNow, prbOwner, prbUp, prbAlive, prbCarried, prbSeen, prbFresh, prbRow, prbBusy, prbSawUp>>

HostFails ==
    /\ prbUp /\ prbUp' = FALSE
    /\ UNCHANGED <<prbNow, prbOwner, prbShown, prbAlive, prbCarried, prbSeen, prbFresh, prbRow, prbBusy, prbSawUp>>

\* The core's checks take seconds: no run spans an interval.
PrbTick ==
    /\ prbNow < PrbUntil /\ ~prbBusy
    /\ prbNow' = prbNow + 1
    /\ UNCHANGED <<prbOwner, prbShown, prbUp, prbAlive, prbCarried, prbSeen, prbFresh, prbRow, prbBusy, prbSawUp>>

PrbNext ==
    \/ StartCoreRun \/ FinishCoreRun
    \/ ProbeCheck \/ ProbeReport \/ LoseProbe \/ RestartProbe
    \/ Assign \/ Show \/ HostFails
    \/ PrbTick

PrbSpec == PrbInit /\ [][PrbNext]_prbVars

-----------------------------------------------------------------------------
(* What is said of the host                                                  *)

StalenessWindow == PrbWindow
ResultWindow == StalenessWindow + PrbInterval
IsStale == ~prbFresh \/ prbNow - prbSeen > StalenessWindow

Result == IF prbRow.up THEN "up" ELSE "down"

\* Mutant of Unobserved: a live probe is enough.
UnobservedByProbeOnly == prbRow.ts = Never \/ (prbOwner = "probe" /\ IsStale)

\* host_status: a probe's host is unknown unless both the probe and the result are
\* recent.
Unobserved ==
    \/ prbRow.ts = Never
    \/ prbOwner = "probe" /\ (IsStale \/ prbNow - prbRow.ts > ResultWindow)

Status == IF Unobserved THEN "unknown" ELSE Result

\* list_hosts: the newest row, at any age and whether the probe lives or not.
ListStatus == IF prbRow.ts = Never THEN "unknown" ELSE Result

-----------------------------------------------------------------------------
(* Properties                                                                *)

PrbTypeOK ==
    /\ prbNow \in 1..PrbUntil /\ prbSeen \in 0..PrbUntil
    /\ prbRow.ts \in 0..PrbUntil /\ prbCarried.ts \in 0..PrbUntil

\* No false green.  host_status calls a probe's host up only when somebody really found
\* it up no longer than the result window ago, whatever died or was reassigned since; the
\* list of hosts calls it up only when somebody found it up no earlier than its newest
\* result was taken, which may be any time ago.
NoFalseGreen ==
    prbOwner = "probe" =>
        /\ Status = "up" => prbSawUp # Never /\ prbNow - prbSawUp <= PrbWindow + PrbInterval
        /\ ListStatus = "up" => prbSawUp # Never /\ prbSawUp >= prbRow.ts

\* What the design says of the API (remote-probes-design.md:94-97): a host whose newest
\* result is older than its probe's staleness threshold reads unknown, not its last value.
\* GET /hosts breaks it.
StaleReadsUnknown ==
    (prbOwner = "probe" /\ prbNow - prbRow.ts > ResultWindow) => ListStatus = "unknown"

=============================================================================
