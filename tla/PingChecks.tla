------------------------------ MODULE PingChecks ------------------------------
(***************************************************************************)
(* scheduler.run_ping_checks for one host: maintenance that ends by        *)
(* itself, the latched port_error flag, and the alerts of an outage, which *)
(* wait for a grace period.  The streaks and the outage being tracked are  *)
(* globals of each process: they do not survive it, but they do survive a  *)
(* lease lost and regained, which only pauses and resumes the scheduler    *)
(* (LeaderLease says who leads).  The flags are columns of ping_hosts.  A  *)
(* minute is one run.                                                      *)
(***************************************************************************)
EXTENDS Naturals, FiniteSets

CONSTANTS PngProcs,         \* the processes that contend for the lease
          SetThreshold,     \* PORT_ERROR_SET_THRESHOLD
          ClearThreshold,   \* PORT_ERROR_CLEAR_THRESHOLD
          Grace,            \* notify_grace_minutes
          PngUntil,         \* bound: minutes
          PngChanges        \* bound: changes of the leader and restarts

ASSUME PngAssumption == {SetThreshold, ClearThreshold} \subseteq Nat \ {0} /\ Grace \in Nat

VARIABLES pngNow,
          pngSource,     \* an "agent" host is judged by its agent's heartbeat
          pngMaint,      \* maintenance and its end: 0 when off
          pngError,      \* PingHost.port_error
          pngFail, pngPass,   \* _port_fail_streak, _port_pass_streak of each process
          pngSince,      \* _offline_since of each process, 0 for none
          pngNotified,   \* _grace_notified of each process
          pngRow,        \* the newest row of ping_checks: "none", "up", "down"
          pngLeader,     \* the process whose scheduler runs
          pngTerm,       \* history: the minute from which it leads, or lives
          pngAlert,      \* history: the last alert sent, and when
          pngLastUp,     \* history: the last minute somebody found the host up
          pngUpBy,       \* history: the last minute each process found it up
          pngChanged     \* changes of the leader and restarts so far

pngFlags == <<pngError, pngFail, pngPass>>
pngTrack == <<pngSince, pngNotified, pngAlert, pngLastUp, pngUpBy>>
pngLead == <<pngLeader, pngTerm, pngChanged>>
pngVars == <<pngNow, pngSource, pngMaint, pngRow, pngFlags, pngTrack, pngLead>>

PngInit ==
    /\ pngNow = 1 /\ pngSource \in {"manual", "agent"}
    /\ pngMaint = 0 /\ pngError = FALSE
    /\ pngFail = [p \in PngProcs |-> 0] /\ pngPass = [p \in PngProcs |-> 0]
    /\ pngSince = [p \in PngProcs |-> 0] /\ pngNotified = [p \in PngProcs |-> FALSE]
    /\ pngRow = "none"
    /\ pngAlert = [kind |-> "none", at |-> 0] /\ pngLastUp = 0 /\ pngUpBy = [p \in PngProcs |-> 0]
    /\ pngLeader \in PngProcs /\ pngTerm = 1 /\ pngChanged = 0

-----------------------------------------------------------------------------
(* The service check                                                         *)

\* What one check found: up or not, and of the service: "ok", "error", or "none"
\* when no check beyond the ping was made.
Checks == [up : BOOLEAN, service : {"ok", "error", "none"}]

\* A service is judged only while the host answers.
Counts(c) == c.up /\ c.service # "none"
\* Only comparisons with the thresholds read a streak.
Capped(n) == IF n > SetThreshold /\ n > ClearThreshold THEN n - 1 ELSE n

FailStreak(c, n) == IF ~Counts(c) THEN n ELSE IF c.service = "error" THEN Capped(n + 1) ELSE 0
PassStreak(c, n) == IF ~Counts(c) THEN n ELSE IF c.service = "ok" THEN Capped(n + 1) ELSE 0

PortError(fails, passes) ==
    \/ ~pngError /\ fails >= SetThreshold
    \/ pngError /\ ~(passes >= ClearThreshold)

UpdateFlags(p, c) ==
    LET fails  == FailStreak(c, pngFail[p])
        passes == PassStreak(c, pngPass[p])
    IN /\ pngFail' = [pngFail EXCEPT ![p] = fails]
       /\ pngPass' = [pngPass EXCEPT ![p] = passes]
       /\ pngError' = PortError(fails, passes)

-----------------------------------------------------------------------------
(* The run                                                                   *)

\* An outage begins with the first failed check this process made since it last found
\* the host up, however long ago that was.
Since(p, c) == IF c.up THEN 0 ELSE IF pngSince[p] = 0 THEN pngNow ELSE pngSince[p]

OfflineAlert(p, c) == ~c.up /\ ~pngNotified[p] /\ pngNow - Since(p, c) >= Grace

\* Mutant of OnlineAlert: the stored row decides alone.
OnlineAlertByRow(p, c, prev) == c.up /\ prev = "down"

\* prev is empty when ClickHouse did not answer: the recovery is then not announced.
OnlineAlert(p, c, prev) == c.up /\ pngNotified[p] /\ prev = "down"

TrackOutage(p, c, prev) ==
    /\ pngSince' = [pngSince EXCEPT ![p] = Since(p, c)]
    /\ pngNotified' = [pngNotified EXCEPT ![p] = ~c.up /\ (pngNotified[p] \/ OfflineAlert(p, c))]
    /\ pngAlert' = CASE OfflineAlert(p, c) -> [kind |-> "offline", at |-> pngNow]
                     [] OnlineAlert(p, c, prev) -> [kind |-> "online", at |-> pngNow]
                     [] OTHER -> pngAlert
    /\ pngLastUp' = IF c.up THEN pngNow ELSE pngLastUp
    /\ pngUpBy' = IF c.up THEN [pngUpBy EXCEPT ![p] = pngNow] ELSE pngUpBy

\* A row that cannot be stored is only logged.
StoreRow(c) == pngRow' \in {pngRow, IF c.up THEN "up" ELSE "down"}

Expired == pngMaint # 0 /\ pngMaint <= pngNow

NextMinute == pngNow < PngUntil /\ pngNow' = pngNow + 1

\* Maintenance that is over is cleared first; a host still in it is skipped, and so
\* is one that a probe checks (ProbeStatus.CoreChecked).
RunPingChecks(p) ==
    /\ p = pngLeader
    /\ NextMinute
    /\ pngMaint' = IF Expired THEN 0 ELSE pngMaint
    /\ IF pngMaint' # 0
       THEN UNCHANGED <<pngFlags, pngTrack, pngRow>>
       ELSE \E c \in Checks :
              /\ StoreRow(c)
              /\ IF pngSource = "agent"
                 THEN UNCHANGED <<pngFlags, pngTrack>>
                 ELSE /\ UpdateFlags(p, c)
                      /\ \E prev \in {pngRow, "none"} : TrackOutage(p, c, prev)
    /\ UNCHANGED <<pngSource, pngLead>>

\* POST /hosts/{id}/maintenance, or the end of it by hand.
ScheduleMaintenance ==
    /\ pngMaint' \in {0, pngNow + 2} \ {pngMaint}
    /\ UNCHANGED <<pngNow, pngSource, pngRow, pngFlags, pngTrack, pngLead>>

\* _apply_leadership: the leader's scheduler is paused, another's is resumed with what
\* it remembers of its last term.
ChangeLeader(p) ==
    /\ p # pngLeader /\ pngChanged < PngChanges
    /\ pngLeader' = p /\ pngTerm' = pngNow /\ pngChanged' = pngChanged + 1
    /\ UNCHANGED <<pngNow, pngSource, pngMaint, pngRow, pngFlags, pngTrack>>

\* A process is started anew, the leader (which leads again) or another.
RestartProcess(p) ==
    /\ pngChanged < PngChanges /\ pngChanged' = pngChanged + 1
    /\ pngFail' = [pngFail EXCEPT ![p] = 0] /\ pngPass' = [pngPass EXCEPT ![p] = 0]
    /\ pngSince' = [pngSince EXCEPT ![p] = 0] /\ pngNotified' = [pngNotified EXCEPT ![p] = FALSE]
    /\ pngUpBy' = [pngUpBy EXCEPT ![p] = 0]
    /\ pngTerm' = IF p = pngLeader THEN pngNow ELSE pngTerm
    /\ UNCHANGED <<pngNow, pngSource, pngMaint, pngRow, pngError, pngAlert, pngLastUp, pngLeader>>

PngNext ==
    \/ \E p \in PngProcs : RunPingChecks(p) \/ ChangeLeader(p) \/ RestartProcess(p)
    \/ ScheduleMaintenance

PngSpec == PngInit /\ [][PngNext]_pngVars

-----------------------------------------------------------------------------
(* Properties                                                                *)

PngTypeOK ==
    /\ pngNow \in 1..PngUntil /\ pngMaint \in 0..(PngUntil + 2)
    /\ pngSince \in [PngProcs -> 0..PngUntil] /\ pngRow \in {"none", "up", "down"}
    /\ pngFail \in [PngProcs -> Nat] /\ pngPass \in [PngProcs -> Nat]

\* The outage of since was first seen in the present term of the leader.
OfThisTerm(since) == since # 0 /\ since >= pngTerm

\* An outage is announced only after the grace period in which the announcing process has
\* not found the host up, and nobody has when the outage began in its present term.
OfflineEarned ==
    \A p \in PngProcs :
      ~pngNotified[p] /\ pngNotified'[p] =>
        /\ pngNow - pngUpBy[p] > Grace
        /\ OfThisTerm(pngSince'[p]) => pngNow - pngLastUp > Grace

\* "Host back online" answers an announcement of the same process; of an outage of its
\* present term, one that nobody has answered.
OnlineEarned ==
    pngAlert' # pngAlert /\ pngAlert'.kind = "online" =>
        /\ pngNotified[pngLeader] /\ pngLastUp' = pngNow
        /\ OfThisTerm(pngSince[pngLeader]) => pngAlert.kind = "offline"

\* The alerts match the outages, whatever restarts, changes of the leader, maintenance or
\* missing history came between.  What a process remembers of an outage of an earlier
\* term is apart: another may have found the host up meanwhile, so that it announces the
\* next outage at once.
AlertsMatchOutages == [][OfflineEarned /\ OnlineEarned]_pngVars

=============================================================================
