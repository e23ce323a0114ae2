------------------------------ MODULE AlertRules ------------------------------
(***************************************************************************)
(* services/rules.py: once a minute every enabled alert rule is evaluated; *)
(* one that has matched required_consecutive times fires and rests for its *)
(* cooldown.  A rule on snapshots or pings notifies by itself, a syslog    *)
(* rule raises an incident, and only a new incident notifies.  The counts  *)
(* (_consecutive_matches) are globals of the process, the time of the last *)
(* firing is a column.                                                     *)
(***************************************************************************)
EXTENDS Notifications, Integers, Sequences

CONSTANTS AltRules,       \* the rules, in the order of the query; a rule is its alert
          AltSyslog,      \* those on syslog
          AltSource,      \* of the others: "ping", a host, or the type of a snapshot
          AltField,       \* field_path of each, where it is told apart
          AltOperator,    \* operator of each
          AltThresholds,  \* the thresholds an editor may give each
          AltHosts,       \* the hosts that are pinged
          AltReadings,    \* what the field of a snapshot may show
          AltLines,       \* the kinds of log line: severity, and the patterns it contains
          AltRequired,    \* required_consecutive of each
          AltCooldown,    \* cooldown_minutes of each
          AltStale,       \* minutes after which _auto_resolve closes a quiet incident
          AltRestarts     \* bound: restarts of the process

AltSet == {AltRules[i] : i \in DOMAIN AltRules}
AltSnapshots == {AltSource[r] : r \in AltSet \ AltSyslog} \ (AltHosts \cup {"ping"})
NoReading == -1

ASSUME AltAssumption ==
    /\ AltSet \subseteq Alerts /\ AltSyslog \subseteq AltSet
    /\ AltRequired \in [AltSet -> Nat] /\ AltCooldown \in [AltSet -> Nat] /\ AltStale \in Nat
    /\ \A r \in AltSyslog : WantedBy[r] = {}
    /\ AltReadings \subseteq Nat

VARIABLES altPing,      \* success of the latest ping check of each host, if there is one
          altSnap,      \* the field in the newest snapshot of each type, if it is there
          altLogged,    \* the lines of the last 60 s
          altThreshold, \* AlertRule.threshold
          altEnabled,   \* AlertRule.enabled
          altCount,     \* _consecutive_matches
          altRest,      \* minutes until last_triggered_at is a cooldown ago
          altIncident,  \* syslog rules with an active incident
          altFresh,     \* minutes until its updated_at is stale
          altAt,        \* position of the run, 0 between runs
          altList,      \* the rules the run has read
          altFiring,    \* of the rule there: "no", "due", "new" or "event" (incident)
          altRestarted

altData == <<altPing, altSnap, altLogged>>
altRun == <<altAt, altList, altFiring>>
altIncVars == <<altIncident, altFresh>>
altVars == <<ntfVars, altData, altThreshold, altEnabled, altCount, altRest, altIncVars, altRun, altRestarted>>

AltInit ==
    /\ NtfInit
    /\ altPing = [h \in AltHosts |-> NoReading] /\ altSnap = [n \in AltSnapshots |-> NoReading]
    /\ altLogged = {}
    /\ altThreshold \in {t \in [AltSet -> UNION {AltThresholds[r] : r \in AltSet}] :
                           \A r \in AltSet : t[r] \in AltThresholds[r]}
    /\ altEnabled = AltSet
    /\ altCount = [r \in AltSet |-> 0]
    /\ altRest = [r \in AltSet |-> 0]
    /\ altIncident = {} /\ altFresh = [r \in AltSyslog |-> 0]
    /\ altAt = 0 /\ altList = {} /\ altFiring = "no"
    /\ altRestarted = 0

-----------------------------------------------------------------------------
(* What the condition of a rule sees                                         *)

\* OPERATORS, on numbers.
Compares(op, v, t) ==
    CASE op = "gt" -> v > t
      [] op = "lt" -> v < t
      [] op = "gte" -> v >= t
      [] op = "lte" -> v <= t
      [] op = "eq" -> v = t
      [] op = "ne" -> v # t
      [] op = "is_true" -> v # 0
      [] op = "is_false" -> v = 0

\* A rule on one host sees whether its latest check succeeded, one on any host how many
\* are not known to be online: those without a check count as offline.
PingReading(source) ==
    IF source \in AltHosts THEN altPing[source]
    ELSE IF AltHosts = {} THEN NoReading
    ELSE Cardinality({h \in AltHosts : altPing[h] # 1})

Reading(r) ==
    IF AltSource[r] \in AltHosts \cup {"ping"} THEN PingReading(AltSource[r]) ELSE altSnap[AltSource[r]]

\* The severity is a number: looking for a text in it finds nothing.
LineMatches(r, line) ==
    IF AltField[r] = "severity"
    THEN /\ AltOperator[r] \in {"gt", "lt", "gte", "lte", "eq", "ne"}
         /\ Compares(AltOperator[r], line.severity, altThreshold[r])
    ELSE (altThreshold[r] \in line.contains) # (AltOperator[r] \in {"not_contains", "not_regex", "ne"})

ConditionHolds(r) ==
    IF r \in AltSyslog THEN \E line \in altLogged : LineMatches(r, line)
    ELSE Reading(r) # NoReading /\ Compares(AltOperator[r], Reading(r), altThreshold[r])

-----------------------------------------------------------------------------
(* The run                                                                   *)

Rule == AltRules[altAt]
MinConsecutive(r) == IF AltRequired[r] = 0 THEN 2 ELSE AltRequired[r]

\* The next rule, or the end of the run.
PassedRule ==
    /\ altAt' = IF altAt = Len(AltRules) THEN 0 ELSE altAt + 1
    /\ altList' = IF altAt = Len(AltRules) THEN {} ELSE altList
    /\ altFiring' = "no"

\* The minute job; its runs are over well before the next.
StartRuleRun ==
    /\ altAt = 0
    /\ NtfTick
    /\ altRest' = [r \in AltSet |-> Less(altRest[r])]
    /\ altFresh' = [r \in AltSyslog |-> Less(altFresh[r])]
    /\ altAt' = 1 /\ altList' = altEnabled
    /\ UNCHANGED <<altData, altThreshold, altEnabled, altCount, altIncident, altFiring, altRestarted>>

Evaluating(r) == altAt # 0 /\ Rule = r /\ altFiring = "no"

\* Rules that were off when the run began, and resting rules, are passed over.
SkipRule ==
    /\ altAt # 0 /\ Evaluating(Rule)
    /\ Rule \notin altList \/ altRest[Rule] > 0
    /\ PassedRule
    /\ UNCHANGED <<ntfVars, altData, altThreshold, altEnabled, altCount, altRest, altIncVars, altRestarted>>

\* A condition that does not hold, or for which there is no data, ends the count.
EvaluateRule(r) ==
    /\ Evaluating(r) /\ r \in altList /\ altRest[r] = 0
    /\ altCount' = [altCount EXCEPT ![r] = IF ~ConditionHolds(r) THEN 0
                                            ELSE IF @ < MinConsecutive(r) THEN @ + 1 ELSE @]
    /\ IF altCount'[r] >= MinConsecutive(r) THEN altFiring' = "due" /\ UNCHANGED <<altAt, altList>> ELSE PassedRule
    /\ UNCHANGED <<ntfVars, altData, altThreshold, altEnabled, altRest, altIncVars, altRestarted>>

\* ClickHouse or a malformed snapshot: logged, and the count stays.
EvaluationFails ==
    /\ altAt # 0 /\ Evaluating(Rule) /\ Rule \in altList /\ altRest[Rule] = 0
    /\ PassedRule
    /\ UNCHANGED <<ntfVars, altData, altThreshold, altEnabled, altCount, altRest, altIncVars, altRestarted>>

\* _fire_rule and _fire_syslog_rule up to their commit: notify is called inside the
\* transaction, and only for a new incident; an event leaves the incident's status alone.
FireRule ==
    /\ altFiring = "due"
    /\ IF Rule \in altIncident THEN altFiring' = "event" /\ UNCHANGED ntfVars
                               ELSE altFiring' = "new" /\ Admit(Rule)
    /\ UNCHANGED <<altData, altThreshold, altEnabled, altCount, altRest, altIncVars, altAt, altList, altRestarted>>

\* notify has returned.
Fired(r) == altFiring \in {"new", "event"} /\ Rule = r /\ r \notin ntfTask

CommitFiring(r) ==
    /\ Fired(r)
    /\ altRest' = [altRest EXCEPT ![r] = AltCooldown[r]]
    /\ altCount' = [altCount EXCEPT ![r] = 0]
    /\ altIncident' = IF r \in AltSyslog /\ altFiring = "new" THEN altIncident \cup {r} ELSE altIncident
    /\ altFresh' = IF r \in AltSyslog THEN [altFresh EXCEPT ![r] = AltStale] ELSE altFresh
    /\ PassedRule
    /\ UNCHANGED <<ntfVars, altData, altThreshold, altEnabled, altRestarted>>

\* The session cannot be used any more: the rules behind fail too.
CommitFails ==
    /\ altAt # 0 /\ Fired(Rule)
    /\ altAt' = 0 /\ altList' = {} /\ altFiring' = "no"
    /\ UNCHANGED <<ntfVars, altData, altThreshold, altEnabled, altCount, altRest, altIncVars, altRestarted>>

DeliverAlert ==
    /\ \E a \in Alerts : Deliver(a)
    /\ UNCHANGED <<altData, altThreshold, altEnabled, altCount, altRest, altIncVars, altRun, altRestarted>>

-----------------------------------------------------------------------------
(* Others                                                                    *)

\* The ping job and the correlation engine notify too.
OtherAlert ==
    /\ \E a \in Alerts \ AltSet : Admit(a)
    /\ UNCHANGED <<altData, altThreshold, altEnabled, altCount, altRest, altIncVars, altRun, altRestarted>>

\* _auto_resolve closes the incident of a rule once nothing has written to it for
\* AltStale minutes; what it announces bears another title.
AutoResolveRules ==
    /\ altIncident' = {r \in altIncident : altFresh[r] > 0}
    /\ UNCHANGED <<ntfVars, altData, altThreshold, altEnabled, altCount, altRest, altFresh, altRun, altRestarted>>

\* An editor resolves the incident, or acknowledges it, which counts as a write.
EditRuleIncident(r) ==
    /\ r \in altIncident
    /\ \/ altIncident' = altIncident \ {r} /\ UNCHANGED altFresh
       \/ altFresh' = [altFresh EXCEPT ![r] = AltStale] /\ UNCHANGED altIncident
    /\ UNCHANGED <<ntfVars, altData, altThreshold, altEnabled, altCount, altRest, altRun, altRestarted>>

ToggleRule(r) ==
    /\ altEnabled' = IF r \in altEnabled THEN altEnabled \ {r} ELSE altEnabled \cup {r}
    /\ UNCHANGED <<ntfVars, altData, altThreshold, altCount, altRest, altIncVars, altRun, altRestarted>>

\* edit_rule changes the condition; the count of the old one stays.
EditRule(r) ==
    /\ \E t \in AltThresholds[r] : altThreshold' = [altThreshold EXCEPT ![r] = t]
    /\ UNCHANGED <<ntfVars, altData, altEnabled, altCount, altRest, altIncVars, altRun, altRestarted>>

\* Pings, polls and the log go on.
DataMoves ==
    /\ \/ /\ \E h \in AltHosts, v \in {0, 1, NoReading} : altPing' = [altPing EXCEPT ![h] = v]
          /\ UNCHANGED <<altSnap, altLogged>>
       \/ /\ \E n \in AltSnapshots, v \in AltReadings \cup {NoReading} : altSnap' = [altSnap EXCEPT ![n] = v]
          /\ UNCHANGED <<altPing, altLogged>>
       \/ altLogged' \in SUBSET AltLines /\ UNCHANGED <<altPing, altSnap>>
    /\ UNCHANGED <<ntfVars, altThreshold, altEnabled, altCount, altRest, altIncVars, altRun, altRestarted>>

RestartRules ==
    /\ altRestarted < AltRestarts
    /\ altRestarted' = altRestarted + 1
    /\ NtfRestart
    /\ altCount' = [r \in AltSet |-> 0]
    /\ altAt' = 0 /\ altList' = {} /\ altFiring' = "no"
    /\ UNCHANGED <<altData, altThreshold, altEnabled, altRest, altIncVars>>

AltNext ==
    \/ StartRuleRun \/ SkipRule \/ EvaluationFails \/ FireRule \/ CommitFails
    \/ \E r \in AltSet : EvaluateRule(r) \/ CommitFiring(r) \/ ToggleRule(r) \/ EditRule(r)
    \/ \E r \in AltSyslog : EditRuleIncident(r)
    \/ DataMoves \/ DeliverAlert \/ OtherAlert \/ AutoResolveRules \/ RestartRules

AltSpec == AltInit /\ [][AltNext]_altVars

-----------------------------------------------------------------------------
(* Properties                                                                *)

AltTypeOK ==
    /\ NtfTypeOK
    /\ altEnabled \subseteq AltSet /\ altIncident \subseteq AltSyslog
    /\ altFresh \in [AltSyslog -> 0..AltStale]
    /\ \A r \in AltSet : altCount[r] \in 0..MinConsecutive(r) /\ altRest[r] \in 0..AltCooldown[r]

\* While the condition of a rule lasts, its title goes out again and again, or, for a
\* rule on syslog, there is an incident again and again: neither the rule's rest, nor
\* the cooldown of its title, nor _auto_resolve and editors, nor failing evaluations,
\* commits and channels silence it for good.
AlertsKeepComing ==
    \A r \in AltSet :
        <>[](ConditionHolds(r) /\ r \in altEnabled) =>
            IF r \in AltSyslog THEN []<>(r \in altIncident)
            ELSE []<><<\E a \in Alerts : TitleOf[a] = TitleOf[r] /\ Deliver(a)>>_altVars
=============================================================================
