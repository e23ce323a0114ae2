---------------------------- MODULE LogBaselines ----------------------------
(***************************************************************************)
(* The hourly baselines per sender that the log intelligence               *)
(* (backend/services/log_intelligence.py) computes every 30 s and that the *)
(* detectors of spikes, silence and diversity compare the present with.    *)
(* One slot, an hour of the week, stands for all of them, and one template *)
(* for all whose trend and usual severity are computed every ten minutes.  *)
(***************************************************************************)
EXTENDS Integers, Sequences, FiniteSetsExt

CONSTANTS BslHosts,       \* senders of syslog
          BslSeries,      \* histories of the template: the hours of two days in which it
                          \* came, each with how often and at which severity
          BslWeeks        \* bound: weeks that pass

VARIABLES bslWeek,        \* weeks of syslog so far
          bslHour,        \* messages of each sender in the current hour
          bslKinds,       \* ... and how many templates they have
          bslRow,         \* host_baselines of the slot
          bslSeries,      \* the history of the template
          bslErrors,      \* its messages of severity 3 or below in two hours
          bslTrend,       \* trend_direction and severity_mode of its row
          bslAlarms,      \* senders the last detection reported
          bslUpgrade      \* ... and whether it reported the template as more severe

bslTemplate == <<bslSeries, bslErrors, bslTrend>>
bslVars == <<bslWeek, bslHour, bslKinds, bslRow, bslTemplate, bslAlarms, bslUpgrade>>

NoTrend == [direction |-> "stable", mode |-> -1]
NoBaseline == [avg |-> 0, samples |-> 0, templates |-> 0]
Usual == 20     \* messages of a sender in an ordinary hour
Spike == 200
UsualKinds == 3 \* templates among them
ManyKinds == 7

BslInit ==
    /\ bslWeek = 0 /\ bslHour = [h \in BslHosts |-> Usual]
    /\ bslKinds = [h \in BslHosts |-> UsualKinds]
    /\ bslRow = [h \in BslHosts |-> NoBaseline] /\ bslAlarms = {}
    /\ bslSeries \in BslSeries /\ bslErrors = 0 /\ bslTrend = NoTrend /\ bslUpgrade = FALSE

\* What the query of compute_baselines returns for a sender and a slot: it groups
\* by sender, day and hour, so that there is one count, the sum over the 7 days
\* it looks back.
HourCounts(h) == IF bslWeek = 0 THEN <<>> ELSE <<Usual>>

\* compute_baselines
ComputeBaselines ==
    /\ bslRow' = [h \in BslHosts |->
                    IF HourCounts(h) = <<>> THEN bslRow[h]
                    ELSE [bslRow[h] EXCEPT !.avg = Usual, !.samples = Len(HourCounts(h))]]
    /\ UNCHANGED <<bslWeek, bslHour, bslKinds, bslTemplate, bslAlarms, bslUpgrade>>

\* compute_template_diversity, into a row that is there; the moving average is
\* taken at its newest value.
ComputeTemplateDiversity ==
    /\ \E h \in BslHosts :
         /\ bslRow[h].samples > 0
         /\ bslRow' = [bslRow EXCEPT ![h].templates = bslKinds[h]]
    /\ UNCHANGED <<bslWeek, bslHour, bslKinds, bslTemplate, bslAlarms, bslUpgrade>>

\* What every reader of a baseline asks for.
SlotLearned(row) == row.samples >= 3

RateSpike(h) ==
    /\ SlotLearned(bslRow[h])
    /\ bslHour[h] > 3 * bslRow[h].avg
SilentSender(h) ==
    /\ SlotLearned(bslRow[h]) /\ bslRow[h].avg > 10
    /\ bslHour[h] * 10 < bslRow[h].avg
    /\ \E g \in BslHosts : bslHour[g] > 0

\* detect_baseline_anomalies, in the scheduler
DetectBaselineAnomalies ==
    /\ bslAlarms' = {h \in BslHosts : RateSpike(h) \/ SilentSender(h)}
    /\ UNCHANGED <<bslWeek, bslHour, bslKinds, bslRow, bslTemplate, bslUpgrade>>

\* Rule 5 of the correlation engine: 3 standard deviations, or 30% if that is
\* more, above the average, and at least 20 messages in 10 minutes.
LogAnomaly(h) ==
    /\ SlotLearned(bslRow[h]) /\ bslRow[h].avg > 0
    /\ bslHour[h] * 10 > 19 * bslRow[h].avg /\ bslHour[h] >= 120
RuleLogAnomaly ==
    /\ bslAlarms' = {h \in BslHosts : LogAnomaly(h)}
    /\ UNCHANGED <<bslWeek, bslHour, bslKinds, bslRow, bslTemplate, bslUpgrade>>

\* The diversity part of detect_content_anomalies, for a stable sender: more
\* than 5 templates, and more than 3 above the average.
StableSenders == {h \in BslHosts : SlotLearned(bslRow[h]) /\ bslRow[h].templates \in 1..9}
DiversitySpike(h) == bslKinds[h] > 5 /\ bslKinds[h] > bslRow[h].templates + 3

\* Its other part: a template of usual severity 5 or milder came three times as an
\* error.  Neither part is reached without a stable sender.
SeverityUpgrade == bslTrend.mode >= 5 /\ bslErrors >= 3
DetectContentAnomalies ==
    /\ bslAlarms' = {h \in StableSenders : DiversitySpike(h)}
    /\ bslUpgrade' = (StableSenders # {} /\ SeverityUpgrade)
    /\ UNCHANGED <<bslWeek, bslHour, bslKinds, bslRow, bslTemplate>>

-----------------------------------------------------------------------------
(* compute_severity_trends                                                   *)

\* round() of a / n, which takes a half to the even neighbour.
Rounded(a, n) ==
    LET q == a \div n  r == 2 * (a % n)
    IN  IF r > n \/ (r = n /\ q % 2 = 1) THEN q + 1 ELSE q

\* The line of least squares through the counts, numbered by the hours that have
\* any: it rises or falls when its slope is beyond 5% of the average (or of 1) an
\* hour.  The mode is the mean of the severities.
TrendOf(series) ==
    LET hours == DOMAIN series
        n == Len(series)
        x == MapThenSumSet(LAMBDA i : i - 1, hours)
        xx == MapThenSumSet(LAMBDA i : (i - 1) * (i - 1), hours)
        y == MapThenSumSet(LAMBDA i : series[i].count, hours)
        xy == MapThenSumSet(LAMBDA i : (i - 1) * series[i].count, hours)
        slope == 20 * n * (n * xy - x * y)
        bar == (n * xx - x * x) * (IF y > n THEN y ELSE n)
    IN  [direction |-> CASE slope > bar -> "rising" [] slope < -bar -> "falling" [] OTHER -> "stable",
         mode |-> Rounded(MapThenSumSet(LAMBDA i : series[i].severity, hours), n)]

\* For a template seen five times, in four hours at least.
ComputeSeverityTrends ==
    /\ Len(bslSeries) >= 4 /\ MapThenSumSet(LAMBDA i : bslSeries[i].count, DOMAIN bslSeries) >= 5
    /\ bslTrend' = TrendOf(bslSeries)
    /\ UNCHANGED <<bslWeek, bslHour, bslKinds, bslRow, bslSeries, bslErrors, bslAlarms, bslUpgrade>>

-----------------------------------------------------------------------------
(* What the senders do                                                       *)

\* A sender gets louder or silent; another week of messages is there.
SenderChanges ==
    /\ \E h \in BslHosts :
         /\ \E n \in {0, Usual, Spike} : bslHour' = [bslHour EXCEPT ![h] = n]
         /\ \E n \in {UsualKinds, ManyKinds} : bslKinds' = [bslKinds EXCEPT ![h] = n]
    /\ UNCHANGED <<bslWeek, bslRow, bslTemplate, bslAlarms, bslUpgrade>>
SeriesChanges ==
    /\ bslSeries' \in BslSeries /\ bslErrors' \in {0, 3}
    /\ UNCHANGED <<bslWeek, bslHour, bslKinds, bslRow, bslTrend, bslAlarms, bslUpgrade>>
WeekPasses ==
    /\ bslWeek < BslWeeks
    /\ bslWeek' = bslWeek + 1
    /\ UNCHANGED <<bslHour, bslKinds, bslRow, bslTemplate, bslAlarms, bslUpgrade>>

BslNext ==
    \/ ComputeBaselines \/ ComputeTemplateDiversity \/ DetectBaselineAnomalies
    \/ RuleLogAnomaly \/ DetectContentAnomalies
    \/ ComputeSeverityTrends \/ SenderChanges \/ SeriesChanges \/ WeekPasses

BslSpec == BslInit /\ [][BslNext]_bslVars
-----------------------------------------------------------------------------
(* Properties                                                                *)

BslTypeOK ==
    /\ bslWeek \in 0..BslWeeks /\ bslAlarms \subseteq BslHosts
    /\ \A h \in BslHosts : bslRow[h].samples \in 0..BslWeeks
    /\ bslTrend.mode \in -1..7 /\ bslUpgrade \in BOOLEAN

\* The grouping of compute_baselines is said to keep the counts of a slot across weeks:
\* a baseline computed from three weeks of messages or more is one that its readers use.
BaselinesAreLearned ==
    [][\A h \in BslHosts :
         bslWeek >= 3 /\ bslRow'[h] # bslRow[h] => SlotLearned(bslRow'[h])]_bslVars
=============================================================================
