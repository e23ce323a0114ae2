----------------------------- MODULE LogPatterns -----------------------------
(***************************************************************************)
(* The periodic passes of the log intelligence                             *)
(* (backend/services/log_intelligence.py) over what was logged: noise      *)
(* scores, and the fleet-wide patterns that rule 7 of the correlation      *)
(* engine turns into incidents.  One tick is the grain of the pattern      *)
(* ages; runs of the correlation engine come at least as often.            *)
(***************************************************************************)
EXTENDS Integers

CONSTANTS FlpTemplates,   \* templates of log messages
          FlpTagScore,    \* what a template's tags add to its noise score
          FlpStale,       \* ticks without a check after which a pattern is resolved
          FlpCycles,      \* setting correlation_min_cycles
          FlpRates        \* bound: messages per hour

ASSUME FlpAssumption == FlpStale \in Nat /\ FlpCycles \in Nat \ {0}

VARIABLES flpWide,        \* the world: templates on 3 or more hosts in the last 10 minutes
          flpOthers,      \* ... whether there are others than the FlpTemplates
          flpDaily,       \* ... and those at this time yesterday
          flpRate,        \* messages per hour since the template was first seen
          flpAge,         \* how long ago that was
          flpPrecursors,  \* templates of patterns with a confidence of 0.3 or more
          flpScore,       \* log_templates.noise_score
          flpActive,      \* active rows of fleet_patterns: the age of last_checked, or None
          flpHits,        \* _rule_hit_counts of rule 7
          flpRaised,      \* templates with a fleet_wide_issue incident
          flpFailed       \* history: the last run of the engine failed

flpVars == <<flpWide, flpOthers, flpDaily, flpRate, flpAge, flpPrecursors, flpScore, flpActive,
             flpHits, flpRaised, flpFailed>>
flpWorld == <<flpWide, flpOthers, flpDaily, flpRate, flpAge, flpPrecursors>>
flpEngine == <<flpActive, flpHits, flpRaised, flpFailed>>

None == -1

FlpInit ==
    /\ flpWide = {} /\ flpOthers = FALSE /\ flpDaily \in SUBSET FlpTemplates
    /\ flpRate \in [FlpTemplates -> FlpRates] /\ flpAge = [t \in FlpTemplates |-> 0]
    /\ flpPrecursors = {} /\ flpScore = [t \in FlpTemplates |-> 10]
    /\ flpActive = [t \in FlpTemplates |-> None] /\ flpHits = [t \in FlpTemplates |-> 0]
    /\ flpRaised = {} /\ flpFailed = FALSE

-----------------------------------------------------------------------------
(* Noise scores                                                              *)

RateScore(r) == IF r > 100 THEN 30 ELSE IF r > 50 THEN 20 ELSE IF r > 10 THEN 10
                ELSE IF r < 1 THEN -10 ELSE 0
NoveltyScore(hours) == IF hours < 1 THEN -25 ELSE IF hours < 24 THEN -10 ELSE 0

PrecursorScore(t) == IF t \in flpPrecursors THEN -30 ELSE 0

\* compute_noise_score as refresh_noise_scores calls it
NoiseScore(t) ==
    LET sum == 50 + RateScore(flpRate[t]) + FlpTagScore[t] + NoveltyScore(flpAge[t]) + PrecursorScore(t)
    IN  IF sum < 0 THEN 0 ELSE IF sum > 100 THEN 100 ELSE sum

\* Templates grow older, come more often or rarely, and are learned to precede
\* outages.
TemplateChanges ==
    /\ \E t \in FlpTemplates :
         \/ \E r \in FlpRates : flpRate' = [flpRate EXCEPT ![t] = r]
                                       /\ UNCHANGED <<flpAge, flpPrecursors>>
         \/ flpAge[t] < 24 /\ flpAge' = [flpAge EXCEPT ![t] = IF @ < 1 THEN 1 ELSE 24]
                           /\ UNCHANGED <<flpRate, flpPrecursors>>
         \/ flpPrecursors' = flpPrecursors \union {t} /\ UNCHANGED <<flpRate, flpAge>>
    /\ UNCHANGED <<flpWide, flpOthers, flpDaily, flpScore, flpEngine>>

\* refresh_noise_scores
RefreshNoiseScores ==
    /\ flpScore' = [t \in FlpTemplates |-> NoiseScore(t)]
    /\ UNCHANGED <<flpWorld, flpEngine>>

-----------------------------------------------------------------------------
(* Fleet-wide patterns                                                       *)

NoiseMax == 70

\* What the gate lets through.
Candidate(t) == t \in flpWide /\ flpScore[t] < NoiseMax

\* last_checked of an active pattern that is found again
Rechecked(t) == 0

\* A candidate without an active row, and not at this time yesterday.
Issues == {t \in FlpTemplates : Candidate(t) /\ flpActive[t] = None /\ t \notin flpDaily}

\* The row of a template after the loop over the candidates.
Found(t) ==
    IF t \in Issues THEN 0
    ELSE IF Candidate(t) /\ flpActive[t] # None THEN Rechecked(t)
    ELSE flpActive[t]

StaleRow(age) == age > FlpStale

AnyWide == flpWide # {} \/ flpOthers

\* _track_rule_hit confirms the rule in this run.
FleetConfirmed(t) == flpHits[t] + 1 >= FlpCycles

\* Mutant of RowsChecked: what is found leaves no row before the incident is raised.
RowsCheckedLate ==
    flpActive' = [t \in FlpTemplates |-> IF t \in Issues /\ ~FleetConfirmed(t) THEN None
                                        ELSE IF AnyWide /\ StaleRow(Found(t)) THEN None ELSE Found(t)]

\* What detect_fleet_patterns commits: it returns early when no template is fleet-wide
\* at all, else it closes the rows nobody refreshed.
RowsChecked ==
    flpActive' = [t \in FlpTemplates |-> IF AnyWide /\ StaleRow(Found(t)) THEN None ELSE Found(t)]

\* _track_rule_hit
Counted(t) == IF FleetConfirmed(t) THEN FlpCycles ELSE flpHits[t] + 1

\* The rule counts what detect_fleet_patterns returned, and _prune_stale_hits forgets the
\* others.
HitsPruned == flpHits' = [t \in FlpTemplates |-> IF t \in Issues THEN Counted(t) ELSE 0]

\* One run of the correlation engine, as far as rule 7 goes.
DetectFleetPatterns ==
    /\ RowsChecked
    /\ HitsPruned
    /\ flpRaised' = flpRaised \union {t \in Issues : FleetConfirmed(t)}
    /\ flpFailed' = FALSE
    /\ UNCHANGED <<flpWorld, flpScore>>

\* A run that fails: before rule 7; in it or after it, where the rows are committed and
\* the counters stay as they are; or at its commit. Incidents are rolled back.
RunFails ==
    /\ \/ UNCHANGED <<flpActive, flpHits>>
       \/ RowsChecked /\ HitsPruned
       \/ /\ RowsChecked
          /\ \E counted \in SUBSET Issues :
               flpHits' = [t \in FlpTemplates |-> IF t \in counted THEN Counted(t) ELSE flpHits[t]]
    /\ flpFailed' = TRUE
    /\ UNCHANGED <<flpWorld, flpScore, flpRaised>>

\* The counters live in the process.
EngineRestarts ==
    /\ flpHits' = [t \in FlpTemplates |-> 0]
    /\ UNCHANGED <<flpWorld, flpScore, flpActive, flpRaised, flpFailed>>

\* A message storm begins or ends on the fleet.
FleetChanges ==
    /\ \/ flpOthers' = ~flpOthers /\ UNCHANGED flpWide
       \/ flpWide' \in SUBSET FlpTemplates /\ UNCHANGED flpOthers
    /\ UNCHANGED <<flpDaily, flpRate, flpAge, flpPrecursors, flpScore, flpEngine>>

OlderRow(age) == IF age = None \/ age > FlpStale THEN age ELSE age + 1

FleetTick ==
    /\ flpActive' = [t \in FlpTemplates |-> OlderRow(flpActive[t])]
    /\ UNCHANGED <<flpWorld, flpScore, flpHits, flpRaised, flpFailed>>

FlpNext ==
    \/ TemplateChanges \/ RefreshNoiseScores
    \/ DetectFleetPatterns \/ RunFails \/ EngineRestarts \/ FleetChanges \/ FleetTick

FlpSpec == FlpInit /\ [][FlpNext]_flpVars
-----------------------------------------------------------------------------
(* Properties                                                                *)

FlpTypeOK ==
    /\ flpWide \subseteq FlpTemplates /\ flpRaised \subseteq FlpTemplates
    /\ flpScore \in [FlpTemplates -> 0..100]
    /\ flpActive \in [FlpTemplates -> None..FlpStale + 1]
    /\ flpHits \in [FlpTemplates -> 0..FlpCycles]

\* Where a rule has to match in two runs or more, rule 7 raises an incident only in a run
\* whose predecessor failed: it counts what has no row yet, and the run that counts it
\* leaves a row.
RaisesOnlyAfterFailure ==
    [][FlpCycles >= 2 /\ flpRaised' # flpRaised => flpFailed]_flpVars

=============================================================================
