----------------------------- MODULE MCRecovery -----------------------------
(***************************************************************************)
(* Smaller instances of the components that must come back to something    *)
(* again and again, for liveness.  They share no variable, so that one of  *)
(* them, the focus, moves in a behaviour and the others rest.              *)
(***************************************************************************)
EXTENDS AgentUpdate, SelfWatch, AlertRules, Migrations, TLC

CONSTANTS Focus, c1, c2

VARIABLE focus

\* A rule on snapshots that fires twice within the cooldown of its title, and one on
\* syslog.
MCRules == <<"memory", "oom">>
MCAlerts == {"memory", "oom"}
MCTitle == [a \in MCAlerts |-> a]
MCSeverity == [a \in MCAlerts |-> "warning"]
MCWanted == [a \in MCAlerts |-> {}]
MCMinSeverity == [c \in {"email"} |-> "all"]
OutOfMemory == 9    \* a text, among thresholds that are numbers
MCSource == [r \in {"memory"} |-> "server"]
MCField == [r \in MCAlerts |-> "message"]
MCOperator == [r \in MCAlerts |-> IF r = "oom" THEN "contains" ELSE "gt"]
MCThresholds == [r \in MCAlerts |-> IF r = "oom" THEN {OutOfMemory} ELSE {1}]
MCLines == {[severity |-> 3, contains |-> {OutOfMemory}]}
MCRequired == [r \in MCAlerts |-> 1]
MCCooldown == [r \in MCAlerts |-> IF r = "oom" THEN 0 ELSE 1]

\* Two containers of one installation, and the revisions around which the paths of
\* the schema differ.
MCContainers == {c1, c2}
MCOlds == {1, 13, 17, 18, 22, 26, 27, 28, 30, 32, 33, 34}

recoveryVars == <<focus, updVars, slfVars, altVars, migVars>>

RecoveryInit ==
    /\ focus \in Focus
    /\ UpdInit /\ SlfInit /\ AltInit /\ MigInit
    /\ focus = "update" \/ updForm = "script"
    /\ focus = "schema" \/ migVersion = 0

RecoveryNext ==
    /\ \/ focus = "update" /\ UpdNext
          /\ UNCHANGED <<slfVars, altVars, migVars>>
       \/ focus = "self" /\ SlfNext
          /\ UNCHANGED <<updVars, altVars, migVars>>
       \/ focus = "rules" /\ AltNext
          /\ UNCHANGED <<updVars, slfVars, migVars>>
       \/ focus = "schema" /\ MigNext
          /\ UNCHANGED <<updVars, slfVars, altVars>>
    /\ UNCHANGED focus

RecoverySpec == RecoveryInit /\ [][RecoveryNext]_recoveryVars

\* The agent looks for updates again and again, the scheduler runs every job again and
\* again, a job that was started ends, of the evaluations and commits of a rule some succeed, and a
\* container that ended is started again.
RecoveryFairSpec ==
    /\ RecoverySpec
    /\ WF_updVars(focus = "update" /\ AgentUpdateStep)
    /\ WF_slfVars(focus = "self" /\ RunSelfCheck)
    /\ WF_slfVars(focus = "self" /\ CheckDiskSpace)
    /\ WF_altVars(focus = "rules" /\ StartRuleRun)
    /\ WF_altVars(focus = "rules" /\ SkipRule)
    /\ WF_altVars(focus = "rules" /\ FireRule)
    /\ WF_altVars(focus = "rules" /\ DeliverAlert)
    /\ WF_altVars(focus = "rules" /\ AutoResolveRules)
    /\ \A r \in AltSet : SF_altVars(focus = "rules" /\ EvaluateRule(r))
                         /\ SF_altVars(focus = "rules" /\ CommitFiring(r))
    /\ \A c \in Containers : WF_migVars(focus = "schema" /\ StartContainer(c))
=============================================================================
