----------------------------- MODULE Notifications -----------------------------
(***************************************************************************)
(* backend/notifications.py: notify drops an alert whose title was seen    *)
(* less than _COOLDOWN_SECONDS ago in this process, reads the settings and *)
(* hands the message to every channel at once.  Callers wait for it or     *)
(* start it as a task of its own.  Time is counted in minutes, and is kept *)
(* as what is left of a period.                                            *)
(***************************************************************************)
EXTENDS Naturals, FiniteSets

CONSTANTS Alerts,          \* the alerts that can be raised
          TitleOf,         \* title of each, in lower case
          SeverityOf,      \* severity of each
          WantedBy,        \* channels a rule asks for, {} for all
          Channels,        \* the channels that are configured
          MinSeverityOf,   \* minimum severity of each
          NtfCooldown      \* _COOLDOWN_SECONDS

SeverityLevel == [s \in {"critical", "error", "warning", "info", "all"} |->
                    CASE s = "critical" -> 2 [] s = "error" -> 3 [] s = "warning" -> 4 [] OTHER -> 7]

ASSUME NtfAssumption ==
    /\ NtfCooldown \in Nat \ {0}
    /\ SeverityOf \in [Alerts -> DOMAIN SeverityLevel]
    /\ MinSeverityOf \in [Channels -> DOMAIN SeverityLevel]
    /\ WantedBy \in [Alerts -> SUBSET Channels]

Titles == {TitleOf[a] : a \in Alerts}

VARIABLES ntfMark,     \* per title, minutes until _recent lets it pass
          ntfTask,     \* alerts admitted whose messages are on their way
          ntfQuiet     \* history: per title, minutes until the last message sent is
                       \* a cooldown ago

ntfVars == <<ntfMark, ntfTask, ntfQuiet>>

NtfInit ==
    /\ ntfMark = [t \in Titles |-> 0]
    /\ ntfTask = {}
    /\ ntfQuiet = [t \in Titles |-> 0]

\* Lower levels are more severe.
SeverityPasses(actual, min) == SeverityLevel[actual] <= SeverityLevel[min]

Receivers(a) ==
    {c \in Channels : SeverityPasses(SeverityOf[a], MinSeverityOf[c]) /\ (WantedBy[a] = {} \/ c \in WantedBy[a])}

RateLimited(a) == ntfMark[TitleOf[a]] > 0

\* Mutant of NewMark: an alert that is dropped starts the cooldown again.
NewMarkAlways(a) == NtfCooldown

\* _is_rate_limited looks and marks in one go, before anything is awaited.
NewMark(a) == IF RateLimited(a) THEN ntfMark[TitleOf[a]] ELSE NtfCooldown

\* Mutant of Admit: the title is marked with the delivery.
AdmitUnmarked(a) ==
    /\ a \notin ntfTask
    /\ ntfTask' = IF RateLimited(a) THEN ntfTask ELSE ntfTask \cup {a}
    /\ UNCHANGED <<ntfMark, ntfQuiet>>

Admit(a) ==
    /\ a \notin ntfTask
    /\ ntfMark' = [ntfMark EXCEPT ![TitleOf[a]] = NewMark(a)]
    /\ ntfTask' = IF RateLimited(a) THEN ntfTask ELSE ntfTask \cup {a}
    /\ UNCHANGED ntfQuiet

\* The rest of notify; each channel fails on its own, and with notify_enabled off
\* nothing is sent either.
Deliver(a) ==
    /\ a \in ntfTask
    /\ ntfTask' = ntfTask \ {a}
    /\ \E sent \in SUBSET Receivers(a) :
         ntfQuiet' = [ntfQuiet EXCEPT ![TitleOf[a]] = IF sent = {} THEN @ ELSE NtfCooldown]
    /\ UNCHANGED ntfMark

Less(n) == IF n = 0 THEN 0 ELSE n - 1

\* Deliveries take seconds: none spans a minute.
NtfTick ==
    /\ ntfTask = {}
    /\ ntfMark' = [t \in Titles |-> Less(ntfMark[t])]
    /\ ntfQuiet' = [t \in Titles |-> Less(ntfQuiet[t])]
    /\ UNCHANGED ntfTask

\* _recent is a global of the process; a new process owes nobody silence.
NtfRestart ==
    /\ ntfMark' = [t \in Titles |-> 0]
    /\ ntfQuiet' = [t \in Titles |-> 0]
    /\ ntfTask' = {}

-----------------------------------------------------------------------------
(* Properties                                                                *)

NtfTypeOK ==
    /\ ntfMark \in [Titles -> 0..NtfCooldown] /\ ntfQuiet \in [Titles -> 0..NtfCooldown]
    /\ ntfTask \subseteq Alerts

\* "same title won't fire again within cooldown window": however many callers raise
\* one title at once, its messages are a cooldown apart.
NoAlertStorm ==
    [][\A t \in Titles :
         (ntfQuiet'[t] = NtfCooldown /\ \E a \in ntfTask \ ntfTask' : TitleOf[a] = t) => ntfQuiet[t] = 0]_ntfVars

=============================================================================
