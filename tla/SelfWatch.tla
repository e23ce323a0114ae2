------------------------------ MODULE SelfWatch ------------------------------
(***************************************************************************)
(* The incidents the application raises about itself: run_self_check       *)
(* (services/self_check.py) for streams, probes and jobs that went quiet,  *)
(* check_disk_space (scheduler.py) for its disk.  Both write the incidents *)
(* table beside the correlation engine, whose _auto_resolve leaves         *)
(* self_check alone but has no branch for disk_space, and beside editors.  *)
(* All problems of a rule share one key (no hosts), so a rule has one      *)
(* active incident at most; kept here is the newest incident of each rule. *)
(***************************************************************************)
EXTENDS Naturals, Sequences

CONSTANTS JobDeadline   \* JOB_GRACE_FACTOR intervals, in self-check periods

ASSUME SlfAssumption == JobDeadline \in Nat

\* The order in which collect_problems looks for problems; a problem is its title.
Order == <<"stream", "probe", "job">>
Problems == {Order[i] : i \in 1..Len(Order)}
None == [title |-> "none", status |-> "resolved"]

VARIABLES slfStale,     \* a stream in use gets no data
          slfSilent,    \* a probe with hosts is silent (ProbeStatus)
          slfJobAge,    \* periods since the watched job last succeeded
          slfUp,        \* periods since this process started
          slfStore,     \* ClickHouse answers
          slfDisk,      \* usage: "low", "warning" (80 %), "critical" (90 %)
          slfIncident   \* per rule the newest incident

slfWorld == <<slfStale, slfSilent, slfStore, slfDisk>>
slfVars == <<slfStale, slfSilent, slfJobAge, slfUp, slfStore, slfDisk, slfIncident>>

SlfInit ==
    /\ slfStale = FALSE /\ slfSilent = FALSE
    /\ slfJobAge = 0 /\ slfUp = 0
    /\ slfStore = TRUE /\ slfDisk = "low"
    /\ slfIncident = [r \in {"self_check", "disk_space"} |-> None]

Active(i) == i.status \in {"open", "acknowledged"}

-----------------------------------------------------------------------------
(* Problems                                                                  *)

\* evaluate_job: no verdict before the deadline has passed once since the start; a
\* restart forgets the last success, the start stands in for it.
JobOverdue == slfUp >= JobDeadline /\ slfJobAge > JobDeadline

Holds(p) == CASE p = "stream" -> slfStale
              [] p = "probe" -> slfSilent
              [] p = "job" -> JobOverdue

\* A query that fails is logged and its source skipped: only PostgreSQL is needed for
\* the probes and nothing but the process for the jobs.
Found(p) == Holds(p) /\ (p = "stream" => slfStore)

CollectProblems == SelectSeq(Order, Found)

-----------------------------------------------------------------------------
(* run_self_check                                                            *)

\* Mutant of FindOrCreate: the resolved incident is found too.
FindOrCreateOnce(i, title) == IF i.title # "none" THEN i ELSE [title |-> title, status |-> "open"]

\* _find_or_create_incident with no hosts: the active incident of the rule keeps its
\* title, whichever problem it was raised for.
FindOrCreate(i, title) == IF Active(i) THEN i ELSE [title |-> title, status |-> "open"]

Raised(i, problems) == IF problems = <<>> THEN i ELSE FindOrCreate(i, Head(problems))

\* Incidents whose title is not among the problems found are closed.
ClearedSelf(i, problems) ==
    IF Active(i) /\ \A k \in DOMAIN problems : problems[k] # i.title
    THEN [i EXCEPT !.status = "resolved"] ELSE i

RunSelfCheck ==
    /\ LET problems == CollectProblems IN
       slfIncident' = [slfIncident EXCEPT !["self_check"] = ClearedSelf(Raised(@, problems), problems)]
    /\ slfUp' = IF slfUp <= JobDeadline THEN slfUp + 1 ELSE slfUp
    /\ slfJobAge' = IF slfJobAge <= JobDeadline THEN slfJobAge + 1 ELSE slfJobAge
    /\ UNCHANGED slfWorld

-----------------------------------------------------------------------------
(* check_disk_space and the engine                                           *)

DiskAfterCheck(i) ==
    IF slfDisk = "low" THEN [i EXCEPT !.status = "resolved"]
    ELSE [FindOrCreate(i, slfDisk) EXCEPT !.title = slfDisk]

CheckDiskSpace ==
    /\ slfIncident' = [slfIncident EXCEPT !["disk_space"] = DiskAfterCheck(@)]
    /\ UNCHANGED <<slfJobAge, slfUp, slfWorld>>

\* Every correlation run: the hash of disk_space names no host that is offline.
LeftAlone == {"self_check"}

AutoResolveSelf ==
    /\ slfIncident' = [r \in DOMAIN slfIncident |->
                         IF r \in LeftAlone THEN slfIncident[r] ELSE [slfIncident[r] EXCEPT !.status = "resolved"]]
    /\ UNCHANGED <<slfJobAge, slfUp, slfWorld>>

\* Editors acknowledge and resolve (IncidentStore has the race of the two).
EditSelf(r) ==
    /\ Active(slfIncident[r])
    /\ \E s \in {"acknowledged", "resolved"} : slfIncident' = [slfIncident EXCEPT ![r].status = s]
    /\ UNCHANGED <<slfJobAge, slfUp, slfWorld>>

-----------------------------------------------------------------------------
(* The world                                                                 *)

JobSucceeds ==
    /\ slfJobAge' = 0
    /\ UNCHANGED <<slfUp, slfWorld, slfIncident>>

\* Metrics live in the process; the incident stays in the database.
RestartProcess ==
    /\ slfUp' = 0 /\ slfJobAge' = 0
    /\ UNCHANGED <<slfWorld, slfIncident>>

\* A stream or a probe falls silent or comes back, ClickHouse goes or returns, the disk
\* fills or is cleaned.
WorldMoves ==
    /\ \/ slfStale' = ~slfStale /\ UNCHANGED <<slfSilent, slfStore, slfDisk>>
       \/ slfSilent' = ~slfSilent /\ UNCHANGED <<slfStale, slfStore, slfDisk>>
       \/ slfStore' = ~slfStore /\ UNCHANGED <<slfStale, slfSilent, slfDisk>>
       \/ slfDisk' \in {"low", "warning", "critical"} \ {slfDisk} /\ UNCHANGED <<slfStale, slfSilent, slfStore>>
    /\ UNCHANGED <<slfJobAge, slfUp, slfIncident>>

SlfNext ==
    \/ RunSelfCheck \/ CheckDiskSpace \/ AutoResolveSelf
    \/ \E r \in DOMAIN slfIncident : EditSelf(r)
    \/ JobSucceeds \/ RestartProcess \/ WorldMoves

-----------------------------------------------------------------------------
(* Properties                                                                *)

SlfTypeOK ==
    /\ slfJobAge \in 0..(JobDeadline + 1) /\ slfUp \in 0..(JobDeadline + 1)
    /\ slfDisk \in {"low", "warning", "critical"}
    /\ \A r \in DOMAIN slfIncident : slfIncident[r].status \in {"open", "acknowledged", "resolved"}

\* A problem that lasts is shown again and again: while it is found by every run, or
\* while the disk stays full, the rule keeps getting an active incident, although
\* editors and the engine close it, the incident may bear another problem's title and
\* that other problem may end.
LastingProblemReturns ==
    /\ \A p \in Problems : <>[]Found(p) => []<>Active(slfIncident["self_check"])
    /\ <>[](slfDisk # "low") => []<>Active(slfIncident["disk_space"])

=============================================================================
