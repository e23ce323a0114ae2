------------------------------ MODULE BackupMonitor ------------------------------
(***************************************************************************)
(* The backups of one guest, made by Proxmox, and what the server keeps of *)
(* them: a row of backup_jobs, brought up to date from a snapshot of the   *)
(* cluster after each poll and on request (POST /api/backups/sync, from    *)
(* the last snapshot saved).  A snapshot holds the newest good file of     *)
(* each storage and the newest tasks; either list may be missing.  Nothing *)
(* keeps two syncs apart.  (Two that both make the first row make two      *)
(* rows, one of which is overdue for ever: left out.)                      *)
(***************************************************************************)
EXTENDS Naturals, FiniteSets, FiniteSetsExt

CONSTANTS BkpDays,     \* bound: days
          BkpStore,    \* the storage the run of each day writes to: 1, 2, ... in the order
                       \* of the snapshot
          BkpFrequency \* expected_frequency_hours, in days

ASSUME BkpAssumption ==
    BkpDays \in Nat \ {0} /\ BkpFrequency \in Nat /\ BkpStore \in [1..BkpDays -> Nat]

Syncs == {"poll", "manual"}
Absent == [kind |-> "nothing"]
NewJob == [last |-> 0, status |-> "unknown", newest |-> 0, torn |-> FALSE]

VARIABLES bkpNow,    \* the day
          bkpRuns,   \* what happened: the day -> result and store of the run started on it
          bkpJob,    \* the row: last (last_run_at, 0 for NULL), status; and of the last sync:
                     \* newest (task listed), torn (the row it read had changed)
          bkpSaved,  \* the last snapshot saved
          bkpSyncs   \* the syncs between read and commit: the row read (row), what it is to
                     \* become (new) and the newest task listed

bkpVars == <<bkpNow, bkpRuns, bkpJob, bkpSaved, bkpSyncs>>

BkpInit ==
    /\ bkpNow = 1 /\ bkpRuns = [d \in {} |-> Absent] /\ bkpJob = NewJob
    /\ bkpSaved = Absent
    /\ bkpSyncs = [s \in Syncs |-> Absent]

\* vzdump starts once a day; a run that is going on ends, well or not.
StartRun ==
    /\ bkpNow \notin DOMAIN bkpRuns
    /\ bkpRuns' = [d \in DOMAIN bkpRuns \cup {bkpNow} |-> IF d = bkpNow THEN "running" ELSE bkpRuns[d]]
    /\ UNCHANGED <<bkpNow, bkpJob, bkpSaved, bkpSyncs>>

EndRun(d, result) ==
    /\ bkpRuns[d] = "running"
    /\ bkpRuns' = [bkpRuns EXCEPT ![d] = result]
    /\ UNCHANGED <<bkpNow, bkpJob, bkpSaved, bkpSyncs>>

NextDay ==
    /\ bkpNow < BkpDays
    /\ bkpNow' = bkpNow + 1
    /\ UNCHANGED <<bkpRuns, bkpJob, bkpSaved, bkpSyncs>>

-----------------------------------------------------------------------------
(* A sync, as a function of the row and the snapshot                         *)

\* The newest file per storage, and the tasks of today and the day before with their status,
\* or none (cluster_tasks gives an empty list when its request fails), of which
\* anything that is not "OK" comes as ok = False: a task with warnings has failed.
LatestFiles ==
    LET good == {d \in DOMAIN bkpRuns : bkpRuns[d] = "ok"}
    IN {d \in good : \A e \in good : BkpStore[e] = BkpStore[d] => e <= d}
TasksSince(d) == [e \in {x \in DOMAIN bkpRuns : x >= d} |-> bkpRuns[e]]

Snapshots ==
    {[kind |-> "data", files |-> fs, tasks |-> TasksSince(d)] :
        fs \in {{}, LatestFiles}, d \in {Max({1, bkpNow - 1}), bkpNow + 1}}

\* Storage by storage, the last one stands: the row takes the date of its newest file even
\* if it is older than the one it has.
AfterFiles(row, data) ==
    IF data.files = {} THEN row
    ELSE LET d == CHOOSE x \in data.files : \A y \in data.files : BkpStore[y] <= BkpStore[x]
         IN [row EXCEPT !.last = d, !.status = "ok"]

\* The tasks of the two days come newest first, and one that is older than the row is passed over.
TaskTellsAlways(row, d) == TRUE
TaskTells(row, d) == row.last = 0 \/ d >= row.last

AfterTask(row, d, status) ==
    IF TaskTells(row, d) THEN [row EXCEPT !.last = d, !.status = status] ELSE row

AfterTasks(row, data) ==
    LET days == DOMAIN data.tasks
        first == AfterTask(row, Max(days), data.tasks[Max(days)])
        older == days \ {Max(days)}
    IN IF days = {} THEN row
       ELSE IF older = {} THEN first
       ELSE AfterTask(first, Max(older), data.tasks[Max(older)])

Synced(row, data) == AfterTasks(AfterFiles(row, data), data)
NewestTask(data) == IF DOMAIN data.tasks = {} THEN 0 ELSE Max(DOMAIN data.tasks)

-----------------------------------------------------------------------------
(* The two syncs                                                             *)

\* A snapshot without the guest tells nothing.
BeginSync(s, data) ==
    /\ bkpSyncs[s] = Absent
    /\ data.files # {} \/ DOMAIN data.tasks # {}
    /\ bkpSyncs' = [bkpSyncs EXCEPT ![s] = [kind |-> "sync", row |-> bkpJob, new |-> Synced(bkpJob, data),
                                           newest |-> NewestTask(data)]]
    /\ UNCHANGED <<bkpNow, bkpRuns, bkpJob>>

BeginPoll == \E data \in Snapshots : BeginSync("poll", data) /\ bkpSaved' = data
BeginManual == bkpSaved # Absent /\ BeginSync("manual", bkpSaved) /\ UNCHANGED bkpSaved

\* The columns the sync has changed of the row it read.
Columns(now, read, new) ==
    [last   |-> IF new.last # read.last THEN new.last ELSE now.last,
     status |-> IF new.status # read.status THEN new.status ELSE now.status]

CommitSync(s) ==
    /\ bkpSyncs[s] # Absent
    /\ LET q == bkpSyncs[s]
           cols == Columns(bkpJob, q.row, q.new)
       IN bkpJob' = [last |-> cols.last, status |-> cols.status, newest |-> q.newest,
                     torn |-> bkpJob.last # q.row.last \/ bkpJob.status # q.row.status]
    /\ bkpSyncs' = [bkpSyncs EXCEPT ![s] = Absent]
    /\ UNCHANGED <<bkpNow, bkpRuns, bkpSaved>>

\* An error in a sync is logged, and nothing of it is kept.
SyncFails(s) ==
    /\ bkpSyncs[s] # Absent
    /\ bkpSyncs' = [bkpSyncs EXCEPT ![s] = Absent]
    /\ UNCHANGED <<bkpNow, bkpRuns, bkpJob, bkpSaved>>

BkpNext ==
    \/ NextDay \/ StartRun \/ BeginPoll \/ BeginManual
    \/ \E d \in DOMAIN bkpRuns, result \in {"ok", "failed"} : EndRun(d, result)
    \/ \E s \in Syncs : CommitSync(s) \/ SyncFails(s)

BkpSpec == BkpInit /\ [][BkpNext]_bkpVars

-----------------------------------------------------------------------------
(* What is told of a job                                                     *)

Overdue(job) == job.last # 0 /\ bkpNow - job.last > BkpFrequency

\* The issues check_backup_compliance finds, and the class get_backup_summary counts.
ComplianceIssues(job) ==
    (IF job.status = "failed" THEN {"failed"} ELSE {}) \cup
    (IF Overdue(job) THEN {"overdue"} ELSE {}) \cup
    (IF job.last = 0 /\ job.status = "unknown" THEN {"never_run"} ELSE {})

Class(job) ==
    CASE job.status = "ok" -> IF Overdue(job) THEN "warning" ELSE "healthy"
      [] job.status \in {"warning", "running"} -> "warning"
      [] job.status = "failed" -> "failed"
      [] OTHER -> "unknown"

\* A job is counted healthy only if a good backup not older than expected exists, none that
\* was listed since has failed, and compliance has nothing to say (backup_monitor.py:151, :312,
\* :375); two syncs that overlapped may leave a row that mixes them, until the next one.
HealthyMeansBackedUp ==
    Class(bkpJob) = "healthy" /\ ~bkpJob.torn =>
        /\ ComplianceIssues(bkpJob) = {}
        /\ bkpNow - bkpJob.last <= BkpFrequency /\ bkpRuns[bkpJob.last] = "ok"
        /\ bkpJob.newest # 0 => bkpJob.last >= bkpJob.newest
=============================================================================
