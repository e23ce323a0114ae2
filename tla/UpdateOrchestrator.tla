------------------------- MODULE UpdateOrchestrator -------------------------
(***************************************************************************)
(* The self-update: the sidecar (sidecar/update-server.py) runs the steps  *)
(* of sidecar/orchestrator.py in a worker thread and mirrors their state   *)
(* to a file; the steps change the repository, the images, the database    *)
(* and the containers.  A container start runs backend/migrate.py first    *)
(* (backend/entrypoint.sh).  Any step may fail half-way, the state file    *)
(* may not be writable, and sidecar and backend may die at any time.       *)
(***************************************************************************)
EXTENDS Naturals, Sequences

CONSTANTS
  MaxVersion,   \* bound: releases that origin/main ever gets
  Revision,     \* release -> the newest schema revision its code knows
  Services,     \* BUILD_SERVICES
  Backend,      \* the service "nodeglow"
  Retention,    \* BACKUP_RETENTION
  MaxDumps      \* bound: dumps in the directory when cleaning up fails

Versions == 1..MaxVersion

ASSUME UpdateAssumption ==
  /\ MaxVersion \in Nat \ {0}
  /\ Revision \in [Versions -> Nat]
  /\ \A v, w \in Versions : v =< w => Revision[v] =< Revision[w]
  /\ Backend \in Services
  /\ Retention \in Nat \ {0}
  /\ MaxDumps \in Nat

VARIABLES
  (* the sidecar *)
  alive,        \* _run_thread is alive
  mem,          \* the worker's UpdateState
  runState,     \* _run_state
  file,         \* the state file
  (* the installation *)
  origin,       \* the newest release on origin/main
  repo,         \* the release checked out in the repository
  images,       \* service -> release its image was built from
  live,         \* service -> release its container was made from
  app,          \* the backend container
  schema,       \* alembic_version
  dumps,        \* the backup directory, newest first
  stray         \* releases whose migration container outlived its step

sidecarVars == <<alive, mem, runState, file>>
installVars == <<repo, images, live, app, schema, dumps, stray>>
vars == <<sidecarVars, origin, installVars>>

STEP_NAMES == <<"preflight", "backup", "pull", "build", "migrate", "restart">>

Steps == {STEP_NAMES[i] : i \in DOMAIN STEP_NAMES}

Before(n) == {STEP_NAMES[i] : i \in {j \in DOMAIN STEP_NAMES :
                \E k \in DOMAIN STEP_NAMES : STEP_NAMES[k] = n /\ j < k}}

State == [status : {"running", "done", "failed"},
          steps  : [Steps -> {"pending", "running", "ok", "failed"}]]

\* Also idle_state().
NoState == [status |-> "idle", steps |-> <<>>]

NewState == [status |-> "running", steps |-> [n \in Steps |-> "pending"]]

\* `fresh`: taken by the latest run.
Dump == [schema : Nat, good : BOOLEAN, fresh : BOOLEAN]

Init ==
  /\ alive = FALSE /\ mem = NoState /\ runState = NoState /\ file = NoState
  /\ origin = 1 /\ repo = 1
  /\ images = [s \in Services |-> 1] /\ live = [s \in Services |-> 1]
  /\ app = "serving" /\ schema = Revision[1]
  /\ dumps = <<>> /\ stray = {}

-----------------------------------------------------------------------------
(* The state and its file.                                                 *)

\* write_state: an OSError is logged and leaves the previous file.
WriteState(s) ==
  /\ mem' = s
  /\ file' \in {s, file}

\* Mutant of StartRun: the file decides whether a run is active.
StartRunByFile ==
  /\ file.status # "running"
  /\ ~alive
  /\ alive' = TRUE
  /\ mem' = NoState
  /\ runState' = NoState
  /\ dumps' = [i \in DOMAIN dumps |-> [dumps[i] EXCEPT !.fresh = FALSE]]
  /\ UNCHANGED <<file, origin, repo, images, live, app, schema, stray>>

\* start_run, called by POST /apply; with a live worker it answers 409.
StartRun ==
  /\ ~alive
  /\ alive' = TRUE
  /\ mem' = NoState
  /\ runState' = NoState
  /\ dumps' = [i \in DOMAIN dumps |-> [dumps[i] EXCEPT !.fresh = FALSE]]
  /\ UNCHANGED <<file, origin, repo, images, live, app, schema, stray>>

Begin ==
  /\ alive
  /\ mem = NoState
  /\ WriteState(NewState)
  /\ UNCHANGED <<alive, runState, origin, installVars>>

Running(n) == alive /\ mem.status = "running" /\ mem.steps[n] = "running"

StartStep(n) ==
  /\ alive
  /\ mem.status = "running"
  /\ mem.steps[n] = "pending"
  /\ \A m \in Before(n) : mem.steps[m] = "ok"
  /\ WriteState([mem EXCEPT !.steps[n] = "running"])
  /\ UNCHANGED <<alive, runState, origin, installVars>>

-----------------------------------------------------------------------------
(* What the steps do.                                                      *)

\* prune_backups: the newest `backup_retention` stay.
Pruned(d) == IF Len(d) =< Retention THEN d ELSE SubSeq(d, 1, Retention)

Preflight == UNCHANGED installVars

TakenDump(ok) == [schema |-> schema, good |-> ok, fresh |-> TRUE]

Backup ==
  /\ dumps' \in {Pruned(<<TakenDump(TRUE)>> \o dumps)}
       \union {d \in {<<TakenDump(TRUE)>> \o dumps} : Len(d) =< MaxDumps}
  /\ UNCHANGED <<repo, images, live, app, schema, stray>>

\* What is left of a dump that was cut off, when it is not removed.
CutBackup(whole) ==
  /\ dumps' \in {dumps}
       \union {d \in {<<TakenDump(ok)>> \o dumps : ok \in whole} : Len(d) =< MaxDumps}
  /\ UNCHANGED <<repo, images, live, app, schema, stray>>

Pull ==
  /\ repo' = origin
  /\ UNCHANGED <<images, live, app, schema, dumps, stray>>

CutPull ==
  /\ repo' \in {repo, origin}
  /\ UNCHANGED <<images, live, app, schema, dumps, stray>>

BuildOf(S) ==
  /\ images' = [s \in Services |-> IF s \in S THEN repo ELSE images[s]]
  /\ UNCHANGED <<repo, live, app, schema, dumps, stray>>

\* A revision the code does not know is an error of alembic; the image's
\* entrypoint runs migrate.py before the alembic command of the step.
CanMigrate(v) == schema =< Revision[v]

Migrate ==
  /\ CanMigrate(images[Backend])
  /\ schema' = Revision[images[Backend]]
  /\ UNCHANGED <<repo, images, live, app, dumps, stray>>

\* The transaction was committed or not; or the client was killed and the
\* container goes on.
CutMigrate ==
  /\ \/ UNCHANGED <<schema, stray>>
     \/ Migrate
     \/ /\ stray' = stray \union {images[Backend]}
        /\ UNCHANGED schema
  /\ UNCHANGED <<repo, images, live, app, dumps>>

\* `compose up -d` recreates a container whose image has changed, and starts a
\* stopped one.
UpOf(S) ==
  /\ live' = [s \in Services |-> IF s \in S THEN images[s] ELSE live[s]]
  /\ app' = IF Backend \in S /\ (app = "stopped" \/ live[Backend] # images[Backend])
            THEN "starting" ELSE app
  /\ UNCHANGED <<repo, images, schema, dumps, stray>>

\* Mutants of Run: the restart precedes the migration; the backup is skipped.
RunRestartFirst(n) ==
  CASE n = "preflight" -> Preflight
    [] n = "backup"    -> Backup
    [] n = "pull"      -> Pull
    [] n = "build"     -> BuildOf(Services)
    [] n = "migrate"   -> UpOf(Services)
    [] n = "restart"   -> Migrate
RunNoBackup(n) ==
  CASE n \in {"preflight", "backup"} -> Preflight
    [] n = "pull"      -> Pull
    [] n = "build"     -> BuildOf(Services)
    [] n = "migrate"   -> Migrate
    [] n = "restart"   -> UpOf(Services)

\* The step ends well ...
Run(n) ==
  CASE n = "preflight" -> Preflight
    [] n = "backup"    -> Backup
    [] n = "pull"      -> Pull
    [] n = "build"     -> BuildOf(Services)
    [] n = "migrate"   -> Migrate
    [] n = "restart"   -> UpOf(Services)

\* ... or raises, or dies with the sidecar, having done any part of it.
Cut(n, whole) ==
  CASE n = "preflight" -> Preflight
    [] n = "backup"    -> CutBackup(whole)
    [] n = "pull"      -> CutPull
    [] n = "build"     -> \E S \in SUBSET Services : BuildOf(S)
    [] n = "migrate"   -> CutMigrate
    [] n = "restart"   -> \E S \in SUBSET Services : UpOf(S)

EndStep(n) ==
  /\ Running(n)
  /\ Run(n)
  /\ WriteState([mem EXCEPT !.steps[n] = "ok"])
  /\ UNCHANGED <<alive, runState, origin>>

FailStep(n) ==
  /\ Running(n)
  /\ Cut(n, {FALSE})
  /\ WriteState([mem EXCEPT !.steps[n] = "failed", !.status = "failed"])
  /\ UNCHANGED <<alive, runState, origin>>

Finish ==
  /\ alive
  /\ mem.status = "running"
  /\ \A n \in Steps : mem.steps[n] = "ok"
  /\ WriteState([mem EXCEPT !.status = "done"])
  /\ UNCHANGED <<alive, runState, origin, installVars>>

\* The worker keeps the result and its thread ends.
Retire ==
  /\ alive
  /\ mem.status \in {"done", "failed"}
  /\ runState' = mem
  /\ alive' = FALSE
  /\ UNCHANGED <<mem, file, origin, installVars>>

\* The sidecar dies, in the middle of a step or between two, and comes back; an
\* exception outside the steps ends the worker in the same way.
Crash ==
  /\ alive' = FALSE
  /\ mem' = NoState
  /\ runState' = NoState
  /\ \/ \E n \in Steps : Running(n) /\ Cut(n, BOOLEAN)
     \/ ~(\E n \in Steps : Running(n)) /\ UNCHANGED installVars
  /\ UNCHANGED <<file, origin>>

-----------------------------------------------------------------------------
(* The backend container, the operator and the world.                      *)

\* entrypoint.sh: migrate.py first; when it fails the container exits and is
\* started again.
Entrypoint ==
  /\ app = "starting"
  /\ CanMigrate(live[Backend])
  /\ schema' = Revision[live[Backend]]
  /\ app' = "ready"
  /\ UNCHANGED <<sidecarVars, origin, repo, images, live, dumps, stray>>

Serve ==
  /\ app = "ready"
  /\ app' = "serving"
  /\ UNCHANGED <<sidecarVars, origin, repo, images, live, schema, dumps, stray>>

AppDies ==
  /\ app \in {"ready", "serving"}
  /\ app' = "starting"
  /\ UNCHANGED <<sidecarVars, origin, repo, images, live, schema, dumps, stray>>

\* The operator of docs/OPERATIONS.md: stop, restore, start; not during a run.
StopApp ==
  /\ ~alive
  /\ app # "stopped"
  /\ app' = "stopped"
  /\ UNCHANGED <<sidecarVars, origin, repo, images, live, schema, dumps, stray>>

RestoreDump(i) ==
  /\ ~alive
  /\ app = "stopped"
  /\ dumps[i].good
  /\ schema' = dumps[i].schema
  /\ UNCHANGED <<sidecarVars, origin, repo, images, live, app, dumps, stray>>

StartApp ==
  /\ app = "stopped"
  /\ app' = "starting"
  /\ UNCHANGED <<sidecarVars, origin, repo, images, live, schema, dumps, stray>>

\* A migration container that outlived its step commits, or gives up.
StrayEnds(v) ==
  /\ stray' = stray \ {v}
  /\ schema' \in {schema} \union {r \in {Revision[v]} : schema < r}
  /\ UNCHANGED <<sidecarVars, origin, repo, images, live, app, dumps>>

Release ==
  /\ origin < MaxVersion
  /\ origin' = origin + 1
  /\ UNCHANGED <<sidecarVars, installVars>>

Worker ==
  \/ Begin
  \/ \E n \in Steps : StartStep(n) \/ EndStep(n) \/ FailStep(n)
  \/ Finish
  \/ Retire

Container == Entrypoint \/ Serve

Operator == StopApp \/ (\E i \in DOMAIN dumps : RestoreDump(i)) \/ StartApp

Next ==
  \/ StartRun \/ Worker \/ Crash
  \/ Container \/ AppDies \/ Operator
  \/ \E v \in stray : StrayEnds(v)
  \/ Release

Spec == Init /\ [][Next]_vars

\* Threads are scheduled and commands return; docker restarts the container,
\* and the operator starts what he stopped.
FairSpec == Spec /\ WF_vars(Worker) /\ WF_vars(Container) /\ WF_vars(StartApp)

\* Besides, the operator updates again and again.
RetriedSpec == FairSpec /\ WF_vars(StartRun)

-----------------------------------------------------------------------------
(* Properties.                                                             *)

\* The states of the run and the parts of the installation have their types.
TypeOK ==
  /\ alive \in BOOLEAN
  /\ mem \in State \union {NoState}
  /\ runState \in State \union {NoState}
  /\ file \in State \union {NoState}
  /\ origin \in Versions /\ repo \in Versions
  /\ images \in [Services -> Versions] /\ live \in [Services -> Versions]
  /\ app \in {"stopped", "starting", "ready", "serving"}
  /\ schema \in Nat
  /\ dumps \in Seq(Dump)
  /\ stray \subseteq Versions

\* "A failed step stops the chain": in every state a client may be shown, a step
\* has begun only after all before it ended well, and the run has failed exactly
\* when one of its steps has.
InOrder(s) ==
  /\ \A n \in Steps : s.steps[n] # "pending" => \A m \in Before(n) : s.steps[m] = "ok"
  /\ s.status = "failed" <=> \E n \in Steps : s.steps[n] = "failed"
  /\ s.status = "done" => \A n \in Steps : s.steps[n] = "ok"

ChainStops == \A s \in {mem, file, runState} : s # NoState => InOrder(s)

\* What the steps, the crashes and the restores together keep (module Upgrade):
\* code goes live and serves on no older schema than it knows, and no
\* migration runs without a dump to go back to.
Goal == INSTANCE Upgrade WITH
          FirstVersion <- 1,
          live    <- live[Backend],
          serving <- app = "serving",
          saved   <- {dumps[i].schema : i \in {j \in DOMAIN dumps : dumps[j].good}}

\* However the sidecar's steps fail, are cut off or are rerun, it implements module Upgrade.
ImplementsUpgrade == Goal!Spec

\* "Postgres backup before every migration": the dump is of this run, complete,
\* and still there when its migration is done.
MigratesWithFreshDump ==
  [][Running("migrate") /\ schema' # schema
       => \E i \in DOMAIN dumps' : dumps'[i].good /\ dumps'[i].fresh]_vars

Calm ==
  <>[][~(Crash \/ AppDies \/ StopApp \/ \E n \in Steps : FailStep(n))]_vars

\* "Rerunning is safe", from wherever a run was cut off: once steps stop failing,
\* updating again brings the newest release up and keeps it serving.
RerunDeploys ==
  Calm => <>[](live = [s \in Services |-> origin] /\ app = "serving")

\* The run has failed, and not inside the step that replaces the containers.
FailedBeforeRestart ==
  mem.status = "failed" /\ mem.steps["restart"] # "failed"

LeftAlone == <>[][~(StartRun \/ Crash \/ AppDies \/ StopApp)]_vars

\* docs/OPERATIONS.md: "Everything except a failure inside `restart` itself leaves
\* the running installation serving as before", the container restarts that
\* docker does on its own included.
FailedRunKeepsServing ==
  LeftAlone => (FailedBeforeRestart ~> app = "serving")
=============================================================================
