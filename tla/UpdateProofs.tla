---------------------------- MODULE UpdateProofs ----------------------------
(***************************************************************************)
(* For any number of releases, services and dumps kept: the update keeps   *)
(* the order of its steps, whatever fails and dies, and implements what    *)
(* module Upgrade promises. For any number of containers that start on one *)
(* database, and of stops: the schema comes out as the models declare it.  *)
(***************************************************************************)
EXTENDS UpdateOrchestrator, Migrations, SequenceTheorems, TLAPS

\* A dump that leads back to the schema or before it.
HasDump == \E i \in DOMAIN dumps : dumps[i].good /\ dumps[i].schema =< schema

\* The run has the step behind it.
Ok(n) == mem.status = "running" /\ mem.steps[n] = "ok"

\* A dump is restored only when no worker is alive.
WorkerAlive == mem.status = "running" => alive

-----------------------------------------------------------------------------
(* The order of the steps.                                                 *)

\* The six steps, and which of them come before which.
LEMMA StepsAre ==
  /\ Steps = {"preflight", "backup", "pull", "build", "migrate", "restart"}
  /\ \A n \in Steps : Before(n) \subseteq Steps /\ n \notin Before(n)
  /\ "backup" \in Before("migrate") /\ "build" \in Before("migrate")
  /\ "migrate" \in Before("restart")
<1>1. DOMAIN STEP_NAMES = 1..6
  BY DEF STEP_NAMES
<1>2. /\ STEP_NAMES[1] = "preflight" /\ STEP_NAMES[2] = "backup"
      /\ STEP_NAMES[3] = "pull" /\ STEP_NAMES[4] = "build"
      /\ STEP_NAMES[5] = "migrate" /\ STEP_NAMES[6] = "restart"
  BY DEF STEP_NAMES
<1>3. 1..6 = {1, 2, 3, 4, 5, 6}
  OBVIOUS
<1>4. Steps = {"preflight", "backup", "pull", "build", "migrate", "restart"}
  BY <1>1, <1>2, <1>3 DEF Steps
<1>5. ASSUME NEW n \in Steps
      PROVE  Before(n) \subseteq Steps /\ n \notin Before(n)
  BY <1>1, <1>2, <1>3 DEF Steps, Before
<1>6. /\ "backup" \in Before("migrate") /\ "build" \in Before("migrate")
      /\ "migrate" \in Before("restart")
  BY <1>1, <1>2, <1>3 DEF Before
<1> QED BY <1>4, <1>5, <1>6

\* A new run has every step pending.
LEMMA NewStateInOrder == NewState \in State /\ InOrder(NewState)
  BY StepsAre DEF NewState, State, InOrder

\* A step that begins, ends or fails leaves the run in order.
LEMMA NextStepInOrder ==
  ASSUME NEW s \in State, InOrder(s), s.status = "running", NEW n \in Steps,
         s.steps[n] = "pending", \A m \in Before(n) : s.steps[m] = "ok"
  PROVE  LET t == [s EXCEPT !.steps[n] = "running"] IN t \in State /\ InOrder(t)
<1> DEFINE t == [s EXCEPT !.steps[n] = "running"]
<1>1. t \in State /\ t.status = s.status /\ t.steps = [s.steps EXCEPT ![n] = "running"]
  BY DEF State
<1>2. ASSUME NEW m \in Steps, t.steps[m] # "pending", NEW k \in Before(m)
      PROVE  t.steps[k] = "ok"
  BY <1>1, <1>2, StepsAre DEF State, InOrder
<1>3. InOrder(t)
  BY <1>1, <1>2, StepsAre DEF State, InOrder
<1> QED BY <1>1, <1>3

\* A step that ends well leaves the run in order.
LEMMA EndedStepInOrder ==
  ASSUME NEW s \in State, InOrder(s), s.status = "running", NEW n \in Steps,
         s.steps[n] = "running"
  PROVE  LET t == [s EXCEPT !.steps[n] = "ok"] IN t \in State /\ InOrder(t)
<1> DEFINE t == [s EXCEPT !.steps[n] = "ok"]
<1>1. t \in State /\ t.status = s.status /\ t.steps = [s.steps EXCEPT ![n] = "ok"]
  BY DEF State
<1>2. ASSUME NEW m \in Steps, t.steps[m] # "pending", NEW k \in Before(m)
      PROVE  t.steps[k] = "ok"
  BY <1>1, <1>2, StepsAre DEF State, InOrder
<1>3. InOrder(t)
  BY <1>1, <1>2, StepsAre DEF State, InOrder
<1> QED BY <1>1, <1>3

\* A step that fails ends the run, in order.
LEMMA FailedStepInOrder ==
  ASSUME NEW s \in State, InOrder(s), s.status = "running", NEW n \in Steps,
         s.steps[n] = "running"
  PROVE  LET t == [s EXCEPT !.steps[n] = "failed", !.status = "failed"]
         IN t \in State /\ InOrder(t)
<1> DEFINE t == [s EXCEPT !.steps[n] = "failed", !.status = "failed"]
<1>1. /\ t \in State /\ t.status = "failed"
      /\ t.steps = [s.steps EXCEPT ![n] = "failed"]
  BY DEF State
<1>2. ASSUME NEW m \in Steps, t.steps[m] # "pending", NEW k \in Before(m)
      PROVE  t.steps[k] = "ok"
  BY <1>1, <1>2, StepsAre DEF State, InOrder
<1>3. InOrder(t)
  BY <1>1, <1>2, StepsAre DEF State, InOrder
<1> QED BY <1>1, <1>3

\* A run whose steps are all ok may be done.
LEMMA DoneInOrder ==
  ASSUME NEW s \in State, InOrder(s), s.status = "running",
         \A n \in Steps : s.steps[n] = "ok"
  PROVE  LET t == [s EXCEPT !.status = "done"] IN t \in State /\ InOrder(t)
  BY StepsAre DEF State, InOrder

\* What the worker may write is in order, and so are then the file and what it
\* keeps.
ChainTypes ==
  /\ alive \in BOOLEAN
  /\ mem \in State \union {NoState}
  /\ runState \in State \union {NoState}
  /\ file \in State \union {NoState}

ChainInv == ChainTypes /\ ChainStops /\ WorkerAlive

\* Writing a state that is in order keeps memory and file in order.
LEMMA Written ==
  ASSUME ChainInv, NEW s \in State, InOrder(s), WriteState(s), alive' = alive,
         alive, runState' = runState
  PROVE  ChainInv'
  BY DEF ChainInv, ChainTypes, ChainStops, WriteState, WorkerAlive

\* A run that is not idle has a state.
LEMMA RunningIsState ==
  ASSUME mem \in State \union {NoState}, mem.status # "idle"
  PROVE  mem \in State /\ mem # NoState
  BY DEF NoState

\* Every step keeps the order of the run and of its copies.
LEMMA ChainStep == ChainInv /\ [Next]_vars => ChainInv'
<1> SUFFICES ASSUME ChainInv, [Next]_vars PROVE ChainInv'
  OBVIOUS
<1> USE DEF ChainInv
<1>1. CASE StartRun
  BY <1>1 DEF StartRun, ChainTypes, ChainStops, WorkerAlive, NoState
<1>2. CASE Begin
  <2>1. ~(NewState = NoState)
    BY DEF NewState, NoState
  <2> QED BY <1>2, NewStateInOrder, Written DEF Begin
<1>3. ASSUME NEW n \in Steps, StartStep(n) PROVE ChainInv'
  <2>1. mem \in State /\ InOrder(mem) /\ mem.status = "running"
    BY <1>3, RunningIsState DEF StartStep, ChainTypes, ChainStops
  <2> QED BY <1>3, <2>1, NextStepInOrder, Written DEF StartStep
<1>4. ASSUME NEW n \in Steps, EndStep(n) \/ FailStep(n) PROVE ChainInv'
  <2>1. /\ mem \in State /\ InOrder(mem) /\ mem.status = "running"
        /\ mem.steps[n] = "running"
    BY <1>4, RunningIsState DEF EndStep, FailStep, Running, ChainTypes, ChainStops
  <2>2. CASE EndStep(n)
    BY <2>1, <2>2, EndedStepInOrder, Written DEF EndStep, Running
  <2>3. CASE FailStep(n)
    BY <2>1, <2>3, FailedStepInOrder, Written DEF FailStep, Running
  <2> QED BY <1>4, <2>2, <2>3
<1>5. CASE Finish
  <2>1. mem \in State /\ InOrder(mem) /\ mem.status = "running"
    BY <1>5, RunningIsState DEF Finish, ChainTypes, ChainStops
  <2> QED BY <1>5, <2>1, DoneInOrder, Written DEF Finish
<1>6. CASE Retire
  BY <1>6 DEF Retire, ChainTypes, ChainStops, WorkerAlive
<1>7. CASE Crash
  BY <1>7 DEF Crash, ChainTypes, ChainStops, WorkerAlive, NoState
<1>8. CASE UNCHANGED sidecarVars
  BY <1>8 DEF sidecarVars, ChainTypes, ChainStops, WorkerAlive
<1>9. CASE \/ Container \/ AppDies \/ Operator
           \/ (\E v \in stray : StrayEnds(v)) \/ Release
  BY <1>9, <1>8 DEF Container, Entrypoint, Serve, AppDies, Operator, StopApp,
     RestoreDump, StartApp, StrayEnds, Release
<1> QED BY <1>1, <1>2, <1>3, <1>4, <1>5, <1>6, <1>7, <1>8, <1>9
        DEF Next, Worker, vars

\* In every state a client may be shown, and whatever fails or dies, the steps are
\* in order and a failure is the end of its run.
THEOREM FailedStepStopsChain == Spec => []ChainStops
<1>1. Init => ChainInv
  <2>1. NoState.status # "running"
    BY DEF NoState
  <2> QED BY <2>1 DEF Init, ChainInv, ChainTypes, ChainStops, WorkerAlive
<1>2. ChainInv => ChainStops
  BY DEF ChainInv
<1> QED BY <1>1, <1>2, ChainStep, PTL DEF Spec

-----------------------------------------------------------------------------
(* The dumps.                                                              *)

GoodOf(d) == {d[i].schema : i \in {j \in DOMAIN d : d[j].good}}

\* A new dump comes before the others, which keep their order.
LEMMA Prepended ==
  ASSUME NEW x \in Dump, NEW d \in Seq(Dump)
  PROVE  /\ <<x>> \o d \in Seq(Dump)
         /\ Len(<<x>> \o d) = Len(d) + 1
         /\ (<<x>> \o d)[1] = x
         /\ \A i \in 1..Len(d) : (<<x>> \o d)[i + 1] = d[i]
  BY ConcatProperties

\* It adds its schema to those one can go back to, if it is usable.
LEMMA PrependedGood ==
  ASSUME NEW x \in Dump, NEW d \in Seq(Dump)
  PROVE  GoodOf(<<x>> \o d) = GoodOf(d) \union (IF x.good THEN {x.schema} ELSE {})
<1> DEFINE e == <<x>> \o d
<1>1. /\ e \in Seq(Dump) /\ Len(e) = Len(d) + 1 /\ e[1] = x
      /\ \A i \in 1..Len(d) : e[i + 1] = d[i]
  BY Prepended
<1> HIDE DEF e
<1>2. DOMAIN e = 1..(Len(d) + 1) /\ DOMAIN d = 1..Len(d) /\ Len(d) \in Nat
  BY <1>1
<1>3. ASSUME NEW r \in GoodOf(e)
      PROVE  r \in GoodOf(d) \union (IF x.good THEN {x.schema} ELSE {})
  <2>1. PICK i \in 1..(Len(d) + 1) : e[i].good /\ r = e[i].schema
    BY <1>2 DEF GoodOf
  <2>2. CASE i = 1
    BY <1>1, <2>1, <2>2
  <2>3. CASE i # 1
    <3>1. i - 1 \in 1..Len(d) /\ e[(i - 1) + 1] = d[i - 1] /\ (i - 1) + 1 = i
      BY <1>1, <1>2, <2>3
    <3> QED BY <1>2, <2>1, <3>1 DEF GoodOf
  <2> QED BY <2>2, <2>3
<1>4. ASSUME NEW r \in GoodOf(d) PROVE r \in GoodOf(e)
  <2>1. PICK i \in 1..Len(d) : d[i].good /\ r = d[i].schema
    BY <1>2 DEF GoodOf
  <2>2. i + 1 \in 1..(Len(d) + 1) /\ e[i + 1] = d[i]
    BY <1>1, <1>2
  <2> QED BY <1>2, <2>1, <2>2 DEF GoodOf
<1>5. x.good => x.schema \in GoodOf(e)
  BY <1>1, <1>2 DEF GoodOf
<1>6. GoodOf(e) = GoodOf(d) \union (IF x.good THEN {x.schema} ELSE {})
  BY <1>3, <1>4, <1>5
<1> QED BY <1>6 DEF e

\* Pruning takes no dump away but old ones.
LEMMA PrunedDumps ==
  ASSUME NEW d \in Seq(Dump), d # <<>>
  PROVE  /\ Pruned(d) \in Seq(Dump)
         /\ GoodOf(Pruned(d)) \subseteq GoodOf(d)
         /\ d[1].good => d[1].schema \in GoodOf(Pruned(d))
<1>1. Len(d) \in Nat \ {0} /\ DOMAIN d = 1..Len(d)
  BY EmptySeq
<1>2. CASE Len(d) =< Retention
  BY <1>1, <1>2 DEF Pruned, GoodOf
<1>3. CASE ~(Len(d) =< Retention)
  <2> DEFINE p == SubSeq(d, 1, Retention)
  <2>1. /\ p \in Seq(Dump) /\ Len(p) = Retention
        /\ \A i \in 1..Retention : p[i] = d[i]
    BY <1>1, <1>3, SubSeqProperties, UpdateAssumption
  <2>2. Pruned(d) = p
    BY <1>3 DEF Pruned
  <2> HIDE DEF p
  <2>3. DOMAIN p = 1..Retention /\ Retention \in Nat \ {0} /\ Retention =< Len(d)
    BY <1>1, <1>3, <2>1, UpdateAssumption
  <2>4. GoodOf(p) \subseteq GoodOf(d)
    BY <1>1, <2>1, <2>3 DEF GoodOf
  <2>5. d[1].good => d[1].schema \in GoodOf(p)
    BY <2>1, <2>3 DEF GoodOf
  <2> QED BY <2>1, <2>2, <2>4, <2>5
<1> QED BY <1>2, <1>3

-----------------------------------------------------------------------------
(* What the steps do to the installation.                                  *)

InstallTypes ==
  /\ origin \in Versions /\ repo \in Versions
  /\ images \in [Services -> Versions] /\ live \in [Services -> Versions]
  /\ app \in {"stopped", "starting", "ready", "serving"}
  /\ schema \in Nat
  /\ dumps \in Seq(Dump)
  /\ stray \subseteq Versions

\* The code that runs finds everything it knows of in the database, and what may
\* still move the schema has a dump behind it.
InstallInv ==
  /\ InstallTypes
  /\ app \in {"ready", "serving"} => Revision[live[Backend]] =< schema
  /\ stray # {} \/ schema < Revision[live[Backend]] => HasDump

\* The step is one that Upgrade allows, or nothing to it.
Promise == [Goal!Next]_(Goal!vars)

\* There is a dump to go back to: by schemas instead of positions.
LEMMA HasDumpIs ==
  HasDump <=> \E r \in GoodOf(dumps) : r =< schema
  BY DEF HasDump, GoodOf

\* Every release has a revision, every dump a schema.
LEMMA RevisionIs ==
  InstallTypes => /\ \A v \in Versions : Revision[v] \in Nat
                  /\ live[Backend] \in Versions /\ images[Backend] \in Versions
                  /\ GoodOf(dumps) \subseteq Nat
<1>1. InstallTypes => GoodOf(dumps) \subseteq Nat
  <2>1. ASSUME InstallTypes, NEW i \in DOMAIN dumps PROVE dumps[i].schema \in Nat
    <3>1. dumps[i] \in Dump
      BY <2>1 DEF InstallTypes
    <3> QED BY <3>1 DEF Dump
  <2> QED BY <2>1 DEF GoodOf
<1> QED BY <1>1, UpdateAssumption DEF InstallTypes

\* A step that leaves code, service, schema and dumps alone is none to Upgrade.
LEMMA Stutters ==
  ASSUME live'[Backend] = live[Backend], (app' = "serving") <=> (app = "serving"),
         schema' = schema, dumps' = dumps
  PROVE  Promise
  BY DEF Promise, Goal!vars

\* A backup, with or without its retention, keeps a way back.
LEMMA DumpTaken ==
  ASSUME InstallInv, NEW ok \in BOOLEAN, origin' = origin,
         UNCHANGED <<repo, images, live, app, schema, stray>>,
         \/ dumps' = <<TakenDump(ok)>> \o dumps
         \/ ok /\ dumps' = Pruned(<<TakenDump(ok)>> \o dumps)
  PROVE  /\ InstallInv' /\ Promise
         /\ HasDump \/ ok => HasDump'
<1> DEFINE e == <<TakenDump(ok)>> \o dumps
<1>1. /\ TakenDump(ok) \in Dump /\ TakenDump(ok).good = ok
      /\ TakenDump(ok).schema = schema
  BY DEF TakenDump, Dump, InstallInv, InstallTypes
<1>2. /\ e \in Seq(Dump) /\ e # <<>> /\ e[1] = TakenDump(ok)
      /\ GoodOf(e) = GoodOf(dumps) \union (IF ok THEN {schema} ELSE {})
  <2>1. dumps \in Seq(Dump) /\ Len(dumps) \in Nat
    BY DEF InstallInv, InstallTypes
  <2>2. e \in Seq(Dump) /\ Len(e) = Len(dumps) + 1 /\ e[1] = TakenDump(ok)
    BY <1>1, <2>1, Prepended
  <2>3. GoodOf(e) = GoodOf(dumps) \union (IF ok THEN {schema} ELSE {})
    BY <1>1, <2>1, PrependedGood
  <2>4. e # <<>>
    BY <2>1, <2>2, EmptySeq
  <2> QED BY <2>2, <2>3, <2>4
<1> HIDE DEF e
<1>3. /\ dumps' \in Seq(Dump)
      /\ \E S \in SUBSET GoodOf(dumps) :
           GoodOf(dumps)' = S \union (IF ok THEN {schema} ELSE {})
      /\ ~ok => GoodOf(dumps)' = GoodOf(dumps)
  <2>1. CASE dumps' = e
    <3>1. dumps' \in Seq(Dump)
      BY <1>2, <2>1
    <3>2. GoodOf(dumps)' = GoodOf(e)
      BY <2>1 DEF GoodOf
    <3>3. GoodOf(dumps)' = GoodOf(dumps) \union (IF ok THEN {schema} ELSE {})
      BY <1>2, <3>2
    <3>4. ~ok => GoodOf(dumps)' = GoodOf(dumps)
      BY <3>3
    <3> QED BY <3>1, <3>3, <3>4
  <2>2. CASE ok /\ dumps' = Pruned(e)
    <3>1. /\ Pruned(e) \in Seq(Dump) /\ GoodOf(Pruned(e)) \subseteq GoodOf(e)
          /\ schema \in GoodOf(Pruned(e))
      BY <1>1, <1>2, <2>2, PrunedDumps
    <3>2. GoodOf(dumps)' = GoodOf(Pruned(e))
      BY <2>2 DEF GoodOf
    <3>3. GoodOf(dumps)' = (GoodOf(dumps)' \ {schema}) \union {schema}
      BY <3>1, <3>2
    <3>4. GoodOf(dumps)' \ {schema} \in SUBSET GoodOf(dumps)
      BY <1>2, <2>2, <3>1, <3>2
    <3>5. \E S \in SUBSET GoodOf(dumps) : GoodOf(dumps)' = S \union {schema}
      BY <3>3, <3>4
    <3> QED BY <2>2, <3>1, <3>5
  <2> QED BY <2>1, <2>2 DEF e
<1>4. schema \in Nat /\ schema' = schema
  BY DEF InstallInv, InstallTypes
<1>5. HasDump \/ ok => HasDump'
  <2>1. CASE ok
    <3>1. schema \in GoodOf(dumps)'
      BY <1>3, <2>1
    <3>2. \E r \in GoodOf(dumps)' : r =< schema'
      BY <3>1, <1>4
    <3> QED BY <3>2 DEF HasDump, GoodOf
  <2>2. CASE ~ok /\ HasDump
    <3>1. \E r \in GoodOf(dumps)' : r =< schema'
      BY <1>3, <1>4, <2>2, HasDumpIs
    <3> QED BY <3>1 DEF HasDump, GoodOf
  <2> QED BY <2>1, <2>2
<1>6. InstallInv'
  BY <1>3, <1>5 DEF InstallInv, InstallTypes
<1>7. Promise
  <2>1. UNCHANGED <<live[Backend], app = "serving", schema>>
    OBVIOUS
  <2>2. CASE ok
    <3>1. \E S \in SUBSET GoodOf(dumps) : GoodOf(dumps)' = S \union {schema}
      BY <1>3, <2>2
    <3>2. Goal!Save
      BY <2>1, <3>1 DEF Goal!Save, GoodOf
    <3> QED BY <3>2 DEF Promise, Goal!Next
  <2>3. CASE ~ok
    BY <1>3, <2>1, <2>3 DEF Promise, Goal!vars, GoodOf
  <2> QED BY <2>2, <2>3
<1> QED BY <1>5, <1>6, <1>7

\* Pulling and building touch nothing that runs.
LEMMA CodeMoved ==
  ASSUME InstallInv, repo' \in Versions, images' \in [Services -> Versions],
         UNCHANGED <<origin, live, app, schema, dumps, stray>>
  PROVE  InstallInv' /\ Promise /\ (HasDump => HasDump')
<1>1. InstallInv'
  BY DEF InstallInv, InstallTypes, HasDump
<1>2. Promise
  BY Stutters
<1>3. HasDump => HasDump'
  BY DEF HasDump
<1> QED BY <1>1, <1>2, <1>3

\* A migration, by whichever container, moves the schema forward to a revision
\* that one of the releases knows.
LEMMA Migrated ==
  ASSUME InstallInv, HasDump, NEW v \in Versions, schema =< Revision[v],
         schema' = Revision[v], stray' \subseteq Versions,
         app' \in {"stopped", "starting", "ready", "serving"},
         (app' = "serving") <=> (app = "serving"),
         app' = "ready" => app = "ready" \/ Revision[live[Backend]] =< schema',
         UNCHANGED <<origin, repo, images, live, dumps>>
  PROVE  InstallInv' /\ Promise /\ HasDump'
<1>1. /\ schema \in Nat /\ schema' \in Nat /\ Revision[live[Backend]] \in Nat
      /\ GoodOf(dumps) \subseteq Nat
  BY RevisionIs DEF InstallInv, InstallTypes
<1>2. HasDump'
  <2>1. PICK r \in GoodOf(dumps) : r =< schema
    BY HasDumpIs
  <2>2. r \in GoodOf(dumps)' /\ r =< schema'
    BY <1>1, <2>1 DEF GoodOf
  <2> QED BY <2>2 DEF HasDump, GoodOf
<1>3. InstallInv'
  BY <1>1, <1>2 DEF InstallInv, InstallTypes
<1>4. Promise
  <2>1. CASE schema' = schema
    BY <2>1, Stutters
  <2>2. CASE schema < schema'
    <3>1. \E r \in GoodOf(dumps) : r =< schema
      BY HasDumpIs
    <3>2. Goal!Migrate
      BY <2>2, <3>1 DEF Goal!Migrate, GoodOf
    <3> QED BY <3>2 DEF Promise, Goal!Next
  <2> QED BY <1>1, <2>1, <2>2
<1> QED BY <1>2, <1>3, <1>4

\* Bringing services up on a schema with all they know keeps the promise.
LEMMA BroughtUp ==
  ASSUME InstallInv, NEW S \in SUBSET Services, UpOf(S), origin' = origin,
         Revision[images[Backend]] =< schema
  PROVE  /\ InstallInv' /\ Promise /\ UNCHANGED <<images, schema>>
         /\ HasDump => HasDump'
<1>1. /\ UNCHANGED <<origin, repo, images, schema, dumps, stray>>
      /\ live' \in [Services -> Versions]
      /\ app' \in {"stopped", "starting", "ready", "serving"}
  BY DEF UpOf, InstallInv, InstallTypes
<1>2. /\ live'[Backend] \in {live[Backend], images[Backend]}
      /\ \/ app' = app /\ live'[Backend] = live[Backend]
         \/ app' = "starting"
  BY UpdateAssumption DEF UpOf, InstallInv, InstallTypes
<1>3. Revision[live[Backend]] \in Nat /\ Revision[images[Backend]] \in Nat
  BY RevisionIs DEF InstallInv
<1>4. HasDump <=> HasDump'
  BY <1>1 DEF HasDump
<1>5. schema' < Revision[live'[Backend]] => schema < Revision[live[Backend]]
  BY <1>1, <1>2, <1>3 DEF InstallInv, InstallTypes
<1>6. InstallInv'
  BY <1>1, <1>2, <1>4, <1>5 DEF InstallInv, InstallTypes
<1>7. Promise
  <2>1. CASE app' = app /\ live'[Backend] = live[Backend]
    BY <1>1, <2>1, Stutters
  <2>2. CASE app' = "starting" /\ live'[Backend] = images[Backend]
    <3>1. \E v \in Versions : Revision[v] =< schema /\ live'[Backend] = v
      BY <2>2, RevisionIs DEF InstallInv
    <3>2. Goal!GoLive
      BY <1>1, <2>2, <3>1 DEF Goal!GoLive
    <3> QED BY <3>2 DEF Promise, Goal!Next
  <2>3. CASE app' = "starting" /\ live'[Backend] = live[Backend]
    <3>1. Goal!Stop
      BY <1>1, <2>3 DEF Goal!Stop
    <3> QED BY <3>1 DEF Promise, Goal!Next
  <2> QED BY <1>2, <2>1, <2>2, <2>3
<1> QED BY <1>1, <1>4, <1>6, <1>7

-----------------------------------------------------------------------------
(* The worker: what its steps may rely on, and what they leave.            *)

\* What the run has done so far still holds when the next step needs it.
WorkerInv ==
  /\ Ok("migrate") => Revision[images[Backend]] =< schema
  /\ Ok("backup") => HasDump

UInv == ChainInv /\ InstallInv /\ WorkerInv

\* What a step may count on while it runs, from the order of the steps.
LEMMA RunningFacts ==
  ASSUME UInv, NEW n \in Steps, Running(n)
  PROVE  /\ mem \in State /\ mem # NoState /\ InOrder(mem)
         /\ alive /\ mem.status = "running" /\ mem.steps[n] = "running"
         /\ \A m \in Before(n) : mem.steps[m] = "ok"
         /\ n \in {"preflight", "backup", "pull", "build"} => ~Ok("migrate")
         /\ n = "migrate" => HasDump
         /\ n = "restart" => Revision[images[Backend]] =< schema
<1>1. /\ mem \in State /\ mem # NoState /\ InOrder(mem)
      /\ alive /\ mem.status = "running" /\ mem.steps[n] = "running"
  BY RunningIsState DEF UInv, ChainInv, ChainTypes, ChainStops, Running
<1>2. \A m \in Before(n) : mem.steps[m] = "ok"
  BY <1>1 DEF InOrder
<1>3. n \in {"preflight", "backup", "pull", "build"} => n \in Before("migrate")
  <2>1. DOMAIN STEP_NAMES = {1, 2, 3, 4, 5, 6}
    BY DEF STEP_NAMES
  <2>2. /\ STEP_NAMES[1] = "preflight" /\ STEP_NAMES[2] = "backup"
        /\ STEP_NAMES[3] = "pull" /\ STEP_NAMES[4] = "build"
        /\ STEP_NAMES[5] = "migrate"
    BY DEF STEP_NAMES
  <2> QED BY <2>1, <2>2 DEF Before
<1>4. n \in {"preflight", "backup", "pull", "build"} => ~Ok("migrate")
  BY <1>1, <1>3, StepsAre DEF InOrder, Ok
<1>5. n = "migrate" => HasDump
  BY <1>1, <1>2, StepsAre DEF UInv, WorkerInv, Ok
<1>6. n = "restart" => Revision[images[Backend]] =< schema
  BY <1>1, <1>2, StepsAre DEF UInv, WorkerInv, Ok
<1> QED BY <1>1, <1>2, <1>4, <1>5, <1>6

\* A step that raises or dies half-way keeps the invariant and the promise.
LEMMA CutStep ==
  ASSUME UInv, NEW n \in Steps, Running(n), NEW whole \in SUBSET BOOLEAN,
         Cut(n, whole), origin' = origin
  PROVE  /\ InstallInv' /\ Promise /\ (HasDump => HasDump')
         /\ (images' = images /\ schema' = schema) \/ n \in {"build", "migrate"}
<1>0. /\ InstallInv /\ InstallTypes /\ UpdateAssumption
      /\ images[Backend] \in Versions /\ Revision[images[Backend]] \in Nat
      /\ schema \in Nat
  BY RevisionIs, UpdateAssumption DEF UInv, InstallInv, InstallTypes
<1>1. CASE n = "preflight"
  BY <1>0, <1>1, CodeMoved DEF Cut, Preflight, installVars, InstallTypes
<1>2. CASE n = "backup"
  <2>1. CutBackup(whole)
    BY <1>2 DEF Cut
  <2>2. CASE dumps' = dumps
    BY <1>0, <2>1, <2>2, CodeMoved DEF CutBackup, InstallTypes
  <2>3. CASE \E ok \in whole : dumps' = <<TakenDump(ok)>> \o dumps
    BY <1>0, <2>1, <2>3, DumpTaken DEF CutBackup
  <2> QED BY <2>1, <2>2, <2>3 DEF CutBackup
<1>3. CASE n = "pull"
  BY <1>0, <1>3, CodeMoved DEF Cut, CutPull, InstallTypes
<1>4. CASE n = "build"
  <2>1. PICK S \in SUBSET Services : BuildOf(S)
    BY <1>4 DEF Cut
  <2>2. images' \in [Services -> Versions]
    BY <1>0, <2>1 DEF BuildOf, InstallTypes
  <2> QED BY <1>0, <1>4, <2>1, <2>2, CodeMoved DEF BuildOf, InstallTypes
<1>5. CASE n = "migrate"
  <2>1. CutMigrate /\ HasDump
    BY <1>5, RunningFacts DEF Cut
  <2>2. CASE UNCHANGED <<schema, stray>>
    BY <1>0, <1>5, <2>1, <2>2, CodeMoved DEF CutMigrate, InstallTypes
  <2>3. CASE Migrate
    BY <1>0, <1>5, <2>1, <2>3, Migrated DEF Migrate, CanMigrate, InstallTypes
  <2>4. CASE stray' = stray \union {images[Backend]} /\ UNCHANGED schema
    <3>1. UNCHANGED <<origin, repo, images, live, app, schema, dumps>>
      BY <2>1, <2>4 DEF CutMigrate
    <3>2. HasDump'
      BY <2>1, <3>1 DEF HasDump
    <3>3. InstallInv'
      BY <1>0, <2>4, <3>1, <3>2 DEF InstallInv, InstallTypes
    <3>4. Promise
      BY <3>1, Stutters
    <3> QED BY <1>5, <3>2, <3>3, <3>4
  <2> QED BY <2>1, <2>2, <2>3, <2>4 DEF CutMigrate
<1>6. CASE n = "restart"
  <2>1. PICK S \in SUBSET Services : UpOf(S)
    BY <1>6 DEF Cut
  <2> QED BY <1>0, <1>6, <2>1, RunningFacts, BroughtUp
<1> QED BY <1>1, <1>2, <1>3, <1>4, <1>5, <1>6, StepsAre

\* So does one that ends well, and it leaves behind what later steps count on.
LEMMA RunStep ==
  ASSUME UInv, NEW n \in Steps, Running(n), Run(n), origin' = origin
  PROVE  /\ InstallInv' /\ Promise /\ (HasDump => HasDump')
         /\ (images' = images /\ schema' = schema) \/ n \in {"build", "migrate"}
         /\ n = "backup" => HasDump'
         /\ n = "migrate" => Revision[images'[Backend]] =< schema'
<1>0. InstallInv /\ InstallTypes /\ UpdateAssumption
  BY UpdateAssumption DEF UInv, InstallInv
<1>1. CASE n = "backup"
  <2>1. Backup
    BY <1>1 DEF Run
  <2>2. InstallInv' /\ Promise /\ HasDump'
    BY <1>0, <2>1, DumpTaken DEF Backup
  <2> QED BY <1>1, <2>1, <2>2 DEF Backup
<1>2. CASE n = "migrate"
  <2>1. Migrate
    BY <1>2 DEF Run
  <2>2. /\ images[Backend] \in Versions /\ Revision[images[Backend]] \in Nat
        /\ Revision[images'[Backend]] =< schema'
    BY <1>0, <2>1, RevisionIs DEF Migrate
  <2>3. Cut(n, BOOLEAN)
    BY <1>2, <2>1 DEF Cut, CutMigrate, Migrate
  <2> QED BY <1>2, <2>2, <2>3, CutStep
<1>3. CASE n \in {"preflight", "pull", "build", "restart"}
  <2>1. Cut(n, BOOLEAN)
    BY <1>3 DEF Run, Cut, Pull, CutPull
  <2> QED BY <1>3, <2>1, CutStep
<1> QED BY <1>1, <1>2, <1>3, StepsAre

-----------------------------------------------------------------------------
(* The steps of the whole.                                                 *)

\* The initial states satisfy the invariant and are initial for Upgrade.
LEMMA UInvInit == Init => UInv /\ Goal!Init
<1> SUFFICES ASSUME Init PROVE UInv /\ Goal!Init
  OBVIOUS
<1>1. mem = NoState /\ NoState.status = "idle"
  BY DEF Init, NoState
<1>2. ChainInv
  BY <1>1 DEF Init, ChainInv, ChainTypes, ChainStops, WorkerAlive
<1>3. 1 \in Versions /\ Revision[1] \in Nat /\ Backend \in Services
  BY UpdateAssumption DEF Versions
<1>4. dumps = <<>> /\ GoodOf(dumps) = {} /\ dumps \in Seq(Dump)
  BY DEF Init, GoodOf
<1>5. /\ live = [s \in Services |-> 1] /\ images = [s \in Services |-> 1]
      /\ schema = Revision[1] /\ stray = {} /\ app = "serving"
      /\ origin = 1 /\ repo = 1
  BY DEF Init
<1>6. InstallInv
  BY <1>3, <1>4, <1>5 DEF InstallInv, InstallTypes
<1>7. WorkerInv
  BY <1>1 DEF WorkerInv, Ok
<1>8. Goal!Init
  BY <1>3, <1>4, <1>5 DEF Goal!Init, GoodOf
<1> QED BY <1>2, <1>6, <1>7, <1>8 DEF UInv

\* A step that ends or fails keeps what the next one relies on.
LEMMA WorkerKept ==
  ASSUME UInv, NEW n \in Steps, Running(n), HasDump => HasDump',
         (images' = images /\ schema' = schema) \/ n \in {"build", "migrate"},
         \/ mem'.status # "running"
         \/ /\ mem'.status = "running" /\ mem'.steps = [mem.steps EXCEPT ![n] = "ok"]
            /\ n = "backup" => HasDump'
            /\ n = "migrate" => Revision[images'[Backend]] =< schema'
  PROVE  WorkerInv'
<1>1. CASE mem'.status # "running"
  BY <1>1 DEF WorkerInv, Ok
<1>2. CASE /\ mem'.status = "running" /\ mem'.steps = [mem.steps EXCEPT ![n] = "ok"]
           /\ n = "backup" => HasDump'
           /\ n = "migrate" => Revision[images'[Backend]] =< schema'
  <2>1. mem \in State /\ mem.status = "running"
    BY RunningFacts
  <2>2. \A m \in Steps : mem'.steps[m] = IF m = n THEN "ok" ELSE mem.steps[m]
    BY <1>2, <2>1 DEF State
  <2>3. Ok("backup")' => HasDump'
    BY <1>2, <2>1, <2>2, StepsAre DEF Ok, UInv, WorkerInv
  <2>4. Ok("migrate")' => Revision[images'[Backend]] =< schema'
    <3>1. CASE n = "migrate"
      BY <1>2, <3>1
    <3>2. CASE n # "migrate"
      <4>1. Ok("migrate")' => Ok("migrate")
        BY <1>2, <2>1, <2>2, <3>2, StepsAre DEF Ok
      <4>2. Ok("migrate") => images' = images /\ schema' = schema
        BY <3>2, RunningFacts
      <4> QED BY <4>1, <4>2 DEF UInv, WorkerInv
    <3> QED BY <3>1, <3>2
  <2> QED BY <2>3, <2>4 DEF WorkerInv
<1> QED BY <1>1, <1>2

\* A step of the sidecar.
LEMMA WorkerStep ==
  ASSUME UInv, Worker \/ StartRun \/ Crash
  PROVE  InstallInv' /\ WorkerInv' /\ Promise
<1>0. InstallInv /\ ChainInv /\ WorkerInv
  BY DEF UInv
<1>1. ASSUME UNCHANGED <<origin, installVars>>,
             \/ mem'.status # "running"
             \/ mem.status = "running" /\ \A m \in Steps :
                  mem'.steps[m] = "ok" => mem.steps[m] = "ok"
      PROVE  InstallInv' /\ WorkerInv' /\ Promise
  <2>1. InstallInv' /\ Promise /\ (HasDump => HasDump')
    BY <1>0, <1>1, CodeMoved DEF installVars, InstallInv, InstallTypes
  <2>2. WorkerInv'
    BY <1>0, <1>1, <2>1, StepsAre DEF installVars, WorkerInv, Ok
  <2> QED BY <2>1, <2>2
<1>2. CASE StartRun
  <2>1. /\ dumps' = [i \in DOMAIN dumps |-> [dumps[i] EXCEPT !.fresh = FALSE]]
        /\ UNCHANGED <<origin, repo, images, live, app, schema, stray>>
        /\ mem' = NoState
    BY <1>2 DEF StartRun
  <2>2. dumps \in Seq(Dump) /\ DOMAIN dumps = 1..Len(dumps) /\ Len(dumps) \in Nat
    BY <1>0 DEF InstallInv, InstallTypes
  <2>3. \A i \in 1..Len(dumps) : /\ dumps'[i] \in Dump
                                 /\ dumps'[i].good = dumps[i].good
                                 /\ dumps'[i].schema = dumps[i].schema
    <3>1. ASSUME NEW i \in 1..Len(dumps)
          PROVE  /\ dumps'[i] \in Dump /\ dumps'[i].good = dumps[i].good
                 /\ dumps'[i].schema = dumps[i].schema
      <4>1. dumps[i] \in Dump /\ dumps'[i] = [dumps[i] EXCEPT !.fresh = FALSE]
        BY <2>1, <2>2
      <4> QED BY <4>1 DEF Dump
    <3> QED BY <3>1
  <2>4. dumps' \in [1..Len(dumps) -> Dump]
    BY <2>1, <2>2, <2>3
  <2>5. dumps' \in Seq(Dump) /\ DOMAIN dumps' = DOMAIN dumps
    BY <2>1, <2>2, <2>4, SeqDef
  <2>6. GoodOf(dumps)' = GoodOf(dumps)
    BY <2>2, <2>3, <2>5 DEF GoodOf
  <2>7. HasDump' <=> HasDump
    BY <2>1, <2>2, <2>3, <2>5 DEF HasDump
  <2>8. InstallInv'
    BY <1>0, <2>1, <2>5, <2>7 DEF InstallInv, InstallTypes
  <2>9. Promise
    BY <2>1, <2>6 DEF Promise, Goal!vars, GoodOf
  <2>10. WorkerInv'
    BY <2>1 DEF WorkerInv, Ok, NoState
  <2> QED BY <2>8, <2>9, <2>10
<1>3. CASE Begin
  <2>1. \A m \in Steps : mem'.steps[m] # "ok"
    BY <1>3 DEF Begin, WriteState, NewState
  <2>2. UNCHANGED <<origin, installVars>>
    BY <1>3 DEF Begin
  <2>3. InstallInv' /\ Promise
    BY <1>0, <2>2, CodeMoved DEF installVars, InstallInv, InstallTypes
  <2>4. WorkerInv'
    BY <2>1, StepsAre DEF WorkerInv, Ok
  <2> QED BY <2>3, <2>4
<1>4. ASSUME NEW n \in Steps, StartStep(n)
      PROVE  InstallInv' /\ WorkerInv' /\ Promise
  <2>1. mem \in State /\ mem.status = "running"
    BY <1>0, <1>4, RunningIsState DEF StartStep, ChainInv, ChainTypes
  <2>2. mem'.steps = [mem.steps EXCEPT ![n] = "running"]
    BY <1>4, <2>1 DEF StartStep, WriteState, State
  <2>3. \A m \in Steps : mem'.steps[m] = "ok" => mem.steps[m] = "ok"
    BY <2>1, <2>2 DEF State
  <2> QED BY <1>1, <1>4, <2>1, <2>3 DEF StartStep
<1>5. ASSUME NEW n \in Steps, EndStep(n)
      PROVE  InstallInv' /\ WorkerInv' /\ Promise
  <2>1. Running(n) /\ Run(n) /\ origin' = origin
    BY <1>5 DEF EndStep
  <2>2. mem \in State /\ mem.status = "running"
    BY <2>1, RunningFacts
  <2>3. mem'.status = "running" /\ mem'.steps = [mem.steps EXCEPT ![n] = "ok"]
    BY <1>5, <2>2 DEF EndStep, WriteState, State
  <2> QED BY <2>1, <2>3, RunStep, WorkerKept
<1>6. ASSUME NEW n \in Steps, FailStep(n)
      PROVE  InstallInv' /\ WorkerInv' /\ Promise
  <2>1. Running(n) /\ Cut(n, {FALSE}) /\ origin' = origin
    BY <1>6 DEF FailStep
  <2>2. mem \in State
    BY <2>1, RunningFacts
  <2>3. mem'.status = "failed"
    BY <1>6, <2>2 DEF FailStep, WriteState, State
  <2> QED BY <2>1, <2>3, CutStep, WorkerKept
<1>7. CASE Finish
  <2>1. mem \in State
    BY <1>0, <1>7, RunningIsState DEF Finish, ChainInv, ChainTypes
  <2>2. mem'.status = "done"
    BY <1>7, <2>1 DEF Finish, WriteState, State
  <2> QED BY <1>1, <1>7, <2>2 DEF Finish
<1>8. CASE Retire
  BY <1>1, <1>8 DEF Retire
<1>9. CASE Crash
  <2>1. mem'.status # "running" /\ origin' = origin
    BY <1>9 DEF Crash, NoState
  <2>2. CASE UNCHANGED installVars
    BY <1>1, <2>1, <2>2
  <2>3. CASE \E n \in Steps : Running(n) /\ Cut(n, BOOLEAN)
    BY <2>1, <2>3, CutStep, WorkerKept
  <2> QED BY <1>9, <2>2, <2>3 DEF Crash
<1> QED BY <1>2, <1>3, <1>4, <1>5, <1>6, <1>7, <1>8, <1>9 DEF Worker

\* A step of the container, the operator, a migration left behind, or a release.
LEMMA OtherStep ==
  ASSUME UInv,
         \/ Container \/ AppDies \/ Operator
         \/ (\E v \in stray : StrayEnds(v)) \/ Release
  PROVE  InstallInv' /\ WorkerInv' /\ Promise
<1>0. /\ InstallInv /\ InstallTypes /\ ChainInv /\ WorkerInv /\ UpdateAssumption
      /\ live[Backend] \in Versions /\ images[Backend] \in Versions
      /\ Revision[live[Backend]] \in Nat /\ Revision[images[Backend]] \in Nat
      /\ schema \in Nat
  BY RevisionIs, UpdateAssumption DEF UInv, InstallInv, InstallTypes
<1>1. ASSUME UNCHANGED <<sidecarVars, images, dumps>>, schema' \in Nat, schema =< schema'
      PROVE  WorkerInv'
  <2>1. HasDump => HasDump'
    <3>1. ASSUME HasDump PROVE HasDump'
      <4>1. PICK r \in GoodOf(dumps) : r =< schema /\ r \in Nat
        BY <1>0, <3>1, HasDumpIs, RevisionIs
      <4>2. r \in GoodOf(dumps)' /\ r =< schema'
        BY <1>0, <1>1, <4>1 DEF GoodOf
      <4> QED BY <4>2 DEF HasDump, GoodOf
    <3> QED BY <3>1
  <2>2. Ok("migrate")' = Ok("migrate") /\ Ok("backup")' = Ok("backup")
    BY <1>1 DEF Ok, sidecarVars
  <2> QED BY <1>0, <1>1, <2>1, <2>2 DEF WorkerInv
<1>2. CASE Entrypoint
  <2>1. /\ schema =< Revision[live[Backend]] /\ schema' = Revision[live[Backend]]
        /\ app = "starting" /\ app' = "ready"
        /\ UNCHANGED <<sidecarVars, origin, repo, images, live, dumps, stray>>
    BY <1>2 DEF Entrypoint, CanMigrate
  <2>2. WorkerInv'
    BY <1>0, <1>1, <2>1
  <2>3. CASE HasDump
    <3> DEFINE v == live[Backend]
    <3>1. v \in Versions /\ schema =< Revision[v] /\ schema' = Revision[v]
      BY <1>0, <2>1
    <3>2. stray' \subseteq Versions
      BY <1>0, <2>1 DEF InstallTypes
    <3>3. Revision[live[Backend]] =< schema'
      BY <1>0, <2>1
    <3>4. UNCHANGED <<origin, repo, images, live, dumps>>
      BY <2>1
    <3>5. /\ app' \in {"stopped", "starting", "ready", "serving"}
          /\ (app' = "serving") <=> (app = "serving")
      BY <2>1
    <3> HIDE DEF v
    <3>6. InstallInv' /\ Promise
      BY <1>0, <2>3, <3>1, <3>2, <3>3, <3>4, <3>5, Migrated
    <3> QED BY <2>2, <3>6
  <2>4. CASE ~HasDump
    <3>1. stray = {} /\ schema' = schema
      BY <1>0, <2>1, <2>4 DEF InstallInv
    <3>2. InstallInv'
      BY <1>0, <2>1, <3>1 DEF InstallInv, InstallTypes
    <3>3. Promise
      BY <2>1, <3>1, Stutters
    <3> QED BY <2>2, <3>2, <3>3
  <2> QED BY <2>3, <2>4
<1>3. CASE Serve \/ AppDies \/ StartApp \/ StopApp
  <2>1. UNCHANGED <<sidecarVars, origin, repo, images, live, schema, dumps, stray>>
    BY <1>3 DEF Serve, AppDies, StartApp, StopApp
  <2>2. app' \in {"ready", "serving"} => app \in {"ready", "serving"}
    BY <1>3 DEF Serve, AppDies, StartApp, StopApp
  <2>3. app' \in {"stopped", "starting", "ready", "serving"}
    BY <1>3 DEF Serve, AppDies, StartApp, StopApp
  <2>4. HasDump' <=> HasDump
    BY <2>1 DEF HasDump
  <2>5. InstallInv'
    BY <1>0, <2>1, <2>2, <2>3, <2>4 DEF InstallInv, InstallTypes
  <2>6. WorkerInv'
    BY <1>0, <1>1, <2>1
  <2>7. Promise
    <3>1. CASE Serve
      <4>1. Goal!Serve
        BY <1>0, <2>1, <3>1 DEF Serve, Goal!Serve, InstallInv
      <4> QED BY <4>1 DEF Promise, Goal!Next
    <3>2. CASE AppDies \/ StartApp \/ StopApp
      <4>1. Goal!Stop
        BY <2>1, <3>2 DEF AppDies, StartApp, StopApp, Goal!Stop
      <4> QED BY <4>1 DEF Promise, Goal!Next
    <3> QED BY <1>3, <3>1, <3>2
  <2> QED BY <2>5, <2>6, <2>7
<1>4. ASSUME NEW i \in DOMAIN dumps, RestoreDump(i)
      PROVE  InstallInv' /\ WorkerInv' /\ Promise
  <2>1. /\ ~alive /\ app = "stopped" /\ dumps[i].good /\ schema' = dumps[i].schema
        /\ UNCHANGED <<sidecarVars, origin, repo, images, live, app, dumps, stray>>
    BY <1>4 DEF RestoreDump
  <2>2. schema' \in GoodOf(dumps) /\ schema' \in Nat
    BY <1>0, <2>1, RevisionIs DEF GoodOf
  <2>3. HasDump'
    <3>1. schema' \in GoodOf(dumps)' /\ schema' =< schema'
      BY <2>1, <2>2 DEF GoodOf
    <3> QED BY <3>1 DEF HasDump, GoodOf
  <2>4. InstallInv'
    BY <1>0, <2>1, <2>2, <2>3 DEF InstallInv, InstallTypes
  <2>5. WorkerInv'
    <3>1. mem'.status # "running"
      BY <1>0, <2>1 DEF ChainInv, WorkerAlive, sidecarVars
    <3> QED BY <3>1 DEF WorkerInv, Ok
  <2>6. Goal!Restore
    BY <2>1, <2>2 DEF Goal!Restore, GoodOf
  <2> QED BY <2>4, <2>5, <2>6 DEF Promise, Goal!Next
<1>5. ASSUME NEW v \in stray, StrayEnds(v)
      PROVE  InstallInv' /\ WorkerInv' /\ Promise
  <2>1. /\ stray' \subseteq Versions /\ HasDump /\ v \in Versions
        /\ Revision[v] \in Nat
    BY <1>0, <1>5, RevisionIs DEF StrayEnds, InstallInv, InstallTypes
  <2>2. UNCHANGED <<sidecarVars, origin, repo, images, live, app, dumps>>
    BY <1>5 DEF StrayEnds
  <2>3. CASE schema' = schema
    <3>1. InstallInv' /\ Promise
      <4>1. HasDump'
        BY <2>1, <2>2, <2>3 DEF HasDump
      <4>2. InstallInv'
        BY <1>0, <2>1, <2>2, <2>3, <4>1 DEF InstallInv, InstallTypes
      <4>3. Promise
        BY <2>2, <2>3, Stutters
      <4> QED BY <4>2, <4>3
    <3>2. WorkerInv'
      BY <1>0, <1>1, <2>2, <2>3
    <3> QED BY <3>1, <3>2
  <2>4. CASE schema < Revision[v] /\ schema' = Revision[v]
    <3>1. WorkerInv'
      BY <1>0, <1>1, <2>1, <2>2, <2>4
    <3>2. InstallInv' /\ Promise
      <4>1. app' \in {"stopped", "starting", "ready", "serving"}
        BY <1>0, <2>2 DEF InstallTypes
      <4> QED BY <1>0, <2>1, <2>2, <2>4, <4>1, Migrated
    <3> QED BY <3>1, <3>2
  <2> QED BY <1>5, <2>3, <2>4 DEF StrayEnds
<1>6. CASE Release
  <2>1. origin' \in Versions /\ UNCHANGED <<sidecarVars, installVars>>
    BY <1>0, <1>6 DEF Release, InstallTypes, UpdateAssumption, Versions
  <2>2. HasDump' <=> HasDump
    BY <2>1 DEF HasDump, installVars
  <2>3. InstallInv'
    BY <1>0, <2>1, <2>2 DEF InstallInv, InstallTypes, installVars
  <2>4. WorkerInv'
    BY <1>0, <1>1, <2>1 DEF installVars
  <2>5. Promise
    BY <2>1, Stutters DEF installVars
  <2> QED BY <2>3, <2>4, <2>5
<1> QED BY <1>2, <1>3, <1>4, <1>5, <1>6 DEF Container, Operator

\* Every step keeps the invariant, and is one of Upgrade or none to it.
LEMMA UInvStep == UInv /\ [Next]_vars => UInv' /\ Promise
<1> SUFFICES ASSUME UInv, [Next]_vars PROVE UInv' /\ Promise
  OBVIOUS
<1>1. ChainInv'
  BY ChainStep DEF UInv
<1>2. CASE Next
  BY <1>1, <1>2, WorkerStep, OtherStep DEF Next, UInv
<1>3. CASE UNCHANGED vars
  <2>1. UNCHANGED <<origin, installVars>> /\ UNCHANGED sidecarVars
    BY <1>3 DEF vars
  <2>2. InstallInv' /\ Promise /\ (HasDump => HasDump')
    BY <2>1, CodeMoved DEF UInv, InstallInv, InstallTypes, installVars
  <2>3. WorkerInv'
    BY <2>1, <2>2 DEF UInv, WorkerInv, Ok, installVars, sidecarVars
  <2> QED BY <1>1, <2>2, <2>3 DEF UInv
<1> QED BY <1>2, <1>3

\* The states of the run and the parts of the installation keep their types.
THEOREM UpdateTypes == Spec => []TypeOK
<1>1. UInv => TypeOK
  BY DEF UInv, ChainInv, ChainTypes, InstallInv, InstallTypes, TypeOK
<1> QED BY <1>1, UInvInit, UInvStep, PTL DEF Spec

\* The update keeps the promises of module Upgrade for any releases, services and
\* retention, whatever step fails, is cut off or goes on behind the sidecar's
\* back: code goes live and serves only on a schema that has all it knows, and no
\* migration runs without a dump to go back to.
THEOREM UpdateImplementsUpgrade == Spec => ImplementsUpgrade
<1>1. UInv /\ [Next]_vars => [Goal!Next]_(Goal!vars)
  BY UInvStep DEF Promise
<1> QED BY <1>1, UInvInit, UInvStep, PTL DEF Spec, ImplementsUpgrade, Goal!Spec

-----------------------------------------------------------------------------
(* The dump of this run.                                                   *)

FreshDump == \E i \in DOMAIN dumps : dumps[i].good /\ dumps[i].fresh

\* Once the backup of a run has ended well, its dump stays.
FreshInv == Ok("backup") => FreshDump

\* The backup that ends well has its dump at the head, where no pruning reaches it.
LEMMA BackupIsFresh ==
  ASSUME dumps \in Seq(Dump), schema \in Nat, Backup
  PROVE  FreshDump'
<1> DEFINE x == TakenDump(TRUE)
           d == <<x>> \o dumps
<1>1. x \in Dump /\ x.good /\ x.fresh
  BY DEF TakenDump, Dump
<1> HIDE DEF x
<1>2. d \in Seq(Dump) /\ Len(d) \in Nat \ {0} /\ d[1] = x
  BY <1>1, Prepended
<1>3. dumps' \in {Pruned(d), d}
  BY DEF Backup, x
<1> HIDE DEF d
<1>4. 1 \in DOMAIN Pruned(d) /\ Pruned(d)[1] = d[1]
  <2>1. CASE Len(d) =< Retention
    BY <1>2, <2>1 DEF Pruned
  <2>2. CASE ~(Len(d) =< Retention)
    <3> DEFINE p == SubSeq(d, 1, Retention)
    <3>1. p \in Seq(Dump) /\ Len(p) = Retention /\ \A i \in 1..Retention : p[i] = d[i]
      BY <1>2, <2>2, SubSeqProperties, UpdateAssumption
    <3>2. Pruned(d) = p
      BY <2>2 DEF Pruned
    <3> HIDE DEF p
    <3> QED BY <3>1, <3>2, UpdateAssumption
  <2> QED BY <2>1, <2>2
<1>5. 1 \in DOMAIN dumps' /\ dumps'[1] = x
  BY <1>2, <1>3, <1>4
<1> QED BY <1>1, <1>5 DEF FreshDump

\* What the steps do to dumps and schema: only a backup adds dumps, and it moves no
\* schema.
LEMMA StepOnDumps ==
  ASSUME NEW n \in Steps, Run(n) \/ (\E whole : Cut(n, whole))
  PROVE  IF n = "backup" THEN schema' = schema ELSE dumps' = dumps
  BY StepsAre DEF Run, Cut, Preflight, Backup, CutBackup, Pull, CutPull, BuildOf, Migrate,
     CutMigrate, UpOf, installVars

\* A step moves the schema or the dumps, never both.
LEMMA OneOfBoth ==
  ASSUME [Next]_vars
  PROVE  schema' = schema \/ dumps' = dumps
<1>1. ASSUME NEW n \in Steps, EndStep(n) \/ FailStep(n) PROVE schema' = schema \/ dumps' = dumps
  BY <1>1, StepOnDumps DEF EndStep, FailStep
<1>2. CASE Crash
  BY <1>2, StepOnDumps DEF Crash, installVars
<1>3. CASE \/ StartRun \/ Begin \/ Finish \/ Retire \/ Release \/ UNCHANGED vars
           \/ \E n \in Steps : StartStep(n)
  BY <1>3 DEF StartRun, Begin, Finish, Retire, Release, StartStep, installVars, vars
<1>4. CASE Container \/ AppDies \/ Operator \/ \E v \in stray : StrayEnds(v)
  BY <1>4 DEF Container, Entrypoint, Serve, AppDies, Operator, StopApp, RestoreDump, StartApp, StrayEnds
<1> QED BY <1>1, <1>2, <1>3, <1>4 DEF Next, Worker

\* A run of a step that does not end one well has the backup behind it only if it
\* had it before.
LEMMA FreshStep == UInv /\ FreshInv /\ [Next]_vars => FreshInv'
<1> SUFFICES ASSUME UInv, FreshInv, [Next]_vars PROVE FreshInv'
  OBVIOUS
<1>0. "backup" \in Steps /\ mem \in State \union {NoState} /\ dumps \in Seq(Dump) /\ schema \in Nat
  BY StepsAre DEF UInv, ChainInv, ChainTypes, InstallInv, InstallTypes
<1>1. CASE mem' = mem /\ dumps' = dumps
  BY <1>1 DEF FreshInv, FreshDump, Ok
<1>2. CASE mem' = NoState
  BY <1>2 DEF FreshInv, Ok, NoState
<1>3. CASE Begin
  BY <1>0, <1>3 DEF Begin, WriteState, NewState, FreshInv, Ok
<1>4. ASSUME NEW n \in Steps, StartStep(n) PROVE FreshInv'
  <2>1. mem \in State /\ mem' = [mem EXCEPT !.steps[n] = "running"] /\ dumps' = dumps
    BY <1>0, <1>4, RunningIsState DEF StartStep, WriteState, installVars
  <2>2. mem'.status = mem.status /\ mem'.steps = [mem.steps EXCEPT ![n] = "running"]
    BY <2>1 DEF State
  <2>3. Ok("backup")' => Ok("backup")
    BY <1>0, <2>1, <2>2 DEF Ok, State
  <2> QED BY <2>1, <2>3 DEF FreshInv, FreshDump
<1>5. ASSUME NEW n \in Steps, EndStep(n) PROVE FreshInv'
  <2>1. mem \in State /\ mem' = [mem EXCEPT !.steps[n] = "ok"] /\ Run(n)
    BY <1>0, <1>5, RunningIsState DEF EndStep, WriteState, Running
  <2>2. CASE n = "backup"
    <3>1. Backup
      BY <2>1, <2>2 DEF Run
    <3> QED BY <1>0, <3>1, BackupIsFresh DEF FreshInv
  <2>3. CASE n # "backup"
    <3>1. mem'.status = mem.status /\ mem'.steps = [mem.steps EXCEPT ![n] = "ok"]
      BY <2>1 DEF State
    <3>2. Ok("backup")' => Ok("backup")
      BY <1>0, <2>1, <2>3, <3>1 DEF Ok, State
    <3>3. dumps' = dumps
      BY <2>1, <2>3, StepOnDumps
    <3> QED BY <3>2, <3>3 DEF FreshInv, FreshDump
  <2> QED BY <2>2, <2>3
<1>6. ASSUME NEW n \in Steps, FailStep(n) PROVE FreshInv'
  <2>1. mem \in State /\ mem' = [mem EXCEPT !.steps[n] = "failed", !.status = "failed"]
    BY <1>0, <1>6, RunningIsState DEF FailStep, WriteState, Running
  <2>2. mem'.status = "failed"
    BY <2>1 DEF State
  <2> QED BY <2>2 DEF FreshInv, Ok
<1>7. CASE Finish
  <2>1. mem \in State /\ mem' = [mem EXCEPT !.status = "done"]
    BY <1>0, <1>7, RunningIsState DEF Finish, WriteState
  <2>2. mem'.status = "done"
    BY <2>1 DEF State
  <2> QED BY <2>2 DEF FreshInv, Ok
<1>8. StartRun \/ Crash => mem' = NoState
  BY DEF StartRun, Crash
<1>9. Retire \/ Container \/ AppDies \/ Operator \/ (\E v \in stray : StrayEnds(v)) \/ Release \/ UNCHANGED vars
        => mem' = mem /\ dumps' = dumps
  BY DEF Retire, Container, Entrypoint, Serve, AppDies, Operator, StopApp, RestoreDump, StartApp, StrayEnds,
     Release, sidecarVars, installVars, vars
<1> QED BY <1>1, <1>2, <1>3, <1>4, <1>5, <1>6, <1>7, <1>8, <1>9 DEF Next, Worker

\* For any releases, services and retention: the schema moves during the migration
\* of a run, by its own step, a container start or a straggler, only while a
\* complete dump that this run has taken is there (orchestrator.py step_backup
\* before step_migrate).
THEOREM MigrationsHaveFreshDumps == Spec => MigratesWithFreshDump
<1> DEFINE Promised == Running("migrate") /\ schema' # schema
                         => \E i \in DOMAIN dumps' : dumps'[i].good /\ dumps'[i].fresh
<1>1. Init => FreshInv
  BY DEF Init, FreshInv, Ok, NoState
<1>2. UInv /\ FreshInv /\ [Next]_vars => [Promised]_vars
  <2> SUFFICES ASSUME UInv, FreshInv, [Next]_vars, Running("migrate"), schema' # schema
               PROVE  \E i \in DOMAIN dumps' : dumps'[i].good /\ dumps'[i].fresh
    OBVIOUS
  <2>1. Ok("backup")
    BY RunningFacts, StepsAre DEF Ok
  <2>2. dumps' = dumps
    BY OneOfBoth
  <2> QED BY <2>1, <2>2 DEF FreshInv, FreshDump
<1> QED BY <1>1, <1>2, UInvInit, UInvStep, FreshStep, PTL DEF Spec, MigratesWithFreshDump

-----------------------------------------------------------------------------
(* The schema of the database (Migrations).                                  *)

\* The schema as the revisions left it, before create_all filled it.
Base(version) == IF version = 0 THEN {} ELSE Chain[version]

MigPcs == {"down", "create", "stamp", "upgrade", "migrate", "lifespan", "init_db", "serving"}

MigTypes ==
    /\ migVersion \in 0..HeadRevision
    /\ migPc \in [Containers -> MigPcs]
    /\ migSeen \in [Containers -> 0..HeadRevision]
    /\ migMissing \in [Containers -> SUBSET TablesOf(Metadata)]
    /\ migForced \in 1..HeadRevision

\* Below head the schema is as the revisions left it, or create_all has filled it once,
\* which takes a start that skipped the migrations; at head it is that of the models.
MigSchema ==
    /\ migVersion = HeadRevision => migDb = Metadata
    /\ migVersion # HeadRevision =>
          \/ migDb = Base(migVersion)
          \/ migDb = Filled(Base(migVersion)) /\ (migVersion # 0 => migForced <= migVersion)

\* What a container on its way has decided upon.
MigStart(c) ==
    /\ migPc[c] \in {"create", "stamp"} => migVersion \in {0, HeadRevision}
    /\ migPc[c] = "stamp" => migDb = Metadata
    /\ migPc[c] \in {"upgrade", "migrate"} => migVersion # 0
    /\ migPc[c] = "migrate" => migSeen[c] # 0
    /\ migPc[c] \in {"lifespan", "init_db"} =>
          migVersion \in {0, HeadRevision} \/ migForced <= migVersion
    /\ migPc[c] \in {"create", "init_db"} /\ migVersion # HeadRevision =>
          /\ migMissing[c] \subseteq MissingTables(Base(migVersion))
          /\ migDb = Base(migVersion) => migMissing[c] = MissingTables(Base(migVersion))

MigInv == MigTypes /\ MigSchema /\ \A c \in Containers : MigStart(c)

\* create_all on an empty database makes the schema of the models.
LEMMA FilledFromNothing == Filled({}) = Metadata
  BY DEF Filled, ModelTables, MissingTables, TablesOf

\* What the revisions come to, as the steps use it.
LEMMA MigConstants ==
  /\ HeadRevision = 34 /\ Chain[HeadRevision] = Metadata
  /\ \A r \in 1..HeadRevision :
       /\ Upgraded(r, Chain[r]) = Metadata
       /\ Upgraded(r, Filled(Chain[r])) \in {Metadata, UpgradeFailed}
       /\ r >= 28 => Upgraded(r, Filled(Chain[r])) = Metadata
  BY RevisionsReachModels DEF HeadRevision

\* The number of revisions.
LEMMA HeadIs == HeadRevision = 34
  BY DEF HeadRevision

\* The same of one revision.
LEMMA FromRevision ==
  ASSUME NEW r \in 1..HeadRevision
  PROVE  /\ Upgraded(r, Chain[r]) = Metadata
         /\ Upgraded(r, Filled(Chain[r])) \in {Metadata, UpgradeFailed}
         /\ r >= 28 => Upgraded(r, Filled(Chain[r])) = Metadata
  BY MigConstants, Zenon

\* An empty database and one that the revisions built are as the invariant says.
LEMMA MigInvInit == MigInit => MigInv
<1> SUFFICES ASSUME MigInit PROVE MigInv
  OBVIOUS
<1>1. MigTypes
  BY MigrationsAssumption, MigConstants DEF MigInit, MigTypes, MigPcs
<1>2. MigSchema
  BY MigrationsAssumption, MigConstants DEF MigInit, MigSchema, Base
<1>3. \A c \in Containers : MigStart(c)
  BY DEF MigInit, MigStart
<1> QED BY <1>1, <1>2, <1>3 DEF MigInv

\* The transaction of create_all fills what the revisions left, and nothing else.
LEMMA CreateAllFills ==
  ASSUME MigInv, NEW c \in Containers, NEW next \in MigPcs, migPc[c] \in {"create", "init_db"},
         CreateAll(c, next), UNCHANGED <<migVersion, migForced>>
  PROVE  /\ MigSchema'
         /\ migDb = Metadata => migDb' = Metadata
         /\ migVersion # HeadRevision => (migDb' = Base(migVersion) => migDb = Base(migVersion))
         /\ migPc' = [migPc EXCEPT ![c] = "down"]
            \/ /\ migPc' = [migPc EXCEPT ![c] = next]
               /\ migPc[c] = "create" => migDb' = Metadata
<1>1. ModelTables(migMissing[c]) \subseteq Metadata
  BY DEF ModelTables
<1>2. CASE migDb' = migDb /\ migPc' = [migPc EXCEPT ![c] = "down"]
  BY <1>2 DEF MigInv, MigSchema, Base
<1>3. CASE migDb' = migDb \union ModelTables(migMissing[c]) /\ migPc' = [migPc EXCEPT ![c] = next]
  <2>1. migDb = Metadata => migDb' = Metadata
    BY <1>1, <1>3
  <2>2. CASE migVersion = HeadRevision
    BY <1>1, <1>3, <2>1, <2>2 DEF MigInv, MigSchema
  <2>3. CASE migVersion # HeadRevision
    <3> DEFINE base == Base(migVersion)
    <3>1. /\ migMissing[c] \subseteq MissingTables(base)
          /\ migDb = base => migMissing[c] = MissingTables(base)
      BY <2>3 DEF MigInv, MigStart
    <3>2. ModelTables(migMissing[c]) \subseteq ModelTables(MissingTables(base))
      BY <3>1 DEF ModelTables
    <3>3. migDb' = Filled(base) /\ (migDb # base => migDb' = migDb)
      BY <1>3, <2>3, <3>1, <3>2 DEF MigInv, MigSchema, Filled
    <3>4. migVersion # 0 => migForced <= migVersion
      BY <2>3, <3>3 DEF MigInv, MigSchema, MigStart, MigTypes
    <3>5. MigSchema'
      BY <2>3, <3>3, <3>4 DEF MigSchema, Base
    <3>6. migPc[c] = "create" => migDb' = Metadata
      BY <2>3, <3>3, FilledFromNothing DEF MigInv, MigStart, Base
    <3> QED BY <1>3, <2>1, <3>3, <3>5, <3>6
  <2> QED BY <2>2, <2>3
<1>4. CASE migMissing[c] = {} /\ migDb' = migDb /\ migPc' = [migPc EXCEPT ![c] = next]
  <2>1. migDb' = migDb \union ModelTables(migMissing[c])
    BY <1>4 DEF ModelTables
  <2> QED BY <1>3, <1>4, <2>1
<1> QED BY <1>2, <1>3, <1>4 DEF CreateAll

\* Every step preserves the invariant.
LEMMA MigInvStep == MigInv /\ [MigNext]_migVars => MigInv'
<1> SUFFICES ASSUME MigInv, [MigNext]_migVars PROVE MigInv'
  OBVIOUS
<1>1. ASSUME NEW c \in Containers, ProbeDatabase(c) PROVE MigInv'
  <2>1. MigTypes'
    BY <1>1 DEF ProbeDatabase, MigInv, MigTypes, MigPcs, MissingTables
  <2>2. MigSchema'
    BY <1>1 DEF ProbeDatabase, MigInv, MigSchema, Base
  <2>3. ASSUME NEW d \in Containers PROVE MigStart(d)'
    <3>1. CASE d # c
      BY <1>1, <3>1 DEF ProbeDatabase, MigInv, MigTypes, MigStart, Base
    <3>2. CASE d = c
      <4>1. migVersion # HeadRevision =>
              MissingTables(migDb) \subseteq MissingTables(Base(migVersion))
        BY DEF MigInv, MigSchema, MissingTables, Filled
      <4>2. /\ migPc'[c] = IF migVersion = 0 THEN "create" ELSE "upgrade"
            /\ migMissing'[c] = IF migVersion = 0 THEN MissingTables(migDb) ELSE {}
            /\ UNCHANGED <<migDb, migVersion>>
        BY <1>1 DEF ProbeDatabase, MigInv, MigTypes
      <4> QED BY <3>2, <4>1, <4>2 DEF MigStart, Base
    <3> QED BY <3>1, <3>2
  <2> QED BY <2>1, <2>2, <2>3 DEF MigInv
<1>2. ASSUME NEW c \in Containers, SkipMigrations(c) PROVE MigInv'
  <2>1. MigTypes'
    BY <1>2 DEF SkipMigrations, MigInv, MigTypes, MigPcs
  <2>2. migForced' <= migForced /\ (migVersion \in {0, HeadRevision} \/ migForced' <= migVersion)
    BY <1>2, MigConstants DEF SkipMigrations, MigInv, MigTypes
  <2>3. migForced \in Int /\ migForced' \in Int /\ migVersion \in Int
    BY <2>1 DEF MigInv, MigTypes
  <2>4. MigSchema'
    BY <1>2, <2>2, <2>3 DEF SkipMigrations, MigInv, MigSchema, Base
  <2>5. ASSUME NEW d \in Containers PROVE MigStart(d)'
    BY <1>2, <2>2, <2>3 DEF SkipMigrations, MigInv, MigTypes, MigStart, Base
  <2> QED BY <2>1, <2>4, <2>5 DEF MigInv
<1>3. ASSUME NEW c \in Containers, CreateSchemaFromModels(c) \/ InitDb(c) PROVE MigInv'
  <2>1. PICK next \in MigPcs :
          /\ CreateAll(c, next) /\ next \in {"stamp", "serving"}
          /\ (next = "stamp" => migPc[c] = "create")
          /\ migPc[c] \in {"create", "init_db"} /\ UNCHANGED <<migVersion, migSeen, migForced>>
    BY <1>3 DEF CreateSchemaFromModels, InitDb, MigPcs
  <2>2. /\ MigSchema' /\ (migDb = Metadata => migDb' = Metadata)
        /\ migVersion # HeadRevision => (migDb' = Base(migVersion) => migDb = Base(migVersion))
        /\ migPc' = [migPc EXCEPT ![c] = "down"]
            \/ /\ migPc' = [migPc EXCEPT ![c] = next]
               /\ migPc[c] = "create" => migDb' = Metadata
    BY <2>1, CreateAllFills
  <2>3. MigTypes'
    BY <2>1, <2>2 DEF CreateAll, MigInv, MigTypes, MigPcs
  <2>4. ASSUME NEW d \in Containers PROVE MigStart(d)'
    <3>1. migMissing' = [migMissing EXCEPT ![c] = {}]
      BY <2>1 DEF CreateAll
    <3>2. CASE d # c
      <4>1. migPc'[d] = migPc[d] /\ migMissing'[d] = migMissing[d]
        BY <2>2, <3>1, <3>2 DEF MigInv, MigTypes
      <4>2. MigStart(d)
        BY DEF MigInv
      <4> QED BY <2>1, <2>2, <4>1, <4>2 DEF MigStart, Base
    <3>3. CASE d = c
      <4>1. /\ migPc'[c] \in {"down", next}
            /\ migPc'[c] = "stamp" => migPc[c] = "create" /\ migDb' = Metadata
        BY <2>1, <2>2 DEF MigInv, MigTypes
      <4> QED BY <2>1, <3>3, <4>1 DEF MigInv, MigStart
    <3> QED BY <3>2, <3>3
  <2> QED BY <2>2, <2>3, <2>4 DEF MigInv
<1>4. ASSUME NEW c \in Containers, StampHead(c) PROVE MigInv'
  <2>1. MigTypes'
    BY <1>4, MigConstants DEF StampHead, MigInv, MigTypes, MigPcs
  <2>2. migDb = Metadata /\ migDb' = Metadata /\ migVersion' = HeadRevision
    BY <1>4 DEF StampHead, MigInv, MigStart
  <2>3. MigSchema'
    BY <2>2 DEF MigSchema
  <2>4. ASSUME NEW d \in Containers PROVE MigStart(d)'
    BY <1>4, <2>2, MigConstants DEF StampHead, MigInv, MigTypes, MigStart
  <2> QED BY <2>1, <2>3, <2>4 DEF MigInv
<1>5. ASSUME NEW c \in Containers, ReadVersion(c) PROVE MigInv'
  <2>1. MigTypes'
    BY <1>5 DEF ReadVersion, MigInv, MigTypes, MigPcs
  <2>2. MigSchema'
    BY <1>5 DEF ReadVersion, MigInv, MigSchema, Base
  <2>3. ASSUME NEW d \in Containers PROVE MigStart(d)'
    BY <1>5 DEF ReadVersion, MigInv, MigTypes, MigStart, Base
  <2> QED BY <2>1, <2>2, <2>3 DEF MigInv
<1>6. ASSUME NEW c \in Containers, UpgradeHead(c) PROVE MigInv'
  <2>1. PICK done \in {Upgraded(migSeen[c], migDb)} :
          /\ migPc[c] = "migrate" /\ migSeen' = [migSeen EXCEPT ![c] = 0]
          /\ \/ /\ migVersion = migSeen[c] /\ done # UpgradeFailed
                /\ migDb' = done /\ migVersion' = HeadRevision
                /\ migPc' = [migPc EXCEPT ![c] = "lifespan"]
             \/ migPc' = [migPc EXCEPT ![c] = "down"] /\ UNCHANGED <<migDb, migVersion>>
          /\ UNCHANGED <<migMissing, migForced>>
    BY <1>6 DEF UpgradeHead
  <2>2. MigTypes'
    BY <2>1, MigConstants DEF MigInv, MigTypes, MigPcs
  <2>3. CASE UNCHANGED <<migDb, migVersion>> /\ migPc' = [migPc EXCEPT ![c] = "down"]
    <3>1. MigSchema'
      BY <2>1, <2>3 DEF MigInv, MigSchema, Base
    <3>2. ASSUME NEW d \in Containers PROVE MigStart(d)'
      BY <2>1, <2>3 DEF MigInv, MigTypes, MigStart, Base
    <3> QED BY <2>2, <3>1, <3>2 DEF MigInv
  <2>4. CASE /\ migVersion = migSeen[c] /\ done # UpgradeFailed
             /\ migDb' = done /\ migVersion' = HeadRevision
             /\ migPc' = [migPc EXCEPT ![c] = "lifespan"]
    <3>1. migVersion \in 1..HeadRevision /\ done = Upgraded(migVersion, migDb)
      BY <2>1, <2>4, MigConstants DEF MigInv, MigTypes, MigStart
    <3>2. migDb = Chain[migVersion] \/ migDb = Filled(Chain[migVersion])
      BY <3>1, MigConstants DEF MigInv, MigSchema, Base
    <3>3. migDb' = Metadata
      <4>1. /\ Upgraded(migVersion, Chain[migVersion]) = Metadata
            /\ Upgraded(migVersion, Filled(Chain[migVersion])) \in {Metadata, UpgradeFailed}
        BY <3>1, FromRevision, Zenon
      <4>2. done \in {Metadata, UpgradeFailed}
        BY <3>1, <3>2, <4>1, Zenon
      <4> QED BY <2>4, <4>2
    <3>4. MigSchema'
      BY <2>4, <3>3 DEF MigSchema
    <3>5. ASSUME NEW d \in Containers PROVE MigStart(d)'
      BY <2>1, <2>4, <3>3, MigConstants DEF MigInv, MigTypes, MigStart
    <3> QED BY <2>2, <3>4, <3>5 DEF MigInv
  <2> QED BY <2>1, <2>3, <2>4
<1>7. ASSUME NEW c \in Containers, InitDbLook(c) PROVE MigInv'
  <2>1. MigTypes'
    BY <1>7 DEF InitDbLook, MigInv, MigTypes, MigPcs, MissingTables
  <2>2. MigSchema'
    BY <1>7 DEF InitDbLook, MigInv, MigSchema, Base
  <2>3. migVersion # HeadRevision => MissingTables(migDb) \subseteq MissingTables(Base(migVersion))
    BY DEF MigInv, MigSchema, MissingTables, Filled
  <2>4. ASSUME NEW d \in Containers PROVE MigStart(d)'
    <3>1. CASE d # c
      BY <1>7, <3>1 DEF InitDbLook, MigInv, MigTypes, MigStart, Base
    <3>2. CASE d = c
      <4>1. /\ migPc[c] = "lifespan" /\ migPc'[c] = "init_db"
            /\ migMissing'[c] = MissingTables(migDb)
            /\ UNCHANGED <<migDb, migVersion, migForced>>
        BY <1>7 DEF InitDbLook, MigInv, MigTypes
      <4> QED BY <2>3, <3>2, <4>1 DEF MigInv, MigStart, Base
    <3> QED BY <3>1, <3>2
  <2> QED BY <2>1, <2>2, <2>4 DEF MigInv
<1>8. ASSUME NEW c \in Containers, StopContainer(c) PROVE MigInv'
  <2>1. MigTypes'
    BY <1>8, HeadIs DEF StopContainer, MigInv, MigTypes, MigPcs
  <2>2. MigSchema'
    BY <1>8 DEF StopContainer, MigInv, MigSchema, Base
  <2>3. ASSUME NEW d \in Containers PROVE MigStart(d)'
    BY <1>8 DEF StopContainer, MigInv, MigTypes, MigStart, Base
  <2> QED BY <2>1, <2>2, <2>3 DEF MigInv
<1>9. CASE UNCHANGED migVars
  <2>1. MigTypes' /\ MigSchema'
    BY <1>9 DEF migVars, MigInv, MigTypes, MigSchema, Base
  <2>2. ASSUME NEW d \in Containers PROVE MigStart(d)'
    BY <1>9 DEF migVars, MigInv, MigStart, Base
  <2> QED BY <2>1, <2>2 DEF MigInv
<1> QED
  BY <1>1, <1>2, <1>3, <1>4, <1>5, <1>6, <1>7, <1>8, <1>9 DEF MigNext, StartContainer

\* For any containers and stops: the schema and what every start has decided upon, in the
\* middle of starts that race, fail and skip the migrations. The next two rest on it.
THEOREM SchemaTypes == MigSpec => []MigInv
  BY MigInvInit, MigInvStep, PTL DEF MigSpec

\* For any containers and stops, from an empty database or any revision: a database recorded
\* at head has exactly the objects of the models (migrate.py, models/__init__.py init_db).
THEOREM HeadMatches == MigSpec => []HeadMatchesModels
<1>1. MigInv => HeadMatchesModels
  BY DEF MigInv, MigSchema, HeadMatchesModels
<1> QED BY <1>1, SchemaTypes, PTL

\* Where no start skipped the migrations below revision 028, a statement never fails.
UpgradeGoesThrough ==
    migForced >= 28 =>
        \A c \in Containers :
            migPc[c] = "migrate" /\ migSeen[c] = migVersion =>
                Upgraded(migVersion, migDb) = Metadata

\* For the same: unless a start skipped the migrations below 028, an upgrade that meets the
\* version it has read leads to the schema of the models, and no statement of it fails.
THEOREM UpgradesGoThrough == MigSpec => []UpgradeGoesThrough
<1>1. MigInv => UpgradeGoesThrough
  <2> SUFFICES ASSUME MigInv, migForced >= 28, NEW c \in Containers, migPc[c] = "migrate"
               PROVE  Upgraded(migVersion, migDb) = Metadata
    BY DEF UpgradeGoesThrough
  <2>1. migVersion \in 1..HeadRevision /\ migForced \in Int
    BY MigConstants DEF MigInv, MigTypes, MigStart
  <2>2. migDb = Chain[migVersion] \/ (migDb = Filled(Chain[migVersion]) /\ migForced <= migVersion)
    BY <2>1, MigConstants DEF MigInv, MigSchema, Base
  <2>3. CASE migDb = Chain[migVersion]
    <3>1. Upgraded(migVersion, Chain[migVersion]) = Metadata
      BY <2>1, FromRevision, Zenon
    <3> QED BY <2>3, <3>1, Zenon
  <2>4. CASE migDb = Filled(Chain[migVersion]) /\ migForced <= migVersion
    <3>1. migVersion >= 28
      BY <2>1, <2>4
    <3>2. Upgraded(migVersion, Filled(Chain[migVersion])) = Metadata
      BY <2>1, <3>1, FromRevision, Zenon
    <3> QED BY <2>4, <3>2, Zenon
  <2> QED BY <2>2, <2>3, <2>4
<1> QED BY <1>1, SchemaTypes, PTL
=============================================================================
