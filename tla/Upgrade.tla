------------------------------ MODULE Upgrade ------------------------------
(***************************************************************************)
(* What an update promises to the installation, without the sidecar, its   *)
(* steps and its state file: the database is migrated before the code that *)
(* needs it goes live, there is always a dump to fall back on once a       *)
(* migration has run, and the application serves only on a schema that has *)
(* everything its code expects.                                            *)
(***************************************************************************)
EXTENDS Naturals

CONSTANTS
  Versions,     \* releases of the code
  Revision,     \* release -> the newest schema revision it knows
  FirstVersion  \* the release installed at first

VARIABLES
  live,         \* the release the backend container was made from
  serving,      \* it answers requests
  schema,       \* the revision of the database
  saved         \* the revisions of which a restorable dump exists

vars == <<live, serving, schema, saved>>

Init ==
  /\ live = FirstVersion
  /\ serving = TRUE
  /\ schema = Revision[FirstVersion]
  /\ saved = {}

\* A dump is taken; older ones may go.
Save ==
  /\ \E S \in SUBSET saved : saved' = S \union {schema}
  /\ UNCHANGED <<live, serving, schema>>

\* The schema moves forward, from where a dump can bring it back.
Migrate ==
  /\ \E r \in saved : r =< schema
  /\ \E v \in Versions : schema < Revision[v] /\ schema' = Revision[v]
  /\ UNCHANGED <<live, serving, saved>>

GoLive ==
  /\ \E v \in Versions : Revision[v] =< schema /\ live' = v
  /\ serving' = FALSE
  /\ UNCHANGED <<schema, saved>>

Serve ==
  /\ Revision[live] =< schema
  /\ serving' = TRUE
  /\ UNCHANGED <<live, schema, saved>>

Stop ==
  /\ serving' = FALSE
  /\ UNCHANGED <<live, schema, saved>>

\* An operator restores a dump into the stopped installation.
Restore ==
  /\ ~serving
  /\ schema' \in saved
  /\ UNCHANGED <<live, serving, saved>>

Next == Save \/ Migrate \/ GoLive \/ Serve \/ Stop \/ Restore

Spec == Init /\ [][Next]_vars
=============================================================================
