--------------------------- MODULE IncidentStore ---------------------------
(***************************************************************************)
(* The `incidents` table of the backend (models/incident.py) and the       *)
(* editor requests of routers/api_v1.py that write it.                     *)
(*                                                                         *)
(* A row is found again by its rule and by the hash of its affected hosts  *)
(* (`host_ids_hash`); the hash is modelled as the set of hosts itself.     *)
(* There is no unique constraint on that pair: keeping one active row per  *)
(* pair is up to the writers.                                              *)
(*                                                                         *)
(* Rows live in Slots: the active ones, and the resolved ones a request    *)
(* still holds.  A resolved row nobody holds is history that no writer     *)
(* reads again; it is forgotten and its slot is free for the next INSERT.  *)
(* Slots thus bounds how many rows are active or held at a time, not how   *)
(* many incidents ever exist.                                              *)
(***************************************************************************)
EXTENDS Naturals, FiniteSets

CONSTANTS
  Hosts,        \* ids of the monitored hosts (PingHost.id)
  Slots,        \* places for incident rows
  Editors,      \* API clients with the editor role
  NoSlot,       \* an editor without a request in flight
  StaleAfter    \* correlation periods without an update: the 10 minutes of
                \* _auto_resolve, counted in 60 s runs

ASSUME StoreAssumption ==
  /\ IsFiniteSet(Hosts)
  /\ NoSlot \notin Slots
  /\ StaleAfter \in Nat \ {0}

VARIABLES
  rows,         \* the committed rows
  held          \* per editor: the incident its acknowledgement has read

storeVars == <<rows, held>>

HostRules == {"host_down_syslog", "upstream_failure", "multi_host_down",
              "integration_host", "port_error"}

\* The rules _auto_resolve closes by silence alone.
TimedRules == {"syslog_spike", "log_anomaly", "fleet_wide_issue",
               "severity_trend", "content_anomaly", "learned_precursor"}

Key == [rule : HostRules \union TimedRules, hosts : SUBSET Hosts]

NoKey == [rule |-> "none", hosts |-> {}]

ActiveStatus == {"open", "acknowledged"}

\* `closed` is resolved_at IS NOT NULL; `quiet` is the age of updated_at.
Row == [key    : Key \union {NoKey},
        status : ActiveStatus \union {"absent", "resolved"},
        closed : BOOLEAN,
        quiet  : 0..StaleAfter]

NoRow == [key |-> NoKey, status |-> "absent", closed |-> FALSE, quiet |-> 0]

NewRow(k) == [key |-> k, status |-> "open", closed |-> FALSE, quiet |-> 0]

Resolved(r) == [r EXCEPT !.status = "resolved", !.closed = TRUE, !.quiet = 0]

Acknowledged(r) == [r EXCEPT !.status = "acknowledged", !.quiet = 0]

\* Mutant of Updated: a new event opens the incident again.
UpdatedReopens(r) == [r EXCEPT !.quiet = 0, !.status = "open"]

Updated(r) == [r EXCEPT !.quiet = 0]

IsActive(r) == r.status \in ActiveStatus

StoreTypeOK ==
  /\ rows \in [Slots -> Row]
  /\ held \in [Editors -> Slots \union {NoSlot}]

StoreInit ==
  /\ rows = [i \in Slots |-> NoRow]
  /\ held = [e \in Editors |-> NoSlot]

\* The rows of f that can still matter, when requests hold h.
Remembered(f, h) ==
  [i \in Slots |->
     IF IsActive(f[i]) \/ \E e \in Editors : h[e] = i THEN f[i] ELSE NoRow]

-----------------------------------------------------------------------------
(***************************************************************************)
(* Requests.  `locked` is the set of rows another transaction has written  *)
(* and not committed: an UPDATE of such a row waits.                       *)
(***************************************************************************)

\* POST /incidents/{id}/acknowledge up to the await of the request's body: a
\* resolved incident is refused with 400.
ReadForAcknowledge(e, i) ==
  /\ held[e] = NoSlot
  /\ IsActive(rows[i])
  /\ held' = [held EXCEPT ![e] = i]
  /\ UNCHANGED rows

\* The rest of the request.  The status read above is not read again: the
\* UPDATE finds its row by primary key alone.
CommitAcknowledge(e, locked) ==
  /\ held[e] # NoSlot
  /\ held[e] \notin locked
  /\ rows' = [rows EXCEPT ![held[e]] = Acknowledged(@)]
  /\ held' = [held EXCEPT ![e] = NoSlot]

\* The body never arrives: the session is closed without a commit.
DropAcknowledge(e) ==
  /\ held[e] # NoSlot
  /\ held' = [held EXCEPT ![e] = NoSlot]
  /\ rows' = Remembered(rows, held')

\* POST /incidents/{id}/resolve, whatever the status is.
ResolveByEditor(i, locked) ==
  /\ Editors # {}
  /\ i \notin locked
  /\ rows[i].status # "absent"
  /\ rows' = Remembered([rows EXCEPT ![i] = Resolved(@)], held)
  /\ UNCHANGED held

\* POST /incidents/{id}/feedback: the verdict bumps updated_at.
LabelByEditor(i, locked) ==
  /\ Editors # {}
  /\ i \notin locked
  /\ IsActive(rows[i])
  /\ rows' = [rows EXCEPT ![i] = Updated(@)]
  /\ UNCHANGED held

EditorStep(locked) ==
  \/ \E e \in Editors, i \in Slots : ReadForAcknowledge(e, i)
  \/ \E e \in Editors : CommitAcknowledge(e, locked)
  \/ \E e \in Editors : DropAcknowledge(e)
  \/ \E i \in Slots : ResolveByEditor(i, locked)
  \/ \E i \in Slots : LabelByEditor(i, locked)
=============================================================================
