------------------------------ MODULE ApiKeys ------------------------------
(***************************************************************************)
(* Keys of the REST API (backend/routers/api_v1.py, routers/settings/      *)
(* api_keys.py) and the nightly job that disables old ones (scheduler.py). *)
(* A key made by an early release is stored as a plain SHA-256; the first  *)
(* request that presents it replaces the hash by an HMAC.  The request     *)
(* looks it up twice, under either hash, and other requests, the job and   *)
(* the administrator act between its awaits.                               *)
(***************************************************************************)
EXTENDS Naturals

CONSTANTS
  KeySlots,    \* requests at a time
  KeyNames     \* keys

VARIABLES
  keyRow,      \* the table api_keys; a key without a row is Unstored
  keyReq,      \* where each request is
  keyJob,      \* the names cleanup_legacy_api_keys has selected, while it runs
  (* history *)
  keyUse,      \* the last use of a key: "since" revision 028, under a release "before", or none
  keyOld       \* that, when the job made its selection

keyHistory == <<keyUse, keyOld>>
keyVars == <<keyRow, keyReq, keyJob, keyHistory>>

Unstored == [hash |-> "none"]
NoRequest == [at |-> "idle"]
NoJob == [runs |-> FALSE, stale |-> {}]

\* A row has the hash of its release, and no algorithm before revision 028; aged: made more
\* than 30 days ago, recent: used within API_KEY_LAST_USED_RESOLUTION.
StoredKeys == [hash : {"sha256", "hmac"}, algo : {"none", "hmac"}, enabled : BOOLEAN,
               aged : BOOLEAN, recent : BOOLEAN]
NewKey == [hash |-> "hmac", algo |-> "hmac", enabled |-> TRUE, aged |-> FALSE, recent |-> FALSE]
EarlyKeys == {r \in StoredKeys : r.algo = "none" /\ r.enabled}
Uses == {"none", "before", "since"}

\* Revision 028 has just run: requests have used keys, some of them lately, and noted no
\* algorithm.
KeyInit ==
  /\ keyRow \in [KeyNames -> EarlyKeys \union {Unstored}]
  /\ keyUse \in [KeyNames -> {"none", "before"}]
  /\ \A k \in KeyNames : /\ keyRow[k] = Unstored => keyUse[k] = "none"
                         /\ keyRow[k] # Unstored /\ keyRow[k].recent => keyUse[k] = "before"
  /\ keyReq = [s \in KeySlots |-> NoRequest]
  /\ keyJob = NoJob
  /\ keyOld = [k \in KeyNames |-> "none"]

HasKey(k) == keyRow[k] # Unstored
Matches(k, hash) == HasKey(k) /\ keyRow[k].hash = hash /\ keyRow[k].enabled

-----------------------------------------------------------------------------
(* The administrator, and time.                                            *)

CreateApiKey(k) ==
  /\ ~HasKey(k)
  /\ keyRow' = [keyRow EXCEPT ![k] = NewKey]
  /\ UNCHANGED <<keyReq, keyJob, keyHistory>>

\* The key of a name is another one afterwards: nobody has used it yet.
DeleteApiKey(k) ==
  /\ HasKey(k)
  /\ keyRow' = [keyRow EXCEPT ![k] = Unstored]
  /\ keyUse' = [keyUse EXCEPT ![k] = "none"] /\ keyOld' = [keyOld EXCEPT ![k] = "none"]
  /\ keyJob' = [keyJob EXCEPT !.stale = @ \ {k}]
  /\ keyReq' = [s \in KeySlots |-> IF keyReq[s] # NoRequest /\ keyReq[s].key = k
                                   THEN NoRequest ELSE keyReq[s]]

\* It is 30 days old, or API_KEY_LAST_USED_RESOLUTION has passed since its last use.
KeyAges(k) ==
  /\ HasKey(k)
  /\ \/ keyRow' = [keyRow EXCEPT ![k].aged = TRUE]
     \/ keyRow' = [keyRow EXCEPT ![k].recent = FALSE]
  /\ UNCHANGED <<keyReq, keyJob, keyHistory>>

-----------------------------------------------------------------------------
(* require_api_key.                                                        *)

BeginUse(s, k) ==
  /\ keyReq[s] = NoRequest
  /\ keyReq' = [keyReq EXCEPT ![s] = [at |-> "hmac", key |-> k]]
  /\ UNCHANGED <<keyRow, keyJob, keyHistory>>

\* Mutant of Marked: the algorithm is noted only when the hash is replaced.
MarkedOnMigration(row) ==
  IF row.hash = "hmac" THEN row ELSE [row EXCEPT !.hash = "hmac", !.algo = "hmac"]

\* What the request makes of the row it has found.
Marked(row) == [row EXCEPT !.hash = "hmac", !.algo = "hmac"]

\* One of the two lookups.  What is found is written back with the next await.
LookUpKey(s) ==
  /\ keyReq[s].at \in {"hmac", "sha256"}
  /\ LET k == keyReq[s].key
         at == keyReq[s].at
     IN  keyReq' = [keyReq EXCEPT ![s] =
           IF Matches(k, at) THEN [at |-> "found", key |-> k, row |-> keyRow[k]]
           ELSE IF at = "hmac" THEN [at |-> "sha256", key |-> k]
           ELSE NoRequest]
  /\ UNCHANGED <<keyRow, keyJob, keyHistory>>

\* The commit writes the columns that differ from the row that was read, `was`.
Committed(row, was) ==
  LET new == [Marked(was) EXCEPT !.recent = TRUE]
  IN  [row EXCEPT !.hash = IF new.hash # was.hash THEN new.hash ELSE @,
                  !.algo = IF new.algo # was.algo THEN new.algo ELSE @,
                  !.recent = IF ~was.recent THEN TRUE ELSE @]

Authenticate(s) ==
  /\ keyReq[s].at = "found"
  /\ keyRow' = [keyRow EXCEPT ![keyReq[s].key] = Committed(@, keyReq[s].row)]
  /\ keyUse' = [keyUse EXCEPT ![keyReq[s].key] = "since"]
  /\ keyReq' = [keyReq EXCEPT ![s] = NoRequest]
  /\ UNCHANGED <<keyJob, keyOld>>

-----------------------------------------------------------------------------
(* cleanup_legacy_api_keys.                                                *)

Stale == {k \in KeyNames : HasKey(k) /\ keyRow[k].algo = "none"
                           /\ keyRow[k].enabled /\ keyRow[k].aged}

SelectStaleKeys ==
  /\ ~keyJob.runs
  /\ Stale # {}
  /\ keyJob' = [runs |-> TRUE, stale |-> Stale]
  /\ keyOld' = keyUse
  /\ UNCHANGED <<keyRow, keyReq, keyUse>>

\* The update names the rows by id: it does not look at them again.
DisableStaleKeys ==
  /\ keyJob.runs
  /\ keyRow' = [k \in KeyNames |-> IF k \in keyJob.stale THEN [keyRow[k] EXCEPT !.enabled = FALSE]
                                   ELSE keyRow[k]]
  /\ keyJob' = NoJob
  /\ UNCHANGED <<keyReq, keyHistory>>

KeyNext ==
  \/ \E k \in KeyNames : CreateApiKey(k) \/ DeleteApiKey(k) \/ KeyAges(k)
  \/ \E s \in KeySlots : (\E k \in KeyNames : BeginUse(s, k)) \/ LookUpKey(s) \/ Authenticate(s)
  \/ SelectStaleKeys \/ DisableStaleKeys

KeySpec == KeyInit /\ [][KeyNext]_keyVars

-----------------------------------------------------------------------------
(* Properties.                                                             *)

\* "any row that is still NULL after 30d is either abandoned or unused" (scheduler.py:
\* cleanup_legacy_api_keys).  What holds of it: however requests, deletions and the job
\* overlap, it disables no key that a request had used since revision 028 before it looked.
\* It goes by the age of the key alone: one whose last use was "before" may be in use, and
\* goes the first night.
UsedKeysStayEnabled ==
  [][\A k \in KeyNames :
       HasKey(k) /\ keyRow[k].enabled /\ keyRow'[k] # Unstored /\ ~keyRow'[k].enabled
         => keyOld[k] # "since"]_keyVars
=============================================================================
