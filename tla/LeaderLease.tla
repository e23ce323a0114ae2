----------------------------- MODULE LeaderLease -----------------------------
(***************************************************************************)
(* Scheduler leadership: with REDIS_URL set, every backend instance runs   *)
(* _leadership_loop (backend/scheduler.py), which acquires or renews one   *)
(* lease in Redis (services/shared_state.py) every _LEADER_RENEW_SECONDS   *)
(* and resumes or pauses its scheduler.  Calls to Redis may fail before or *)
(* after they took effect, an instance may be slow, die and come back, and *)
(* pausing a scheduler does not stop the job that is running.              *)
(*                                                                         *)
(* Time is what is left of the lease and of each sleep, counted down by    *)
(* Tick: no clock value is compared between instances.                     *)
(***************************************************************************)
EXTENDS Naturals

CONSTANTS
  Instances,    \* the instance ids (hostname:pid)
  Nobody,       \* holder of a free lease
  TTL,          \* _LEADER_TTL_SECONDS
  Renew         \* _LEADER_RENEW_SECONDS

ASSUME LeaseAssumption ==
  /\ Nobody \notin Instances
  /\ TTL \in Nat \ {0}
  /\ Renew \in Nat \ {0}

VARIABLES
  (* Redis *)
  holder,       \* value of the lease key
  left,         \* what is left of its TTL
  (* instances *)
  lsePhase,        \* where the loop is; "down" without a process
  wake,         \* what is left of its sleep
  leader,       \* _is_leader: the scheduler is resumed
  job,          \* a job is running
  (* history *)
  age,          \* time since Redis last granted the lease to the instance
  calm          \* time since the latest disturbance: see Settled

instanceVars == <<lsePhase, wake, leader, job>>
lseVars == <<holder, left, instanceVars, age, calm>>

\* A disturbance is a process that starts or ends, a call to Redis that fails, or
\* a loop that is late.  The handover after it takes up to one TTL and one renew
\* period.
Settled == TTL + Renew

LseInit ==
  /\ holder = Nobody /\ left = 0
  /\ lsePhase = [i \in Instances |-> "down"]
  /\ wake = [i \in Instances |-> 0]
  /\ leader = [i \in Instances |-> FALSE]
  /\ job = [i \in Instances |-> FALSE]
  /\ age = [i \in Instances |-> TTL]
  /\ calm = 0

-----------------------------------------------------------------------------
(* The loop.                                                               *)

\* start_scheduler starts paused and creates the loop.
Start(i) ==
  /\ lsePhase[i] = "down"
  /\ lsePhase' = [lsePhase EXCEPT ![i] = "asleep"]
  /\ wake' = [wake EXCEPT ![i] = 0]
  /\ calm' = 0
  /\ UNCHANGED <<holder, left, leader, job, age>>

Ask(i) ==
  /\ lsePhase[i] = "asleep"
  /\ wake[i] = 0
  /\ lsePhase' = [lsePhase EXCEPT ![i] = "asked"]
  /\ UNCHANGED <<holder, left, wake, leader, job, age, calm>>

\* Mutant of Grantable: an instance that leads renews without asking who holds.
GrantableToHolder(i) == holder \in {Nobody, i} \/ leader[i]

\* _ACQUIRE_LUA: the lease is free or already held by the caller.
Grantable(i) == holder \in {Nobody, i}

Grant(i) ==
  /\ lsePhase[i] = "asked"
  /\ Grantable(i)
  /\ holder' = i
  /\ left' = TTL
  /\ age' = [age EXCEPT ![i] = 0]
  /\ lsePhase' = [lsePhase EXCEPT ![i] = "granted"]
  /\ UNCHANGED <<wake, leader, job, calm>>

Refuse(i) ==
  /\ lsePhase[i] = "asked"
  /\ ~Grantable(i)
  /\ lsePhase' = [lsePhase EXCEPT ![i] = "refused"]
  /\ UNCHANGED <<holder, left, wake, leader, job, age, calm>>

Sleep(i) ==
  /\ lsePhase' = [lsePhase EXCEPT ![i] = "asleep"]
  /\ wake' = [wake EXCEPT ![i] = Renew]

\* _apply_leadership: resume or pause; a running job is not waited for.
Apply(i) == leader' = [leader EXCEPT ![i] = lsePhase[i] = "granted"]

Answer(i) ==
  /\ lsePhase[i] \in {"granted", "refused"}
  /\ Apply(i)
  /\ Sleep(i)
  /\ UNCHANGED <<holder, left, job, age, calm>>

\* The call raises, whether or not the script ran: leadership is kept.
Lost(i) ==
  /\ lsePhase[i] \in {"asked", "granted", "refused"}
  /\ Sleep(i)
  /\ calm' = 0
  /\ UNCHANGED <<holder, left, leader, job, age>>

\* The process ends: shutdown leaves the lease to its TTL, as a crash does.
Die(i) ==
  /\ lsePhase[i] # "down"
  /\ lsePhase' = [lsePhase EXCEPT ![i] = "down"]
  /\ wake' = [wake EXCEPT ![i] = 0]
  /\ leader' = [leader EXCEPT ![i] = FALSE]
  /\ job' = [job EXCEPT ![i] = FALSE]
  /\ calm' = 0
  /\ UNCHANGED <<holder, left, age>>

StartJob(i) ==
  /\ leader[i]
  /\ ~job[i]
  /\ job' = [job EXCEPT ![i] = TRUE]
  /\ UNCHANGED <<holder, left, lsePhase, wake, leader, age, calm>>

EndJob(i) ==
  /\ job[i]
  /\ job' = [job EXCEPT ![i] = FALSE]
  /\ UNCHANGED <<holder, left, lsePhase, wake, leader, age, calm>>

-----------------------------------------------------------------------------
(* Time.                                                                   *)

Up == {i \in Instances : lsePhase[i] # "down"}

\* Every loop is asleep with time left: none waits for Redis or for the CPU.
Punctual == \A i \in Up : lsePhase[i] = "asleep" /\ wake[i] > 0

\* Mutant of Expired: the TTL is set when the key is created and never runs out.
NeverExpired == FALSE

Expired == left =< 1

Down(n) == IF n = 0 THEN 0 ELSE n - 1

Tick ==
  /\ left' = Down(left)
  /\ holder' = IF Expired THEN Nobody ELSE holder
  /\ wake' = [i \in Instances |-> Down(wake[i])]
  /\ age' = [i \in Instances |-> IF age[i] < TTL THEN age[i] + 1 ELSE TTL]
  /\ calm' = IF ~Punctual THEN 0
             ELSE IF calm < Settled THEN calm + 1 ELSE Settled
  /\ UNCHANGED <<lsePhase, leader, job>>

Loop(i) == Ask(i) \/ Grant(i) \/ Refuse(i) \/ Answer(i)

LseNext ==
  \/ \E i \in Instances :
       \/ Start(i) \/ Loop(i) \/ Lost(i) \/ Die(i)
       \/ StartJob(i) \/ EndJob(i)
  \/ Tick

LseSpec == LseInit /\ [][LseNext]_lseVars

-----------------------------------------------------------------------------
(* Properties.                                                             *)

\* Every variable has its type, and the lease has a holder as long as it has time.
LseTypeOK ==
  /\ holder \in Instances \union {Nobody}
  /\ left \in 0..TTL
  /\ lsePhase \in [Instances -> {"down", "asleep", "asked", "granted", "refused"}]
  /\ wake \in [Instances -> 0..Renew]
  /\ leader \in [Instances -> BOOLEAN]
  /\ job \in [Instances -> BOOLEAN]
  /\ age \in [Instances -> 0..TTL]
  /\ calm \in 0..Settled
  /\ holder = Nobody <=> left = 0

\* The instances whose scheduler runs.
Leaders == {i \in Instances : leader[i]}

\* "Never grant leadership to everyone (split-brain)": of two schedulers that
\* run at a time, one belongs to an instance whose lease has run out.
OverlapOnlyAfterExpiry ==
  \A i, j \in Leaders : i # j => age[i] = TTL \/ age[j] = TTL

\* "A genuinely dead leader frees the lease via its TTL": once nothing has gone
\* wrong for one TTL and one renew period, exactly one instance leads, if any is
\* up, and the lease is its own.
Converges ==
  calm = Settled /\ Up # {} => Leaders = {holder}

=============================================================================
