--------------------------- MODULE SharedCounters ---------------------------
(***************************************************************************)
(* The request counters of backend/services/shared_state.py and the rate   *)
(* limits of backend/ratelimit.py that rest on them.  Without REDIS_URL a  *)
(* key has the times of its hits in memory, and check and record are one   *)
(* step; with it the hits are counted in Redis, one counter for each       *)
(* window-long bucket, both calls are awaited, and a call that fails falls *)
(* back to the memory of the process.                                      *)
(***************************************************************************)
EXTENDS Naturals, FiniteSets

CONSTANTS ShrKeys,       \* endpoint and client address
          ShrWindow,     \* window_seconds of each, in ticks
          ShrMax,        \* max_requests of each
          ShrSlots,      \* requests handled at a time
          ShrCleanup,    \* ticks between two cleanups (5 minutes)
          ShrLongest,    \* the longest window: older hits are in no count
          ShrOutages     \* bound: outages of Redis

NoKey == "none"

ASSUME ShrAssumption ==
    /\ ShrLongest \in Nat /\ IsFiniteSet(ShrSlots) /\ NoKey \notin ShrKeys
    /\ ShrWindow \in [ShrKeys -> 1..ShrLongest] /\ ShrMax \in [ShrKeys -> Nat \ {0}]

VARIABLES shrRedis,      \* REDIS_URL is set
          shrUp,         \* Redis answers
          shrHits,       \* _hits: the hits of each key, each its age and its number
                         \* among those of one age
          shrPhase,      \* ticks since the present bucket of each key began
          shrBucket,     \* the counters in Redis of the present buckets
          shrCleaned,    \* the age of _last_cleanup
          shrWaiting,    \* per request: the key it was checked for, or NoKey
          shrAdmitted,   \* history: the requests let through, as in shrHits
          shrSteady,     \* history: ticks since Redis last failed or came back
          shrFailed

shrVars == <<shrRedis, shrUp, shrHits, shrPhase, shrBucket, shrCleaned, shrWaiting, shrAdmitted, shrSteady,
             shrFailed>>

Nothing == [k \in ShrKeys |-> {}]

ShrInit ==
    /\ shrRedis \in BOOLEAN /\ shrUp = shrRedis
    /\ shrHits = Nothing /\ shrAdmitted = Nothing
    /\ shrPhase = [k \in ShrKeys |-> 0] /\ shrBucket = shrPhase
    /\ shrWaiting = [s \in ShrSlots |-> NoKey]
    /\ shrCleaned = 0 /\ shrFailed = 0 /\ shrSteady = ShrLongest

-----------------------------------------------------------------------------
\* The hits of the last window.
InWindow(hits, k) == {h \in hits[k] : h[1] < ShrWindow[k]}

\* window_count
WindowCount(k) == IF shrUp THEN shrBucket[k] ELSE Cardinality(InWindow(shrHits, k))

\* Mutant of Forgotten: the keys are judged by one window, not by two.
ForgottenEarly(k, w) == \A h \in shrHits[k] : h[1] >= w

\* _cleanup_locked drops every key without a hit in two windows of the caller.
Forgotten(k, w) == \A h \in shrHits[k] : h[1] >= 2 * w

\* One hit more, at this moment.
Hit(hits) == hits \cup {<<0, Cardinality({h \in hits : h[1] = 0}) + 1>>}

\* incr_window
CountHit(k) ==
    IF shrUp
    THEN /\ shrBucket' = [shrBucket EXCEPT ![k] = @ + 1]
         /\ UNCHANGED <<shrHits, shrCleaned>>
    ELSE LET due == shrCleaned > ShrCleanup
             kept == [j \in ShrKeys |-> IF due /\ Forgotten(j, ShrWindow[k]) THEN {} ELSE shrHits[j]]
         IN  /\ shrHits' = [kept EXCEPT ![k] = Hit(@)]
             /\ shrCleaned' = IF due THEN 0 ELSE shrCleaned
             /\ UNCHANGED shrBucket

LetThrough(k) == shrAdmitted' = [shrAdmitted EXCEPT ![k] = Hit(@)]

\* rate_limit and is_limited in memory: nothing runs between check and record.
ServeRequest(k) ==
    /\ ~shrRedis
    /\ WindowCount(k) < ShrMax[k]
    /\ CountHit(k) /\ LetThrough(k)
    /\ UNCHANGED <<shrRedis, shrUp, shrWaiting, shrSteady, shrFailed, shrPhase>>

\* rate_limit with Redis: the check ...
CheckRequest(s, k) ==
    /\ shrRedis
    /\ shrWaiting[s] = NoKey
    /\ WindowCount(k) < ShrMax[k]
    /\ shrWaiting' = [shrWaiting EXCEPT ![s] = k]
    /\ UNCHANGED <<shrRedis, shrUp, shrHits, shrBucket, shrCleaned, shrAdmitted, shrSteady, shrFailed, shrPhase>>

\* ... and the record, after which the handler runs.
RecordRequest(s) ==
    /\ shrWaiting[s] # NoKey
    /\ CountHit(shrWaiting[s]) /\ LetThrough(shrWaiting[s])
    /\ shrWaiting' = [shrWaiting EXCEPT ![s] = NoKey]
    /\ UNCHANGED <<shrRedis, shrUp, shrSteady, shrFailed, shrPhase>>

RedisFails ==
    /\ shrRedis /\ shrUp /\ shrFailed < ShrOutages
    /\ shrUp' = FALSE /\ shrSteady' = 0 /\ shrFailed' = shrFailed + 1
    /\ UNCHANGED <<shrRedis, shrHits, shrBucket, shrCleaned, shrWaiting, shrAdmitted, shrPhase>>
RedisReturns ==
    /\ shrRedis /\ ~shrUp
    /\ shrUp' = TRUE /\ shrSteady' = 0
    /\ UNCHANGED <<shrRedis, shrHits, shrBucket, shrCleaned, shrWaiting, shrAdmitted, shrFailed, shrPhase>>

Aged(hits) == [k \in ShrKeys |-> {<<h[1] + 1, h[2]>> : h \in {g \in hits[k] : g[1] + 1 < ShrLongest}}]

\* A request that was checked is recorded within a tick.
ShrTick ==
    /\ shrWaiting = [s \in ShrSlots |-> NoKey]
    /\ shrPhase' = [k \in ShrKeys |-> IF shrPhase[k] + 1 = ShrWindow[k] THEN 0 ELSE shrPhase[k] + 1]
    /\ shrHits' = Aged(shrHits) /\ shrAdmitted' = Aged(shrAdmitted)
    /\ shrBucket' = [k \in ShrKeys |-> IF shrPhase'[k] = 0 THEN 0 ELSE shrBucket[k]]
    /\ shrCleaned' = IF shrCleaned > ShrCleanup THEN shrCleaned ELSE shrCleaned + 1
    /\ shrSteady' = IF shrSteady < ShrLongest THEN shrSteady + 1 ELSE ShrLongest
    /\ UNCHANGED <<shrRedis, shrUp, shrWaiting, shrFailed>>

ShrNext ==
    \/ \E k \in ShrKeys : ServeRequest(k) \/ \E s \in ShrSlots : CheckRequest(s, k)
    \/ \E s \in ShrSlots : RecordRequest(s)
    \/ RedisFails \/ RedisReturns \/ ShrTick

ShrSpec == ShrInit /\ [][ShrNext]_shrVars

-----------------------------------------------------------------------------
(* Properties                                                                *)

ShrTypeOK ==
    /\ shrUp => shrRedis
    /\ (\A k \in ShrKeys : shrPhase[k] \in 0..ShrWindow[k] - 1) /\ shrCleaned \in 0..ShrCleanup + 1
    /\ \A s \in ShrSlots : shrWaiting[s] \in ShrKeys \union {NoKey}

\* How many requests of a key get through in one window: in memory never more
\* than the limit, unless a cleanup by a caller with less than half the window
\* forgets them; with Redis, unless it failed or came back in that time, never
\* more than two buckets hold, each filled and then exceeded by the requests
\* between check and record.
AdmissionsBounded ==
    \A k \in ShrKeys :
        \/ ~shrRedis /\ \E j \in ShrKeys : ShrWindow[k] > 2 * ShrWindow[j]
        \/ shrRedis /\ (~shrUp \/ shrSteady < ShrWindow[k])
        \/ Cardinality(InWindow(shrAdmitted, k))
             <= IF shrRedis THEN 2 * (ShrMax[k] + Cardinality(ShrSlots) - 1) ELSE ShrMax[k]
=============================================================================
