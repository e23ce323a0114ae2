-------------------------- MODULE LeaderLeaseProofs --------------------------
(***************************************************************************)
(* For any number of instances, any lease and any renew period: the types  *)
(* of LeaderLease, that of two leaders one holds no lease any more, and    *)
(* that exactly the holder leads once nothing has gone wrong for a while.  *)
(* What makes the first inductive is that the time since a grant and what  *)
(* is left of the lease add up to its TTL for as long as the grant counts. *)
(***************************************************************************)
EXTENDS LeaderLease, TLAPS

GrantCounts ==
  \A i \in Instances : age[i] < TTL => holder = i /\ left = TTL - age[i]

IInv == LseTypeOK /\ GrantCounts

\* No lease has been granted yet.
LEMMA IInvInit == LseInit => IInv
  BY LeaseAssumption DEF LseInit, IInv, LseTypeOK, GrantCounts, Settled

\* What leaves Redis and the time of the grants alone keeps GrantCounts.
LEMMA LeaseUntouched ==
  GrantCounts /\ UNCHANGED <<holder, left, age>> => GrantCounts'
  BY DEF GrantCounts

\* The loop of one instance: only a grant makes a lease young, and it makes its
\* holder.
LEMMA LoopStep ==
  ASSUME IInv, NEW i \in Instances, Loop(i)
  PROVE  IInv'
<1> USE LeaseAssumption
<1> USE DEF LseTypeOK, Settled, IInv
<1>1. CASE Ask(i)
  BY <1>1, LeaseUntouched DEF Ask
<1>2. CASE Grant(i)
  <2>1. LseTypeOK'
    BY <1>2 DEF Grant, Grantable
  <2>2. \A j \in Instances \ {i} : ~(age[j] < TTL)
    BY <1>2 DEF Grant, Grantable, GrantCounts
  <2>3. age' = [age EXCEPT ![i] = 0] /\ holder' = i /\ left' = TTL
    BY <1>2 DEF Grant
  <2>4. GrantCounts'
    BY <2>2, <2>3 DEF GrantCounts
  <2> QED BY <2>1, <2>4
<1>3. CASE Refuse(i)
  BY <1>3, LeaseUntouched DEF Refuse
<1>4. CASE Answer(i)
  BY <1>4, LeaseUntouched DEF Answer, Apply, Sleep
<1> QED BY <1>1, <1>2, <1>3, <1>4 DEF Loop

\* Starting, dying, losing a call and the jobs leave the lease alone.
LEMMA OtherStep ==
  ASSUME IInv, NEW i \in Instances,
         Start(i) \/ Lost(i) \/ Die(i) \/ StartJob(i) \/ EndJob(i)
  PROVE  IInv'
<1> USE LeaseAssumption
<1> USE DEF LseTypeOK, Settled, IInv
<1>1. CASE Start(i)
  BY <1>1, LeaseUntouched DEF Start
<1>2. CASE Lost(i)
  BY <1>2, LeaseUntouched DEF Lost, Sleep
<1>3. CASE Die(i)
  BY <1>3, LeaseUntouched DEF Die
<1>4. CASE StartJob(i)
  BY <1>4, LeaseUntouched DEF StartJob
<1>5. CASE EndJob(i)
  BY <1>5, LeaseUntouched DEF EndJob
<1> QED BY <1>1, <1>2, <1>3, <1>4, <1>5

\* Time takes as much from the lease as it adds to the age of its grant.
LEMMA TickStep ==
  ASSUME IInv, Tick
  PROVE  IInv'
<1> USE LeaseAssumption
<1>1. LseTypeOK'
  <2> USE DEF LseTypeOK, Settled, IInv, Tick
  <2>1. left' \in 0..TTL /\ (holder' = Nobody <=> left' = 0)
    BY DEF Down, Expired
  <2>2. holder' \in Instances \union {Nobody}
    BY DEF Expired
  <2>3. wake' \in [Instances -> 0..Renew]
    BY DEF Down
  <2>4. age' \in [Instances -> 0..TTL]
    OBVIOUS
  <2>5. calm' \in 0..Settled
    OBVIOUS
  <2> QED BY <2>1, <2>2, <2>3, <2>4, <2>5
<1>2. GrantCounts'
  <2>1. SUFFICES ASSUME NEW i \in Instances, age'[i] < TTL
                 PROVE  holder' = i /\ left' = TTL - age'[i]
    BY DEF GrantCounts
  <2>2. age[i] < TTL /\ age'[i] = age[i] + 1
    BY <2>1 DEF Tick, LseTypeOK, IInv
  <2>3. holder = i /\ left = TTL - age[i] /\ age[i] \in Nat
    BY <2>2 DEF GrantCounts, IInv, LseTypeOK
  <2>4. left > 1
    BY <2>1, <2>2, <2>3
  <2> QED BY <2>2, <2>3, <2>4 DEF Tick, Expired, Down
<1> QED BY <1>1, <1>2 DEF IInv

\* Every step keeps the invariant.
LEMMA IInvStep == IInv /\ [LseNext]_lseVars => IInv'
<1>1. CASE LseNext
  BY <1>1, LoopStep, OtherStep, TickStep DEF LseNext
<1>2. CASE UNCHANGED lseVars
  BY <1>2 DEF lseVars, instanceVars, IInv, LseTypeOK, GrantCounts
<1> QED BY <1>1, <1>2

\* Whatever the number of instances and the periods, the variables of the lease
\* and of the loops keep their types, and the lease has a holder exactly as long
\* as it has time left.
THEOREM LeaseTypes == LseSpec => []LseTypeOK
<1>1. IInv => LseTypeOK
  BY DEF IInv
<1> QED BY <1>1, IInvInit, IInvStep, PTL DEF LseSpec

\* Errors, delays and restarts included, two instances whose latest grant has not
\* run out never lead together: one of two leaders has lost its lease.
THEOREM NoTwoLeases == LseSpec => []OverlapOnlyAfterExpiry
<1>1. IInv => OverlapOnlyAfterExpiry
  <2>1. SUFFICES ASSUME IInv, NEW i \in Leaders, NEW j \in Leaders, i # j,
                        age[i] # TTL, age[j] # TTL
                 PROVE  FALSE
    BY DEF OverlapOnlyAfterExpiry
  <2>2. i \in Instances /\ j \in Instances
    BY DEF Leaders
  <2>3. age[i] < TTL /\ age[j] < TTL
    BY <2>1, <2>2, LeaseAssumption DEF IInv, LseTypeOK
  <2> QED BY <2>1, <2>2, <2>3 DEF IInv, GrantCounts
<1> QED BY <1>1, IInvInit, IInvStep, PTL DEF LseSpec

-----------------------------------------------------------------------------
(* Convergence, where the renew period is shorter than the lease           *)

\* The latest call of the instance was answered after the latest disturbance.
Fresh(i) == calm + wake[i] > Renew

\* The lease is as old as the instance's sleep.
Holds(i) == holder = i /\ left = TTL - Renew + wake[i]

\* A call that is under way began after the last tick.
CallsAreNew ==
  \A i \in Instances : /\ lsePhase[i] = "granted" => holder = i /\ left = TTL
                       /\ lsePhase[i] = "refused" => holder \notin {Nobody, i}

\* Who leads by a fresh answer has the lease.
LeadersHold ==
  \A i \in Instances : Fresh(i) /\ leader[i] /\ lsePhase[i] # "granted" => Holds(i)

\* A lease is older than the latest disturbance, or its holder lives and leads; only
\* one that took a lease that had run out does not lead yet.
HolderLives ==
  \/ holder = Nobody
  \/ left + calm =< TTL
  \/ holder \in Instances /\ lsePhase[holder] = "granted" /\ (leader[holder] \/ calm < Settled)
  \/ holder \in Instances /\ lsePhase[holder] \in {"asleep", "asked"} /\ leader[holder] /\ Holds(holder)

\* While the lease is free, nobody has asked since it ran out, so that it is soon taken.
FreeIsTaken ==
  holder = Nobody => \A i \in Up : lsePhase[i] \in {"asleep", "asked"} /\ calm + wake[i] < Settled

Undisturbed == calm # 0 => CallsAreNew /\ LeadersHold /\ HolderLives /\ FreeIsTaken

CInv ==
  /\ LseTypeOK
  /\ \A i \in Instances : lsePhase[i] = "down" => ~leader[i]
  /\ Undisturbed

\* Nobody is up.
LEMMA CInvInit == LseInit => CInv
<1>1. LseInit => LseTypeOK
  BY IInvInit DEF IInv
<1> QED BY <1>1 DEF LseInit, CInv, Undisturbed

\* A tick that disturbs nobody finds every loop asleep.
LEMMA TickConverges ==
  ASSUME CInv, Tick, LseTypeOK', Renew < TTL
  PROVE  CInv'
<1> USE LeaseAssumption
<1>1. \A i \in Instances : lsePhase'[i] = lsePhase[i] /\ leader'[i] = leader[i]
  BY DEF Tick
<1>2. ASSUME calm' # 0
      PROVE  CallsAreNew' /\ LeadersHold' /\ HolderLives' /\ FreeIsTaken'
  <2>1. Punctual /\ calm' = IF calm < Settled THEN calm + 1 ELSE Settled
    BY <1>2 DEF Tick
  <2>2. \A i \in Instances : lsePhase[i] = "down" \/ (lsePhase[i] = "asleep" /\ wake[i] > 0 /\ wake'[i] = wake[i] - 1)
    BY <2>1 DEF Punctual, Up, Tick, Down, CInv, LseTypeOK
  <2>3. /\ calm \in Nat /\ Settled \in Nat /\ Settled = TTL + Renew /\ calm =< Settled /\ left \in Nat
        /\ left =< TTL /\ TTL \in Nat /\ Renew \in Nat /\ (holder = Nobody <=> left = 0)
    BY DEF CInv, LseTypeOK, Settled
  <2>4. \A i \in Instances : wake[i] \in Nat /\ wake[i] =< Renew
    BY DEF CInv, LseTypeOK
  <2>5. left > 1 => holder' = holder /\ left' = left - 1
    BY <2>3 DEF Tick, Expired, Down
  <2>6. left =< 1 => holder' = Nobody
    BY <2>3 DEF Tick, Expired
  <2>7. CallsAreNew'
    BY <1>1, <2>2 DEF CallsAreNew
  <2>8. \A i \in Instances : Holds(i) /\ lsePhase[i] = "asleep" /\ wake[i] > 0 => Holds(i)'
    BY <2>2, <2>3, <2>4, <2>5 DEF Holds
  <2>9. LeadersHold'
    <3> SUFFICES ASSUME NEW i \in Instances, Fresh(i)', leader'[i], lsePhase'[i] # "granted"
                 PROVE  Holds(i)'
      BY DEF LeadersHold
    <3>1. lsePhase[i] = "asleep" /\ wake[i] > 0 /\ wake'[i] = wake[i] - 1 /\ leader[i]
      BY <1>1, <2>2 DEF CInv
    <3>2. calm # 0 /\ Fresh(i)
      BY <2>1, <2>3, <2>4, <3>1 DEF Fresh
    <3>3. Holds(i)
      BY <3>1, <3>2 DEF CInv, Undisturbed, LeadersHold
    <3> QED BY <2>8, <3>1, <3>3
  <2>10. HolderLives'
    <3>1. CASE left =< 1
      BY <2>6, <3>1 DEF HolderLives
    <3>2. CASE left > 1 /\ left + calm =< TTL
      <4>1. left' + calm' =< TTL
        BY <2>1, <2>3, <2>5, <3>2
      <4> QED BY <4>1 DEF HolderLives
    <3>3. CASE left > 1 /\ ~(left + calm =< TTL)
      <4>1. calm # 0 /\ holder # Nobody
        BY <2>3, <3>3
      <4>2. holder \in Instances /\ lsePhase[holder] = "asleep" /\ leader[holder] /\ Holds(holder)
        BY <2>2, <3>3, <4>1 DEF CInv, Undisturbed, HolderLives
      <4>3. holder' = holder /\ Holds(holder)' /\ lsePhase'[holder] = "asleep" /\ leader'[holder]
        BY <1>1, <2>2, <2>5, <2>8, <3>3, <4>2
      <4> QED BY <4>2, <4>3 DEF HolderLives
    <3> QED BY <2>3, <3>1, <3>2, <3>3
  <2>11. FreeIsTaken'
    <3> SUFFICES ASSUME holder' = Nobody, NEW i \in Instances, lsePhase'[i] # "down"
                 PROVE  lsePhase'[i] \in {"asleep", "asked"} /\ calm' + wake'[i] < Settled
      BY DEF FreeIsTaken, Up, Settled
    <3>1. lsePhase[i] = "asleep" /\ wake[i] > 0 /\ wake'[i] = wake[i] - 1 /\ lsePhase'[i] = "asleep" /\ i \in Up
      BY <1>1, <2>2 DEF Up
    <3>2. CASE calm = 0
      BY <2>1, <2>3, <2>4, <3>1, <3>2
    <3>3. CASE calm # 0 /\ holder = Nobody
      <4>1. calm + wake[i] < Settled
        BY <3>1, <3>3 DEF CInv, Undisturbed, FreeIsTaken
      <4> QED BY <2>1, <2>3, <2>4, <3>1, <4>1
    <3>4. CASE calm # 0 /\ holder # Nobody
      <4>1. left = 1
        BY <2>3, <2>5, <3>4
      <4>2. left + calm =< TTL
        BY <2>2, <2>3, <2>4, <3>4, <4>1 DEF CInv, Undisturbed, HolderLives, Holds
      <4> QED BY <2>1, <2>3, <2>4, <3>1, <4>1, <4>2
    <3> QED BY <3>2, <3>3, <3>4
  <2> QED BY <2>7, <2>9, <2>10, <2>11
<1> QED BY <1>1, <1>2 DEF CInv, Undisturbed

\* A lease is granted when it is free, which is soon after it ran out, or to its holder.
LEMMA GrantConverges ==
  ASSUME CInv, NEW i \in Instances, Grant(i), LseTypeOK'
  PROVE  CInv'
<1> USE LeaseAssumption
<1>1. /\ lsePhase[i] = "asked" /\ holder \in {Nobody, i} /\ holder' = i /\ left' = TTL
      /\ wake' = wake /\ leader' = leader /\ calm' = calm
      /\ \A j \in Instances : lsePhase'[j] = IF j = i THEN "granted" ELSE lsePhase[j]
  BY DEF Grant, Grantable, CInv, LseTypeOK
<1>2. ASSUME calm # 0
      PROVE  CallsAreNew' /\ LeadersHold' /\ HolderLives' /\ FreeIsTaken'
  <2>1. CallsAreNew /\ LeadersHold /\ HolderLives /\ FreeIsTaken
    BY <1>2 DEF CInv, Undisturbed
  <2>2. CallsAreNew'
    BY <1>1, <2>1 DEF CallsAreNew
  <2>3. LeadersHold'
    BY <1>1, <2>1 DEF LeadersHold, Fresh, Holds
  <2>4. leader[i] \/ calm < Settled
    <3>1. CASE holder = Nobody
      BY <1>1, <2>1, <3>1 DEF FreeIsTaken, Up, CInv, LseTypeOK, Settled
    <3>2. CASE holder = i
      BY <1>1, <2>1, <3>2 DEF HolderLives, CInv, LseTypeOK, Settled
    <3> QED BY <1>1, <3>1, <3>2
  <2>5. HolderLives'
    BY <1>1, <2>4 DEF HolderLives, Settled
  <2>6. FreeIsTaken'
    BY <1>1 DEF FreeIsTaken
  <2> QED BY <2>2, <2>3, <2>5, <2>6
<1>3. \A j \in Instances : lsePhase'[j] = "down" => ~leader'[j]
  BY <1>1 DEF CInv
<1> QED BY <1>1, <1>2, <1>3 DEF CInv, Undisturbed

\* An answer that grants has the lease; one that refuses ends the leadership.
LEMMA AnswerConverges ==
  ASSUME CInv, NEW i \in Instances, Answer(i), LseTypeOK'
  PROVE  CInv'
<1> USE LeaseAssumption
<1>1. /\ lsePhase[i] \in {"granted", "refused"} /\ UNCHANGED <<holder, left, calm>>
      /\ \A j \in Instances : /\ lsePhase'[j] = IF j = i THEN "asleep" ELSE lsePhase[j]
                              /\ wake'[j] = IF j = i THEN Renew ELSE wake[j]
                              /\ leader'[j] = IF j = i THEN lsePhase[i] = "granted" ELSE leader[j]
  BY DEF Answer, Apply, Sleep, CInv, LseTypeOK
<1>2. ASSUME calm # 0
      PROVE  CallsAreNew' /\ LeadersHold' /\ HolderLives' /\ FreeIsTaken'
  <2>1. CallsAreNew /\ LeadersHold /\ HolderLives /\ FreeIsTaken
    BY <1>2 DEF CInv, Undisturbed
  <2>2. holder # Nobody /\ (lsePhase[i] = "granted" <=> holder = i) /\ (holder = i => left = TTL)
    BY <1>1, <2>1 DEF CallsAreNew
  <2>3. CallsAreNew'
    BY <1>1, <2>1 DEF CallsAreNew
  <2>4. TTL - Renew + Renew = TTL
    OBVIOUS
  <2>5. holder = i => Holds(i)'
    BY <1>1, <2>2, <2>4 DEF Holds
  <2>6. LeadersHold'
    <3> SUFFICES ASSUME NEW j \in Instances, Fresh(j)', leader'[j], lsePhase'[j] # "granted"
                 PROVE  Holds(j)'
      BY DEF LeadersHold
    <3>1. CASE j = i
      BY <1>1, <2>2, <2>5, <3>1
    <3>2. CASE j # i
      BY <1>1, <2>1, <3>2 DEF LeadersHold, Fresh, Holds
    <3> QED BY <3>1, <3>2
  <2>7. HolderLives'
    <3>1. CASE holder = i
      BY <1>1, <2>2, <2>5, <3>1 DEF HolderLives
    <3>2. CASE holder # i
      BY <1>1, <2>1, <2>2, <3>2 DEF HolderLives, Holds, Settled
    <3> QED BY <3>1, <3>2
  <2>8. FreeIsTaken'
    BY <1>1, <2>2 DEF FreeIsTaken
  <2> QED BY <2>3, <2>6, <2>7, <2>8
<1>3. \A j \in Instances : lsePhase'[j] = "down" => ~leader'[j]
  BY <1>1 DEF CInv
<1> QED BY <1>1, <1>2, <1>3 DEF CInv, Undisturbed

\* Asking and being refused move the instance alone; the holder is not refused.
LEMMA AskConverges ==
  ASSUME CInv, NEW i \in Instances, Ask(i) \/ Refuse(i), LseTypeOK'
  PROVE  CInv'
<1> USE LeaseAssumption
<1>1. CASE Ask(i)
  <2>1. /\ lsePhase[i] = "asleep" /\ UNCHANGED <<holder, left, wake, leader, calm>>
        /\ \A j \in Instances : lsePhase'[j] = IF j = i THEN "asked" ELSE lsePhase[j]
    BY <1>1 DEF Ask, CInv, LseTypeOK
  <2>2. ASSUME calm # 0
        PROVE  CallsAreNew' /\ LeadersHold' /\ HolderLives' /\ FreeIsTaken'
    BY <2>1, <2>2 DEF CInv, Undisturbed, CallsAreNew, LeadersHold, HolderLives, FreeIsTaken, Up,
                      Fresh, Holds, Settled
  <2> QED BY <2>1, <2>2 DEF CInv, Undisturbed
<1>2. CASE Refuse(i)
  <2>1. /\ lsePhase[i] = "asked" /\ holder \notin {Nobody, i}
        /\ UNCHANGED <<holder, left, wake, leader, calm>>
        /\ \A j \in Instances : lsePhase'[j] = IF j = i THEN "refused" ELSE lsePhase[j]
    BY <1>2 DEF Refuse, Grantable, CInv, LseTypeOK
  <2>2. ASSUME calm # 0
        PROVE  CallsAreNew' /\ LeadersHold' /\ HolderLives' /\ FreeIsTaken'
    BY <2>1, <2>2 DEF CInv, Undisturbed, CallsAreNew, LeadersHold, HolderLives, FreeIsTaken, Up,
                      Fresh, Holds, Settled
  <2> QED BY <2>1, <2>2 DEF CInv, Undisturbed
<1> QED BY <1>1, <1>2

\* What is a disturbance begins anew, and the jobs see the leadership only.
LEMMA DisturbanceConverges ==
  ASSUME CInv, NEW i \in Instances, LseTypeOK',
         Start(i) \/ Lost(i) \/ Die(i) \/ StartJob(i) \/ EndJob(i)
  PROVE  CInv'
<1>1. CASE Start(i)
  BY <1>1 DEF Start, CInv, Undisturbed, LseTypeOK
<1>2. CASE Lost(i)
  BY <1>2 DEF Lost, Sleep, CInv, Undisturbed, LseTypeOK
<1>3. CASE Die(i)
  BY <1>3 DEF Die, CInv, Undisturbed, LseTypeOK
<1>4. CASE StartJob(i) \/ EndJob(i)
  BY <1>4 DEF StartJob, EndJob, CInv, Undisturbed, CallsAreNew, LeadersHold, HolderLives,
              FreeIsTaken, Up, Fresh, Holds, Settled
<1> QED BY <1>1, <1>2, <1>3, <1>4

\* Every step keeps it.
LEMMA CInvStep == ASSUME Renew < TTL PROVE CInv /\ LseTypeOK' /\ [LseNext]_lseVars => CInv'
<1> SUFFICES ASSUME CInv, LseTypeOK', [LseNext]_lseVars PROVE CInv'
  OBVIOUS
<1>1. CASE LseNext
  BY <1>1, TickConverges, GrantConverges, AnswerConverges, AskConverges, DisturbanceConverges
  DEF LseNext, Loop
<1>2. CASE UNCHANGED lseVars
  BY <1>2 DEF lseVars, instanceVars, CInv, Undisturbed, CallsAreNew, LeadersHold, HolderLives,
              FreeIsTaken, Up, Fresh, Holds, Settled
<1> QED BY <1>1, <1>2

\* After one lease and one renew period without a disturbance every call is fresh, no lease
\* is older, and none is free.
LEMMA CInvConverges == CInv => Converges
<1> SUFFICES ASSUME CInv, calm = Settled, Up # {} PROVE Leaders = {holder}
  BY DEF Converges
<1> USE LeaseAssumption
<1>1. calm # 0 /\ calm > Renew /\ calm >= TTL /\ calm = TTL + Renew
  BY DEF Settled
<1>2. CallsAreNew /\ LeadersHold /\ HolderLives /\ FreeIsTaken
  BY <1>1 DEF CInv, Undisturbed
<1>3. holder # Nobody
  BY <1>1, <1>2 DEF FreeIsTaken, Up, CInv, LseTypeOK
<1>4. holder \in Leaders
  BY <1>1, <1>2, <1>3 DEF HolderLives, Leaders, CInv, LseTypeOK
<1>5. ASSUME NEW i \in Leaders PROVE i = holder
  <2>1. i \in Instances /\ leader[i] /\ Fresh(i)
    BY <1>1 DEF Leaders, Fresh, CInv, LseTypeOK
  <2> QED BY <1>2, <2>1 DEF CallsAreNew, LeadersHold, Holds
<1> QED BY <1>4, <1>5

\* Whatever number of instances start, stall, lose calls and die: one lease and one renew
\* period after the last of it exactly one instance leads, if any is up, and holds the
\* lease, provided the renew period is shorter than the lease, as the code's is.
THEOREM LeadershipConverges == ASSUME Renew < TTL PROVE LseSpec => []Converges
<1>1. LseSpec => []LseTypeOK
  BY LeaseTypes
<1>2. CInv /\ LseTypeOK' /\ [LseNext]_lseVars => CInv'
  BY CInvStep
<1> QED BY <1>1, <1>2, CInvInit, CInvConverges, PTL DEF LseSpec
=============================================================================
