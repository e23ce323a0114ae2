-------------------------- MODULE MonitoringProofs --------------------------
(***************************************************************************)
(* What the scheduler does every minute: integrations and hosts are        *)
(* polled, outages are announced, the host table is kept together.  For    *)
(* any configurations, hosts, alerts and bounds.                           *)
(***************************************************************************)
EXTENDS Polling, ProbeStatus, PingChecks, HostTable, AlertRules, TLAPS

-----------------------------------------------------------------------------
(***************************************************************************)
(* Polling: of a cluster one member writes. The invariant follows a run    *)
(* through its members: what is polled is present, who wrote owns the      *)
(* cluster, and what a later member finds has been joined.                 *)
(***************************************************************************)
PolValues == PolGroups \cup {NoGroup} \cup {PolCluster[c] : c \in PolConfigs}

PolTypes ==
    /\ polNow \in Nat /\ polAt \in 0..Len(PolOrder)
    /\ polGroup \in [PolConfigs -> PolValues]
    /\ polLast \in [PolConfigs -> Nat]
    /\ polData \in [PolConfigs -> Nat]
    /\ polStandby \in [PolConfigs -> Nat]
    /\ polPresent \subseteq PolConfigs
    /\ polPoll \in [busy : BOOLEAN, group : PolValues]
    /\ polSession \in [snap : SUBSET PolConfigs, data : SUBSET PolConfigs,
                       standby : SUBSET PolConfigs, joined : SUBSET PolConfigs]
    /\ polPoll.busy => polAt # 0
    /\ polGone \cap polPresent = {}

\* Nothing is dated later than the run under way.
PolPast ==
    \A c \in PolConfigs : polData[c] <= polLast[c] /\ polLast[c] <= polNow /\ polStandby[c] <= polNow

\* What is not committed yet is of members of the present type that have been passed.
PolPending ==
    /\ polAt = 0 => polSession = EmptySession
    /\ polSession.data \subseteq polSession.snap
    /\ \A c \in polSession.snap \cup polSession.standby :
          \E i \in 1..(polAt - 1) : c = PolOrder[i] /\ PolType[c] = PolType[Config]

\* A type that the run has not finished has no data of this run yet.
PolUnwritten ==
    polAt # 0 => \A c \in PolConfigs, i \in polAt..Len(PolOrder) :
                     PolType[PolOrder[i]] = PolType[c] => polData[c] < polNow

\* Who owns a group is of a type that has been reached, and of the present type somebody
\* has written.
PolOwned ==
    polAt # 0 => \A key \in polOwners :
        /\ \E i \in 1..(polAt - 1) : PolType[PolOrder[i]] = key[1]
        /\ key[1] = PolType[Config] => \E d \in polSession.data : PolType[d] = key[1]

\* Where no editor put it elsewhere, a member is in its cluster or in no group yet, ...
PolUnmoved ==
    /\ \A c \in PolConfigs \ polMoved : polGroup[c] \in {NoGroup, PolCluster[c]}
    /\ polPoll.busy /\ Config \notin polMoved => polPoll.group \in {NoGroup, PolCluster[Config]}

\* ... owns its cluster once it has written, and has written alone.
PolWriters ==
    /\ \A d \in polSession.data \ polMoved :
          PolCluster[d] # NoGroup => <<PolType[d], PolCluster[d]>> \in polOwners
    /\ \A c, d \in polSession.data : ~SameCluster(c, d)

\* Who stands by does so beside another's data.
PolCovered ==
    \A c \in polSession.standby : \E d \in polSession.data : SameType(c, d)

PolInv == /\ PolTypes /\ PolPast /\ PolPending /\ PolUnwritten /\ PolOwned /\ PolUnmoved
          /\ PolWriters /\ PolCovered /\ OneWriterPerCluster

\* What the session of a type and the owners may be once its member at polAt is passed.
PolNextSession(session, owners) ==
    /\ session \in [snap : SUBSET PolConfigs, data : SUBSET PolConfigs,
                    standby : SUBSET PolConfigs, joined : SUBSET PolConfigs]
    /\ session.data \subseteq session.snap
    /\ \A c \in session.snap \cup session.standby :
          \E i \in 1..polAt : c = PolOrder[i] /\ PolType[c] = PolType[Config]
    /\ \A key \in owners :
        /\ \E i \in 1..polAt : PolType[PolOrder[i]] = key[1]
        /\ key[1] = PolType[Config] => \E d \in session.data : PolType[d] = key[1]
    /\ \A d \in session.data \ polMoved :
          PolCluster[d] # NoGroup => <<PolType[d], PolCluster[d]>> \in owners
    /\ \A c, d \in session.data : ~SameCluster(c, d)
    /\ \A c \in session.standby : \E d \in session.data : SameType(c, d)

\* The order of a run names every configuration.
LEMMA PolOrderTypes ==
    /\ Len(PolOrder) \in Nat
    /\ DOMAIN PolOrder = 1..Len(PolOrder)
    /\ \A i \in 1..Len(PolOrder) : PolOrder[i] \in PolConfigs
    /\ \A c \in PolConfigs : \E i \in 1..Len(PolOrder) : c = PolOrder[i]
  BY PolAssumption DEF PolConfigs

\* Within a run there is a present member.
LEMMA PolAtTypes ==
    ASSUME PolTypes, polAt # 0
    PROVE  /\ polAt \in 1..Len(PolOrder) /\ polAt \in Nat /\ Len(PolOrder) \in Nat
           /\ Config \in PolConfigs
<1>1. polAt \in 0..Len(PolOrder)
  BY DEF PolTypes
<1>2. polAt \in 1..Len(PolOrder)
  BY <1>1, PolOrderTypes
<1> QED BY <1>2, PolOrderTypes DEF Config

\* The invariant holds before anything was polled.
LEMMA PolInvInit == PolInit => PolInv
<1> SUFFICES ASSUME PolInit PROVE PolInv
  OBVIOUS
<1> USE PolAssumption, PolOrderTypes
<1>1. PolTypes
  BY DEF PolInit, PolTypes, PolValues, Unasked, EmptySession
<1>2. PolPast /\ PolPending /\ PolUnwritten /\ PolOwned /\ PolUnmoved /\ PolWriters /\ PolCovered
  BY DEF PolInit, PolPast, PolPending, PolUnwritten, PolOwned, PolUnmoved, PolWriters, PolCovered,
         Unasked, EmptySession
<1>3. OneWriterPerCluster
  BY DEF PolInit, OneWriterPerCluster
<1> QED BY <1>1, <1>2, <1>3 DEF PolInv

\* The members of a type stand together.
LEMMA PolContiguous ==
    ASSUME PolTypes, polAt # 0, LastOfType,
           NEW i \in 1..polAt, NEW j \in (polAt + 1)..Len(PolOrder),
           PolType[PolOrder[i]] = PolType[PolOrder[j]]
    PROVE  FALSE
<1>1. /\ polAt \in Nat /\ Len(PolOrder) \in Nat /\ DOMAIN PolOrder = 1..Len(PolOrder)
      /\ polAt \in 1..Len(PolOrder)
  BY PolAtTypes, PolOrderTypes
<1>2. polAt \in DOMAIN PolOrder /\ polAt + 1 \in DOMAIN PolOrder /\ polAt # Len(PolOrder)
  <2>1. polAt + 1 <= Len(PolOrder)
    BY <1>1
  <2>2. \A a, n \in Nat : a + 1 <= n => a + 1 \in 1..n /\ a # n
    OBVIOUS
  <2> QED BY <2>1, <2>2, <1>1
<1>3. i \in DOMAIN PolOrder /\ j \in DOMAIN PolOrder
  BY <1>1
<1>4. PolType[PolOrder[polAt + 1]] # PolType[PolOrder[polAt]]
  BY <1>2 DEF LastOfType, Config
<1>5. \A a, b, d \in DOMAIN PolOrder :
         (a < b /\ b < d /\ PolType[PolOrder[a]] = PolType[PolOrder[d]])
            => PolType[PolOrder[b]] = PolType[PolOrder[a]]
  BY PolAssumption
<1>6. PolType[PolOrder[polAt]] = PolType[PolOrder[i]]
  <2>1. CASE i = polAt  BY <2>1
  <2>2. CASE i # polAt
    <3>1. i < polAt /\ polAt < j
      BY <2>2, <1>1
    <3> QED BY <3>1, <1>2, <1>3, <1>5
  <2> QED BY <2>1, <2>2
<1>7. PolType[PolOrder[polAt + 1]] = PolType[PolOrder[i]]
  <2>1. CASE j = polAt + 1  BY <2>1
  <2>2. CASE j # polAt + 1
    <3>1. i < polAt + 1 /\ polAt + 1 < j
      BY <2>2, <1>1
    <3> QED BY <3>1, <1>2, <1>3, <1>5
  <2> QED BY <2>1, <2>2
<1> QED BY <1>4, <1>6, <1>7

\* A member is passed in the middle of its type.
LEMMA PolPassedWithin ==
    ASSUME PolInv, polAt # 0, ~LastOfType, NEW session, NEW owners,
           PolNextSession(session, owners), Passed(session, owners)
    PROVE  PolInv'
<1> USE DEF PolInv
<1>1. /\ polSession' = session /\ polOwners' = owners /\ polPoll' = Unasked
      /\ polAt' = polAt + 1 /\ polAt' \in 1..Len(PolOrder)
      /\ UNCHANGED <<polGroup, polLast, polData, polStandby, polNow, polPresent, polGone, polMoved>>
  <2>1. polAt \in 1..Len(PolOrder) /\ polAt # Len(PolOrder) /\ Len(PolOrder) \in Nat
    BY PolAtTypes DEF LastOfType
  <2> QED BY <2>1 DEF Passed, polSaved, polEver
<1>2. PolType[Config'] = PolType[Config]
  BY <1>1 DEF LastOfType, Config
<1>3. PolTypes'
  BY <1>1 DEF PolTypes, PolNextSession, Unasked, PolValues
<1>4. PolPast' /\ OneWriterPerCluster'
  BY <1>1 DEF PolPast, OneWriterPerCluster, SameCluster, SameType
<1>5. PolPending'
  <2>1. polAt' - 1 = polAt /\ polAt' # 0
    BY <1>1 DEF PolTypes
  <2> QED BY <1>1, <1>2, <2>1 DEF PolPending, PolNextSession
<1>6. PolUnwritten'
  <2> SUFFICES ASSUME NEW c \in PolConfigs, NEW i \in polAt'..Len(PolOrder),
                      PolType[PolOrder[i]] = PolType[c]
               PROVE  polData'[c] < polNow'
    BY DEF PolUnwritten
  <2>1. i \in polAt..Len(PolOrder)
    BY <1>1 DEF PolTypes
  <2> QED BY <2>1, <1>1 DEF PolUnwritten
<1>7. PolOwned'
  <2>1. polAt' - 1 = polAt
    BY <1>1 DEF PolTypes
  <2> QED BY <1>1, <1>2, <2>1 DEF PolOwned, PolNextSession
<1>8. PolUnmoved'
  BY <1>1 DEF PolUnmoved, Unasked
<1>9. PolWriters' /\ PolCovered'
  BY <1>1 DEF PolWriters, PolCovered, PolNextSession, SameCluster, SameType
<1> QED BY <1>3, <1>4, <1>5, <1>6, <1>7, <1>8, <1>9

\* The last member of a type is passed, and the session committed.
LEMMA PolPassedLast ==
    ASSUME PolInv, polAt # 0, LastOfType, NEW session, NEW owners,
           PolNextSession(session, owners), Passed(session, owners)
    PROVE  PolInv'
<1> USE DEF PolInv
<1>1. /\ polSession' = EmptySession /\ polOwners' = owners /\ polPoll' = Unasked
      /\ polAt' = IF polAt = Len(PolOrder) THEN 0 ELSE polAt + 1
      /\ UNCHANGED <<polNow, polPresent, polGone, polMoved>>
      /\ CommitSession(session)
  BY DEF Passed, polEver
<1>2. polAt \in 1..Len(PolOrder) /\ polAt' \in 0..Len(PolOrder)
  <2>1. polAt \in 1..Len(PolOrder) /\ Len(PolOrder) \in Nat
    BY PolAtTypes
  <2> QED BY <2>1, <1>1
<1>3. /\ session.snap \subseteq PolConfigs /\ session.data \subseteq session.snap
      /\ session.standby \subseteq PolConfigs /\ session.joined \subseteq PolConfigs
  BY DEF PolNextSession
<1>4. PolTypes'
  BY <1>1, <1>2, <1>3 DEF PolTypes, CommitSession, AsOfNow, PolValues, EmptySession, Unasked
<1>5. PolPast'
  BY <1>1, <1>3 DEF PolTypes, PolPast, CommitSession, AsOfNow
<1>6. PolPending' /\ PolWriters' /\ PolCovered'
  BY <1>1 DEF PolPending, PolWriters, PolCovered, EmptySession
\* A type that is still to come shares no member with this one.
<1>7. ASSUME polAt' # 0, NEW j \in polAt'..Len(PolOrder), NEW i \in 1..polAt,
             PolType[PolOrder[i]] = PolType[PolOrder[j]]
      PROVE  FALSE
  <2>1. j \in (polAt + 1)..Len(PolOrder)
    BY <1>1, <1>2, <1>7
  <2> QED BY <2>1, <1>7, PolContiguous
<1>8. PolUnwritten'
  <2> SUFFICES ASSUME polAt' # 0, NEW c \in PolConfigs, NEW j \in polAt'..Len(PolOrder),
                      PolType[PolOrder[j]] = PolType[c]
               PROVE  polData'[c] < polNow'
    BY DEF PolUnwritten
  <2>1. c \notin session.data
    <3> SUFFICES ASSUME c \in session.data PROVE FALSE
      OBVIOUS
    <3>1. PICK i \in 1..polAt : c = PolOrder[i]
      BY DEF PolNextSession
    <3> QED BY <1>7, <3>1
  <2>2. polData'[c] = polData[c]
    BY <1>1, <2>1 DEF CommitSession, AsOfNow
  <2>3. j \in polAt..Len(PolOrder)
    BY <1>1, <1>2
  <2>4. polData[c] < polNow
    BY <2>3, <1>2 DEF PolUnwritten
  <2> QED BY <2>2, <2>4, <1>1
<1>9. PolOwned'
  <2> SUFFICES ASSUME polAt' # 0, NEW key \in owners
               PROVE  /\ \E i \in 1..(polAt' - 1) : PolType[PolOrder[i]] = key[1]
                      /\ key[1] # PolType[Config']
    BY <1>1 DEF PolOwned
  <2>1. PICK i \in 1..polAt : PolType[PolOrder[i]] = key[1]
    BY DEF PolNextSession
  <2>2. polAt' = polAt + 1 /\ polAt' \in polAt'..Len(PolOrder)
    BY <1>1, <1>2
  <2>3. PolType[PolOrder[polAt']] # key[1]
    BY <2>1, <2>2, <1>7
  <2>4. i \in 1..(polAt' - 1)
    BY <1>2, <2>2
  <2> QED BY <2>1, <2>3, <2>4 DEF Config
<1>10. PolUnmoved'
  BY <1>1 DEF PolUnmoved, CommitSession, Unasked
<1>11. OneWriterPerCluster'
  <2>1. \A c \in session.data : polData[c] < polNow
    <3> SUFFICES ASSUME NEW c \in session.data PROVE polData[c] < polNow
      OBVIOUS
    <3>1. PolType[PolOrder[polAt]] = PolType[c] /\ c \in PolConfigs
      BY <1>3 DEF PolNextSession, Config
    <3> QED BY <3>1, <1>2 DEF PolUnwritten
  <2>2. \A c \in PolConfigs : polData'[c] = IF c \in session.data THEN polNow ELSE polData[c]
    BY <1>1 DEF CommitSession, AsOfNow
  <2>3. \A c \in PolConfigs : polStandby'[c] = IF c \in session.standby THEN polNow ELSE polStandby[c]
    BY <1>1 DEF CommitSession, AsOfNow
  <2>4. ASSUME NEW c \in PolConfigs, NEW d \in PolConfigs, SameCluster(c, d)'
        PROVE  polData'[c] = 0 \/ polData'[c] # polData'[d]
    <3>0. SameCluster(c, d) /\ SameCluster(d, c)
      BY <2>4, <1>1 DEF SameCluster, SameType
    <3>1. ~(c \in session.data /\ d \in session.data)
      BY <3>0 DEF PolNextSession
    <3>4. polNow \in Nat /\ polData[c] \in Nat /\ polData[d] \in Nat
      BY DEF PolTypes
    <3>5. CASE c \in session.data /\ d \notin session.data
      <4>1. d \in PolConfigs /\ PolType[d] = PolType[PolOrder[polAt]]
        BY <3>5, <3>0 DEF SameCluster, SameType, PolNextSession, Config
      <4>2. polData[d] < polNow
        BY <4>1, <1>2 DEF PolUnwritten
      <4> QED BY <3>5, <4>2, <2>2, <3>4
    <3>6. CASE d \in session.data /\ c \notin session.data
      <4>1. PolType[c] = PolType[PolOrder[polAt]]
        BY <3>6, <3>0 DEF SameCluster, SameType, PolNextSession, Config
      <4>2. polData[c] < polNow
        BY <4>1, <1>2 DEF PolUnwritten
      <4> QED BY <3>6, <4>2, <2>2, <3>4
    <3>7. CASE c \notin session.data /\ d \notin session.data
      BY <3>7, <2>2, <3>0 DEF OneWriterPerCluster
    <3> QED BY <3>1, <3>5, <3>6, <3>7
  <2>5. ASSUME NEW c \in PolConfigs, polStandby'[c] # 0
        PROVE  \E d \in PolConfigs : SameType(c, d) /\ (polData'[d] >= polStandby'[c] \/ d \in polGone')
    <3>1. CASE c \in session.standby
      <4>1. PICK d \in session.data : SameType(c, d)
        BY <3>1 DEF PolNextSession
      <4>2. d \in PolConfigs /\ polData'[d] = polNow /\ polStandby'[c] = polNow
        BY <1>3, <2>2, <2>3, <3>1
      <4> QED BY <4>1, <4>2 DEF PolTypes
    <3>2. CASE c \notin session.standby
      <4>1. PICK d \in PolConfigs : SameType(c, d) /\ (polData[d] >= polStandby[c] \/ d \in polGone)
        BY <2>3, <2>5, <3>2 DEF OneWriterPerCluster
      <4>2. polData'[d] >= polData[d]
        <5>1. polNow \in Nat /\ polData[d] \in Nat
          BY DEF PolTypes
        <5> QED BY <5>1, <2>1, <2>2
      <4>3. polData'[d] \in Nat /\ polData[d] \in Nat /\ polStandby[c] \in Nat /\ polStandby'[c] = polStandby[c]
        BY <2>2, <2>3, <3>2 DEF PolTypes
      <4>4. polData[d] >= polStandby[c] => polData'[d] >= polStandby'[c]
        BY <4>2, <4>3
      <4> QED BY <4>1, <4>4, <1>1
    <3> QED BY <3>1, <3>2
  <2> QED BY <2>4, <2>5 DEF OneWriterPerCluster, SameType
<1> QED BY <1>4, <1>5, <1>6, <1>8, <1>9, <1>10, <1>11

\* The present member is not among those passed before.
LEMMA PolConfigNew ==
    ASSUME PolInv, polAt # 0
    PROVE  Config \notin polSession.snap \cup polSession.standby
<1> SUFFICES ASSUME Config \in polSession.snap \cup polSession.standby PROVE FALSE
  OBVIOUS
<1>1. PICK i \in 1..(polAt - 1) : PolOrder[polAt] = PolOrder[i]
  BY DEF PolInv, PolPending, Config
<1>2. i \in DOMAIN PolOrder /\ polAt \in DOMAIN PolOrder /\ i # polAt
  BY PolAtTypes, PolOrderTypes DEF PolInv
<1> QED BY <1>1, <1>2, PolAssumption

\* A member that leaves no trace but a failed snapshot.
LEMMA PolNextFailed ==
    ASSUME PolInv, polAt # 0
    PROVE  /\ PolNextSession(polSession, polOwners)
           /\ PolNextSession(PollFailed(Config), polOwners)
<1> USE DEF PolInv
<1>1. /\ polAt \in 1..Len(PolOrder) /\ Len(PolOrder) \in Nat /\ Config \in PolConfigs
      /\ \A i \in 1..(polAt - 1) : i \in 1..polAt
  BY PolAtTypes
<1>2. Config = PolOrder[polAt] /\ polAt \in 1..polAt
  BY <1>1 DEF Config
<1>3. PolNextSession(polSession, polOwners)
  BY <1>1 DEF PolNextSession, PolTypes, PolPending, PolOwned, PolWriters, PolCovered
<1>4. PolNextSession(PollFailed(Config), polOwners)
  BY <1>1, <1>2, <1>3 DEF PolNextSession, PollFailed
<1> QED BY <1>3, <1>4

\* A member that has answered: it writes unless somebody of its group did.
LEMMA PolNextPolled ==
    ASSUME PolInv, polPoll.busy
    PROVE  PolNextSession(Polled(Config), OwnersAfter(Config))
<1> USE DEF PolInv
<1>0. polAt # 0
  BY DEF PolTypes
<1>1. /\ polAt \in 1..Len(PolOrder) /\ Config \in PolConfigs /\ Config = PolOrder[polAt]
      /\ polAt \in 1..polAt
  BY <1>0, PolAtTypes DEF Config
<1>2. PolNextSession(polSession, polOwners)
  BY <1>0, PolNextFailed
<1>3. Config \notin polSession.snap \cup polSession.standby /\ Config \notin polSession.data
  BY <1>0, PolConfigNew DEF PolPending
<1> DEFINE next == Polled(Config)
           owners == OwnersAfter(Config)
<1>4. /\ next.snap = polSession.snap \cup {Config}
      /\ next.data = IF Standby(Config) THEN polSession.data ELSE polSession.data \cup {Config}
      /\ next.standby = IF Standby(Config) THEN polSession.standby \cup {Config} ELSE polSession.standby
      /\ next.joined = IF Joins(Config) THEN polSession.joined \cup {Config} ELSE polSession.joined
  BY DEF Polled
<1>5. next \in [snap : SUBSET PolConfigs, data : SUBSET PolConfigs,
                standby : SUBSET PolConfigs, joined : SUBSET PolConfigs]
  BY <1>1, <1>2 DEF Polled, PolNextSession
<1>6. next.data \subseteq next.snap
  BY <1>2, <1>4 DEF PolNextSession
<1>7. \A c \in next.snap \cup next.standby :
         \E i \in 1..polAt : c = PolOrder[i] /\ PolType[c] = PolType[Config]
  BY <1>1, <1>2, <1>4 DEF PolNextSession
\* The group of the present member is owned by one of its type who writes.
<1>8. ASSUME NEW key \in owners
      PROVE  /\ \E i \in 1..polAt : PolType[PolOrder[i]] = key[1]
             /\ key[1] = PolType[Config] => \E d \in next.data : PolType[d] = key[1]
  <2>1. CASE key \in polOwners
    BY <2>1, <1>2, <1>4 DEF PolNextSession
  <2>2. CASE key \notin polOwners
    <3>1. GroupAfterPoll(Config) # NoGroup /\ key = GroupKey(Config)
      BY <2>2 DEF OwnersAfter
    <3>2. ~Standby(Config)
      BY <3>1, <2>2 DEF Standby
    <3>3. key[1] = PolType[Config] /\ Config \in next.data
      BY <3>1, <3>2, <1>4 DEF GroupKey
    <3> QED BY <3>3, <1>1
  <2> QED BY <2>1, <2>2
<1>9. Config \notin polMoved => GroupAfterPoll(Config) = PolCluster[Config]
  BY DEF PolUnmoved, GroupAfterPoll
<1>10. \A d \in next.data \ polMoved :
          PolCluster[d] # NoGroup => <<PolType[d], PolCluster[d]>> \in owners
  BY <1>2, <1>4, <1>9 DEF PolNextSession, OwnersAfter, GroupKey
<1>11. ~Standby(Config) => \A d \in polSession.data : ~SameCluster(Config, d) /\ ~SameCluster(d, Config)
  BY <1>2, <1>9 DEF PolNextSession, SameCluster, SameType, Standby, GroupKey
<1>12. \A c, d \in next.data : ~SameCluster(c, d)
  BY <1>2, <1>4, <1>11 DEF PolNextSession, SameCluster, SameType
<1>13. Standby(Config) => \E d \in polSession.data : SameType(Config, d)
  <2> SUFFICES ASSUME Standby(Config) PROVE \E d \in polSession.data : SameType(Config, d)
    OBVIOUS
  <2>1. GroupKey(Config) \in polOwners /\ GroupKey(Config)[1] = PolType[Config]
    BY DEF Standby, GroupKey
  <2> QED BY <2>1, <1>2, <1>3 DEF PolNextSession, SameType
<1>14. \A c \in next.standby : \E d \in next.data : SameType(c, d)
  BY <1>2, <1>4, <1>13 DEF PolNextSession
<1> HIDE DEF next, owners
<1>15. PolNextSession(next, owners)
  BY <1>5, <1>6, <1>7, <1>8, <1>10, <1>12, <1>14 DEF PolNextSession
<1> QED BY <1>15 DEF next, owners

\* A member is dealt with, within the run or as its last.
LEMMA PolPassedStep ==
    ASSUME PolInv, polAt # 0, NEW session, NEW owners,
           PolNextSession(session, owners), Passed(session, owners)
    PROVE  PolInv'
  BY PolPassedWithin, PolPassedLast

\* An exception forgets what the session had, and ends the run.
LEMMA PolLostStep ==
    ASSUME PolInv, RunLost
    PROVE  PolInv'
<1> USE DEF PolInv
<1>1. /\ polAt' = 0 /\ polPoll' = Unasked /\ polSession' = EmptySession
      /\ UNCHANGED <<polNow, polPresent, polGroup, polLast, polData, polStandby, polGone, polMoved>>
  BY DEF RunLost, polSaved, polEver
<1>2. PolTypes'
  BY <1>1, PolOrderTypes DEF PolTypes, Unasked, EmptySession, PolValues
<1>3. /\ PolPast' /\ PolPending' /\ PolUnwritten' /\ PolOwned' /\ PolUnmoved' /\ PolWriters'
      /\ PolCovered'
  BY <1>1 DEF PolPast, PolPending, PolUnwritten, PolOwned, PolUnmoved, PolWriters, PolCovered,
              Unasked, EmptySession
<1>4. OneWriterPerCluster'
  BY <1>1 DEF OneWriterPerCluster, SameCluster, SameType
<1> QED BY <1>2, <1>3, <1>4

\* A run starts with a session that has seen nothing.
LEMMA PolStartStep ==
    ASSUME PolInv, StartPolling
    PROVE  PolInv'
<1> USE DEF PolInv
<1>1. /\ polAt = 0 /\ polNow' = polNow + 1 /\ polAt' = 1 /\ polOwners' = {}
      /\ polPresent # {}
      /\ UNCHANGED <<polPresent, polGroup, polLast, polData, polStandby, polPoll, polSession,
                     polGone, polMoved>>
  BY DEF StartPolling, polSaved, polEver
<1>2. polAt' \in 1..Len(PolOrder)
  <2>1. PICK c : c \in PolConfigs
    BY <1>1 DEF PolTypes
  <2> QED BY <2>1, <1>1, PolOrderTypes
<1>3. PolTypes'
  BY <1>1, <1>2 DEF PolTypes, PolValues
<1>4. PolPast' /\ PolUnwritten'
  BY <1>1 DEF PolTypes, PolPast, PolUnwritten
<1>5. PolPending' /\ PolOwned' /\ PolWriters' /\ PolCovered'
  BY <1>1 DEF PolPending, PolOwned, PolWriters, PolCovered, EmptySession
<1>6. PolUnmoved'
  BY <1>1 DEF PolUnmoved, PolTypes
<1>7. OneWriterPerCluster'
  BY <1>1 DEF OneWriterPerCluster, SameCluster, SameType
<1> QED BY <1>3, <1>4, <1>5, <1>6, <1>7

\* An editor names the group of a row: only a group other than its cluster moves it.
LEMMA PolGroupStep ==
    ASSUME PolInv, PolTypes', NEW c \in PolConfigs, NEW group,
           polGroup' = [polGroup EXCEPT ![c] = group], NoteGroup(c, group),
           UNCHANGED <<polNow, polLast, polData, polStandby, polAt, polPoll, polOwners,
                       polSession, polGone>>
    PROVE  PolInv'
<1> USE DEF PolInv
<1>1. polMoved \subseteq polMoved'
  BY DEF NoteGroup
<1>2. PolPast' /\ PolPending' /\ PolUnwritten' /\ PolOwned'
  BY DEF PolPast, PolPending, PolUnwritten, PolOwned, Config
<1>3. PolUnmoved'
  <2>1. ASSUME NEW d \in PolConfigs \ polMoved'
        PROVE  polGroup'[d] \in {NoGroup, PolCluster[d]}
    <3>1. CASE d = c  BY <3>1, <2>1 DEF PolTypes, NoteGroup
    <3>2. CASE d # c  BY <3>2, <2>1, <1>1 DEF PolTypes, PolUnmoved
    <3> QED BY <3>1, <3>2
  <2> QED BY <2>1, <1>1 DEF PolUnmoved, Config
<1>4. \A a, b : SameCluster(a, b)' => SameCluster(a, b)
  BY <1>1 DEF SameCluster, SameType
<1>5. PolWriters' /\ PolCovered'
  BY <1>1, <1>4 DEF PolWriters, PolCovered, SameType
<1>6. OneWriterPerCluster'
  BY <1>4 DEF OneWriterPerCluster, SameType
<1> QED BY <1>2, <1>3, <1>5, <1>6

\* Editors: a row comes, is put in another group, or goes with its snapshots.
LEMMA PolCreateStep ==
    ASSUME PolInv, NEW c \in PolConfigs, NEW group \in PolGroups \cup {NoGroup},
           NEW host \in HostKinds, CreateIntegration(c, group, host)
    PROVE  PolInv'
<1> USE DEF PolInv
<1>1. /\ polGroup' = [polGroup EXCEPT ![c] = group] /\ polPresent' = polPresent \cup {c}
      /\ c \notin polGone
      /\ NoteGroup(c, group)
      /\ UNCHANGED <<polNow, polLast, polData, polStandby, polAt, polPoll, polOwners, polSession,
                     polGone>>
  BY DEF CreateIntegration, AddRow, polRun
<1>2. PolTypes'
  BY <1>1 DEF PolTypes, PolValues
<1> QED BY <1>1, <1>2, PolGroupStep

\* An edited integration belongs to the group it was given.
LEMMA PolEditStep ==
    ASSUME PolInv, NEW c \in PolConfigs, NEW group \in PolGroups \cup {NoGroup},
           NEW host \in HostKinds, EditIntegration(c, group, host)
    PROVE  PolInv'
<1> USE DEF PolInv
<1>1. /\ polGroup' = [polGroup EXCEPT ![c] = group] /\ NoteGroup(c, group)
      /\ UNCHANGED <<polNow, polPresent, polLast, polData, polStandby, polAt, polPoll, polOwners,
                     polSession, polGone>>
  BY DEF EditIntegration, polRun
<1>2. PolTypes'
  BY <1>1 DEF PolTypes, PolValues
<1> QED BY <1>1, <1>2, PolGroupStep

\* A deleted integration has no data, and nobody joins it.
LEMMA PolDeleteStep ==
    ASSUME PolInv, NEW c \in PolConfigs, DeleteIntegration(c)
    PROVE  PolInv'
<1> USE DEF PolInv
<1>1. /\ polLast' = [polLast EXCEPT ![c] = 0] /\ polData' = [polData EXCEPT ![c] = 0]
      /\ polStandby' = [polStandby EXCEPT ![c] = 0]
      /\ polPresent' = polPresent \ {c} /\ polGone' = polGone \cup {c}
      /\ UNCHANGED <<polNow, polGroup, polAt, polPoll, polOwners, polSession, polMoved>>
  BY DEF DeleteIntegration, DropRow, polRun
<1>2. PolTypes'
  BY <1>1 DEF PolTypes, PolValues
<1>3. PolPast'
  BY <1>1 DEF PolPast, PolTypes
<1>4. /\ PolPending' /\ PolOwned' /\ PolUnmoved' /\ PolWriters' /\ PolCovered'
  BY <1>1 DEF PolPending, PolOwned, PolUnmoved, PolWriters, PolCovered, Config, SameCluster, SameType
<1>5. \A d \in PolConfigs : polData'[d] = (IF d = c THEN 0 ELSE polData[d])
  BY <1>1 DEF PolTypes
<1>6. PolUnwritten'
  <2> SUFFICES ASSUME polAt # 0, NEW d \in PolConfigs, NEW i \in polAt..Len(PolOrder),
                      PolType[PolOrder[i]] = PolType[d]
               PROVE  polData'[d] < polNow
    BY <1>1 DEF PolUnwritten
  <2>1. polData[d] < polNow /\ polData[d] \in Nat /\ polNow \in Nat
    BY DEF PolUnwritten, PolTypes
  <2> QED BY <1>5, <2>1
<1>7. OneWriterPerCluster'
  <2>1. ASSUME NEW d \in PolConfigs, NEW e \in PolConfigs, SameCluster(d, e)'
        PROVE  polData'[d] = 0 \/ polData'[d] # polData'[e]
    BY <2>1, <1>1, <1>5 DEF OneWriterPerCluster, SameCluster, SameType
  <2>2. ASSUME NEW d \in PolConfigs, polStandby'[d] # 0
        PROVE  \E e \in PolConfigs : SameType(d, e) /\ (polData'[e] >= polStandby'[d] \/ e \in polGone')
    <3>1. d # c /\ polStandby'[d] = polStandby[d]
      BY <2>2, <1>1 DEF PolTypes
    <3>2. PICK e \in PolConfigs : SameType(d, e) /\ (polData[e] >= polStandby[d] \/ e \in polGone)
      BY <3>1, <2>2 DEF OneWriterPerCluster
    <3> QED BY <3>1, <3>2, <1>1, <1>5
  <2> QED BY <2>1, <2>2 DEF OneWriterPerCluster, SameType
<1> QED BY <1>2, <1>3, <1>4, <1>6, <1>7

\* Every action keeps the invariant.
LEMMA PolInvStep == PolInv /\ [PolNext]_polVars => PolInv'
<1> SUFFICES ASSUME PolInv, [PolNext]_polVars PROVE PolInv'
  OBVIOUS
<1>1. CASE StartPolling
  BY <1>1, PolStartStep
<1>2. CASE BeginPoll
  <2>1. polAt # 0
    BY <1>2 DEF BeginPoll
  <2>2. CASE Passed(polSession, polOwners) \/ Passed(PollFailed(Config), polOwners)
    BY <2>1, <2>2, PolNextFailed, PolPassedStep
  <2>3. CASE /\ polPoll' = [busy |-> TRUE, group |-> polGroup[Config]]
             /\ UNCHANGED <<polNow, polPresent, polSaved, polAt, polList, polOwners, polSession,
                            polFaults, polEver>>
    <3> USE DEF PolInv
    <3>1. UNCHANGED <<polNow, polPresent, polGroup, polLast, polData, polStandby, polAt, polOwners,
                      polSession, polGone, polMoved>>
      BY <2>3 DEF polSaved, polEver
    <3>2. Config \in PolConfigs
      BY <2>1, PolAtTypes
    <3>3. PolTypes'
      BY <2>1, <2>3, <3>1, <3>2 DEF PolTypes, PolValues
    <3>4. /\ PolPast' /\ PolPending' /\ PolUnwritten' /\ PolOwned' /\ PolWriters' /\ PolCovered'
          /\ OneWriterPerCluster'
      BY <3>1 DEF PolPast, PolPending, PolUnwritten, PolOwned, PolWriters, PolCovered,
                  OneWriterPerCluster, SameCluster, SameType, Config
    <3>5. PolUnmoved'
      BY <2>3, <3>1, <3>2 DEF PolUnmoved, Config
    <3> QED BY <3>3, <3>4, <3>5
  <2> QED BY <1>2, <2>2, <2>3 DEF BeginPoll
<1>3. CASE EndPoll
  <2>1. polPoll.busy /\ polAt # 0
    BY <1>3 DEF EndPoll, PolInv, PolTypes
  <2>2. CASE Passed(Polled(Config), OwnersAfter(Config))
    BY <2>1, <2>2, PolNextPolled, PolPassedStep
  <2>3. CASE RunLost
    BY <2>3, PolLostStep
  <2>4. CASE Passed(PollFailed(Config), polOwners)
    BY <2>1, <2>4, PolNextFailed, PolPassedStep
  <2> QED BY <1>3, <2>2, <2>3, <2>4 DEF EndPoll
<1>4. CASE AbortPolling
  BY <1>4, PolLostStep DEF AbortPolling
<1>5. ASSUME NEW c \in PolConfigs, NEW group \in PolGroups \cup {NoGroup}, NEW host \in HostKinds,
             CreateIntegration(c, group, host) \/ EditIntegration(c, group, host)
      PROVE  PolInv'
  BY <1>5, PolCreateStep, PolEditStep
<1>6. ASSUME NEW c \in PolConfigs, DeleteIntegration(c)
      PROVE  PolInv'
  BY <1>6, PolDeleteStep
<1>7. CASE UNCHANGED polVars
  <2>1. UNCHANGED <<polNow, polPresent, polGroup, polLast, polData, polStandby, polAt, polPoll,
                    polOwners, polSession, polGone, polMoved>>
    BY <1>7 DEF polVars, polSaved, polRun, polEver
  <2>2. PolTypes' /\ PolPast'
    BY <2>1 DEF PolInv, PolTypes, PolPast, PolValues
  <2>3. PolPending' /\ PolUnwritten' /\ PolOwned' /\ PolUnmoved'
    BY <2>1 DEF PolInv, PolPending, PolUnwritten, PolOwned, PolUnmoved, Config
  <2>4. PolWriters' /\ PolCovered' /\ OneWriterPerCluster'
    BY <2>1 DEF PolInv, PolWriters, PolCovered, OneWriterPerCluster, SameCluster, SameType
  <2> QED BY <2>2, <2>3, <2>4 DEF PolInv
<1> QED BY <1>1, <1>2, <1>3, <1>4, <1>5, <1>6, <1>7 DEF PolNext

\* Whatever fails, is rolled back, comes back, or is created, regrouped and deleted
\* between a poll and its answer: two members of a cluster never have data of one run, and
\* nobody stands by beside nobody's data.
THEOREM ClustersHaveOneWriter == PolSpec => []OneWriterPerCluster
<1>1. PolInv => OneWriterPerCluster
  BY DEF PolInv
<1> QED BY <1>1, PolInvInit, PolInvStep, PTL DEF PolSpec

-----------------------------------------------------------------------------
(***************************************************************************)
(* ProbeStatus: whoever is shown as up was really found up.  A result that *)
(* says so, stored or still carried by the probe, is not newer than the    *)
(* last time somebody found the host up.                                   *)
(***************************************************************************)

PrbChecks == [ts : Nat, up : BOOLEAN]

PrbTypes ==
    /\ prbNow \in Nat /\ prbSeen \in Nat /\ prbSawUp \in Nat
    /\ prbUp \in BOOLEAN
    /\ prbRow \in PrbChecks /\ prbCarried \in PrbChecks
    /\ 0 < prbNow /\ prbSawUp <= prbNow

\* A check that found the host up is witnessed.
Witnessed(c) == c.up => c.ts # 0 /\ c.ts <= prbSawUp

PrbInv == PrbTypes /\ Witnessed(prbRow) /\ Witnessed(prbCarried)

\* The newer of two checks is one of them.
LEMMA PrbLatest == \A a, b : Latest(a, b) \in {a, b}
BY DEF Latest

\* Nothing was found at first.
LEMMA PrbInvInit == ASSUME PrbInit PROVE PrbInv
BY DEF PrbInit, PrbInv, PrbTypes, PrbChecks, Witnessed, NoCheck, Never

\* Every step preserves the invariant.
LEMMA PrbInvStep == ASSUME PrbInv, [PrbNext]_prbVars PROVE PrbInv'
<1> USE DEF PrbInv, PrbTypes, PrbChecks, Witnessed
<1>1. CASE StartCoreRun
  BY <1>1 DEF StartCoreRun
<1>2. CASE FinishCoreRun
  <2> DEFINE new == [ts |-> prbNow, up |-> prbUp]
  <2>1. new \in PrbChecks /\ (prbUp => new.up /\ new.ts = prbNow)
    OBVIOUS
  <2>2. prbRow' \in {prbRow, new}
    BY <1>2, PrbLatest DEF FinishCoreRun
  <2>3. /\ prbSawUp' = IF prbUp THEN prbNow ELSE prbSawUp
        /\ UNCHANGED <<prbNow, prbSeen, prbUp, prbCarried>>
    BY <1>2 DEF FinishCoreRun
  <2>4. prbRow' \in PrbChecks /\ (prbRow'.up => prbRow'.ts # 0 /\ prbRow'.ts <= prbSawUp')
    BY <2>1, <2>2, <2>3
  <2>5. prbSawUp' \in Nat /\ prbSawUp <= prbSawUp' /\ prbSawUp' <= prbNow
    BY <2>3
  <2> HIDE DEF new
  <2>6. prbCarried.up => prbCarried.ts # 0 /\ prbCarried.ts <= prbSawUp'
    BY <2>5
  <2> QED BY <2>3, <2>4, <2>5, <2>6
<1>3. CASE ProbeCheck
  BY <1>3 DEF ProbeCheck
<1>4. CASE ProbeReport
  <2>1. prbRow' \in {prbRow, prbCarried}
    BY <1>4, PrbLatest DEF ProbeReport, Recorded
  <2> QED BY <1>4, <2>1 DEF ProbeReport, NoCheck, Never
<1>5. CASE LoseProbe \/ RestartProbe \/ Assign \/ Show
  <2>1. prbCarried' \in {prbCarried, NoCheck} /\ UNCHANGED <<prbNow, prbSeen, prbUp, prbRow, prbSawUp>>
    BY <1>5 DEF LoseProbe, RestartProbe, Assign, Show
  <2>2. NoCheck \in PrbChecks /\ ~NoCheck.up
    BY DEF NoCheck, Never
  <2> QED BY <2>1, <2>2
<1>6. CASE HostFails
  BY <1>6 DEF HostFails
<1>7. CASE PrbTick
  BY <1>7 DEF PrbTick
<1>8. CASE UNCHANGED prbVars
  BY <1>8 DEF prbVars
<1> QED BY <1>1, <1>2, <1>3, <1>4, <1>5, <1>6, <1>7, <1>8 DEF PrbNext

\* A host that a probe checks is shown as up only when it was found up within the window,
\* and listed as up only when it was found up since its newest result was taken, for
\* every window and interval.
THEOREM ShownUpWasSeenUp == PrbSpec => []NoFalseGreen
<1>1. PrbInv => NoFalseGreen
  BY PrbAssumption DEF PrbInv, PrbTypes, PrbChecks, Witnessed, NoFalseGreen, Status, ListStatus, Result,
         Unobserved, ResultWindow, StalenessWindow, Never
<1> QED BY PrbInvInit, PrbInvStep, <1>1, PTL DEF PrbSpec

-----------------------------------------------------------------------------
(***************************************************************************)
(* PingChecks: an alert answers an outage. What a process remembers of an  *)
(* outage began after it last found the host up; while it leads, nobody    *)
(* else finds it up, and what it has announced of an outage of its term is *)
(* the last alert sent.                                                    *)
(***************************************************************************)
PngTypes ==
    /\ pngNow \in Nat /\ pngTerm \in Nat /\ pngLastUp \in Nat
    /\ pngLeader \in PngProcs
    /\ pngSince \in [PngProcs -> Nat] /\ pngUpBy \in [PngProcs -> Nat]
    /\ pngNotified \in [PngProcs -> BOOLEAN]
    /\ pngTerm <= pngNow

\* A process found the host up before this minute, and not since its outage began.
PngRemembers(p) ==
    /\ pngUpBy[p] < pngNow
    /\ pngSince[p] # 0 => pngUpBy[p] < pngSince[p] /\ pngSince[p] < pngNow
    /\ pngNotified[p] => pngSince[p] # 0

PngRemembered == \A p \in PngProcs : PngRemembers(p)

\* In the term of a leader nobody else checks or alerts.
PngTermKept ==
    /\ pngLastUp < pngNow
    /\ OfThisTerm(pngSince[pngLeader]) => pngLastUp < pngSince[pngLeader]
    /\ OfThisTerm(pngSince[pngLeader]) /\ pngNotified[pngLeader] => pngAlert.kind = "offline"

PngInv == PngTypes /\ PngRemembered /\ PngTermKept

\* What a check leaves of the outage: it begins when it was not remembered.
LEMMA PngSinceAfter ==
    ASSUME PngInv, NEW p \in PngProcs, NEW c \in Checks
    PROVE  /\ Since(p, c) \in Nat /\ Since(p, c) <= pngNow
           /\ c.up => Since(p, c) = 0
           /\ ~c.up => Since(p, c) # 0 /\ pngUpBy[p] < Since(p, c)
           /\ ~c.up /\ pngSince[p] # 0 => Since(p, c) = pngSince[p]
           /\ ~c.up /\ pngSince[p] = 0 => Since(p, c) = pngNow
<1>1. pngSince[p] \in Nat /\ pngUpBy[p] \in Nat /\ PngRemembers(p) /\ pngNow \in Nat
  BY DEF PngInv, PngTypes, PngRemembered
<1> QED BY <1>1 DEF Since, PngRemembers

\* _track_outage preserves the invariant, and alerts as the property demands, whatever
\* it is told.
LEMMA PngTracked ==
    ASSUME PngInv, NEW c \in Checks, NEW prev, TrackOutage(pngLeader, c, prev),
           pngNow' = pngNow + 1, UNCHANGED <<pngLeader, pngTerm>>
    PROVE  PngInv' /\ OfflineEarned /\ OnlineEarned
<1> DEFINE l == pngLeader
           since == Since(l, c)
           told == ~c.up /\ (pngNotified[l] \/ OfflineAlert(l, c))
<1>1. /\ pngNow \in Nat /\ pngTerm \in Nat /\ pngLastUp \in Nat /\ pngTerm <= pngNow
      /\ l \in PngProcs
      /\ pngSince \in [PngProcs -> Nat] /\ pngUpBy \in [PngProcs -> Nat]
      /\ pngNotified \in [PngProcs -> BOOLEAN]
      /\ PngRemembers(l) /\ PngTermKept
  BY DEF PngInv, PngTypes, PngRemembered
<1>2. /\ since \in Nat /\ since <= pngNow
      /\ c.up => since = 0
      /\ ~c.up => since # 0 /\ pngUpBy[l] < since
      /\ ~c.up /\ pngSince[l] # 0 => since = pngSince[l]
      /\ ~c.up /\ pngSince[l] = 0 => since = pngNow
  BY <1>1, PngSinceAfter
<1>3. /\ pngSince' = [pngSince EXCEPT ![l] = since]
      /\ pngNotified' = [pngNotified EXCEPT ![l] = told]
      /\ pngAlert' = CASE OfflineAlert(l, c) -> [kind |-> "offline", at |-> pngNow]
                       [] OnlineAlert(l, c, prev) -> [kind |-> "online", at |-> pngNow]
                       [] OTHER -> pngAlert
      /\ pngLastUp' = IF c.up THEN pngNow ELSE pngLastUp
      /\ pngUpBy' = IF c.up THEN [pngUpBy EXCEPT ![l] = pngNow] ELSE pngUpBy
  BY DEF TrackOutage
<1>4. told \in BOOLEAN /\ (told <=> ~c.up /\ (pngNotified[l] \/ OfflineAlert(l, c)))
  BY Zenon
<1>5. OfflineAlert(l, c) <=> (~c.up /\ ~pngNotified[l] /\ pngNow - since >= Grace)
  BY DEF OfflineAlert
<1>6. OnlineAlert(l, c, prev) => c.up /\ pngNotified[l]
  BY DEF OnlineAlert
<1> HIDE DEF since, told, l
<1>7. pngNotified' \in [PngProcs -> BOOLEAN]
  BY <1>1, <1>3, <1>4, Zenon
<1>8. /\ pngSince' \in [PngProcs -> Nat] /\ pngUpBy' \in [PngProcs -> Nat]
      /\ pngSince'[l] = since
      /\ pngUpBy'[l] = IF c.up THEN pngNow ELSE pngUpBy[l]
      /\ \A p \in PngProcs \ {l} : pngSince'[p] = pngSince[p] /\ pngUpBy'[p] = pngUpBy[p]
  BY <1>1, <1>2, <1>3
<1>9. pngNotified'[l] = told /\ \A p \in PngProcs \ {l} : pngNotified'[p] = pngNotified[p]
  BY <1>1, <1>3, Zenon
<1>10. l = pngLeader /\ l = pngLeader' /\ pngTerm' = pngTerm
  BY DEF l
<1>11. PngTypes'
  BY <1>1, <1>3, <1>7, <1>8, <1>10 DEF PngTypes
<1>12. PngRemembered'
  <2>1. SUFFICES ASSUME NEW p \in PngProcs
                 PROVE  /\ pngUpBy'[p] < pngNow'
                        /\ pngSince'[p] # 0 => pngUpBy'[p] < pngSince'[p] /\ pngSince'[p] < pngNow'
                        /\ pngNotified'[p] => pngSince'[p] # 0
    BY DEF PngRemembered, PngRemembers
  <2>2. CASE p = l
    <3>1. pngUpBy'[p] < pngNow'
      BY <2>2, <1>1, <1>8 DEF PngRemembers
    <3>2. pngSince'[p] # 0 => pngUpBy'[p] < pngSince'[p] /\ pngSince'[p] < pngNow'
      BY <2>2, <1>1, <1>2, <1>8
    <3>3. pngNotified'[p] => ~c.up
      BY <2>2, <1>4, <1>9, Zenon
    <3>4. pngNotified'[p] => pngSince'[p] # 0
      BY <3>3, <2>2, <1>2, <1>8
    <3> QED BY <3>1, <3>2, <3>4
  <2>3. CASE p # l
    <3>1. PngRemembers(p) /\ pngSince[p] \in Nat /\ pngUpBy[p] \in Nat
      BY DEF PngInv, PngRemembered, PngTypes
    <3>2. pngSince'[p] = pngSince[p] /\ pngUpBy'[p] = pngUpBy[p] /\ pngNotified'[p] = pngNotified[p]
      BY <2>3, <1>8, <1>9
    <3> QED BY <3>1, <3>2, <1>1 DEF PngRemembers
  <2> QED BY <2>2, <2>3
<1>13. PngTermKept'
  <2>1. pngLastUp' < pngNow'
    BY <1>1, <1>3 DEF PngTermKept
  <2>2. ASSUME OfThisTerm(pngSince[pngLeader])'
        PROVE  /\ pngLastUp' < pngSince'[l]
               /\ pngNotified'[l] => pngAlert'.kind = "offline"
    <3>1. ~c.up /\ since # 0 /\ since >= pngTerm
      BY <2>2, <1>2, <1>8, <1>10 DEF OfThisTerm
    <3>2. pngLastUp' = pngLastUp
      BY <3>1, <1>3
    <3>3. CASE pngSince[l] = 0
      <4>1. since = pngNow /\ ~pngNotified[l]
        BY <3>1, <3>3, <1>1, <1>2 DEF PngRemembers
      <4>2. pngNotified'[l] => OfflineAlert(l, c)
        BY <4>1, <1>4, <1>9, Zenon
      <4>3. OfflineAlert(l, c) => pngAlert'.kind = "offline"
        BY <1>3, <1>5, <1>6
      <4>4. pngLastUp' < pngSince'[l]
        BY <4>1, <3>2, <1>1, <1>8 DEF PngTermKept
      <4>5. pngNotified'[l] => pngAlert'.kind = "offline"
        BY <4>2, <4>3
      <4> QED BY <4>4, <4>5
    <3>4. CASE pngSince[l] # 0
      <4>1. OfThisTerm(pngSince[pngLeader]) /\ since = pngSince[l]
        BY <3>1, <3>4, <1>2, <1>10 DEF OfThisTerm
      <4>2. pngLastUp < since /\ (pngNotified[l] => pngAlert.kind = "offline")
        BY <4>1, <1>1, <1>10 DEF PngTermKept
      <4>3. ~OnlineAlert(l, c, prev)
        BY <3>1, <1>6
      <4>4. pngNotified'[l] => pngNotified[l] \/ OfflineAlert(l, c)
        BY <1>4, <1>9, Zenon
      <4>5. pngNotified'[l] => pngAlert'.kind = "offline"
        BY <4>2, <4>3, <4>4, <1>3
      <4> QED BY <4>2, <4>5, <3>2, <1>8
    <3> QED BY <3>3, <3>4
  <2> QED BY <2>1, <2>2, <1>10 DEF PngTermKept
<1>14. OfflineEarned
  <2>1. SUFFICES ASSUME NEW p \in PngProcs, ~pngNotified[p], pngNotified'[p]
                 PROVE  /\ pngNow - pngUpBy[p] > Grace
                        /\ OfThisTerm(pngSince'[p]) => pngNow - pngLastUp > Grace
    BY DEF OfflineEarned
  <2>2. p = l
    BY <2>1, <1>9, Zenon
  <2>3. ~c.up /\ pngNow - since >= Grace
    BY <2>1, <2>2, <1>4, <1>5, <1>9, Zenon
  <2>4. pngNow - pngUpBy[p] > Grace
    BY <2>2, <2>3, <1>1, <1>2, PngAssumption
  <2>5. ASSUME OfThisTerm(pngSince'[p]) PROVE pngNow - pngLastUp > Grace
    <3>1. since >= pngTerm /\ since # 0
      BY <2>2, <2>5, <1>8 DEF OfThisTerm
    <3>2. pngLastUp < since
      BY <3>1, <2>3, <1>1, <1>2, <1>10 DEF PngTermKept, OfThisTerm
    <3> QED BY <3>2, <2>3, <1>1, <1>2, PngAssumption
  <2> QED BY <2>4, <2>5
<1>15. OnlineEarned
  <2>1. ASSUME pngAlert' # pngAlert, pngAlert'.kind = "online"
        PROVE  /\ pngNotified[l] /\ pngLastUp' = pngNow
               /\ OfThisTerm(pngSince[l]) => pngAlert.kind = "offline"
    <3>1. OnlineAlert(l, c, prev)
      BY <2>1, <1>3
    <3> QED BY <3>1, <1>1, <1>3, <1>6, <1>10 DEF PngTermKept
  <2> QED BY <2>1, <1>10 DEF OnlineEarned
<1> QED BY <1>11, <1>12, <1>13, <1>14, <1>15, Zenon DEF PngInv

\* For any thresholds and grace period, any number of processes, restarts and changes of the
\* leader: a process announces an outage only after the grace period in which it has not
\* found the host up, and a recovery only of an outage it has announced; of what began in its
\* present term nobody has found the host up, or answered the announcement, in between
\* (scheduler.py run_ping_checks, _apply_leadership).
THEOREM AlertsAnswerOutages == PngSpec => AlertsMatchOutages
<1>1. ASSUME PngInit PROVE PngInv
  <2>1. /\ pngNow = 1 /\ pngLastUp = 0 /\ pngTerm = 1 /\ pngLeader \in PngProcs
        /\ pngSince = [p \in PngProcs |-> 0] /\ pngUpBy = [p \in PngProcs |-> 0]
    BY <1>1 DEF PngInit
  <2>2. /\ pngNotified \in [PngProcs -> BOOLEAN]
        /\ \A p \in PngProcs : ~pngNotified[p]
    BY <1>1, Zenon DEF PngInit
  <2> QED BY <2>1, <2>2 DEF PngInv, PngTypes, PngRemembered, PngRemembers, PngTermKept, OfThisTerm
<1>2. ASSUME PngInv, [PngNext]_pngVars PROVE PngInv' /\ [OfflineEarned /\ OnlineEarned]_pngVars
  <2> USE <1>2
  <2>1. ASSUME NEW p \in PngProcs, RunPingChecks(p) PROVE PngInv' /\ OfflineEarned /\ OnlineEarned
    <3>1. p = pngLeader /\ pngNow' = pngNow + 1 /\ UNCHANGED <<pngLeader, pngTerm>>
      BY <2>1 DEF RunPingChecks, NextMinute, pngLead
    <3>2. ASSUME UNCHANGED pngTrack PROVE PngInv' /\ OfflineEarned /\ OnlineEarned
      BY <3>1, <3>2 DEF pngTrack, PngInv, PngTypes, PngRemembered, PngRemembers, PngTermKept,
                        OfThisTerm, OfflineEarned, OnlineEarned
    <3>3. ASSUME NEW c \in Checks, NEW prev, TrackOutage(p, c, prev)
          PROVE  PngInv' /\ OfflineEarned /\ OnlineEarned
      BY <3>1, <3>3, PngTracked
    <3> QED BY <2>1, <3>2, <3>3 DEF RunPingChecks
  <2>2. ASSUME ScheduleMaintenance PROVE PngInv' /\ OfflineEarned /\ OnlineEarned
    BY <2>2 DEF ScheduleMaintenance, pngTrack, pngLead, PngInv, PngTypes, PngRemembered, PngRemembers,
                PngTermKept, OfThisTerm, OfflineEarned, OnlineEarned
  <2>3. ASSUME NEW p \in PngProcs, ChangeLeader(p) PROVE PngInv' /\ OfflineEarned /\ OnlineEarned
    <3>1. /\ pngLeader' = p /\ pngTerm' = pngNow
          /\ UNCHANGED <<pngNow, pngSince, pngNotified, pngAlert, pngLastUp, pngUpBy>>
      BY <2>3 DEF ChangeLeader, pngTrack
    <3>2. PngTypes' /\ PngRemembered'
      BY <3>1 DEF PngInv, PngTypes, PngRemembered, PngRemembers
    <3>3. ~OfThisTerm(pngSince[pngLeader])'
      BY <3>1 DEF PngInv, PngTypes, PngRemembered, PngRemembers, OfThisTerm
    <3>4. PngTermKept'
      BY <3>1, <3>3 DEF PngInv, PngTermKept
    <3> QED BY <3>1, <3>2, <3>4 DEF PngInv, OfflineEarned, OnlineEarned
  <2>4. ASSUME NEW p \in PngProcs, RestartProcess(p) PROVE PngInv' /\ OfflineEarned /\ OnlineEarned
    <3>1. /\ pngSince' = [pngSince EXCEPT ![p] = 0] /\ pngUpBy' = [pngUpBy EXCEPT ![p] = 0]
          /\ pngTerm' = IF p = pngLeader THEN pngNow ELSE pngTerm
          /\ UNCHANGED <<pngNow, pngAlert, pngLastUp, pngLeader>>
      BY <2>4 DEF RestartProcess
    <3>2. /\ pngNotified' \in [PngProcs -> BOOLEAN] /\ ~pngNotified'[p]
          /\ \A q \in PngProcs \ {p} : pngNotified'[q] = pngNotified[q]
      BY <2>4, Zenon DEF RestartProcess, PngInv, PngTypes
    <3>3. /\ pngSince' \in [PngProcs -> Nat] /\ pngUpBy' \in [PngProcs -> Nat]
          /\ pngSince'[p] = 0 /\ pngUpBy'[p] = 0
          /\ \A q \in PngProcs \ {p} : pngSince'[q] = pngSince[q] /\ pngUpBy'[q] = pngUpBy[q]
      BY <3>1 DEF PngInv, PngTypes
    <3>4. PngTypes'
      BY <3>1, <3>2, <3>3 DEF PngInv, PngTypes
    <3>5. PngRemembered'
      BY <3>1, <3>2, <3>3 DEF PngInv, PngTypes, PngRemembered, PngRemembers
    <3>6. PngTermKept'
      <4>1. pngLastUp' < pngNow'
        BY <3>1 DEF PngInv, PngTermKept
      <4>2. CASE p = pngLeader
        BY <4>1, <4>2, <3>1, <3>3 DEF PngTermKept, OfThisTerm
      <4>3. CASE p # pngLeader
        <5>1. /\ pngSince'[pngLeader'] = pngSince[pngLeader]
              /\ pngNotified'[pngLeader'] = pngNotified[pngLeader]
              /\ pngTerm' = pngTerm
          BY <4>3, <3>1, <3>2, <3>3 DEF PngInv, PngTypes
        <5> QED BY <4>1, <5>1, <3>1 DEF PngInv, PngTermKept, OfThisTerm
      <4> QED BY <4>2, <4>3
    <3>7. OfflineEarned
      BY <3>2, Zenon DEF OfflineEarned
    <3> QED BY <3>1, <3>4, <3>5, <3>6, <3>7 DEF PngInv, OnlineEarned
  <2>5. ASSUME UNCHANGED pngVars PROVE PngInv'
    BY <2>5 DEF pngVars, pngTrack, pngLead, PngInv, PngTypes, PngRemembered, PngRemembers, PngTermKept,
                OfThisTerm
  <2> QED BY <2>1, <2>2, <2>3, <2>4, <2>5 DEF PngNext
<1> QED BY <1>1, <1>2, PTL DEF PngSpec, AlertsMatchOutages

-----------------------------------------------------------------------------
(***************************************************************************)
(* HostTable: a merge keeps its cover. Rows have ids of their own, and     *)
(* what a job has read are rows.                                           *)
(***************************************************************************)
Columns == {"id", "key", "addr", "source", "enabled", "vmid", "mac"}
IsRow(r) == r = [f \in Columns |-> r[f]] /\ r.id \in Nat

\* Rows of hosts with ids of their own, all below next.
IsTable(rows, next) ==
    /\ \A r \in rows : IsRow(r) /\ r.id < next
    /\ \A r, s \in rows : r.id = s.id => r = s

HstInv ==
    /\ hstNext \in Nat
    /\ IsTable(hstRows, hstNext)
    /\ hstSeen = [j \in Jobs |-> hstSeen[j]]
    /\ \A j \in Jobs : \A r \in hstSeen[j] : IsRow(r)
    /\ \A j \in Jobs : \A r, s \in hstSeen[j] : r.id = s.id => r = s

\* What a job makes of the rows it read are rows with the same ids.
KeepsIds(read, new) == \A r \in read : new[r] = [f \in Columns |-> new[r][f]] /\ new[r].id = r.id

\* An insertion takes an id no row has.
LEMMA InsertedApart ==
    ASSUME HstInv, NEW row, IsRow(row), row.id = hstNext, Insert(row)
    PROVE  hstNext' \in Nat /\ IsTable(hstRows', hstNext')
BY DEF HstInv, IsTable, Insert, IsRow

\* An edit of one row keeps its id.
LEMMA EditedApart ==
    ASSUME HstInv, NEW r \in hstRows, NEW new, IsRow(new), new.id = r.id,
           hstRows' = (hstRows \ {r}) \cup {new}, hstNext' = hstNext
    PROVE  hstNext' \in Nat /\ IsTable(hstRows', hstNext')
BY DEF HstInv, IsTable, IsRow

\* An update writes columns and deletes rows; ids stay.
LEMMA UpdatedApart ==
    ASSUME HstInv, NEW read, NEW new, NEW gone, \A r \in read : IsRow(r), KeepsIds(read, new),
           Update(read, new, gone)
    PROVE  hstNext' \in Nat /\ IsTable(hstRows', hstNext')
<1>1. CASE HstFailed
  BY <1>1 DEF HstFailed, HstInv, IsTable
<1>2. CASE ~HstFailed
  <2>. DEFINE changed == {r \in read \ gone : new[r] # r}
              F(row) == IF row.id \in Ids(changed)
                        THEN LET old == CHOOSE r \in changed : r.id = row.id IN HstWritten(row, old, new[old])
                        ELSE row
              kept == {x \in hstRows : x.id \notin Ids(gone)}
  <2>1. hstRows' = {F(row) : row \in kept} /\ hstNext' = hstNext
    BY <1>2 DEF Update, HstFailed
  <2>2. \A row \in kept : F(row) = [f \in Columns |-> F(row)[f]] /\ F(row).id = row.id
    <3>. TAKE row \in kept
    <3>1. IsRow(row)
      BY DEF HstInv, IsTable
    <3>2. CASE row.id \in Ids(changed)
      <4>. DEFINE old == CHOOSE r \in changed : r.id = row.id
      <4>1. old \in changed
        BY <3>2 DEF Ids
      <4>2. F(row) = [f \in Columns |-> IF new[old][f] # old[f] THEN new[old][f] ELSE row[f]]
        BY <3>1, <3>2 DEF IsRow, HstWritten
      <4>3. new[old].id = old.id
        BY <4>1 DEF KeepsIds
      <4>. HIDE DEF old, F
      <4>. QED BY <4>2, <4>3 DEF Columns
    <3>3. CASE row.id \notin Ids(changed)
      BY <3>1, <3>3 DEF IsRow
    <3>. QED BY <3>2, <3>3
  <2>. HIDE DEF F
  <2>. QED BY <2>1, <2>2 DEF HstInv, IsTable, IsRow
<1>. QED BY <1>1, <1>2

\* An update of one row.
LEMMA OneUpdatedApart ==
    ASSUME HstInv, NEW m, IsRow(m), NEW new, new[m] = [f \in Columns |-> new[m][f]], new[m].id = m.id,
           Update({m}, new, {})
    PROVE  hstNext' \in Nat /\ IsTable(hstRows', hstNext')
<1>1. KeepsIds({m}, new) /\ \A r \in {m} : IsRow(r)
  BY DEF KeepsIds
<1>. QED BY <1>1, UpdatedApart

\* A row that the job read and nobody has touched is watched as before, unless it was
\* merged into one that does not watch.
LEMMA MergeCovers ==
    ASSUME HstInv, FinishDns, NEW w \in hstRows, w \in hstSeen["dns"], w.enabled,
           HstTarget(w) # Unset, HstTarget(w) \notin Targets(hstRows')
    PROVE  NotCovered(w)
<1>. DEFINE read == hstSeen["dns"]
<1>1. PICK kept \in SUBSET Indexed(read), found \in {Unset, "lan", "wan"} :
         /\ \A a, b \in kept : a.addr = b.addr => a = b
         /\ Update(read, [r \in read |-> Resolved(r, found)], Merged(read, kept))
  BY DEF FinishDns
<1>. DEFINE new == [r \in read |-> Resolved(r, found)]
            gone == Merged(read, kept)
            changed == {r \in read \ gone : new[r] # r}
            F(row) == IF row.id \in Ids(changed)
                      THEN LET old == CHOOSE r \in changed : r.id = row.id IN HstWritten(row, old, new[old])
                      ELSE row
<1>2. ~HstFailed
  BY DEF HstFailed, Targets
<1>3. hstRows' = {F(row) : row \in {x \in hstRows : x.id \notin Ids(gone)}}
  BY <1>1, <1>2 DEF Update, HstFailed
<1>4. \A r, s \in read : r.id = s.id => r = s
  BY DEF HstInv, Jobs
<1>5. gone \subseteq read /\ changed \subseteq read
  BY DEF Merged
<1>6. ASSUME NEW row \in hstRows, row \in read, row \notin gone, row.addr # Unset
      PROVE  row \in hstRows'
  <2>1. row.id \notin Ids(gone)
    BY <1>4, <1>5, <1>6 DEF Ids
  <2>2. row \notin changed
    BY <1>6 DEF Resolved
  <2>3. row.id \notin Ids(changed)
    BY <1>4, <1>5, <1>6, <2>2 DEF Ids
  <2>4. F(row) = row
    BY <2>3
  <2>. QED BY <1>3, <2>1, <2>4
<1>7. CASE w \in gone
  <2>1. PICK k \in kept : k.addr = CheckIp(w) /\ k.id # w.id
    BY <1>7 DEF Merged
  <2>2. w.key = "addr" /\ CheckIp(w) = HstTarget(w)
    BY <1>7 DEF Merged, CheckIp, HstTarget
  <2>3. k \in Indexed(read) /\ k \in read /\ k.addr # Unset
    BY DEF Indexed
  <2>4. k \notin gone
    <3>1. SUFFICES ASSUME k \in gone PROVE FALSE
      OBVIOUS
    <3>2. PICK l \in kept : l.addr = CheckIp(k) /\ l.id # k.id
      BY <3>1 DEF Merged
    <3>. QED BY <1>1, <2>3, <3>2 DEF CheckIp
  <2>5. SUFFICES ASSUME k.enabled, k \in hstRows PROVE FALSE
    BY <2>1, <2>2, <2>3 DEF NotCovered
  <2>6. k \in hstRows' /\ HstTarget(k) = HstTarget(w)
    BY <1>6, <2>1, <2>2, <2>3, <2>4, <2>5 DEF HstTarget
  <2>. HIDE DEF gone, F
  <2>. QED BY <2>5, <2>6 DEF Targets
<1>8. CASE w \notin gone /\ w.addr # Unset
  <2>1. w \in hstRows'
    BY <1>6, <1>8
  <2>. HIDE DEF gone, F
  <2>. QED BY <2>1 DEF Targets
<1>9. CASE w \notin gone /\ w.addr = Unset
  <2>1. w.key = "addr" /\ HstTarget(w) = "lan"
    BY <1>9 DEF HstTarget
  <2>2. DOMAIN w = Columns
    <3>1. IsRow(w)
      BY DEF HstInv, IsTable
    <3>. QED BY <3>1 DEF IsRow
  <2>3. w.id \notin Ids(gone)
    BY <1>4, <1>5, <1>9 DEF Ids
  <2>4. Resolved(w, found) = [w EXCEPT !.addr = "lan"]
    BY <1>9, <2>1 DEF Resolved
  <2>5. "lan" # Unset
    BY DEF Unset
  <2>6. w \in changed
    <3>1. [w EXCEPT !.addr = "lan"].addr = "lan"
      BY <2>2 DEF Columns
    <3>. HIDE DEF gone
    <3>. QED BY <1>9, <2>4, <2>5, <3>1
  <2>7. F(w) = HstWritten(w, w, Resolved(w, found))
    <3>. DEFINE old == CHOOSE r \in changed : r.id = w.id
    <3>1. old \in changed /\ old.id = w.id
      BY <2>6
    <3>2. old = w
      BY <1>4, <1>5, <3>1
    <3>3. w.id \in Ids(changed)
      BY <2>6 DEF Ids
    <3>4. F(w) = HstWritten(w, old, new[old])
      BY <3>3
    <3>. HIDE DEF old, F
    <3>. QED BY <3>2, <3>4
  <2>. HIDE DEF F
  <2>8. F(w).addr = "lan" /\ F(w).enabled
    BY <2>2, <2>4, <2>7 DEF HstWritten, Columns
  <2>9. F(w) \in hstRows'
    BY <1>3, <2>3
  <2>10. HstTarget(F(w)) = "lan"
    BY <2>5, <2>8 DEF HstTarget
  <2>. QED BY <2>1, <2>5, <2>8, <2>9, <2>10 DEF Targets
<1>. QED BY <1>7, <1>8, <1>9

\* What an importer or the DNS job makes of a row is a row with its id.
LEMMA RowsKeepIds ==
    ASSUME NEW r, IsRow(r), NEW ip, NEW flag
    PROVE  /\ IsRow(ProxmoxRow(r, ip, flag)) /\ ProxmoxRow(r, ip, flag).id = r.id
           /\ IsRow(UnifiRow(r, flag)) /\ UnifiRow(r, flag).id = r.id
           /\ IsRow(PhpipamRow(r)) /\ PhpipamRow(r).id = r.id
           /\ IsRow(Resolved(r, ip)) /\ Resolved(r, ip).id = r.id
<1>1. /\ DOMAIN r = Columns /\ r.id \in Nat
      /\ \A s : IsRow(s) <=> s = [f \in DOMAIN s |-> s[f]] /\ DOMAIN s = Columns /\ s.id \in Nat
  BY DEF IsRow
<1>2. \A x, y : /\ IsRow([r EXCEPT !.addr = x]) /\ [r EXCEPT !.addr = x].id = r.id
                /\ IsRow([r EXCEPT !.source = x, !.vmid = y]) /\ [r EXCEPT !.source = x, !.vmid = y].id = r.id
  BY DEF IsRow, Columns
<1>3. IsRow(ProxmoxRow(r, ip, flag)) /\ ProxmoxRow(r, ip, flag).id = r.id
  <2>1. PICK x, y : ProxmoxRow(r, ip, flag) =
                      [[r EXCEPT !.source = IF @ = "manual" THEN "proxmox" ELSE @, !.vmid = TRUE] EXCEPT !.addr = x, !.key = y]
    BY Zenon DEF ProxmoxRow
  <2>2. DOMAIN ProxmoxRow(r, ip, flag) = Columns
    BY <1>1, <2>1
  <2>3. ProxmoxRow(r, ip, flag).id = r.id
    BY <1>1, <2>1 DEF Columns
  <2>4. ProxmoxRow(r, ip, flag) = [f \in DOMAIN ProxmoxRow(r, ip, flag) |-> ProxmoxRow(r, ip, flag)[f]]
    BY <2>1
  <2>. QED BY <1>1, <2>2, <2>3, <2>4, Zenon
<1>4. IsRow(UnifiRow(r, flag)) /\ UnifiRow(r, flag).id = r.id
  <2>2. DOMAIN UnifiRow(r, flag) = Columns
    BY <1>1 DEF UnifiRow
  <2>3. UnifiRow(r, flag).id = r.id
    BY <1>1 DEF UnifiRow, Columns
  <2>4. UnifiRow(r, flag) = [f \in DOMAIN UnifiRow(r, flag) |-> UnifiRow(r, flag)[f]]
    BY DEF UnifiRow
  <2>. QED BY <1>1, <2>2, <2>3, <2>4, Zenon
<1>5. IsRow(PhpipamRow(r)) /\ PhpipamRow(r).id = r.id
  BY DEF PhpipamRow, IsRow, Columns
<1>6. IsRow(Resolved(r, ip)) /\ Resolved(r, ip).id = r.id
  BY <1>2 DEF Resolved
<1>. QED BY <1>3, <1>4, <1>5, <1>6

\* For any rows, enabled or not, and any importers and operators between the read and the
\* commit of the DNS job: an address that an enabled row watched, which nobody has touched
\* meanwhile, is still watched, unless the row that is said to cover it was disabled, changed
\* or deleted (scheduler.py resolve_host_dns).
THEOREM MergesKeepCover == HstSpec => MergeKeepsCover
<1>1. ASSUME HstInit PROVE HstInv
  BY <1>1 DEF HstInit, HstInv, IsTable, Jobs
<1>2. ASSUME HstInv, [HstNext]_hstVars PROVE HstInv'
  <2>. USE <1>2
  <2>. DEFINE Apart == hstNext' \in Nat /\ IsTable(hstRows', hstNext')
  <2>1. ASSUME Apart, UNCHANGED hstSeen PROVE HstInv'
    BY <2>1 DEF HstInv
  <2>2. ASSUME Apart, NEW j \in Jobs, EndJob(j) PROVE HstInv'
    BY <2>2 DEF HstInv, EndJob, Jobs
  <2>3. ASSUME NEW key, NEW addr, NEW source 
        PROVE  LET row == NewHost(key, addr, source) IN
               /\ IsRow(row) /\ IsRow([row EXCEPT !.vmid = TRUE]) /\ IsRow([row EXCEPT !.mac = TRUE])
               /\ row.id = hstNext /\ [row EXCEPT !.vmid = TRUE].id = hstNext /\ [row EXCEPT !.mac = TRUE].id = hstNext
    BY DEF NewHost, IsRow, Columns, HstInv
  <2>4. HstFailed => Apart
    BY DEF HstFailed, HstInv
  <2>5. ASSUME NEW key, NEW enabled, CreateHost(key, enabled) PROVE HstInv'
    <3>. DEFINE row == [NewHost(key, Unset, "manual") EXCEPT !.enabled = enabled]
    <3>1. IsRow(row) /\ row.id = hstNext
      BY DEF NewHost, IsRow, Columns, HstInv
    <3>2. Insert(row) /\ UNCHANGED hstSeen
      BY <2>5 DEF CreateHost, hstJobs
    <3>. HIDE DEF row
    <3>. QED BY <2>1, <3>1, <3>2, InsertedApart
  <2>6. ASSUME NEW r \in hstRows, EditHost(r) PROVE HstInv'
    <3>1. PICK key \in {"name", "addr"} : hstRows' = (hstRows \ {r}) \cup {[r EXCEPT !.key = key]}
      BY <2>6 DEF EditHost
    <3>2. IsRow([r EXCEPT !.key = key]) /\ [r EXCEPT !.key = key].id = r.id
      BY DEF HstInv, IsTable, IsRow, Columns
    <3>. QED BY <2>1, <2>6, <3>1, <3>2, EditedApart DEF EditHost, hstJobs
  <2>20. ASSUME NEW r \in hstRows, ToggleHost(r) PROVE HstInv'
    <3>1. IsRow([r EXCEPT !.enabled = ~@]) /\ [r EXCEPT !.enabled = ~@].id = r.id
      BY DEF HstInv, IsTable, IsRow, Columns
    <3>. QED BY <2>1, <2>20, <3>1, EditedApart DEF ToggleHost, hstJobs
  <2>7. ASSUME NEW r \in hstRows, SetParent(r) PROVE HstInv'
    BY <2>7 DEF SetParent, hstJobs, HstInv
  <2>8. ASSUME NEW r \in hstRows, DeleteHost(r) PROVE HstInv'
    BY <2>8 DEF DeleteHost, hstJobs, HstInv, IsTable
  <2>9. ASSUME NEW i, ClearParent(i) PROVE HstInv'
    BY <2>9 DEF ClearParent, hstJobs, HstInv
  <2>10. CASE EnrollHost
    BY <2>1, <2>3, <2>10, InsertedApart DEF EnrollHost, hstJobs
  <2>11. CASE DeleteAgentHost
    BY <2>11 DEF DeleteAgentHost, hstJobs, HstInv, IsTable
  <2>12. CASE StartScan
    BY <2>12 DEF StartScan, HstInv
  <2>13. ASSUME NEW j \in Jobs, StartJob(j) PROVE HstInv'
    BY <2>13 DEF StartJob, HstInv, Jobs, IsTable
  <2>14. CASE FinishProxmox
    <3>1. PICK renamed \in BOOLEAN :
            LET Row(r) == ProxmoxRow(r, "lan", renamed)
            IN  Import(ProxmoxMatch(hstSeen["import"]), Row, [NewHost("name", "lan", "proxmox") EXCEPT !.vmid = TRUE])
      BY <2>14 DEF FinishProxmox
    <3>2. \A r \in ProxmoxMatch(hstSeen["import"]) : IsRow(r)
      BY DEF HstInv, Jobs, ProxmoxMatch, Tied
    <3>3. ASSUME NEW m \in ProxmoxMatch(hstSeen["import"]), Update({m}, [r \in {m} |-> ProxmoxRow(r, "lan", renamed)], {})
          PROVE  Apart
      <4>1. IsRow(ProxmoxRow(m, "lan", renamed)) /\ ProxmoxRow(m, "lan", renamed).id = m.id
        BY <3>2, RowsKeepIds
      <4>. QED BY <3>2, <3>3, <4>1, OneUpdatedApart DEF IsRow
    <3>4. Apart
      BY <2>3, <2>4, <3>1, <3>3, InsertedApart DEF Import
    <3>. QED BY <2>2, <2>14, <3>4 DEF FinishProxmox, Jobs
  <2>15. CASE FinishUnifi
    <3>1. PICK fqdn \in BOOLEAN :
            LET Row(r) == UnifiRow(r, fqdn)
            IN  Import(UnifiMatch(hstSeen["import"]), Row,
                       [NewHost(IF fqdn THEN "name" ELSE "addr", "lan", "unifi") EXCEPT !.mac = TRUE])
      BY <2>15 DEF FinishUnifi
    <3>2. \A r \in UnifiMatch(hstSeen["import"]) : IsRow(r)
      BY DEF HstInv, Jobs, UnifiMatch
    <3>3. ASSUME NEW m \in UnifiMatch(hstSeen["import"]), Update({m}, [r \in {m} |-> UnifiRow(r, fqdn)], {})
          PROVE  Apart
      <4>1. IsRow(UnifiRow(m, fqdn)) /\ UnifiRow(m, fqdn).id = m.id
        BY <3>2, RowsKeepIds
      <4>. QED BY <3>2, <3>3, <4>1, OneUpdatedApart DEF IsRow
    <3>4. Apart
      BY <2>3, <2>4, <3>1, <3>3, InsertedApart DEF Import
    <3>. QED BY <2>2, <2>15, <3>4 DEF FinishUnifi, Jobs
  <2>16. CASE FinishPhpipam
    <3>. DEFINE match == {r \in hstSeen["import"] : r.key = "addr"}
    <3>1. \A r \in match : IsRow(r)
      BY DEF HstInv, Jobs
    <3>2. ASSUME NEW m \in match, Update({m}, [r \in {m} |-> PhpipamRow(r)], {})
          PROVE  Apart
      <4>1. IsRow(PhpipamRow(m)) /\ PhpipamRow(m).id = m.id
        BY <3>1, RowsKeepIds
      <4>. QED BY <3>1, <3>2, <4>1, OneUpdatedApart DEF IsRow
    <3>3. Apart
      BY <2>3, <2>4, <2>16, <3>2, InsertedApart DEF FinishPhpipam, Import
    <3>. QED BY <2>2, <2>16, <3>3 DEF FinishPhpipam, Jobs
  <2>17. CASE FinishScan
    BY <2>1, <2>3, <2>4, <2>17, InsertedApart DEF FinishScan, AddFound
  <2>18. CASE FinishDns
    <3>. DEFINE read == hstSeen["dns"]
    <3>1. PICK kept \in SUBSET Indexed(read), found \in {Unset, "lan", "wan"} :
            Update(read, [r \in read |-> Resolved(r, found)], Merged(read, kept))
      BY <2>18 DEF FinishDns
    <3>2. \A r \in read : IsRow(r)
      BY DEF HstInv, Jobs
    <3>3. KeepsIds(read, [r \in read |-> Resolved(r, found)])
      <4>1. \A r \in read : IsRow(Resolved(r, found)) /\ Resolved(r, found).id = r.id
        BY <3>2, RowsKeepIds
      <4>. QED BY <4>1 DEF KeepsIds, IsRow
    <3>4. Apart
      BY <3>1, <3>2, <3>3, UpdatedApart
    <3>. QED BY <2>2, <2>18, <3>4 DEF FinishDns, Jobs
  <2>19. CASE UNCHANGED hstVars
    BY <2>19 DEF hstVars, hstJobs, HstInv
  <2>. QED BY <2>5, <2>6, <2>7, <2>8, <2>9, <2>10, <2>11, <2>12, <2>13, <2>14, <2>15, <2>16, <2>17, <2>18, <2>19, <2>20 DEF HstNext
<1>3. HstInv => [CoverKept]_hstVars
  BY MergeCovers DEF CoverKept, Targets
<1>. QED BY <1>1, <1>2, <1>3, PTL DEF HstSpec, MergeKeepsCover

-----------------------------------------------------------------------------
(***************************************************************************)
(* AlertRules with Notifications: a message on its way has just marked its *)
(* title, which was quiet by then, and is the only one of that title.      *)
(***************************************************************************)
NtfTypes ==
    /\ ntfMark \in [Titles -> Nat] /\ ntfQuiet \in [Titles -> Nat]
    /\ ntfTask \subseteq Alerts

\* A message on its way has just marked its title, which was quiet by then.
NtfUnderWay ==
    \A a \in ntfTask : ntfMark[TitleOf[a]] = NtfCooldown /\ ntfQuiet[TitleOf[a]] = 0

\* One message of a title at a time.
NtfAlone == \A a, b \in ntfTask : TitleOf[a] = TitleOf[b] => a = b

\* A title is marked for as long as its last message asks for.
NtfCovered == \A t \in Titles : ntfQuiet[t] <= ntfMark[t]

NtfInv == NtfTypes /\ NtfUnderWay /\ NtfAlone /\ NtfCovered

\* What is due is a rule.
AltDue == altFiring = "due" => altAt # 0 /\ Rule \in AltSet

StormStep ==
    \A t \in Titles :
         (ntfQuiet'[t] = NtfCooldown /\ \E a \in ntfTask \ ntfTask' : TitleOf[a] = t) => ntfQuiet[t] = 0

\* A message only comes off its way for a title that was quiet.
LEMMA QuietUnderWay == NtfInv => StormStep
BY DEF NtfInv, NtfUnderWay, StormStep

\* Every alert has a title.
LEMMA TitlesKnown == \A a \in Alerts : TitleOf[a] \in Titles
BY DEF Titles

\* An alert that is let through marks its title before it is on its way.
LEMMA NtfAdmitted == ASSUME NtfInv, NEW a \in Alerts, Admit(a) PROVE NtfInv'
<1>. DEFINE t == TitleOf[a]
<1>1. t \in Titles
  BY TitlesKnown
<1>2. NtfTypes /\ NtfUnderWay /\ NtfAlone /\ NtfCovered /\ NtfCooldown \in Nat \ {0}
  BY NtfAssumption DEF NtfInv
<1>3. CASE RateLimited(a)
  <2>1. ntfTask' = ntfTask /\ ntfQuiet' = ntfQuiet /\ ntfMark' = [ntfMark EXCEPT ![t] = ntfMark[t]]
    BY <1>3 DEF Admit, NewMark
  <2>2. ntfMark' = ntfMark
    BY <2>1, <1>2 DEF NtfTypes
  <2>. QED BY <2>1, <2>2 DEF NtfInv, NtfTypes, NtfUnderWay, NtfAlone, NtfCovered
<1>4. CASE ~RateLimited(a)
  <2>1. /\ ntfTask' = ntfTask \cup {a} /\ ntfQuiet' = ntfQuiet
        /\ ntfMark' = [ntfMark EXCEPT ![t] = NtfCooldown]
    BY <1>4 DEF Admit, NewMark
  <2>2. ntfMark[t] = 0 /\ ntfQuiet[t] = 0
    BY <1>1, <1>2, <1>4 DEF NtfTypes, NtfCovered, RateLimited
  <2>3. ntfMark'[t] = NtfCooldown /\ \A u \in Titles \ {t} : ntfMark'[u] = ntfMark[u]
    BY <1>1, <1>2, <2>1 DEF NtfTypes
  <2>4. \A b \in ntfTask : TitleOf[b] \in Titles \ {t}
    BY <1>2, <2>2, TitlesKnown DEF NtfTypes, NtfUnderWay
  <2>5. NtfTypes'
    BY <1>2, <2>1 DEF NtfTypes
  <2>6. NtfUnderWay'
    BY <1>2, <2>1, <2>2, <2>3, <2>4 DEF NtfUnderWay
  <2>7. NtfAlone'
    BY <1>2, <2>1, <2>4 DEF NtfAlone
  <2>8. NtfCovered'
    BY <1>2, <2>1, <2>2, <2>3 DEF NtfCovered, NtfTypes
  <2>. QED BY <2>5, <2>6, <2>7, <2>8 DEF NtfInv
<1>. QED BY <1>3, <1>4

\* A delivered message makes its title quiet for no longer than it is marked.
LEMMA NtfDelivered == ASSUME NtfInv, NEW a \in Alerts, Deliver(a) PROVE NtfInv'
<1>. DEFINE t == TitleOf[a]
<1>1. t \in Titles
  BY TitlesKnown
<1>2. NtfTypes /\ NtfUnderWay /\ NtfAlone /\ NtfCovered /\ NtfCooldown \in Nat \ {0}
  BY NtfAssumption DEF NtfInv
<1>3. a \in ntfTask /\ ntfTask' = ntfTask \ {a} /\ ntfMark' = ntfMark
  BY DEF Deliver
<1>4. PICK sent \in SUBSET Receivers(a) :
         ntfQuiet' = [ntfQuiet EXCEPT ![t] = IF sent = {} THEN ntfQuiet[t] ELSE NtfCooldown]
  BY DEF Deliver
<1>5. ntfQuiet'[t] \in {ntfQuiet[t], NtfCooldown} /\ \A u \in Titles \ {t} : ntfQuiet'[u] = ntfQuiet[u]
  BY <1>1, <1>2, <1>4 DEF NtfTypes
<1>6. NtfTypes'
  BY <1>1, <1>2, <1>3, <1>4 DEF NtfTypes
<1>7. \A b \in ntfTask' : b \in ntfTask /\ TitleOf[b] \in Titles \ {t}
  BY <1>2, <1>3, TitlesKnown DEF NtfTypes, NtfAlone
<1>8. NtfUnderWay' /\ NtfAlone'
  BY <1>2, <1>3, <1>5, <1>7 DEF NtfUnderWay, NtfAlone
<1>9. NtfCovered'
  BY <1>2, <1>3, <1>5 DEF NtfCovered, NtfUnderWay, NtfTypes
<1>. QED BY <1>6, <1>8, <1>9 DEF NtfInv

\* Time wears the mark and the quiet off alike.
LEMMA NtfTicked == ASSUME NtfInv, NtfTick PROVE NtfInv'
<1>1. \A m, n \in Nat : Less(m) \in Nat /\ (m <= n => Less(m) <= Less(n))
  BY DEF Less
<1>. QED BY <1>1 DEF NtfInv, NtfTypes, NtfUnderWay, NtfAlone, NtfCovered, NtfTick

\* For any rules, alerts, titles and cooldown: of a title that is quiet no message is
\* delivered (notifications.py _is_rate_limited, notify).
THEOREM TitlesStayQuiet == AltSpec => NoAlertStorm
<1>1. ASSUME AltInit PROVE NtfInv /\ AltDue
  BY <1>1 DEF AltInit, NtfInit, NtfInv, NtfTypes, NtfUnderWay, NtfAlone, NtfCovered, AltDue
<1>2. ASSUME NtfInv, AltDue, [AltNext]_altVars PROVE NtfInv' /\ AltDue'
  <2>. USE <1>2
  <2>0. AltSet \subseteq Alerts
    BY AltAssumption
  <2>1. ASSUME UNCHANGED ntfVars PROVE NtfInv'
    BY <2>1 DEF ntfVars, NtfInv, NtfTypes, NtfUnderWay, NtfAlone, NtfCovered
  <2>2. ASSUME UNCHANGED altRun PROVE AltDue'
    BY <2>2 DEF altRun, AltDue, Rule
  <2>3. ASSUME altFiring' # "due" PROVE AltDue'
    BY <2>3 DEF AltDue
  <2>4. ASSUME PassedRule PROVE AltDue'
    BY <2>4, <2>3 DEF PassedRule
  <2>5. CASE StartRuleRun
    <3>1. AltDue'
      BY <2>5, <1>2 DEF StartRuleRun, AltDue
    <3>. QED BY <2>5, <3>1, NtfTicked DEF StartRuleRun
  <2>6. CASE SkipRule \/ EvaluationFails
    BY <2>6, <2>1, <2>4 DEF SkipRule, EvaluationFails
  <2>7. CASE FireRule
    <3>1. ASSUME Rule \in altIncident PROVE NtfInv' /\ AltDue'
      BY <2>7, <3>1, <2>1, <2>3 DEF FireRule
    <3>2. ASSUME Rule \notin altIncident PROVE NtfInv' /\ AltDue'
      BY <2>7, <3>2, <2>0, <2>3, NtfAdmitted DEF FireRule, AltDue
    <3>. QED BY <3>1, <3>2
  <2>8. CASE CommitFails
    BY <2>8, <2>1, <2>3 DEF CommitFails
  <2>9. ASSUME NEW r \in AltSet, EvaluateRule(r) PROVE NtfInv' /\ AltDue'
    <3>1. CASE altFiring' = "due" /\ UNCHANGED <<altAt, altList>>
      BY <2>9, <3>1, <2>1 DEF EvaluateRule, Evaluating, AltDue, Rule
    <3>2. CASE PassedRule
      BY <2>9, <3>2, <2>1, <2>4 DEF EvaluateRule
    <3>. QED BY <2>9, <3>1, <3>2 DEF EvaluateRule
  <2>10. ASSUME NEW r \in AltSet, CommitFiring(r) PROVE NtfInv' /\ AltDue'
    BY <2>10, <2>1, <2>4 DEF CommitFiring
  <2>11. ASSUME NEW r, ToggleRule(r) \/ EditRule(r) \/ EditRuleIncident(r) PROVE NtfInv' /\ AltDue'
    BY <2>11, <2>1, <2>2 DEF ToggleRule, EditRule, EditRuleIncident
  <2>12. CASE DataMoves \/ AutoResolveRules
    BY <2>12, <2>1, <2>2 DEF DataMoves, AutoResolveRules
  <2>13. CASE DeliverAlert
    BY <2>13, <2>2, NtfDelivered DEF DeliverAlert
  <2>14. CASE OtherAlert
    BY <2>14, <2>2, NtfAdmitted DEF OtherAlert
  <2>15. CASE RestartRules
    <3>1. NtfInv'
      BY <2>15 DEF RestartRules, NtfRestart, NtfInv, NtfTypes, NtfUnderWay, NtfAlone, NtfCovered
    <3>. QED BY <2>15, <3>1, <2>3 DEF RestartRules
  <2>16. CASE UNCHANGED altVars
    BY <2>16, <2>1, <2>2 DEF altVars
  <2>. QED BY <2>5, <2>6, <2>7, <2>8, <2>9, <2>10, <2>11, <2>12, <2>13, <2>14, <2>15, <2>16 DEF AltNext
<1>3. NtfInv => [StormStep]_ntfVars
  BY QuietUnderWay
<1>. QED BY <1>1, <1>2, <1>3, PTL DEF AltSpec, NoAlertStorm, StormStep
=============================================================================
