--------------------------- MODULE NetworkProofs ----------------------------
(***************************************************************************)
(* What is read from the network: bandwidth, names of SNMP objects, open   *)
(* ports.  For any number of polls, requests and scans at a time.          *)
(***************************************************************************)
EXTENDS Bandwidth, SnmpNames, PortDiscovery, TLAPS

-----------------------------------------------------------------------------
(***************************************************************************)
(* For any number of polls at a time and any bounds: no sample speaks of   *)
(* more bytes than have passed.  What a node had counted before its last   *)
(* start, its base, never falls, and a reading has the base of the moment  *)
(* at which it is stamped: of two readings the one stamped later does not  *)
(* have the smaller base, whatever the order they are stored in.           *)
(***************************************************************************)

Reading == [at : {"stamped"}, bytes : Nat, total : Nat, ts : Nat]
SampleRow == [ts : Nat, bytes : Nat, total : Nat, moved : Int, span : Nat]

BwdTypes ==
  /\ bwdNow \in Nat /\ bwdCount \in Nat /\ bwdTotal \in Nat
  /\ bwdPoll \in [BwdSlots -> {NoPoll} \union [at : {"sent"}, bytes : Nat, total : Nat]
                                \union Reading \union [at : {"ready"}, row : SampleRow]]
  /\ bwdRows \subseteq SampleRow

StampedPolls == {s \in BwdSlots : bwdPoll[s].at = "stamped"}
ReadyPolls == {s \in BwdSlots : bwdPoll[s].at = "ready"}
Samples == {bwdPoll[s].row : s \in ReadyPolls} \union bwdRows
Stamped == {bwdPoll[s] : s \in StampedPolls} \union Samples

Base(x) == x.total - x.bytes

\* A reading that is not stamped yet is of the present run of the node.
SentIsCurrent ==
  \A s \in BwdSlots : bwdPoll[s].at = "sent" => Base(bwdPoll[s]) = bwdTotal - bwdCount

\* What is stamped is not of the future, and ordered as the bases are.
BasesRise ==
  /\ \A x \in Stamped : x.ts <= bwdNow /\ Base(x) <= bwdTotal - bwdCount
  /\ \A x, y \in Stamped : x.ts < y.ts => Base(x) <= Base(y)

Backed(x) == 0 <= x.moved /\ x.moved <= x.span

BwdInv ==
  /\ BwdTypes
  /\ bwdKind = "counter" => SentIsCurrent /\ BasesRise
  /\ \A x \in Samples : Backed(x)

\* Before the first poll there is nothing to compare.
LEMMA BwdInvInit == BwdInit => BwdInv
<1> SUFFICES ASSUME BwdInit PROVE BwdInv
  OBVIOUS
<1> USE DEF BwdInit, NoPoll
<1>1. BwdTypes
  BY DEF BwdTypes
<1>2. Samples = {} /\ Stamped = {}
  BY DEF Samples, Stamped, StampedPolls, ReadyPolls
<1>3. SentIsCurrent
  BY DEF SentIsCurrent
<1> QED BY <1>1, <1>2, <1>3 DEF BwdInv, BasesRise

\* What is stamped has a time and two counts.
LEMMA StampedTypes ==
  ASSUME BwdTypes, NEW x \in Stamped
  PROVE  x.ts \in Nat /\ x.bytes \in Nat /\ x.total \in Nat
<1>1. CASE x \in bwdRows
  BY <1>1 DEF BwdTypes, SampleRow
<1>2. CASE \E s \in ReadyPolls : x = bwdPoll[s].row
  BY <1>2 DEF BwdTypes, ReadyPolls, SampleRow, NoPoll, Reading
<1>3. CASE \E s \in StampedPolls : x = bwdPoll[s]
  BY <1>3 DEF BwdTypes, StampedPolls, Reading, NoPoll
<1> QED BY <1>1, <1>2, <1>3 DEF Stamped, Samples

\* The interface and the clock: bytes raise count and total alike, a start of the
\* node raises the base.
LEMMA WorldStep ==
  ASSUME BwdInv, Transfer \/ Reboot \/ BwdTick
  PROVE  BwdInv'
<1>1. UNCHANGED <<bwdPoll, bwdRows, bwdKind>>
  BY DEF Transfer, Reboot, BwdTick
<1>2. UNCHANGED <<Samples, Stamped>>
  BY <1>1 DEF Samples, Stamped, StampedPolls, ReadyPolls
<1>3. bwdNow' \in Nat /\ bwdCount' \in Nat /\ bwdTotal' \in Nat /\ bwdNow <= bwdNow'
        /\ bwdTotal - bwdCount <= bwdTotal' - bwdCount'
  BY DEF Transfer, Reboot, BwdTick, BwdInv, BwdTypes
<1>4. BwdTypes'
  BY <1>1, <1>3 DEF BwdInv, BwdTypes
<1>5. ASSUME bwdKind = "counter" PROVE SentIsCurrent'
  BY <1>1, <1>5 DEF Transfer, Reboot, BwdTick, BwdInv, SentIsCurrent, Base, BwdTypes
<1>6. ASSUME bwdKind = "counter" PROVE BasesRise'
  <2>1. \A x \in Stamped : x.ts \in Nat /\ Base(x) \in Int
    BY StampedTypes DEF Base, BwdInv
  <2>2. /\ \A x \in Stamped : x.ts <= bwdNow /\ Base(x) <= bwdTotal - bwdCount
        /\ \A x, y \in Stamped : x.ts < y.ts => Base(x) <= Base(y)
    BY <1>6 DEF BwdInv, BasesRise
  <2>3. bwdNow \in Nat /\ bwdTotal - bwdCount \in Int /\ bwdTotal' - bwdCount' \in Int
    BY <1>3 DEF BwdInv, BwdTypes
  <2>4. \A x \in Stamped : x.ts <= bwdNow' /\ Base(x) <= bwdTotal' - bwdCount'
    BY <1>3, <2>1, <2>2, <2>3
  <2> QED BY <1>2, <2>2, <2>4 DEF BasesRise
<1> QED BY <1>1, <1>2, <1>4, <1>5, <1>6 DEF BwdInv

\* A step of a poll that stamps nothing new keeps the order of the bases.
LEMMA NothingStamped ==
  ASSUME BwdInv, BwdTypes', Stamped' \subseteq Stamped, Samples' \subseteq Samples,
         UNCHANGED <<bwdKind, bwdNow, bwdCount, bwdTotal>>,
         \A s \in BwdSlots : bwdPoll'[s].at = "sent" =>
            bwdPoll'[s] = bwdPoll[s] \/ Base(bwdPoll'[s]) = bwdTotal - bwdCount
  PROVE  BwdInv'
<1>1. bwdKind = "counter" => SentIsCurrent'
  BY DEF BwdInv, SentIsCurrent
<1>2. bwdKind = "counter" => BasesRise'
  BY DEF BwdInv, BasesRise
<1> QED BY <1>1, <1>2 DEF BwdInv

\* The counter is read: nothing is stamped yet.
LEMMA TakeStep ==
  ASSUME BwdInv, NEW s \in BwdSlots, TakeReading(s)
  PROVE  BwdInv'
<1> DEFINE sent == [at |-> "sent", bytes |-> bwdCount, total |-> bwdTotal]
<1>1. bwdPoll' = [bwdPoll EXCEPT ![s] = sent] /\ UNCHANGED <<bwdKind, bwdNow, bwdCount, bwdRows, bwdTotal>>
  BY DEF TakeReading
<1>2. BwdTypes'
  BY <1>1 DEF BwdInv, BwdTypes
<1>3. \A q \in BwdSlots : bwdPoll'[q] = IF q = s THEN sent ELSE bwdPoll[q]
  BY <1>1 DEF BwdInv, BwdTypes
<1>4. Samples' \subseteq Samples /\ Stamped' \subseteq Stamped
  BY <1>1, <1>3 DEF Samples, Stamped, StampedPolls, ReadyPolls
<1> QED BY <1>1, <1>2, <1>3, <1>4, NothingStamped DEF Base

\* A poll ends, with its sample stored or lost: what had been stamped stays or goes.
LEMMA LoseStep ==
  ASSUME BwdInv, NEW s \in BwdSlots, StoreSample(s) \/ LosePoll(s)
  PROVE  BwdInv'
<1>1. bwdPoll' = [bwdPoll EXCEPT ![s] = NoPoll] /\ UNCHANGED <<bwdKind, bwdNow, bwdCount, bwdTotal>>
  BY DEF StoreSample, LosePoll
<1>2. \A q \in BwdSlots : bwdPoll'[q] = IF q = s THEN NoPoll ELSE bwdPoll[q]
  BY <1>1 DEF BwdInv, BwdTypes
<1>3. bwdRows' \subseteq Samples /\ bwdRows' \subseteq SampleRow
  <2>1. CASE StoreSample(s)
    <3>1. s \in ReadyPolls /\ bwdPoll[s].row \in SampleRow
      BY <2>1 DEF StoreSample, ReadyPolls, BwdInv, BwdTypes, NoPoll, Reading
    <3> QED BY <2>1, <3>1 DEF StoreSample, Samples, BwdInv, BwdTypes
  <2>2. CASE LosePoll(s)
    BY <2>2 DEF LosePoll, Samples, BwdInv, BwdTypes
  <2> QED BY <2>1, <2>2
<1>4. BwdTypes'
  BY <1>1, <1>3 DEF BwdInv, BwdTypes
<1>5. Samples' \subseteq Samples /\ Stamped' \subseteq Stamped
  BY <1>2, <1>3 DEF Samples, Stamped, StampedPolls, ReadyPolls, NoPoll
<1> QED BY <1>1, <1>2, <1>4, <1>5, NothingStamped DEF NoPoll

\* A stamp is not older than any before it, and has the present base.
LEMMA StampStep ==
  ASSUME BwdInv, NEW s \in BwdSlots, StampReading(s)
  PROVE  BwdInv'
<1> DEFINE was == bwdPoll[s]
           new == [at |-> "stamped", bytes |-> was.bytes, total |-> was.total, ts |-> bwdNow]
<1>1. bwdPoll' = [bwdPoll EXCEPT ![s] = new] /\ UNCHANGED <<bwdKind, bwdNow, bwdCount, bwdRows, bwdTotal>>
  BY DEF StampReading
<1>2. was.bytes \in Nat /\ was.total \in Nat
  BY DEF StampReading, BwdInv, BwdTypes, NoPoll, Reading
<1>3. BwdTypes'
  BY <1>1, <1>2 DEF BwdInv, BwdTypes, Reading
<1>4. \A q \in BwdSlots : bwdPoll'[q] = IF q = s THEN new ELSE bwdPoll[q]
  BY <1>1 DEF BwdInv, BwdTypes
<1>5. Samples' \subseteq Samples /\ Stamped' \subseteq Stamped \union {new}
  BY <1>1, <1>4 DEF Samples, Stamped, StampedPolls, ReadyPolls
<1>6. ASSUME bwdKind = "counter" PROVE SentIsCurrent' /\ BasesRise'
  <2>1. SentIsCurrent'
    BY <1>1, <1>4, <1>6 DEF SentIsCurrent, BwdInv
  <2>2. Base(new) = bwdTotal - bwdCount /\ new.ts = bwdNow
    BY <1>6 DEF StampReading, SentIsCurrent, BwdInv, Base
  <2>3. \A x \in Stamped : x.ts \in Nat /\ Base(x) \in Int
    BY StampedTypes DEF Base, BwdInv
  <2> HIDE DEF new
  <2>4. BasesRise'
    BY <1>1, <1>5, <1>6, <2>2, <2>3 DEF BasesRise, BwdInv, BwdTypes
  <2> QED BY <2>1, <2>4
<1> QED BY <1>1, <1>3, <1>5, <1>6 DEF BwdInv

\* The rate of two readings is backed because the later base is not the smaller.
LEMMA CalcRateIsBacked ==
  ASSUME NEW r, NEW c, r.ts \in Nat, r.bytes \in Nat, r.total \in Nat,
         c.ts \in Nat, c.bytes \in Nat, c.total \in Nat,
         r.ts < c.ts => Base(r) <= Base(c)
  PROVE  /\ CalcRate(r, c) \in Int /\ Distance(r.total, c.total) \in Nat
         /\ 0 <= CalcRate(r, c) /\ CalcRate(r, c) <= Distance(r.total, c.total)
  BY DEF CalcRate, Distance, Base

\* The rate is computed from the latest sample or from what the device says of itself.
LEMMA RateStep ==
  ASSUME BwdInv, NEW s \in BwdSlots, RateFromHistory(s) \/ RateFromDevice(s)
  PROVE  BwdInv'
<1> DEFINE c == bwdPoll[s]
<1>1. s \in StampedPolls /\ c \in Stamped /\ c \in Reading
  BY DEF RateFromHistory, RateFromDevice, StampedPolls, Stamped, BwdInv, BwdTypes, NoPoll, Reading
<1>2. PICK smp : /\ bwdPoll' = [bwdPoll EXCEPT ![s] = [at |-> "ready", row |-> smp]]
                 /\ smp \in SampleRow /\ Backed(smp) /\ smp.ts = c.ts
                 /\ (bwdKind = "counter" => Base(smp) = Base(c))
  <2>1. CASE RateFromHistory(s)
    <3>1. PICK smp \in {Sample(c, CalcRate(r, c), Distance(r.total, c.total)) : r \in Newest(bwdRows)}
                  \union {Sample(c, 0, 0)} :
            bwdPoll' = [bwdPoll EXCEPT ![s] = [at |-> "ready", row |-> smp]]
      BY <2>1 DEF RateFromHistory
    <3>2. ASSUME smp = Sample(c, 0, 0)
          PROVE  smp \in SampleRow /\ Backed(smp) /\ smp.ts = c.ts /\ Base(smp) = Base(c)
      BY <1>1, <3>1, <3>2 DEF Sample, SampleRow, Backed, Base, Reading
    <3>3. ASSUME NEW r \in Newest(bwdRows), smp = Sample(c, CalcRate(r, c), Distance(r.total, c.total))
          PROVE  smp \in SampleRow /\ Backed(smp) /\ smp.ts = c.ts /\ Base(smp) = Base(c)
      <4>1. r \in Stamped
        BY DEF Newest, Stamped, Samples
      <4>2. r.ts < c.ts => Base(r) <= Base(c)
        BY <1>1, <2>1, <4>1 DEF RateFromHistory, BwdInv, BasesRise
      <4>3. r.ts \in Nat /\ r.bytes \in Nat /\ r.total \in Nat
        BY <4>1, StampedTypes DEF BwdInv
      <4>4. c.ts \in Nat /\ c.bytes \in Nat /\ c.total \in Nat
        BY <1>1 DEF Reading
      <4>5. /\ CalcRate(r, c) \in Int /\ Distance(r.total, c.total) \in Nat
            /\ 0 <= CalcRate(r, c) /\ CalcRate(r, c) <= Distance(r.total, c.total)
        BY <4>2, <4>3, <4>4, CalcRateIsBacked
      <4> QED BY <3>3, <4>4, <4>5 DEF Sample, SampleRow, Backed, Base
    <3>4. smp \in SampleRow /\ Backed(smp) /\ smp.ts = c.ts /\ Base(smp) = Base(c)
      BY <3>1, <3>2, <3>3
    <3> QED BY <3>1, <3>4
  <2>2. CASE RateFromDevice(s)
    <3>1. PICK rate \in {0, 1} : bwdPoll' = [bwdPoll EXCEPT ![s] =
             [at |-> "ready", row |-> Sample([c EXCEPT !.bytes = 0], rate, rate)]]
      BY <2>2 DEF RateFromDevice
    <3> DEFINE smp == Sample([c EXCEPT !.bytes = 0], rate, rate)
    <3>2. smp \in SampleRow /\ Backed(smp) /\ smp.ts = c.ts
      BY <1>1 DEF Sample, SampleRow, Backed, Reading
    <3>3. bwdKind # "counter"
      BY <2>2 DEF RateFromDevice
    <3>4. bwdPoll' = [bwdPoll EXCEPT ![s] = [at |-> "ready", row |-> smp]]
      BY <3>1
    <3> HIDE DEF smp
    <3> QED BY <3>2, <3>3, <3>4
  <2> QED BY <2>1, <2>2
<1>3. UNCHANGED <<bwdKind, bwdNow, bwdCount, bwdRows, bwdTotal>>
  BY DEF RateFromHistory, RateFromDevice
<1>4. BwdTypes'
  BY <1>2, <1>3 DEF BwdInv, BwdTypes
<1>5. \A q \in BwdSlots : bwdPoll'[q] = IF q = s THEN [at |-> "ready", row |-> smp] ELSE bwdPoll[q]
  BY <1>2 DEF BwdInv, BwdTypes
<1>6. Samples' \subseteq Samples \union {smp} /\ Stamped' \subseteq Stamped \union {smp}
  BY <1>3, <1>5 DEF Samples, Stamped, StampedPolls, ReadyPolls
<1>7. ASSUME bwdKind = "counter" PROVE SentIsCurrent' /\ BasesRise'
  <2>1. SentIsCurrent'
    BY <1>3, <1>5, <1>7 DEF SentIsCurrent, BwdInv
  <2>2. \A x \in Stamped' : \E y \in Stamped : x.ts = y.ts /\ Base(x) = Base(y)
    BY <1>1, <1>2, <1>6, <1>7
  <2>3. BasesRise'
    BY <1>3, <1>7, <2>2 DEF BasesRise, BwdInv
  <2> QED BY <2>1, <2>3
<1> QED BY <1>2, <1>3, <1>4, <1>6, <1>7 DEF BwdInv

\* Every step preserves the invariant.
LEMMA BwdInvStep == BwdInv /\ [BwdNext]_bwdVars => BwdInv'
<1>1. CASE BwdNext
  BY <1>1, WorldStep, TakeStep, LoseStep, StampStep, RateStep DEF BwdNext
<1>2. CASE UNCHANGED bwdVars
  BY <1>2 DEF bwdVars, BwdInv, BwdTypes, SentIsCurrent, BasesRise, Samples, Stamped,
              StampedPolls, ReadyPolls
<1> QED BY <1>1, <1>2

\* However many polls overlap and in whatever order they are stamped and stored, with
\* the node starting again in between, every rate the dashboard shows is backed by the
\* bytes that passed between its two readings.
THEOREM RatesAreBacked == BwdSpec => []RateIsBacked
<1>1. BwdInv => RateIsBacked
  <2>1. BandwidthSummary \union BandwidthHistory \subseteq bwdRows
    BY DEF BandwidthSummary, BandwidthHistory, Newest, Oldest, SamplesSince
  <2> QED BY <2>1 DEF RateIsBacked, BwdInv, Samples, Backed
<1> QED BY <1>1, BwdInvInit, BwdInvStep, PTL DEF BwdSpec

-----------------------------------------------------------------------------
(***************************************************************************)
(* SnmpNames: a copy of the names was in force when the clock read what is *)
(* noted of it, or later, also while it is on its way from the database.   *)
(***************************************************************************)

\* What requests will write are names.
SnmReqTypes ==
  \A w \in SnmRequests :
    /\ snmReq[w].at \in {"found", "import"} => snmReq[w].file \in SnmFiles
    /\ snmReq[w].at = "import" => snmReq[w].new \subseteq DOMAIN snmReq[w].file
    /\ snmReq[w].at = "seed" => snmReq[w].new \subseteq DOMAIN SnmDefaults

SnmDomains == DOMAIN snmReq = SnmRequests /\ DOMAIN snmPoll = SnmPollers

SnmTypes ==
  /\ snmNow \in Nat /\ snmCacheTs \in Int
  /\ snmOids = [o \in SnmOids |-> snmOids[o]] /\ Names \in Tables
  /\ snmCache \in Tables
  /\ snmWas \in [Tables -> Int] /\ \A t \in Tables : LongAgo <= snmWas[t] /\ snmWas[t] <= snmNow

\* A copy, and what a poll has read to become the next one.
SnmCopied == LastInForce(snmCache) >= snmCacheTs

SnmReading ==
  \A p \in SnmPollers :
    /\ snmPoll[p].at \in {"refresh", "read"} =>
         snmPoll[p].now \in Int /\ snmNow - SnmFresh <= snmPoll[p].now /\ snmPoll[p].now <= snmNow
    /\ snmPoll[p].at = "read" =>
         snmPoll[p].table \in Tables /\ LastInForce(snmPoll[p].table) >= snmPoll[p].now

SnmInv == SnmTypes /\ SnmDomains /\ SnmReqTypes /\ SnmCopied /\ SnmReading

-----------------------------------------------------------------------------

\* What is assumed of the constants, as the steps use it.
LEMMA SnmBounds == SnmFresh \in Nat /\ LongAgo \in Int /\ LongAgo < 0
BY SnmAssumption DEF LongAgo

\* A process starts with an empty cache that is older than any clock reading.
LEMMA SnmInvInit == ASSUME SnmInit PROVE SnmInv
<1>1. Empty \in Tables /\ Names = Empty
  BY DEF SnmInit, Names, NoOid, Empty, Tables
<1>2. SnmTypes
  BY <1>1, SnmBounds DEF SnmInit, SnmTypes
<1>3. LastInForce(snmCache) = 0 /\ snmCacheTs < 0
  BY <1>1, SnmBounds DEF SnmInit, LastInForce
<1>4. SnmDomains /\ SnmReqTypes /\ SnmReading
  BY DEF SnmInit, SnmDomains, SnmReqTypes, SnmReading, Idle
<1> QED BY <1>2, <1>3, <1>4 DEF SnmInv, SnmCopied, SnmTypes

\* What is known of a table stays true while the names and the clock do.
LEMMA SnmQuiet ==
  ASSUME SnmInv, UNCHANGED <<snmOids, snmWas, snmNow>>
  PROVE  /\ SnmTypes' <=> (snmCacheTs' \in Int /\ snmCache' \in Tables)
         /\ \A t \in Tables : LastInForce(t)' = LastInForce(t)
BY DEF SnmInv, SnmTypes, LastInForce, Names

\* When the names change, the ones that were in force are so until now.
LEMMA SnmSetOids ==
  ASSUME SnmInv, NEW new, SetOids([o \in SnmOids |-> new[o]]), UNCHANGED <<snmNow, snmCache, snmCacheTs>>,
         \A o \in SnmOids : new[o] = NoOid \/ new[o] = snmOids[o] \/ new[o].name \in SnmNames
  PROVE  SnmTypes' /\ \A t \in Tables : LastInForce(t)' >= LastInForce(t)
<1>1. /\ snmOids' = [o \in SnmOids |-> new[o]]
      /\ snmWas' = [snmWas EXCEPT ![Names] = snmNow]
  BY DEF SetOids
<1>2. SnmTypes
  BY DEF SnmInv
<1>3. \A o \in SnmOids : snmOids[o].name \in SnmNames \union {NoWord}
  BY <1>2 DEF SnmTypes, Names, Tables
<1>4. \A o \in SnmOids : snmOids'[o].name \in SnmNames \union {NoWord}
  BY <1>1, <1>3 DEF NoOid
<1>5. Names' \in Tables
  BY <1>1, <1>4 DEF Names, Tables
<1>6. \A t \in Tables : snmWas'[t] = IF t = Names THEN snmNow ELSE snmWas[t]
  BY <1>1, <1>2 DEF SnmTypes
<1>7. SnmTypes'
  BY <1>1, <1>2, <1>5, <1>6, SnmBounds DEF SnmTypes
<1>8. \A t \in Tables : LastInForce(t)' >= LastInForce(t)
  BY <1>2, <1>6 DEF LastInForce, SnmTypes
<1> QED BY <1>7, <1>8

\* Requests about MIBs.
LEMMA SnmRequestStep ==
  ASSUME SnmInv, NEW w \in SnmRequests,
         \/ BeginImport(w) \/ WriteImport(w) \/ BeginDelete(w) \/ BeginSeed(w) \/ RequestEnds(w)
  PROVE  SnmInv'
<1>1. UNCHANGED <<snmOids, snmCache, snmCacheTs, snmNow, snmPoll, snmWas>>
  BY DEF BeginImport, WriteImport, BeginDelete, BeginSeed, RequestEnds, Begin
<1>2. SnmTypes' /\ SnmCopied' /\ SnmReading'
  BY <1>1, SnmQuiet DEF SnmInv, SnmTypes, SnmCopied, SnmReading
<1>3. /\ DOMAIN snmReq' = SnmRequests
      /\ \A v \in SnmRequests \ {w} : snmReq'[v] = snmReq[v]
  BY DEF BeginImport, WriteImport, BeginDelete, BeginSeed, RequestEnds, Begin, SnmInv, SnmDomains
<1>5. /\ snmReq'[w].at \in {"found", "import"} => snmReq'[w].file \in SnmFiles
      /\ snmReq'[w].at = "import" => snmReq'[w].new \subseteq DOMAIN snmReq'[w].file
      /\ snmReq'[w].at = "seed" => snmReq'[w].new \subseteq DOMAIN SnmDefaults
  <2>1. CASE BeginImport(w)
    BY <2>1 DEF BeginImport, Begin, SnmInv, SnmDomains
  <2>2. CASE WriteImport(w)
    <3> DEFINE c == snmReq[w]
               gone == IF c.there THEN OidsOf(c.mib) ELSE {}
               req == [at |-> "import", mib |-> c.mib, file |-> c.file, gone |-> gone,
                       new |-> {o \in DOMAIN c.file : o \in gone \/ snmOids[o] = NoOid}]
    <3>1. c.at = "found" /\ snmReq'[w] = req
      BY <2>2 DEF WriteImport, SnmInv, SnmDomains
    <3>2. c.file \in SnmFiles
      BY <3>1 DEF SnmInv, SnmReqTypes
    <3> QED BY <3>1, <3>2
  <2>3. CASE BeginDelete(w) \/ RequestEnds(w)
    BY <2>3 DEF BeginDelete, RequestEnds, Begin, Idle, SnmInv, SnmDomains
  <2>4. CASE BeginSeed(w)
    BY <2>4 DEF BeginSeed, Begin, SnmInv, SnmDomains
  <2> QED BY <2>1, <2>2, <2>3, <2>4
<1>4. SnmDomains' /\ SnmReqTypes'
  BY <1>1, <1>3, <1>5 DEF SnmInv, SnmDomains, SnmReqTypes
<1> QED BY <1>2, <1>4 DEF SnmInv

\* The ones that change the names.
LEMMA SnmCommitStep ==
  ASSUME SnmInv, NEW w \in SnmRequests, CommitImport(w) \/ CommitDelete(w) \/ CommitSeed(w)
  PROVE  SnmInv'
<1>1. UNCHANGED <<snmCache, snmCacheTs, snmNow, snmPoll>>
  BY DEF CommitImport, CommitDelete, CommitSeed
<1>2. SnmTypes' /\ \A t \in Tables : LastInForce(t)' >= LastInForce(t)
  <2>1. PICK new : /\ SetOids([o \in SnmOids |-> new[o]])
                   /\ \A o \in SnmOids : new[o] = NoOid \/ new[o] = snmOids[o] \/ new[o].name \in SnmNames
    <3>1. CASE CommitImport(w)
      <4> DEFINE c == snmReq[w]
                 new == [o \in SnmOids |-> IF o \in c.new THEN [name |-> c.file[o], mib |-> c.mib]
                                           ELSE IF o \in c.gone THEN NoOid ELSE snmOids[o]]
      <4>1. c.at = "import" /\ SetOids(new)
        BY <3>1 DEF CommitImport
      <4>2. c.file \in SnmFiles /\ c.new \subseteq DOMAIN c.file
        BY <4>1 DEF SnmInv, SnmReqTypes
      <4>3. \A o \in c.new : c.file[o] \in SnmNames
        BY <4>2 DEF SnmNames
      <4>4. \A o \in SnmOids : new[o] = NoOid \/ new[o] = snmOids[o] \/ new[o].name \in SnmNames
        BY <4>3
      <4>5. new = [o \in SnmOids |-> new[o]]
        OBVIOUS
      <4> HIDE DEF new
      <4> QED BY <4>1, <4>4, <4>5
    <3>2. CASE CommitDelete(w)
      <4> DEFINE new == [o \in SnmOids |-> IF o \in snmReq[w].sees THEN NoOid ELSE snmOids[o]]
      <4>1. SetOids(new) /\ \A o \in SnmOids : new[o] = NoOid \/ new[o] = snmOids[o]
        BY <3>2 DEF CommitDelete
      <4>2. new = [o \in SnmOids |-> new[o]]
        OBVIOUS
      <4> HIDE DEF new
      <4> QED BY <4>1, <4>2
    <3>3. CASE CommitSeed(w)
      <4> DEFINE c == snmReq[w]
                 new == [o \in SnmOids |-> IF o \in c.new THEN [name |-> SnmDefaults[o], mib |-> SnmDefaultMib]
                                           ELSE snmOids[o]]
      <4>1. c.at = "seed" /\ SetOids(new)
        BY <3>3 DEF CommitSeed
      <4>2. \A o \in c.new : SnmDefaults[o] \in SnmNames
        BY <4>1 DEF SnmInv, SnmReqTypes, SnmNames
      <4>3. \A o \in SnmOids : new[o] = snmOids[o] \/ new[o].name \in SnmNames
        BY <4>2
      <4>4. new = [o \in SnmOids |-> new[o]]
        OBVIOUS
      <4> HIDE DEF new
      <4> QED BY <4>1, <4>3, <4>4
    <3> QED BY <3>1, <3>2, <3>3
  <2> QED BY <1>1, <2>1, SnmSetOids
<1>3. \A t \in Tables : LastInForce(t) \in Int /\ LastInForce(t)' \in Int
  BY <1>2 DEF SnmInv, SnmTypes, LastInForce
<1>4. SnmCopied'
  BY <1>1, <1>2, <1>3 DEF SnmInv, SnmCopied, SnmTypes
<1>5. SnmReading'
  BY <1>1, <1>2, <1>3 DEF SnmInv, SnmReading
<1>6. SnmDomains' /\ SnmReqTypes'
  <2>1. CASE CommitImport(w)
    <3>1. DOMAIN snmReq' = SnmRequests
      BY <2>1 DEF CommitImport
    <3>2. \A v \in SnmRequests :
            snmReq'[v] \in {Idle, snmReq[v], [snmReq[v] EXCEPT !.sees = @ \ snmReq[w].gone]}
            /\ (snmReq'[v].at \in {"found", "import", "seed"} => snmReq'[v] = snmReq[v])
      <4> SUFFICES ASSUME NEW v \in SnmRequests
                   PROVE snmReq'[v] \in {Idle, snmReq[v], [snmReq[v] EXCEPT !.sees = @ \ snmReq[w].gone]}
                         /\ (snmReq'[v].at \in {"found", "import", "seed"} => snmReq'[v] = snmReq[v])
        OBVIOUS
      <4>1. snmReq'[v] = IF v = w THEN Idle
                         ELSE IF snmReq[v].at = "delete" /\ snmReq[v].mib = snmReq[w].mib
                              THEN [snmReq[v] EXCEPT !.sees = @ \ snmReq[w].gone] ELSE snmReq[v]
        BY <2>1 DEF CommitImport
      <4>2. [snmReq[v] EXCEPT !.sees = @ \ snmReq[w].gone].at = snmReq[v].at
        OBVIOUS
      <4> QED BY <4>1, <4>2 DEF Idle
    <3> QED BY <1>1, <3>1, <3>2 DEF SnmInv, SnmDomains, SnmReqTypes
  <2>2. CASE CommitDelete(w) \/ CommitSeed(w)
    <3>1. snmReq' = [snmReq EXCEPT ![w] = Idle]
      BY <2>2 DEF CommitDelete, CommitSeed
    <3> QED BY <1>1, <3>1 DEF SnmInv, SnmDomains, SnmReqTypes, Idle
  <2> QED BY <2>1, <2>2
<1> QED BY <1>2, <1>4, <1>5, <1>6 DEF SnmInv

\* Polls.
LEMMA SnmPollStep ==
  ASSUME SnmInv, NEW p \in SnmPollers,
         \/ HostAnswers(p) \/ UseCopy(p) \/ StartRefresh(p) \/ ReadTable(p) \/ FinishRefresh(p) \/ PollEnds(p)
  PROVE  SnmInv'
<1>1. UNCHANGED <<snmMibs, snmOids, snmNow, snmReq, snmEdits, snmWas>>
  BY DEF HostAnswers, UseCopy, StartRefresh, ReadTable, FinishRefresh, PollEnds
<1>2. \/ snmCache' = snmCache /\ snmCacheTs' = snmCacheTs
      \/ snmPoll[p].at = "read" /\ snmCache' = snmPoll[p].table /\ snmCacheTs' = snmPoll[p].now
  BY DEF HostAnswers, UseCopy, StartRefresh, ReadTable, FinishRefresh, PollEnds, CopyTime
<1>3. snmCache' \in Tables /\ snmCacheTs' \in Int /\ LastInForce(snmCache') >= snmCacheTs'
  BY <1>2 DEF SnmInv, SnmTypes, SnmCopied, SnmReading
<1>4. SnmTypes' /\ SnmCopied'
  BY <1>1, <1>3, SnmQuiet DEF SnmCopied, SnmInv, SnmTypes, LastInForce, Names
<1>5. /\ DOMAIN snmPoll' = SnmPollers
      /\ \A q \in SnmPollers \ {p} : snmPoll'[q] = snmPoll[q]
  BY DEF HostAnswers, UseCopy, StartRefresh, ReadTable, FinishRefresh, PollEnds, SnmInv, SnmDomains
<1>8. /\ snmPoll'[p].at \in {"refresh", "read"} =>
           snmPoll'[p].now \in Int /\ snmNow - SnmFresh <= snmPoll'[p].now /\ snmPoll'[p].now <= snmNow
      /\ snmPoll'[p].at = "read" => snmPoll'[p].table \in Tables /\ LastInForce(snmPoll'[p].table) >= snmPoll'[p].now
  <2>1. CASE HostAnswers(p) \/ PollEnds(p)
    BY <2>1 DEF HostAnswers, PollEnds, Idle, SnmInv, SnmDomains
  <2>2. CASE UseCopy(p) \/ FinishRefresh(p)
    BY <2>2 DEF UseCopy, FinishRefresh, Named, SnmInv, SnmDomains
  <2>3. CASE StartRefresh(p)
    <3>1. snmPoll'[p] = [at |-> "refresh", oid |-> snmPoll[p].oid, now |-> snmNow]
      BY <2>3 DEF StartRefresh, SnmInv, SnmDomains
    <3> QED BY <3>1, SnmBounds DEF SnmInv, SnmTypes
  <2>4. CASE ReadTable(p)
    <3>1. /\ snmPoll[p].at = "refresh"
          /\ snmPoll'[p] = [at |-> "read", oid |-> snmPoll[p].oid, now |-> snmPoll[p].now, table |-> Names]
      BY <2>4 DEF ReadTable, SnmInv, SnmDomains
    <3>2. LastInForce(Names) = snmNow /\ Names \in Tables
      BY DEF LastInForce, SnmInv, SnmTypes
    <3> QED BY <3>1, <3>2 DEF SnmInv, SnmReading, SnmTypes
  <2> QED BY <2>1, <2>2, <2>3, <2>4
<1>6. SnmReading'
  BY <1>1, <1>5, <1>8, SnmQuiet DEF SnmInv, SnmReading, SnmDomains, LastInForce, Names
<1>7. SnmDomains' /\ SnmReqTypes'
  BY <1>1, <1>5 DEF SnmInv, SnmDomains, SnmReqTypes
<1> QED BY <1>4, <1>6, <1>7 DEF SnmInv

\* The clock, and a process that starts again.
LEMMA SnmOtherStep == ASSUME SnmInv, SnmTick \/ SnmRestart \/ UNCHANGED snmVars PROVE SnmInv'
<1>1. CASE SnmTick
  <2>1. /\ snmNow' = snmNow + 1
        /\ \A p \in SnmPollers : snmPoll[p].at \in {"refresh", "read"} => snmNow - snmPoll[p].now < SnmFresh
        /\ UNCHANGED <<snmMibs, snmOids, snmCache, snmCacheTs, snmPoll, snmReq, snmWas>>
    BY <1>1 DEF SnmTick
  <2>2. SnmTypes' /\ \A t \in Tables : LastInForce(t)' >= LastInForce(t) /\ {LastInForce(t), LastInForce(t)'} \subseteq Int
    BY <2>1 DEF SnmInv, SnmTypes, LastInForce, Names
  <2>3. SnmCopied'
    BY <2>1, <2>2 DEF SnmInv, SnmCopied, SnmTypes
  <2>4. SnmReading'
    BY <2>1, <2>2, SnmBounds DEF SnmInv, SnmReading, SnmTypes
  <2> QED BY <2>1, <2>2, <2>3, <2>4 DEF SnmInv, SnmDomains, SnmReqTypes
<1>2. CASE SnmRestart
  <2>1. /\ snmCache' = Empty /\ snmCacheTs' = LongAgo
        /\ snmPoll' = [p \in SnmPollers |-> Idle] /\ snmReq' = [w \in SnmRequests |-> Idle]
        /\ UNCHANGED <<snmMibs, snmOids, snmNow, snmWas>>
    BY <1>2 DEF SnmRestart
  <2>2. Empty \in Tables
    BY DEF Empty, Tables
  <2>3. LastInForce(Empty) >= LongAgo
    BY <2>2, SnmBounds DEF SnmInv, SnmTypes, LastInForce
  <2>4. SnmTypes' /\ SnmCopied'
    BY <2>1, <2>2, <2>3, SnmBounds, SnmQuiet DEF SnmCopied
  <2> QED BY <2>1, <2>4 DEF SnmInv, SnmDomains, SnmReqTypes, SnmReading, Idle
<1>3. CASE UNCHANGED snmVars
  BY <1>3 DEF SnmInv, SnmTypes, SnmDomains, SnmReqTypes, SnmCopied, SnmReading, LastInForce, Names, snmVars
<1> QED BY <1>1, <1>2, <1>3

\* What a poll stores under.
LEMMA SnmNamed ==
  ASSUME SnmInv, [SnmNext]_snmVars, NEW p \in SnmPollers, snmPoll[p].at # "named", snmPoll'[p].at = "named"
  PROVE  \E t \in Tables : /\ LastInForce(t) >= snmNow - SnmFresh
                           /\ NameIn(t, snmPoll'[p].oid) = snmPoll'[p].name
<1>1. \A q \in SnmPollers : \A new : snmPoll' = [snmPoll EXCEPT ![q] = new] => q = p /\ snmPoll'[p] = new
  BY DEF SnmInv, SnmDomains
<1>2. snmPoll' # snmPoll /\ snmPoll' # [q \in SnmPollers |-> Idle]
  BY DEF Idle
<1>3. PICK q \in SnmPollers : HostAnswers(q) \/ UseCopy(q) \/ StartRefresh(q) \/ ReadTable(q) \/ FinishRefresh(q)
                              \/ PollEnds(q)
  BY <1>2 DEF SnmNext, SnmTick, SnmRestart, BeginImport, WriteImport, CommitImport, BeginDelete, CommitDelete,
         BeginSeed, CommitSeed, RequestEnds, Begin, snmVars
<1>4. UseCopy(p) \/ FinishRefresh(p)
  BY <1>1, <1>3 DEF HostAnswers, UseCopy, StartRefresh, ReadTable, FinishRefresh, PollEnds, Idle
<1>5. CASE UseCopy(p)
  <2>1. snmNow - snmCacheTs <= SnmFresh /\ snmPoll'[p] = Named(p, snmCache)
    BY <1>1, <1>5 DEF UseCopy
  <2>2. snmCache \in Tables /\ LastInForce(snmCache) \in Int /\ LastInForce(snmCache) >= snmNow - SnmFresh
    BY <2>1, SnmBounds DEF SnmInv, SnmTypes, SnmCopied, LastInForce
  <2> QED BY <2>1, <2>2 DEF Named
<1>6. CASE FinishRefresh(p)
  <2>1. snmPoll[p].at = "read" /\ snmPoll'[p] = Named(p, snmPoll[p].table)
    BY <1>1, <1>6 DEF FinishRefresh
  <2>2. snmPoll[p].table \in Tables /\ LastInForce(snmPoll[p].table) >= snmNow - SnmFresh
    BY <2>1, SnmBounds DEF SnmInv, SnmTypes, SnmReading, LastInForce
  <2> QED BY <2>1, <2>2 DEF Named
<1> QED BY <1>4, <1>5, <1>6

\* Names are fresh for any MIBs, files, polls and requests.
THEOREM StoredUnderFreshNames == SnmSpec => NamesAreFresh
<1>1. SnmInv /\ [SnmNext]_snmVars => SnmInv'
  BY SnmRequestStep, SnmCommitStep, SnmPollStep, SnmOtherStep DEF SnmNext
<1>2. SnmInv /\ [SnmNext]_snmVars =>
        \A p \in SnmPollers : snmPoll[p].at # "named" /\ snmPoll'[p].at = "named" =>
          \E t \in Tables : /\ LastInForce(t) >= snmNow - SnmFresh
                            /\ NameIn(t, snmPoll'[p].oid) = snmPoll'[p].name
  BY SnmNamed
<1> QED BY SnmInvInit, <1>1, <1>2, PTL DEF SnmSpec, NamesAreFresh

-----------------------------------------------------------------------------
(***************************************************************************)
(* PortDiscovery: the list of ports.  While no scan has been written since *)
(* the last quiet moment, the list is what the scans that run have read of *)
(* it, so that one that leaves a column alone leaves what it has seen.     *)
(***************************************************************************)

PrtMarks == {"new", "monitored", "dismissed"}
PortRows == [status : PrtMarks, tlsStatus : PrtMarks, open : BOOLEAN]
PortLists == [PrtPorts -> PortRows \cup {NoPortRow}]

PrtTypes ==
  /\ prtRows \in PortLists
  /\ prtDecided \in [PrtPorts -> [status : PrtMarks, tlsStatus : PrtMarks]]

\* A scan that has read the list holds one, whose rows are still there.
PrtScans ==
  /\ DOMAIN prtScan = PrtScanners
  /\ \A s \in PrtScanners : prtScan[s].at = "read" =>
       /\ prtScan[s].rows \in PortLists
       /\ \A p \in PrtPorts : prtScan[s].rows[p] # NoPortRow => HasRow(p)

\* Until a scan is written it holds the list as it is, but for the decisions.
PrtUntouched ==
  \A s \in PrtScanners, p \in PrtPorts : prtScan[s].at = "read" /\ prtSeen = {} =>
    /\ prtScan[s].rows[p] = NoPortRow => ~HasRow(p)
    /\ prtScan[s].rows[p] # NoPortRow => prtScan[s].rows[p].open = prtRows[p].open

\* A decision is about a port of the list.
PrtDeciding ==
  /\ DOMAIN prtEdit = PrtEditors
  /\ \A e \in PrtEditors : prtEdit[e].at \in {"port", "host"} =>
       /\ prtEdit[e].port \in PrtPorts /\ prtEdit[e].action \in Decisions /\ prtEdit[e].row \in PortRows
       /\ HasRow(prtEdit[e].port)

PrtUnlisted == \A p \in PrtPorts : ~HasRow(p) => prtDecided[p] = Undecided

PrtInv == PrtTypes /\ PrtScans /\ PrtUntouched /\ PrtDeciding /\ PrtUnlisted /\ ListIsTrue

-----------------------------------------------------------------------------

\* A port without a row is told from one with a row.
LEMMA PrtNoRow == NoPortRow \notin PortRows
BY DEF NoPortRow, PortRows, PrtMarks

\* At first there are no rows and nothing was decided.
LEMMA PrtInvInit == ASSUME PrtInit PROVE PrtInv
<1> USE DEF PrtInit
<1>1. prtRows \in PortLists
  BY DEF PortLists
<1>2. \A p \in PrtPorts : ~HasRow(p)
  BY DEF HasRow
<1>3. Undecided \in [status : PrtMarks, tlsStatus : PrtMarks]
  BY DEF Undecided, PrtMarks
<1>4. \A s \in PrtScanners : prtScan[s].at = "off"
  BY DEF Off
<1>5. \A e \in PrtEditors : prtEdit[e].at = "off"
  BY DEF Off
<1> QED BY <1>1, <1>2, <1>3, <1>4, <1>5
        DEF PrtInv, PrtTypes, PrtScans, PrtUntouched, PrtDeciding, PrtUnlisted, ListIsTrue

\* What a step of a scan other than its commit leaves.
LEMMA PrtScanStep ==
  ASSUME PrtInv, NEW s \in PrtScanners, ScanHostPorts(s) \/ ReadRows(s) \/ ScanFails(s)
  PROVE  PrtInv'
<1> USE DEF PrtInv
<1>1. UNCHANGED <<prtRows, prtEdit, prtDecided>>
  BY DEF ScanHostPorts, ReadRows, ScanFails
<1>2. PrtDeciding' /\ PrtUnlisted'
  BY <1>1 DEF PrtDeciding, PrtUnlisted, HasRow
<1>3. CASE ScanHostPorts(s)
  <2>1. prtScan' = [prtScan EXCEPT ![s] = [at |-> "seen", open |-> prtOpen]]
    BY <1>3 DEF ScanHostPorts
  <2>2. \A t \in PrtScanners : prtScan'[t].at = "read" => t # s /\ prtScan'[t] = prtScan[t]
    BY <2>1 DEF PrtScans
  <2>3. \/ prtSeen' = prtSeen
        \/ prtSeen' = {} /\ Quiet
    BY <1>3 DEF ScanHostPorts
  <2>4. prtSeen' = prtSeen \/ \A t \in PrtScanners : prtScan'[t].at # "read"
    BY <2>2, <2>3 DEF Quiet, Off
  <2>5. PrtTypes'
    BY <1>1, <2>3 DEF PrtTypes
  <2>6. PrtScans' /\ PrtUntouched'
    BY <1>1, <2>1, <2>2, <2>4 DEF PrtScans, PrtUntouched, HasRow
  <2>7. ListIsTrue'
    BY <1>1, <2>3 DEF ListIsTrue, HasRow
  <2> QED BY <1>2, <2>5, <2>6, <2>7
<1>4. CASE ReadRows(s) \/ ScanFails(s)
  <2>1. prtSeen' = prtSeen
    BY <1>4 DEF ReadRows, ScanFails
  <2>2. PrtTypes' /\ ListIsTrue'
    BY <1>1, <2>1 DEF PrtTypes, ListIsTrue, HasRow
  <2>3. DOMAIN prtScan' = PrtScanners /\ \A t \in PrtScanners \ {s} : prtScan'[t] = prtScan[t]
    BY <1>4 DEF ReadRows, ScanFails, PrtScans
  <2>4. prtScan'[s].at = "read" => prtScan'[s].rows = prtRows
    BY <1>4 DEF ReadRows, ScanFails, PrtScans, Off
  <2>5. PrtScans' /\ PrtUntouched'
    BY <1>1, <2>1, <2>3, <2>4 DEF PrtScans, PrtUntouched, HasRow, PrtTypes
  <2> QED BY <1>2, <2>2, <2>5
<1> QED BY <1>3, <1>4

\* A scan that is written: each row it finds keeps what was decided, and shows what this
\* scan or an overlapping one has seen.
LEMMA PrtCommitStep == ASSUME PrtInv, NEW s \in PrtScanners, CommitScan(s) PROVE PrtInv'
<1> DEFINE c == prtScan[s]
           added == {p \in c.open : c.rows[p] = NoPortRow}
<1> USE DEF PrtInv
<1>1. /\ c.at = "read"
      /\ \A p \in added : ~HasRow(p)
      /\ prtRows' = [p \in PrtPorts |->
                      IF p \in added THEN NewRow
                      ELSE IF c.rows[p] = NoPortRow THEN prtRows[p]
                      ELSE Rescanned(c, p, c.rows[p], prtRows[p])]
      /\ prtSeen' = prtSeen \union {c.open}
      /\ prtScan' = [prtScan EXCEPT ![s] = Off]
      /\ UNCHANGED <<prtEdit, prtDecided>>
  BY DEF CommitScan
<1>2. prtSeen' # {}
  BY <1>1
<1>3. ASSUME NEW p \in PrtPorts
      PROVE  /\ prtRows'[p] \in PortRows \cup {NoPortRow}
             /\ HasRow(p) => HasRow(p)'
             /\ HasRow(p)' => /\ \E found \in prtSeen' : prtRows'[p].open = (p \in found)
                              /\ prtRows'[p].status = prtDecided[p].status
                              /\ prtRows'[p].tlsStatus = prtDecided[p].tlsStatus
  <2>1. CASE p \in added
    <3>1. prtRows'[p] = NewRow /\ ~HasRow(p) /\ prtDecided[p] = Undecided
      BY <1>1, <2>1 DEF PrtUnlisted
    <3>2. NewRow \in PortRows /\ NewRow.status = "new" /\ NewRow.tlsStatus = "new" /\ NewRow.open = TRUE
      BY DEF NewRow, PortRows, PrtMarks
    <3>3. \E found \in prtSeen' : prtRows'[p].open = (p \in found)
      BY <1>1, <2>1, <3>1, <3>2
    <3> QED BY <3>1, <3>2, <3>3 DEF Undecided
  <2>2. CASE p \notin added /\ c.rows[p] = NoPortRow
    <3>1. prtRows'[p] = prtRows[p]
      BY <1>1, <2>2
    <3>2. HasRow(p) => prtSeen # {}
      BY <1>1, <2>2 DEF PrtUntouched
    <3> QED BY <3>1, <3>2, <1>1 DEF ListIsTrue, HasRow, PrtTypes, PortLists
  <2>3. CASE c.rows[p] # NoPortRow
    <3>0. p \notin added
      BY <2>3
    <3>1. HasRow(p) /\ prtRows[p] \in PortRows /\ c.rows[p] \in PortRows
      BY <1>1, <2>3 DEF PrtScans, HasRow, PrtTypes, PortLists
    <3> DEFINE was == c.rows[p]
               is == prtRows[p]
    <3>2. prtRows'[p] = [is EXCEPT !.open = IF was.open # (p \in c.open) THEN p \in c.open ELSE is.open]
      BY <1>1, <3>0, <2>3 DEF Rescanned
    <3>4. /\ prtRows'[p] \in PortRows /\ prtRows'[p].status = is.status /\ prtRows'[p].tlsStatus = is.tlsStatus
          /\ prtRows'[p].open = (p \in c.open) \/ (prtRows'[p].open = is.open /\ was.open = (p \in c.open))
      <4>1. is.open \in BOOLEAN /\ was.open \in BOOLEAN
        BY <3>1 DEF PortRows
      <4>2. CASE was.open # (p \in c.open) /\ p \in c.open
        <5>1. prtRows'[p] = [is EXCEPT !.open = TRUE]
          BY <3>2, <4>2
        <5> QED BY <3>1, <4>2, <5>1 DEF PortRows
      <4>3. CASE was.open # (p \in c.open) /\ p \notin c.open
        <5>1. prtRows'[p] = [is EXCEPT !.open = FALSE]
          <6>1. (p \in c.open) = FALSE
            BY <4>3
          <6>2. (was.open # (p \in c.open)) = TRUE
            BY <4>3
          <6> QED BY <3>2, <6>1, <6>2, Zenon
        <5>2. prtRows'[p] \in PortRows /\ prtRows'[p].open = FALSE
          BY <3>1, <5>1 DEF PortRows
        <5>3. prtRows'[p].open = (p \in c.open)
          <6>1. (p \in c.open) = FALSE
            BY <4>3
          <6> QED BY <5>2, <6>1, Zenon
        <5> QED BY <3>1, <5>1, <5>2, <5>3 DEF PortRows
      <4>4. CASE was.open = (p \in c.open)
        <5>1. prtRows'[p] = [is EXCEPT !.open = is.open]
          BY <3>2, <4>4
        <5> QED BY <3>1, <4>1, <4>4, <5>1 DEF PortRows
      <4> QED BY <4>2, <4>3, <4>4
    <3>5. prtSeen = {} => was.open = is.open
      BY <1>1, <2>3 DEF PrtUntouched
    <3>6. prtSeen # {} => \E found \in prtSeen : is.open = (p \in found)
      BY <3>1 DEF ListIsTrue
    <3>8. \E found \in prtSeen' : prtRows'[p].open = (p \in found)
      BY <1>1, <3>4, <3>5, <3>6
    <3> QED BY <3>1, <3>4, <3>8, PrtNoRow DEF ListIsTrue, HasRow
  <2> QED BY <2>1, <2>2, <2>3
<1>4. PrtTypes'
  <2>1. prtRows' \in PortLists
    BY <1>1, <1>3 DEF PortLists
  <2> QED BY <1>1, <2>1 DEF PrtTypes
<1>5. \A t \in PrtScanners : prtScan'[t].at = "read" => prtScan'[t] = prtScan[t]
  BY <1>1 DEF PrtScans, Off
<1>6. PrtScans' /\ PrtUntouched'
  BY <1>1, <1>2, <1>3, <1>5 DEF PrtScans, PrtUntouched
<1>7. PrtDeciding' /\ PrtUnlisted'
  BY <1>1, <1>3 DEF PrtDeciding, PrtUnlisted
<1>8. ListIsTrue'
  BY <1>1, <1>3 DEF ListIsTrue
<1> QED BY <1>4, <1>6, <1>7, <1>8

\* A decision that is written changes nothing that a scan writes.
LEMMA PrtDecideStep == ASSUME PrtInv, NEW e \in PrtEditors, CommitDecision(e) PROVE PrtInv'
<1> DEFINE c == prtEdit[e]
           row == DecidedRow(c.row, c.action)
           now == prtRows[c.port]
           new == [now EXCEPT !.status = Written(now.status, c.row.status, row.status),
                              !.tlsStatus = Written(now.tlsStatus, c.row.tlsStatus, row.tlsStatus)]
<1> USE DEF PrtInv
<1>1. /\ c.at = "host"
      /\ prtRows' = [prtRows EXCEPT ![c.port] = new]
      /\ prtDecided' = [prtDecided EXCEPT ![c.port] =
            [status |-> prtRows'[c.port].status, tlsStatus |-> prtRows'[c.port].tlsStatus]]
      /\ prtEdit' = [prtEdit EXCEPT ![e] = Off]
      /\ UNCHANGED <<prtScan, prtSeen>>
  BY DEF CommitDecision
<1>2. c.port \in PrtPorts /\ c.action \in Decisions /\ c.row \in PortRows /\ now \in PortRows
  BY <1>1 DEF PrtDeciding, HasRow, PrtTypes, PortLists
<1>3. row.status \in PrtMarks /\ row.tlsStatus \in PrtMarks
  BY <1>2 DEF DecidedRow, Decisions, PortRows, PrtMarks
<1>4. new \in PortRows /\ new.open = now.open
  BY <1>2, <1>3 DEF Written, PortRows
<1> HIDE DEF new
<1>5. \A p \in PrtPorts : prtRows'[p] = IF p = c.port THEN new ELSE prtRows[p]
  BY <1>1, <1>2 DEF PrtTypes, PortLists
<1>6. \A p \in PrtPorts : /\ HasRow(p)' <=> HasRow(p)
                          /\ HasRow(p) => prtRows'[p].open = prtRows[p].open
  BY <1>2, <1>4, <1>5, PrtNoRow DEF HasRow
<1>7. [status |-> new.status, tlsStatus |-> new.tlsStatus] \in [status : PrtMarks, tlsStatus : PrtMarks]
  BY <1>4 DEF PortRows
<1>8. \A p \in PrtPorts : prtDecided'[p] = IF p = c.port THEN [status |-> new.status, tlsStatus |-> new.tlsStatus]
                                           ELSE prtDecided[p]
  BY <1>1, <1>2, <1>5 DEF PrtTypes
<1>9. PrtTypes'
  BY <1>1, <1>2, <1>4, <1>5, <1>7 DEF PrtTypes, PortLists
<1>10. PrtScans' /\ PrtUntouched'
  BY <1>1, <1>6 DEF PrtScans, PrtUntouched
<1>11. PrtDeciding'
  BY <1>1, <1>6 DEF PrtDeciding, Off
<1>12. PrtUnlisted'
  BY <1>2, <1>6, <1>8, PrtNoRow DEF PrtUnlisted, HasRow
<1>13. ListIsTrue'
  BY <1>1, <1>5, <1>6, <1>8 DEF ListIsTrue
<1> QED BY <1>9, <1>10, <1>11, <1>12, <1>13

\* The other steps leave the list and what is known of it.
LEMMA PrtOtherStep ==
  ASSUME PrtInv,
         \/ \E p \in PrtPorts : PortChanges(p)
         \/ \E e \in PrtEditors : BeginDecision(e) \/ ReadHost(e)
         \/ UNCHANGED prtVars
  PROVE  PrtInv'
<1> USE DEF PrtInv
<1>1. UNCHANGED <<prtRows, prtScan, prtSeen, prtDecided>>
  BY DEF PortChanges, BeginDecision, ReadHost, prtVars
<1>2. PrtTypes' /\ PrtScans' /\ PrtUntouched' /\ PrtUnlisted' /\ ListIsTrue'
  BY <1>1 DEF PrtTypes, PrtScans, PrtUntouched, PrtUnlisted, ListIsTrue, HasRow
<1>3. PrtDeciding'
  <2>1. CASE prtEdit' = prtEdit
    BY <1>1, <2>1 DEF PrtDeciding, HasRow
  <2>2. ASSUME NEW e \in PrtEditors, BeginDecision(e) PROVE PrtDeciding'
    <3>1. PICK p \in PrtPorts, d \in Decisions :
            HasRow(p) /\ prtEdit' = [prtEdit EXCEPT ![e] = [at |-> "port", port |-> p, action |-> d,
                                                            row |-> prtRows[p]]]
      BY <2>2 DEF BeginDecision
    <3>2. prtRows[p] \in PortRows
      BY <3>1 DEF HasRow, PrtTypes, PortLists
    <3> QED BY <1>1, <3>1, <3>2 DEF PrtDeciding, HasRow
  <2>3. ASSUME NEW e \in PrtEditors, ReadHost(e) PROVE PrtDeciding'
    BY <1>1, <2>3 DEF PrtDeciding, HasRow, ReadHost
  <2> QED BY <2>1, <2>2, <2>3 DEF PortChanges, prtVars
<1> QED BY <1>2, <1>3

\* The list of ports is true however scans and decisions overlap, for any ports and any
\* number of scans and editors.
THEOREM PortListIsTrue == PrtSpec => []ListIsTrue
<1>1. PrtInv /\ [PrtNext]_prtVars => PrtInv'
  BY PrtScanStep, PrtCommitStep, PrtDecideStep, PrtOtherStep DEF PrtNext
<1>2. PrtInv => ListIsTrue
  BY DEF PrtInv
<1> QED BY PrtInvInit, <1>1, <1>2, PTL DEF PrtSpec
=============================================================================
