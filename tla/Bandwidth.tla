----------------------------- MODULE Bandwidth -----------------------------
(***************************************************************************)
(* The throughput of one interface (backend/services/bandwidth.py).  The   *)
(* poll of a Proxmox server reads a byte counter of a node, that of a UniFi*)
(* controller a rate the device has computed.  The server stamps what it   *)
(* was given, looks up the newest sample ClickHouse has of the interface,  *)
(* and stores a sample with the rate between the two.  Polls overlap while *)
(* two instances believe that they lead.  A lookup names the source and the*)
(* interface, so that interfaces do not meet; received and sent bytes are  *)
(* treated alike, so that one counter stands for both.  The reports of     *)
(* agents go the same way, but no agent gives the bytes of an interface    *)
(* under the keys that are read here.                                      *)
(***************************************************************************)
EXTENDS Integers, FiniteSets

CONSTANTS
  BwdSlots,     \* polls of the source at a time
  BwdBytes,     \* bound: bytes that pass the interface
  BwdTime,      \* bound: ticks of the server's clock
  BwdHour,      \* the ticks the dashboard looks back
  BwdLimit,     \* the samples one query of the history returns at most
  BwdPolls      \* bound: polls ever made

ASSUME BwdAssumption == {BwdBytes, BwdTime, BwdHour, BwdLimit, BwdPolls} \subseteq Nat

VARIABLES
  bwdKind,      \* "counter": a Proxmox node; "rate": a UniFi device or port
  bwdNow,       \* the server's clock
  bwdCount,     \* the interface's counter; it starts at 0 whenever its host does
  bwdPoll,      \* where each poll is
  bwdRows,      \* bandwidth_metrics of the interface
  bwdMade,      \* polls made
  (* history *)
  bwdTotal      \* the bytes that have passed in all

bwdVars == <<bwdKind, bwdNow, bwdCount, bwdPoll, bwdRows, bwdMade, bwdTotal>>

NoPoll == [at |-> "off"]

BwdInit ==
  /\ bwdKind \in {"counter", "rate"}
  /\ bwdNow = 0 /\ bwdCount = 0 /\ bwdTotal = 0 /\ bwdMade = 0
  /\ bwdPoll = [s \in BwdSlots |-> NoPoll]
  /\ bwdRows = {}

-----------------------------------------------------------------------------
(* The interface and the clock.                                            *)

\* The bytes of a device that gives rates are nowhere looked at.
Transfer ==
  /\ bwdKind = "counter" /\ bwdTotal < BwdBytes
  /\ bwdCount' = bwdCount + 1 /\ bwdTotal' = bwdTotal + 1
  /\ UNCHANGED <<bwdKind, bwdNow, bwdPoll, bwdRows, bwdMade>>

\* A node takes longer to start than the server to stamp what it has been given.
Reboot ==
  /\ bwdCount # 0
  /\ \A s \in BwdSlots : bwdPoll[s].at # "sent"
  /\ bwdCount' = 0
  /\ UNCHANGED <<bwdKind, bwdNow, bwdPoll, bwdRows, bwdMade, bwdTotal>>

BwdTick ==
  /\ bwdNow < BwdTime
  /\ bwdNow' = bwdNow + 1
  /\ UNCHANGED <<bwdKind, bwdCount, bwdPoll, bwdRows, bwdMade, bwdTotal>>

-----------------------------------------------------------------------------
(* A poll.                                                                 *)

\* The source answers; without a counter and a rate it would make no sample.
TakeReading(s) ==
  /\ bwdPoll[s] = NoPoll /\ bwdMade < BwdPolls
  /\ bwdMade' = bwdMade + 1
  /\ bwdPoll' = [bwdPoll EXCEPT ![s] = [at |-> "sent", bytes |-> bwdCount, total |-> bwdTotal]]
  /\ UNCHANGED <<bwdKind, bwdNow, bwdCount, bwdRows, bwdTotal>>

\* The sample has the time at which the poll is handed over, not that of the reading.
StampReading(s) ==
  /\ bwdPoll[s].at = "sent"
  /\ bwdPoll' = [bwdPoll EXCEPT ![s] = [at |-> "stamped", bytes |-> @.bytes, total |-> @.total,
                                      ts |-> bwdNow]]
  /\ UNCHANGED <<bwdKind, bwdNow, bwdCount, bwdRows, bwdMade, bwdTotal>>

Newest(rows) == {r \in rows : \A q \in rows : q.ts <= r.ts}

Distance(a, b) == IF a <= b THEN b - a ELSE a - b

\* Mutant of CalcRate: a counter that went back has counted from zero.
CalcRateFromZero(prev, c) ==
  IF c.ts <= prev.ts THEN 0 ELSE IF c.bytes < prev.bytes THEN c.bytes ELSE c.bytes - prev.bytes

\* _calc_rate_bps, as the bytes it spreads over the time between the samples.
CalcRate(prev, c) ==
  IF c.ts <= prev.ts \/ c.bytes < prev.bytes THEN 0 ELSE c.bytes - prev.bytes

\* moved: the bytes the rate speaks of; span: those that passed between the readings.
Sample(c, moved, span) == [ts |-> c.ts, bytes |-> c.bytes, total |-> c.total,
                           moved |-> moved, span |-> span]

\* _rate_from_history: the newest sample before this one is stored; of two with one
\* time it is either, and there may be none, or no answer.
RateFromHistory(s) ==
  /\ bwdPoll[s].at = "stamped" /\ bwdKind = "counter"
  /\ LET c == bwdPoll[s] IN
     \E smp \in {Sample(c, CalcRate(r, c), Distance(r.total, c.total)) : r \in Newest(bwdRows)}
                  \union {Sample(c, 0, 0)} :
       bwdPoll' = [bwdPoll EXCEPT ![s] = [at |-> "ready", row |-> smp]]
  /\ UNCHANGED <<bwdKind, bwdNow, bwdCount, bwdRows, bwdMade, bwdTotal>>

\* extract_unifi_bandwidth: the device's own rate, of bytes per second; no counter.
RateFromDevice(s) ==
  /\ bwdPoll[s].at = "stamped" /\ bwdKind = "rate"
  /\ \E rate \in {0, 1} :
       bwdPoll' = [bwdPoll EXCEPT ![s] =
         [at |-> "ready", row |-> Sample([@ EXCEPT !.bytes = 0], rate, rate)]]
  /\ UNCHANGED <<bwdKind, bwdNow, bwdCount, bwdRows, bwdMade, bwdTotal>>

\* insert_bandwidth_metrics.
StoreSample(s) ==
  /\ bwdPoll[s].at = "ready"
  /\ bwdRows' = bwdRows \union {bwdPoll[s].row}
  /\ bwdPoll' = [bwdPoll EXCEPT ![s] = NoPoll]
  /\ UNCHANGED <<bwdKind, bwdNow, bwdCount, bwdMade, bwdTotal>>

\* The standby of a cluster is left out, a step fails, or the server stops.
LosePoll(s) ==
  /\ bwdPoll[s] # NoPoll
  /\ bwdPoll' = [bwdPoll EXCEPT ![s] = NoPoll]
  /\ UNCHANGED <<bwdKind, bwdNow, bwdCount, bwdRows, bwdMade, bwdTotal>>

BwdNext ==
  \/ Transfer \/ Reboot \/ BwdTick
  \/ \E s \in BwdSlots : TakeReading(s) \/ StampReading(s) \/ RateFromHistory(s)
                         \/ RateFromDevice(s) \/ StoreSample(s) \/ LosePoll(s)

BwdSpec == BwdInit /\ [][BwdNext]_bwdVars

-----------------------------------------------------------------------------
(* What the dashboard shows.                                               *)

SamplesSince(ticks) == {r \in bwdRows : r.ts >= bwdNow - ticks}

\* get_bandwidth_summary and get_bandwidth_interfaces: the newest sample of the hour.
BandwidthSummary == Newest(SamplesSince(BwdHour))

\* The oldest samples, up to the limit.
Oldest(rows) == {r \in rows : Cardinality({q \in rows : q.ts < r.ts}) < BwdLimit}

\* get_bandwidth_history: of what it is asked for, here all there is, the oldest.
BandwidthHistory == Oldest(SamplesSince(BwdTime))

-----------------------------------------------------------------------------
(* Properties.                                                             *)

BwdTypeOK ==
  /\ bwdNow \in 0..BwdTime /\ bwdCount \in 0..bwdTotal /\ bwdTotal \in 0..BwdBytes
  /\ \A r \in bwdRows : r.ts \in 0..bwdNow /\ r.total \in 0..bwdTotal

\* bandwidth.py:32 "Returns 0 if calculation is impossible (no previous sample, counter
\* reset, or non-positive time delta)": however polls overtake each other and nodes start
\* again, no rate the dashboard shows speaks of more bytes than have passed between the two
\* readings it was computed from.
RateIsBacked ==
  \A r \in BandwidthSummary \union BandwidthHistory : 0 <= r.moved /\ r.moved <= r.span
=============================================================================
