----------------------------- MODULE LogProofs ------------------------------
(***************************************************************************)
(* What becomes of log messages: the buffer before the database, the       *)
(* templates learned from them, and the patterns across the fleet.         *)
(***************************************************************************)
EXTENDS LogBuffer, LogTemplates, LogPatterns, SequenceTheorems, TLAPS

-----------------------------------------------------------------------------
(***************************************************************************)
(* LogBuffer: the batch being stored, the buffer, those who wait for the   *)
(* lock and the tasks not yet run are one line, in which the messages of a *)
(* kind keep the order they came in.                                       *)
(***************************************************************************)
Message(m) == m \in 1..MaxMessages
Kin(L, a, b) == a \in L <=> b \in L

\* Every message of A is older than every message of its kind in B.
Before(L, A, B) == \A a \in A, b \in B : Message(a) /\ Message(b) /\ Kin(L, a, b) => a < b

Ordered(L, s) ==
    \A i, j \in DOMAIN s : i < j /\ Message(s[i]) /\ Message(s[j]) /\ Kin(L, s[i], s[j]) => s[i] < s[j]

-----------------------------------------------------------------------------
(* Sequences of messages                                                     *)

\* Range, without the function it is made of.
LEMMA InRange == \A f, x : x \in Range(f) <=> \E i \in DOMAIN f : f[i] = x
BY DEF Range

\* A message younger than all of its kind can be appended.
LEMMA Appended ==
    ASSUME NEW L, NEW s \in Seq(Nat), NEW x \in Nat, Ordered(L, s), Before(L, Range(s), {x})
    PROVE  /\ Append(s, x) \in Seq(Nat) /\ Range(Append(s, x)) = Range(s) \cup {x}
           /\ Ordered(L, Append(s, x))
<1>1. /\ Append(s, x) \in Seq(Nat) /\ DOMAIN s = 1..Len(s) /\ Len(s) \in Nat
      /\ DOMAIN Append(s, x) = 1..(Len(s) + 1)
      /\ \A i \in 1..Len(s) : Append(s, x)[i] = s[i]
      /\ Append(s, x)[Len(s) + 1] = x
  OBVIOUS
<1>2. Range(Append(s, x)) = Range(s) \cup {x}
  BY <1>1 DEF Range
<1>3. ASSUME NEW i \in 1..(Len(s) + 1), NEW j \in 1..(Len(s) + 1), i < j,
             Message(Append(s, x)[i]), Message(Append(s, x)[j]), Kin(L, Append(s, x)[i], Append(s, x)[j])
      PROVE  Append(s, x)[i] < Append(s, x)[j]
  <2>1. i \in 1..Len(s) /\ Append(s, x)[i] = s[i] /\ s[i] \in Range(s)
    BY <1>1, <1>3 DEF Range
  <2>2. CASE j = Len(s) + 1
    BY <1>1, <1>3, <2>1, <2>2 DEF Before
  <2>3. CASE j \in 1..Len(s)
    BY <1>1, <1>3, <2>1, <2>3 DEF Ordered
  <2>. QED BY <1>1, <2>2, <2>3
<1>4. Ordered(L, Append(s, x))
  BY <1>1, <1>3 DEF Ordered
<1>. QED BY <1>1, <1>2, <1>4

\* What is appended is added to the range.
LEMMA AnyAppended ==
    ASSUME NEW s \in Seq(Nat), NEW x \in Nat
    PROVE  Range(Append(s, x)) = Range(s) \cup {x}
<1>1. /\ DOMAIN s = 1..Len(s) /\ Len(s) \in Nat /\ DOMAIN Append(s, x) = 1..(Len(s) + 1)
      /\ \A i \in 1..Len(s) : Append(s, x)[i] = s[i]
      /\ Append(s, x)[Len(s) + 1] = x
  OBVIOUS
<1>. QED BY <1>1 DEF Range

\* The first message of an ordered sequence is the oldest of its kind.
LEMMA Shortened ==
    ASSUME NEW L, NEW s \in Seq(Nat), s # <<>>, Ordered(L, s)
    PROVE  /\ Head(s) \in Nat /\ Tail(s) \in Seq(Nat)
           /\ Range(s) = {Head(s)} \cup Range(Tail(s))
           /\ Ordered(L, Tail(s)) /\ Before(L, {Head(s)}, Range(Tail(s)))
<1>1. /\ Len(s) \in Nat \ {0} /\ DOMAIN s = 1..Len(s) /\ Head(s) = s[1]
      /\ Tail(s) \in Seq(Nat) /\ DOMAIN Tail(s) = 1..(Len(s) - 1)
      /\ \A i \in 1..(Len(s) - 1) : Tail(s)[i] = s[i + 1]
  OBVIOUS
<1>2. Range(Tail(s)) \subseteq Range(s) /\ Head(s) \in Range(s)
  BY <1>1 DEF Range
<1>3. Range(s) \subseteq {Head(s)} \cup Range(Tail(s))
  <2>1. \A i \in 1..Len(s) : i = 1 \/ (i - 1 \in 1..(Len(s) - 1) /\ Tail(s)[i - 1] = s[i])
    BY <1>1
  <2>2. \A i \in 1..Len(s) : s[i] = Head(s) \/ s[i] \in Range(Tail(s))
    BY <1>1, <2>1, InRange
  <2>. QED BY <1>1, <2>2, InRange
<1>4. Ordered(L, Tail(s))
  BY <1>1 DEF Ordered
<1>5. Before(L, {Head(s)}, Range(Tail(s)))
  <2>1. ASSUME NEW i \in 1..(Len(s) - 1), Message(s[1]), Message(s[i + 1]), Kin(L, s[1], s[i + 1])
        PROVE  s[1] < s[i + 1]
    BY <1>1, <2>1 DEF Ordered
  <2>. QED BY <1>1, <2>1 DEF Before, Range
<1>. QED BY <1>1, <1>2, <1>3, <1>4, <1>5

\* Two ordered sequences, the first one before the second, are ordered one after the
\* other.
LEMMA Joined ==
    ASSUME NEW L, NEW s \in Seq(Nat), NEW t \in Seq(Nat), Ordered(L, s), Ordered(L, t), Before(L, Range(s), Range(t))
    PROVE  /\ s \o t \in Seq(Nat) /\ Range(s \o t) = Range(s) \cup Range(t)
           /\ Ordered(L, s \o t)
<1>. DEFINE m == Len(s)
            n == Len(t)
            u == s \o t
<1>1. /\ m \in Nat /\ n \in Nat /\ DOMAIN s = 1..m /\ DOMAIN t = 1..n
      /\ u \in Seq(Nat) /\ Len(u) = m + n /\ DOMAIN u = 1..(m + n)
      /\ \A i \in 1..(m + n) : u[i] = IF i <= m THEN s[i] ELSE t[i - m]
  BY ConcatProperties
<1>. HIDE DEF m, n, u
<1>2. \A i \in 1..(m + n) : i > m => i - m \in 1..n /\ u[i] = t[i - m]
  BY <1>1
<1>3. \A i \in 1..m : i \in 1..(m + n) /\ u[i] = s[i]
  BY <1>1
<1>4. \A i \in 1..n : m + i \in 1..(m + n) /\ u[m + i] = t[i]
  <2>. TAKE i \in 1..n
  <2>1. m + i \in 1..(m + n) /\ m + i > m /\ (m + i) - m = i
    BY <1>1
  <2>. QED BY <1>2, <2>1
<1>5. Range(u) = Range(s) \cup Range(t)
  <2>1. Range(s) \cup Range(t) \subseteq Range(u)
    BY <1>1, <1>3, <1>4, InRange
  <2>2. ASSUME NEW i \in 1..(m + n) PROVE u[i] \in Range(s) \cup Range(t)
    <3>1. CASE i <= m
      <4>1. i \in DOMAIN s /\ u[i] = s[i]
        BY <1>1, <3>1
      <4>. QED BY <4>1, InRange
    <3>2. CASE i > m
      <4>1. i - m \in DOMAIN t /\ u[i] = t[i - m]
        BY <1>1, <1>2, <3>2
      <4>. QED BY <4>1, InRange
    <3>. QED BY <1>1, <3>1, <3>2
  <2>. QED BY <1>1, <2>1, <2>2, InRange
<1>6. ASSUME NEW i \in 1..(m + n), NEW j \in 1..(m + n), i < j,
             Message(u[i]), Message(u[j]), Kin(L, u[i], u[j])
      PROVE  u[i] < u[j]
  <2>1. CASE j <= m
    <3>1. i \in 1..m /\ j \in 1..m /\ u[i] = s[i] /\ u[j] = s[j]
      BY <1>1, <1>6, <2>1
    <3>. QED BY <1>1, <1>6, <3>1 DEF Ordered
  <2>2. CASE i <= m /\ j > m
    <3>1. i \in 1..m /\ u[i] = s[i] /\ j - m \in 1..n /\ u[j] = t[j - m]
      BY <1>1, <1>2, <2>2
    <3>2. u[i] \in Range(s) /\ u[j] \in Range(t)
      BY <1>1, <3>1 DEF Range
    <3>. QED BY <1>6, <3>2 DEF Before
  <2>3. CASE i > m /\ j > m
    <3>1. i - m \in 1..n /\ j - m \in 1..n /\ u[i] = t[i - m] /\ u[j] = t[j - m] /\ i - m < j - m
      BY <1>1, <1>2, <1>6, <2>3
    <3>. QED BY <1>1, <1>6, <3>1 DEF Ordered
  <2>. QED BY <1>1, <1>6, <2>1, <2>2, <2>3
<1>7. Ordered(L, u)
  BY <1>1, <1>6 DEF Ordered
<1>. QED BY <1>1, <1>5, <1>7 DEF u

\* The cap drops messages that are older than what it keeps of their kind.
LEMMA CappedInOrder ==
    ASSUME NEW L, NEW s \in Seq(Nat), Ordered(L, s)
    PROVE  /\ Capped(s) \in Seq(Nat) /\ Range(Capped(s)) \subseteq Range(s)
           /\ Ordered(L, Capped(s)) /\ Before(L, Excess(s), Range(Capped(s)))
           /\ Len(Capped(s)) <= BufferMax
<1>. DEFINE k == Overflow(s)
            c == Capped(s)
<1>1. Len(s) \in Nat /\ k \in 0..Len(s) /\ DOMAIN s = 1..Len(s) /\ \A i \in 1..Len(s) : s[i] \in Nat
  BY BufferAssumption DEF Overflow
<1>. HIDE DEF k
<1>2. c \in Seq(Nat) /\ Len(c) = Len(s) - k /\ \A i \in 1..(Len(s) - k) : c[i] = s[k + i]
  <2>1. \A i \in (k + 1)..Len(s) : s[i] \in Nat
    BY <1>1
  <2>2. /\ c \in Seq(Nat) /\ Len(c) = IF k + 1 <= Len(s) THEN Len(s) - (k + 1) + 1 ELSE 0
        /\ \A i \in 1..(Len(s) - (k + 1) + 1) : c[i] = s[k + 1 + i - 1]
    BY <1>1, <2>1, SubSeqProperties DEF Capped, k
  <2>. HIDE DEF c
  <2>3. \A i \in 1..(Len(s) - k) : i \in 1..(Len(s) - (k + 1) + 1) /\ k + 1 + i - 1 = k + i
    BY <1>1
  <2>4. \A i \in 1..(Len(s) - k) : c[i] = s[k + i]
    BY <2>2, <2>3
  <2>5. Len(c) = Len(s) - k
    <3>1. ASSUME NEW n \in Nat, NEW j \in 0..n PROVE n - j = IF j + 1 <= n THEN n - (j + 1) + 1 ELSE 0
      OBVIOUS
    <3>. QED BY <1>1, <2>2, <3>1
  <2>. QED BY <2>2, <2>4, <2>5
<1>. HIDE DEF c
<1>3. DOMAIN c = 1..(Len(s) - k) /\ \A i \in DOMAIN c : k + i \in DOMAIN s /\ c[i] = s[k + i]
  <2>1. DOMAIN c = 1..(Len(s) - k)
    BY <1>2
  <2>. QED BY <1>1, <1>2, <2>1
<1>4. Range(c) \subseteq Range(s)
  BY <1>3 DEF Range
<1>5. Ordered(L, c)
  BY <1>1, <1>3 DEF Ordered
<1>6. \A d \in Excess(s) : \E i \in DOMAIN s : i <= k /\ s[i] = d
  <2>1. ASSUME NEW i \in DOMAIN s, ~(i <= k) PROVE s[i] \in Range(c)
    <3>1. i - k \in 1..(Len(s) - k) /\ k + (i - k) = i
      BY <1>1, <2>1
    <3>. QED BY <1>3, <3>1 DEF Range
  <2>. QED BY <2>1 DEF Excess, Range, c
<1>7. ASSUME NEW d \in Excess(s), NEW b \in Range(c), Message(d), Message(b), Kin(L, d, b) PROVE d < b
  <2>1. PICK i \in DOMAIN s : i <= k /\ s[i] = d
    BY <1>6
  <2>2. PICK j \in DOMAIN c : c[j] = b
    BY DEF Range
  <2>3. k + j \in DOMAIN s /\ s[k + j] = b /\ i < k + j
    BY <1>1, <1>3, <2>1, <2>2
  <2>. QED BY <1>7, <2>1, <2>3 DEF Ordered
<1>8. Before(L, Excess(s), Range(c))
  BY <1>7 DEF Before
<1>9. Len(c) <= BufferMax
  BY <1>1, <1>2, BufferAssumption DEF Overflow, k
<1>. QED BY <1>2, <1>4, <1>5, <1>8, <1>9 DEF c

\* What SubSeq takes of a sequence.
LEMMA Slice ==
    ASSUME NEW S, NEW s \in Seq(S), NEW m \in Nat, NEW n \in Nat, m + n <= Len(s)
    PROVE  /\ SubSeq(s, m + 1, m + n) \in Seq(S)
           /\ Len(SubSeq(s, m + 1, m + n)) = n
           /\ \A j \in 1..n : SubSeq(s, m + 1, m + n)[j] = s[m + j]
<1>. DEFINE p == m + 1
            q == m + n
            sub == SubSeq(s, p, q)
<1>1. p \in Int /\ q \in Int /\ \A i \in p..q : s[i] \in S
  OBVIOUS
<1>2. q - p + 1 = n /\ (p <= q <=> n # 0) /\ \A j \in 1..n : p + j - 1 = m + j
  OBVIOUS
<1>3. /\ sub \in Seq(S) /\ Len(sub) = IF p <= q THEN q - p + 1 ELSE 0
      /\ \A j \in 1..(q - p + 1) : sub[j] = s[p + j - 1]
  <2>. HIDE DEF p, q
  <2>. QED BY <1>1, SubSeqProperties
<1>. HIDE DEF sub, p, q
<1>4. sub \in Seq(S) /\ Len(sub) = n /\ \A j \in 1..n : sub[j] = s[m + j]
  BY <1>2, <1>3
<1>. QED BY <1>4 DEF sub, p, q

\* A sequence stays ordered when one leaves it.
LEMMA LeftTheQueue ==
    ASSUME NEW L, NEW s \in Seq(Nat), NEW i \in DOMAIN s, Ordered(L, s)
    PROVE  /\ RemoveAt(s, i) \in Seq(Nat) /\ Range(RemoveAt(s, i)) \subseteq Range(s)
           /\ Range(s) \subseteq Range(RemoveAt(s, i)) \cup {s[i]}
           /\ Ordered(L, RemoveAt(s, i))
<1>1. Len(s) \in Nat /\ DOMAIN s = 1..Len(s) /\ i \in 1..Len(s)
  OBVIOUS
<1>. DEFINE a == SubSeq(s, 1, i - 1)
            b == SubSeq(s, i + 1, Len(s))
<1>2. a \in Seq(Nat) /\ Len(a) = i - 1 /\ \A j \in 1..(i - 1) : a[j] = s[j]
  <2>1. i - 1 \in Nat /\ 0 \in Nat /\ 0 + (i - 1) <= Len(s) /\ 0 + 1 = 1 /\ 0 + (i - 1) = i - 1
    BY <1>1
  <2>2. /\ a \in Seq(Nat) /\ Len(a) = i - 1 /\ \A j \in 1..(i - 1) : a[j] = s[0 + j]
    BY <2>1, Slice
  <2>. QED BY <1>1, <2>2
<1>3. b \in Seq(Nat) /\ Len(b) = Len(s) - i /\ \A j \in 1..(Len(s) - i) : b[j] = s[i + j]
  <2>1. Len(s) - i \in Nat /\ i \in Nat /\ i + (Len(s) - i) <= Len(s) /\ i + (Len(s) - i) = Len(s)
    BY <1>1
  <2>2. b = SubSeq(s, i + 1, i + (Len(s) - i))
    BY <2>1
  <2>. HIDE DEF b
  <2>. QED BY <2>1, <2>2, Slice
<1>. HIDE DEF a, b
<1>4. DOMAIN a = 1..(i - 1) /\ DOMAIN b = 1..(Len(s) - i)
  BY <1>2, <1>3
<1>5. Range(a) \subseteq Range(s) /\ Range(b) \subseteq Range(s)
  <2>1. \A j \in 1..(i - 1) : j \in DOMAIN s
    BY <1>1
  <2>2. \A j \in 1..(Len(s) - i) : i + j \in DOMAIN s
    BY <1>1
  <2>. QED BY <1>2, <1>3, <1>4, <2>1, <2>2 DEF Range
<1>6. Ordered(L, a) /\ Ordered(L, b)
  <2>1. \A j \in 1..(i - 1) : j \in DOMAIN s /\ a[j] = s[j]
    BY <1>1, <1>2
  <2>2. \A j \in 1..(Len(s) - i) : i + j \in DOMAIN s /\ b[j] = s[i + j]
    BY <1>1, <1>3
  <2>3. \A j, k \in 1..(Len(s) - i) : j < k => i + j < i + k
    BY <1>1
  <2>4. Ordered(L, a)
    BY <1>4, <2>1 DEF Ordered
  <2>5. Ordered(L, b)
    BY <1>4, <2>2, <2>3 DEF Ordered
  <2>. QED BY <2>4, <2>5
<1>7. Before(L, Range(a), Range(b))
  <2>1. ASSUME NEW j \in 1..(i - 1), NEW k \in 1..(Len(s) - i), Message(a[j]), Message(b[k]), Kin(L, a[j], b[k])
        PROVE  a[j] < b[k]
    <3>1. j \in DOMAIN s /\ i + k \in DOMAIN s /\ j < i + k /\ a[j] = s[j] /\ b[k] = s[i + k]
      <4>1. j \in 1..Len(s) /\ i + k \in 1..Len(s) /\ j < i + k
        BY <1>1
      <4>. QED BY <1>1, <1>2, <1>3, <4>1
    <3>. QED BY <2>1, <3>1 DEF Ordered
  <2>2. SUFFICES ASSUME NEW x \in Range(a), NEW y \in Range(b), Message(x), Message(y), Kin(L, x, y)
                 PROVE  x < y
    BY DEF Before
  <2>3. PICK j \in DOMAIN a : a[j] = x
    BY InRange
  <2>4. PICK k \in DOMAIN b : b[k] = y
    BY InRange
  <2>. QED BY <1>4, <2>1, <2>2, <2>3, <2>4
<1>8. RemoveAt(s, i) = a \o b
  BY DEF RemoveAt, a, b
<1>9. Range(s) \subseteq Range(a) \cup Range(b) \cup {s[i]}
  <2>1. ASSUME NEW j \in 1..Len(s) PROVE s[j] \in Range(a) \cup Range(b) \cup {s[i]}
    <3>1. CASE j < i
      <4>1. j \in DOMAIN a /\ a[j] = s[j]
        BY <1>1, <1>2, <1>4, <3>1
      <4>. QED BY <4>1, InRange
    <3>2. CASE j > i
      <4>1. j - i \in 1..(Len(s) - i) /\ i + (j - i) = j
        BY <1>1, <3>2
      <4>2. j - i \in DOMAIN b /\ b[j - i] = s[j]
        BY <1>3, <1>4, <4>1
      <4>. QED BY <4>2, InRange
    <3>. QED BY <1>1, <3>1, <3>2
  <2>. QED BY <1>1, <2>1, InRange
<1>10. Range(a \o b) = Range(a) \cup Range(b)
  BY <1>2, <1>3, <1>6, <1>7, Joined
<1>. QED BY <1>2, <1>3, <1>5, <1>6, <1>7, <1>8, <1>9, <1>10, Joined

-----------------------------------------------------------------------------
(* The invariant                                                             *)

\* Batch, buffer, queue of the lock and new tasks are one line, in which messages of a
\* kind keep their order.
Line(L, bt, bf, wt, rd) ==
    /\ Ordered(L, bt) /\ Ordered(L, bf) /\ Ordered(L, wt) /\ Ordered(L, rd)
    /\ Before(L, Range(bt), Range(bf))
    /\ Before(L, Range(bt) \cup Range(bf), Range(wt))
    /\ Before(L, Range(bt) \cup Range(bf) \cup Range(wt), Range(rd))

\* What is stored has passed the lock, what is dropped was at the head of the line.
Past(L, st, dr, bt, bf, wt, rd) ==
    /\ Before(L, st, Range(wt) \cup Range(rd))
    /\ Before(L, dr, Range(bt) \cup Range(bf) \cup Range(wt) \cup Range(rd))

LbTypes ==
    /\ received \in 0..MaxMessages
    /\ ready \in Seq(Nat) /\ waiting \in Seq(Nat) /\ buffer \in Seq(Nat) /\ batch \in Seq(Nat)

\* Only messages that were received are anywhere.
LbKnown ==
    /\ Range(ready) \subseteq 1..received /\ Range(buffer) \subseteq 1..received
    /\ Range(batch) \subseteq 1..received /\ Range(waiting) \subseteq (1..received) \cup {Flusher, Stopper}
    /\ stored \subseteq 1..received /\ dropped \subseteq 1..received
    /\ lines \subseteq 1..received /\ Range(ready) \cap lines = {}

LbLock == writer = NoTask => batch = <<>>
LbLine == Line(lines, batch, buffer, waiting, ready)
LbPast == Past(lines, stored, dropped, batch, buffer, waiting, ready)

LbInv == LbTypes /\ LbKnown /\ LbLock /\ LbLine /\ LbPast

\* The empty sequence is ordered.
LEMMA NoneLeft ==
    ASSUME NEW L, NEW s, s = <<>>
    PROVE  s \in Seq(Nat) /\ Range(s) = {} /\ Ordered(L, s)
<1>1. s \in Seq(Nat) /\ DOMAIN s = {}
  OBVIOUS
<1>2. Range(s) = {}
  BY <1>1, InRange
<1>3. Ordered(L, s)
  BY <1>1 DEF Ordered
<1>. QED BY <1>1, <1>2, <1>3, Zenon

\* Flusher and stopper wait for the lock like messages but are none.
LEMMA NoMessages == ~Message(Flusher) /\ ~Message(Stopper) /\ Flusher \in Nat /\ Stopper \in Nat
                    /\ NoTask # Flusher /\ NoTask # Stopper /\ \A m \in 1..MaxMessages : m # NoTask
BY BufferAssumption DEF Message, Flusher, Stopper, NoTask

\* A message that is received is the youngest, of whichever kind.
LEMMA NewIsYoungest ==
    ASSUME LbInv, received < MaxMessages, NEW A \in SUBSET ((1..received) \cup {Flusher, Stopper})
    PROVE  LET n == received + 1 IN
           /\ n \in 1..MaxMessages /\ n \notin lines /\ n \notin A
           /\ \A L : Before(L, A, {n})
           /\ \A B \in SUBSET ((1..received) \cup {Flusher, Stopper}) :
                 Before(lines, A, B) => Before(lines \union {n}, A, B)
<1>1. received \in 0..MaxMessages /\ MaxMessages \in Nat /\ lines \subseteq 1..received
  BY BufferAssumption DEF LbInv, LbTypes, LbKnown
<1>. DEFINE n == received + 1
<1>2. n \in 1..MaxMessages /\ n \notin lines /\ n \notin 1..received
  BY <1>1
<1>3. n # Flusher /\ n # Stopper
  BY <1>1 DEF Flusher, Stopper
<1>4. \A a \in 1..received : a < n
  BY <1>1
<1>. HIDE DEF n
<1>5. \A L : Before(L, A, {n})
  BY <1>4, NoMessages DEF Before
<1>6. ASSUME NEW B \in SUBSET ((1..received) \cup {Flusher, Stopper}), Before(lines, A, B)
      PROVE  Before(lines \union {n}, A, B)
  BY <1>2, <1>3, <1>6 DEF Before, Kin
<1>. QED BY <1>2, <1>3, <1>5, <1>6 DEF n

\* A datagram becomes a task, which is the youngest.
LEMMA Received ==
    ASSUME LbInv, ReceiveDatagram
    PROVE  LbInv'
<1>. DEFINE n == received + 1
<1>1. /\ received < MaxMessages /\ received' = n /\ ready' = Append(ready, n)
      /\ UNCHANGED <<waiting, buffer, batch, writer, lines, stored, dropped>>
  BY DEF ReceiveDatagram
<1>2. LbTypes /\ LbKnown /\ LbLock /\ LbLine /\ LbPast
  BY DEF LbInv
<1>3. /\ n \in 1..MaxMessages /\ n \notin lines
      /\ \A A \in SUBSET ((1..received) \cup {Flusher, Stopper}) : Before(lines, A, {n})
  BY <1>1, NewIsYoungest
<1>4. received \in Nat /\ n \in Nat /\ 1..received \subseteq 1..n /\ n \in 1..n
  BY <1>2 DEF LbTypes
<1>. HIDE DEF n
<1>5. /\ Append(ready, n) \in Seq(Nat) /\ Range(Append(ready, n)) = Range(ready) \cup {n}
      /\ Ordered(lines, Append(ready, n))
  BY <1>2, <1>3, <1>4, Appended DEF LbTypes, LbKnown, LbLine, Line
<1>6. LbTypes' /\ LbKnown' /\ LbLock'
  <2>1. LbTypes' /\ LbLock'
    BY <1>1, <1>2, <1>3, <1>4, <1>5 DEF LbTypes, LbLock
  <2>2. LbKnown'
    BY <1>1, <1>2, <1>3, <1>4, <1>5 DEF LbKnown, Flusher, Stopper
  <2>. QED BY <2>1, <2>2
<1>7. /\ Before(lines, Range(batch) \cup Range(buffer) \cup Range(waiting), {n})
      /\ Before(lines, stored, {n}) /\ Before(lines, dropped, {n})
  BY <1>2, <1>3 DEF LbKnown
<1>8. LbLine'
  BY <1>1, <1>2, <1>5, <1>7 DEF LbLine, Line, Before
<1>9. LbPast'
  BY <1>1, <1>2, <1>5, <1>7 DEF LbPast, Past, Before
<1>. QED BY <1>6, <1>8, <1>9 DEF LbInv

\* A line of a TCP connection waits for the lock at once, which it may do ahead of
\* datagrams only.
LEMMA LineReceived ==
    ASSUME LbInv, ReceiveLine
    PROVE  LbInv'
<1>. DEFINE n == received + 1
            All == (1..received) \cup {Flusher, Stopper}
<1>1. /\ received < MaxMessages /\ received' = n /\ lines' = lines \union {n} /\ waiting' = Append(waiting, n)
      /\ UNCHANGED <<ready, buffer, batch, writer, stored, dropped>>
  BY DEF ReceiveLine
<1>2. LbTypes /\ LbKnown /\ LbLock /\ LbLine /\ LbPast
  BY DEF LbInv
<1>3. /\ n \in 1..MaxMessages /\ n \notin lines
      /\ \A A \in SUBSET All : n \notin A /\ \A L : Before(L, A, {n})
      /\ \A A, B \in SUBSET All : Before(lines, A, B) => Before(lines', A, B)
  BY <1>1, NewIsYoungest
<1>4. received \in Nat /\ n \in Nat /\ 1..received \subseteq 1..n /\ n \in 1..n
  BY <1>2 DEF LbTypes
<1>5. /\ Range(batch) \in SUBSET All /\ Range(buffer) \in SUBSET All /\ Range(waiting) \in SUBSET All
      /\ Range(ready) \in SUBSET All /\ stored \in SUBSET All /\ dropped \in SUBSET All
  BY <1>2 DEF LbKnown
<1>. HIDE DEF n, All
<1>6. ASSUME NEW s \in Seq(Nat), Range(s) \in SUBSET All, Ordered(lines, s) PROVE Ordered(lines', s)
  <2>1. \A i \in DOMAIN s : s[i] \in Range(s)
    BY InRange
  <2>2. n \notin Range(s)
    BY <1>3, <1>6
  <2>. QED BY <1>1, <1>6, <2>1, <2>2 DEF Ordered, Kin
<1>7. /\ Ordered(lines', batch) /\ Ordered(lines', buffer) /\ Ordered(lines', waiting) /\ Ordered(lines', ready)
  BY <1>2, <1>5, <1>6 DEF LbTypes, LbLine, Line
<1>8. /\ Append(waiting, n) \in Seq(Nat) /\ Range(Append(waiting, n)) = Range(waiting) \cup {n}
      /\ Ordered(lines', Append(waiting, n))
  BY <1>2, <1>3, <1>4, <1>5, <1>7, Appended DEF LbTypes
<1>9. /\ Before(lines', Range(batch), Range(buffer))
      /\ Before(lines', Range(batch) \cup Range(buffer), Range(waiting) \cup {n})
      /\ Before(lines', Range(batch) \cup Range(buffer) \cup Range(waiting), Range(ready))
  <2>1. Range(batch) \cup Range(buffer) \in SUBSET All /\ Range(batch) \cup Range(buffer) \cup Range(waiting) \in SUBSET All
    BY <1>5
  <2>2. /\ Before(lines, Range(batch), Range(buffer))
        /\ Before(lines, Range(batch) \cup Range(buffer), Range(waiting))
        /\ Before(lines, Range(batch) \cup Range(buffer) \cup Range(waiting), Range(ready))
    BY <1>2 DEF LbLine, Line
  <2>3. /\ Before(lines', Range(batch), Range(buffer))
        /\ Before(lines', Range(batch) \cup Range(buffer), Range(waiting))
        /\ Before(lines', Range(batch) \cup Range(buffer) \cup Range(waiting), Range(ready))
    BY <1>3, <1>5, <2>1, <2>2
  <2>4. Before(lines', Range(batch) \cup Range(buffer), {n})
    BY <1>3, <2>1
  <2>. QED BY <2>3, <2>4 DEF Before
<1>10. Before(lines', {n}, Range(ready))
  <2>1. \A k \in Range(ready) : k \notin lines /\ k # n
    BY <1>2, <1>3, <1>5 DEF LbKnown
  <2>. QED BY <1>1, <2>1 DEF Before, Kin
<1>11. LbLine'
  BY <1>1, <1>7, <1>8, <1>9, <1>10 DEF LbLine, Line, Before
<1>12. LbPast'
  <2>1. Range(waiting) \cup Range(ready) \in SUBSET All
        /\ Range(batch) \cup Range(buffer) \cup Range(waiting) \cup Range(ready) \in SUBSET All
    BY <1>5
  <2>2. /\ Before(lines', stored, Range(waiting) \cup Range(ready))
        /\ Before(lines', dropped, Range(batch) \cup Range(buffer) \cup Range(waiting) \cup Range(ready))
    BY <1>2, <1>3, <1>5, <2>1 DEF LbPast, Past
  <2>3. Before(lines', stored, {n}) /\ Before(lines', dropped, {n})
    BY <1>3, <1>5
  <2>. QED BY <1>1, <1>8, <2>2, <2>3 DEF LbPast, Past, Before
<1>13. LbTypes' /\ LbKnown' /\ LbLock'
  <2>1. LbTypes' /\ LbLock'
    BY <1>1, <1>2, <1>3, <1>4, <1>8 DEF LbTypes, LbLock
  <2>2. n \notin Range(ready)
    BY <1>3, <1>5
  <2>3. LbKnown'
    BY <1>1, <1>2, <1>4, <1>8, <2>2 DEF LbKnown, Flusher, Stopper
  <2>. QED BY <2>1, <2>3
<1>. QED BY <1>11, <1>12, <1>13 DEF LbInv

\* A task that reaches the lock queues behind all that reached it before.
LEMMA Reached ==
    ASSUME LbInv, Reach
    PROVE  LbInv'
<1>1. /\ ready # <<>> /\ waiting' = Append(waiting, Head(ready)) /\ ready' = Tail(ready)
      /\ UNCHANGED <<received, lines, buffer, batch, writer, stored, dropped>>
  BY DEF Reach
<1>2. LbTypes /\ LbKnown /\ LbLock /\ LbLine /\ LbPast
  BY DEF LbInv
<1>3. /\ Head(ready) \in Nat /\ Tail(ready) \in Seq(Nat) /\ Range(ready) = {Head(ready)} \cup Range(Tail(ready))
      /\ Ordered(lines, Tail(ready)) /\ Before(lines, {Head(ready)}, Range(Tail(ready)))
  BY <1>1, <1>2, Shortened DEF LbTypes, LbLine, Line
<1>. DEFINE m == Head(ready)
            rest == Tail(ready)
<1>. HIDE DEF m, rest
<1>4. /\ Before(lines, Range(waiting), {m})
      /\ Before(lines, Range(batch) \cup Range(buffer) \cup Range(waiting) \cup {m}, Range(rest))
      /\ Before(lines, Range(batch) \cup Range(buffer), {m})
  BY <1>2, <1>3 DEF LbLine, Line, Before, m, rest
<1>5. /\ Append(waiting, m) \in Seq(Nat) /\ Range(Append(waiting, m)) = Range(waiting) \cup {m}
      /\ Ordered(lines, Append(waiting, m))
  BY <1>2, <1>3, <1>4, Appended DEF LbTypes, LbLine, Line, m
<1>6. waiting' = Append(waiting, m) /\ ready' = rest /\ Range(ready) = {m} \cup Range(rest)
      /\ rest \in Seq(Nat) /\ Ordered(lines, rest)
  BY <1>1, <1>3 DEF m, rest
<1>7. LbLine'
  BY <1>1, <1>2, <1>4, <1>5, <1>6 DEF LbLine, Line, Before
<1>8. LbPast'
  BY <1>1, <1>2, <1>5, <1>6 DEF LbPast, Past, Before
<1>9. LbTypes' /\ LbKnown' /\ LbLock'
  <2>1. LbTypes' /\ LbLock'
    BY <1>1, <1>2, <1>5, <1>6 DEF LbTypes, LbLock
  <2>2. LbKnown'
    BY <1>1, <1>2, <1>5, <1>6 DEF LbKnown, Flusher, Stopper
  <2>. QED BY <2>1, <2>2
<1>. QED BY <1>7, <1>8, <1>9 DEF LbInv

\* The flush loop or the shutdown joins the queue of the lock.
LEMMA Queued ==
    ASSUME LbInv, NEW w \in {Flusher, Stopper}, waiting' = Append(waiting, w),
           UNCHANGED <<received, lines, ready, buffer, batch, writer, stored, dropped>>
    PROVE  LbInv'
<1>1. LbTypes /\ LbKnown /\ LbLock /\ LbLine /\ LbPast /\ w \in Nat /\ ~Message(w)
  BY NoMessages DEF LbInv
<1>2. /\ Append(waiting, w) \in Seq(Nat) /\ Range(Append(waiting, w)) = Range(waiting) \cup {w}
      /\ Ordered(lines, Append(waiting, w))
  <2>1. Before(lines, Range(waiting), {w})
    BY <1>1 DEF Before
  <2>. QED BY <1>1, <2>1, Appended DEF LbTypes, LbLine, Line
<1>3. LbTypes' /\ LbLock'
  BY <1>1, <1>2 DEF LbTypes, LbLock
<1>4. LbKnown'
  BY <1>1, <1>2 DEF LbKnown, Flusher, Stopper
<1>5. LbLine'
  BY <1>1, <1>2 DEF LbLine, Line, Before
<1>6. LbPast'
  BY <1>1, <1>2 DEF LbPast, Past, Before
<1>. QED BY <1>3, <1>4, <1>5, <1>6 DEF LbInv

\* A message is buffered, and the cap drops the oldest; a full buffer becomes the batch.
LEMMA Enqueued ==
    ASSUME LbInv, Enter, Head(waiting) \notin {Flusher, Stopper}
    PROVE  LbInv'
<1>. DEFINE m == Head(waiting)
            rest == Tail(waiting)
            b == Append(buffer, m)
            c == Capped(b)
            e == Excess(b)
<1>1. /\ waiting # <<>> /\ waiting' = rest /\ writer = NoTask
      /\ dropped' = dropped \union e
      /\ \/ batch' = c /\ buffer' = <<>> /\ writer' = m
         \/ buffer' = c /\ UNCHANGED <<batch, writer>>
      /\ UNCHANGED <<received, lines, ready, stored>>
  BY DEF Enter, Enqueue, Flush, LockFree
<1>2. LbTypes /\ LbKnown /\ LbLock /\ LbLine /\ LbPast /\ batch = <<>> /\ Range(batch) = {}
  BY <1>1, NoneLeft DEF LbInv, LbLock
<1>3. /\ m \in Nat /\ rest \in Seq(Nat) /\ Range(waiting) = {m} \cup Range(rest)
      /\ Ordered(lines, rest) /\ Before(lines, {m}, Range(rest))
  BY <1>1, <1>2, Shortened DEF LbTypes, LbLine, Line
<1>4. m \in 1..received /\ m \in 1..MaxMessages /\ m # NoTask
  <2>1. m \in 1..received
    BY <1>2, <1>3 DEF LbKnown
  <2>2. received \in 0..MaxMessages /\ MaxMessages \in Nat
    BY <1>2, BufferAssumption DEF LbTypes
  <2>3. m \in 1..MaxMessages
    BY <2>1, <2>2
  <2>. QED BY <2>1, <2>3, NoMessages
<1>. HIDE DEF m, rest
<1>5. /\ b \in Seq(Nat) /\ Range(b) = Range(buffer) \cup {m} /\ Ordered(lines, b)
  <2>1. Before(lines, Range(buffer), {m})
    BY <1>2, <1>3 DEF LbLine, Line, Before
  <2>. QED BY <1>2, <1>3, <2>1, Appended DEF LbTypes, LbLine, Line
<1>. HIDE DEF b
<1>6. /\ c \in Seq(Nat) /\ Range(c) \subseteq Range(b) /\ Ordered(lines, c) /\ Before(lines, e, Range(c))
      /\ e \subseteq Range(b)
  BY <1>5, CappedInOrder DEF Excess
<1>. HIDE DEF c, e
<1>7. /\ Before(lines, Range(b), Range(rest)) /\ Before(lines, Range(b) \cup Range(rest), Range(ready))
  BY <1>2, <1>3, <1>5 DEF LbLine, Line, Before
<1>8. /\ Before(lines, stored, Range(rest) \cup Range(ready))
      /\ Before(lines, dropped \cup e, Range(c) \cup Range(rest) \cup Range(ready))
  <2>1. Before(lines, dropped, Range(b) \cup Range(rest) \cup Range(ready))
    BY <1>2, <1>3, <1>5 DEF LbPast, Past, Before
  <2>2. Before(lines, e, Range(c) \cup Range(rest) \cup Range(ready))
    BY <1>6, <1>7 DEF Before
  <2>3. Before(lines, stored, Range(rest) \cup Range(ready))
    BY <1>2, <1>3 DEF LbPast, Past, Before
  <2>. QED BY <1>6, <2>1, <2>2, <2>3 DEF Before
<1>9. Range(batch') \cup Range(buffer') = Range(c) /\ Before(lines, Range(batch'), Range(buffer'))
      /\ batch' \in Seq(Nat) /\ buffer' \in Seq(Nat) /\ Ordered(lines, batch') /\ Ordered(lines, buffer')
  BY <1>1, <1>2, <1>6, NoneLeft DEF Before
<1>10. LbLine'
  <2>1. Before(lines, Range(c), Range(rest)) /\ Before(lines, Range(c) \cup Range(rest), Range(ready))
    BY <1>6, <1>7 DEF Before
  <2>. QED BY <1>1, <1>2, <1>3, <1>9, <2>1 DEF LbLine, Line
<1>11. LbPast'
  BY <1>1, <1>8, <1>9 DEF LbPast, Past
<1>12. LbTypes'
  BY <1>1, <1>2, <1>3, <1>9 DEF LbTypes
<1>13. LbKnown'
  BY <1>1, <1>2, <1>3, <1>4, <1>5, <1>6, <1>9 DEF LbKnown
<1>14. LbLock'
  BY <1>1, <1>2, <1>4 DEF LbLock
<1>. QED BY <1>10, <1>11, <1>12, <1>13, <1>14 DEF LbInv

\* The flush loop and the shutdown write what is buffered.
LEMMA Flushed ==
    ASSUME LbInv, Enter, Head(waiting) \in {Flusher, Stopper}
    PROVE  LbInv'
<1>. DEFINE w == Head(waiting)
            rest == Tail(waiting)
<1>1. /\ waiting # <<>> /\ waiting' = rest /\ writer = NoTask
      /\ \/ batch' = buffer /\ buffer' = <<>> /\ writer' = w
         \/ UNCHANGED <<buffer, batch, writer>>
      /\ UNCHANGED <<received, lines, ready, stored, dropped>>
  <2>1. Flusher # Stopper
    BY BufferAssumption DEF Flusher, Stopper
  <2>. QED BY <2>1 DEF Enter, TimedFlush, LastFlush, Flush, LockFree
<1>2. LbTypes /\ LbKnown /\ LbLock /\ LbLine /\ LbPast /\ batch = <<>> /\ Range(batch) = {}
  BY <1>1, NoneLeft DEF LbInv, LbLock
<1>3. /\ rest \in Seq(Nat) /\ Range(waiting) = {w} \cup Range(rest) /\ Ordered(lines, rest)
  BY <1>1, <1>2, Shortened DEF LbTypes, LbLine, Line
<1>4. w # NoTask
  BY NoMessages
<1>. HIDE DEF w, rest
<1>5. Range(batch') \cup Range(buffer') = Range(buffer) /\ Before(lines, Range(batch'), Range(buffer'))
      /\ batch' \in Seq(Nat) /\ buffer' \in Seq(Nat) /\ Ordered(lines, batch') /\ Ordered(lines, buffer')
  <2>1. Ordered(lines, buffer) /\ buffer \in Seq(Nat)
    BY <1>2 DEF LbTypes, LbLine, Line
  <2>. QED BY <1>1, <1>2, <2>1, NoneLeft DEF Before
<1>6. /\ Before(lines, Range(buffer), Range(rest)) /\ Before(lines, Range(buffer) \cup Range(rest), Range(ready))
  BY <1>2, <1>3 DEF LbLine, Line, Before
<1>7. /\ Before(lines, stored, Range(rest) \cup Range(ready))
      /\ Before(lines, dropped, Range(buffer) \cup Range(rest) \cup Range(ready))
  BY <1>2, <1>3 DEF LbPast, Past, Before
<1>8. LbLine'
  BY <1>1, <1>2, <1>3, <1>5, <1>6 DEF LbLine, Line
<1>9. LbPast'
  BY <1>1, <1>5, <1>7 DEF LbPast, Past
<1>10. LbTypes' /\ LbLock'
  BY <1>1, <1>2, <1>3, <1>4, <1>5 DEF LbTypes, LbLock
<1>11. LbKnown'
  BY <1>1, <1>2, <1>3, <1>5 DEF LbKnown
<1>. QED BY <1>8, <1>9, <1>10, <1>11 DEF LbInv

\* What was in the batch has passed the lock: some of it is stored now.
LEMMA Inserted ==
    ASSUME LbInv, NEW more \in SUBSET Range(batch), stored' = stored \union more, batch' = <<>>, writer' = NoTask,
           UNCHANGED <<received, lines, ready, waiting, buffer, dropped>>
    PROVE  LbInv'
<1>1. LbTypes /\ LbKnown /\ LbLock /\ LbLine /\ LbPast /\ Range(batch') = {} /\ batch' \in Seq(Nat)
      /\ Ordered(lines, batch')
  BY NoneLeft DEF LbInv
<1>2. LbTypes' /\ LbLock' /\ LbKnown'
  BY <1>1 DEF LbTypes, LbLock, LbKnown
<1>3. LbLine'
  BY <1>1 DEF LbLine, Line, Before
<1>4. LbPast'
  BY <1>1 DEF LbPast, Past, LbLine, Line, Before
<1>. QED BY <1>2, <1>3, <1>4 DEF LbInv

\* A failed batch goes back to the head of the line.
LEMMA Requeued ==
    ASSUME LbInv, InsertFails
    PROVE  LbInv'
<1>. DEFINE b == batch \o buffer
            c == Capped(b)
            e == Excess(b)
<1>1. /\ stored' \in {stored, stored \union Range(batch)} /\ buffer' = c /\ dropped' = dropped \union e
      /\ batch' = <<>> /\ writer' = NoTask
      /\ UNCHANGED <<received, lines, ready, waiting>>
  BY DEF InsertFails, Requeue, Release
<1>2. LbTypes /\ LbKnown /\ LbLock /\ LbLine /\ LbPast /\ Range(batch') = {} /\ batch' \in Seq(Nat)
      /\ Ordered(lines, batch')
  BY <1>1, NoneLeft DEF LbInv
<1>3. b \in Seq(Nat) /\ Range(b) = Range(batch) \cup Range(buffer) /\ Ordered(lines, b)
  BY <1>2, Joined DEF LbTypes, LbLine, Line
<1>. HIDE DEF b
<1>4. /\ c \in Seq(Nat) /\ Range(c) \subseteq Range(b) /\ Ordered(lines, c) /\ Before(lines, e, Range(c))
      /\ e \subseteq Range(b)
  BY <1>3, CappedInOrder DEF Excess
<1>. HIDE DEF c, e
<1>5. Before(lines, Range(b), Range(waiting)) /\ Before(lines, Range(b) \cup Range(waiting), Range(ready))
  BY <1>2, <1>3 DEF LbLine, Line
<1>6. Before(lines, Range(c), Range(waiting)) /\ Before(lines, Range(c) \cup Range(waiting), Range(ready))
  BY <1>4, <1>5 DEF Before
<1>7. LbLine'
  BY <1>1, <1>2, <1>4, <1>6 DEF LbLine, Line, Before
<1>8. LbPast'
  <2>1. Before(lines, stored', Range(waiting) \cup Range(ready))
    BY <1>1, <1>2, <1>3, <1>5 DEF LbPast, Past, Before
  <2>2. Before(lines, dropped, Range(c) \cup Range(waiting) \cup Range(ready))
    BY <1>2, <1>3, <1>4 DEF LbPast, Past, Before
  <2>3. Before(lines, e, Range(c) \cup Range(waiting) \cup Range(ready))
    BY <1>4, <1>5 DEF Before
  <2>. QED BY <1>1, <1>2, <2>1, <2>2, <2>3 DEF LbPast, Past, Before
<1>9. LbTypes' /\ LbLock'
  BY <1>1, <1>2, <1>4 DEF LbTypes, LbLock
<1>10. LbKnown'
  BY <1>1, <1>2, <1>3, <1>4 DEF LbKnown
<1>. QED BY <1>7, <1>8, <1>9, <1>10 DEF LbInv

\* The cancelled flush loop leaves the queue, and its batch to the thread.
LEMMA Stopped ==
    ASSUME LbInv, Stop
    PROVE  LbInv'
<1>1. /\ \/ waiting' = waiting
         \/ \E i \in DOMAIN waiting : waiting' = RemoveAt(waiting, i)
      /\ \/ writer' = NoTask /\ batch' = <<>> /\ stored' \in {stored, stored \union Range(batch)}
         \/ UNCHANGED <<writer, batch, stored>>
      /\ UNCHANGED <<received, lines, ready, buffer, dropped>>
  BY DEF Stop
<1>2. LbTypes /\ LbKnown /\ LbLock /\ LbLine /\ LbPast
  BY DEF LbInv
<1>3. waiting' \in Seq(Nat) /\ Range(waiting') \subseteq Range(waiting) /\ Ordered(lines, waiting')
  BY <1>1, <1>2, LeftTheQueue DEF LbTypes, LbLine, Line
<1>4. batch' \in Seq(Nat) /\ Range(batch') \subseteq Range(batch) /\ Ordered(lines, batch')
      /\ stored' \in {stored, stored \union Range(batch)}
  BY <1>1, <1>2, NoneLeft DEF LbTypes, LbLine, Line
<1>5. LbTypes' /\ LbLock'
  BY <1>1, <1>2, <1>3, <1>4 DEF LbTypes, LbLock
<1>6. LbKnown'
  BY <1>1, <1>2, <1>3, <1>4 DEF LbKnown
<1>7. LbLine'
  BY <1>1, <1>2, <1>3, <1>4 DEF LbLine, Line, Before
<1>8. LbPast'
  <2>1. Before(lines, stored', Range(waiting) \cup Range(ready))
    BY <1>2, <1>4 DEF LbPast, Past, LbLine, Line, Before
  <2>2. Before(lines, stored', Range(waiting') \cup Range(ready))
    BY <1>3, <2>1 DEF Before
  <2>. QED BY <1>1, <1>2, <1>3, <1>4, <2>2 DEF LbPast, Past, Before
<1>. QED BY <1>5, <1>6, <1>7, <1>8 DEF LbInv

\* An ended process has nothing in line.
LEMMA Ended ==
    ASSUME LbInv, End
    PROVE  LbInv'
<1>1. /\ ready' = <<>> /\ waiting' = <<>> /\ buffer' = <<>> /\ batch' = <<>>
      /\ UNCHANGED <<received, lines, stored, dropped>>
  BY DEF End
<1>2. LbTypes' /\ LbLock' /\ LbKnown'
  BY <1>1, NoneLeft DEF LbInv, LbTypes, LbLock, LbKnown
<1>3. LbLine' /\ LbPast'
  BY <1>1, NoneLeft DEF LbLine, LbPast, Line, Past, Before
<1>. QED BY <1>2, <1>3 DEF LbInv

\* The order of the line is the order the property speaks of.
LEMMA LineInOrder == LbInv => NoOvertaking
<1>. SUFFICES ASSUME LbInv PROVE NoOvertaking
  OBVIOUS
<1>. DEFINE b == batch \o buffer
<1>1. b \in Seq(Nat) /\ Range(b) = Range(batch) \cup Range(buffer) /\ Ordered(lines, b)
  BY Joined DEF LbInv, LbTypes, LbLine, Line
<1>2. received \in Nat /\ 1..received \subseteq 1..MaxMessages
  BY BufferAssumption DEF LbInv, LbTypes
<1>3. \A i \in DOMAIN b : Message(b[i]) /\ b[i] \in Nat
  <2>1. \A i \in DOMAIN b : b[i] \in Range(b)
    BY InRange
  <2>. QED BY <1>1, <1>2, <2>1 DEF LbInv, LbKnown, Message
<1>. HIDE DEF b
<1>4. InOrder(b)
  <2>1. SUFFICES ASSUME NEW i \in DOMAIN b, NEW j \in DOMAIN b, Older(b[j], b[i]) PROVE j < i
    BY DEF InOrder
  <2>2. Kin(lines, b[i], b[j]) /\ b[j] < b[i]
    BY <2>1 DEF Older, Kin
  <2>3. ~(i < j)
    BY <1>1, <1>3, <2>2 DEF Ordered
  <2>4. i # j
    BY <1>3, <2>2
  <2>. QED BY <1>1, <2>3, <2>4
<1>5. \A k \in Pending : Message(k) /\ k \in Range(waiting) \cup Range(ready)
  BY <1>2 DEF Pending, Messages, LbInv, LbKnown, Message
<1>6. \A m \in stored \cup dropped : Message(m) /\ m \in Nat
  BY <1>2 DEF LbInv, LbKnown, Message
<1>7. \A m \in stored, k \in Pending : ~Older(k, m)
  BY <1>5, <1>6 DEF LbInv, LbPast, Past, Before, Kin, Older, Message
<1>8. \A k \in Kept : Message(k) /\ k \in Range(batch) \cup Range(buffer) \cup Range(waiting) \cup Range(ready)
  BY <1>2, <1>5 DEF Kept, LbInv, LbKnown, Message
<1>9. \A d \in dropped, k \in Kept : ~Older(k, d)
  BY <1>6, <1>8 DEF LbInv, LbPast, Past, Before, Kin, Older, Message
<1>. QED BY <1>4, <1>7, <1>9 DEF NoOvertaking, b

\* The line is always as the invariant says (_enqueue, _flush_buffer, stop_syslog_server);
\* the next two theorems rest on it.
THEOREM LineIsKept == BufSpec => []LbInv
<1>1. ASSUME BufInit PROVE LbInv
  <2>1. /\ received = 0 /\ ready = <<>> /\ waiting = <<>> /\ buffer = <<>> /\ batch = <<>>
        /\ lines = {} /\ stored = {} /\ dropped = {}
    BY <1>1 DEF BufInit
  <2>2. LbTypes /\ LbKnown /\ LbLock
    BY <2>1, NoneLeft, BufferAssumption DEF LbTypes, LbKnown, LbLock
  <2>3. LbLine /\ LbPast
    BY <2>1, NoneLeft DEF LbLine, LbPast, Line, Past, Before
  <2>. QED BY <2>2, <2>3 DEF LbInv
<1>2. ASSUME LbInv, [BufNext]_bufVars PROVE LbInv'
  <2>. USE <1>2
  <2>1. CASE InsertDone
    BY <2>1, Inserted DEF InsertDone, Release
  <2>2. CASE Wake
    BY <2>2, Queued DEF Wake
  <2>3. CASE Closed
    BY <2>3, Queued DEF Closed
  <2>4. ASSUME UNCHANGED <<received, lines, ready, waiting, buffer, batch, writer, stored, dropped>> PROVE LbInv'
    BY <2>4 DEF LbInv, LbTypes, LbKnown, LbLock, LbLine, LbPast
  <2>5. CASE Connect \/ Disconnect \/ UNCHANGED bufVars
    BY <2>4, <2>5 DEF Connect, Disconnect, bufVars, taskVars
  <2>6. CASE Enter
    BY <2>6, Enqueued, Flushed
  <2>. QED BY <2>1, <2>2, <2>3, <2>5, <2>6, Received, LineReceived, Reached, Requeued, Stopped, Ended DEF BufNext
<1>. QED BY <1>1, <1>2, PTL DEF BufSpec

\* Messages are buffered, stored and dropped in the order of their arrival.
THEOREM LogsKeepTheirOrder == BufSpec => []NoOvertaking
BY LineIsKept, LineInOrder, PTL

-----------------------------------------------------------------------------
(* Where every message is                                                    *)

\* Every message accepted is stored, was dropped by the cap, is still somewhere in the
\* line, or ended with a task or the process; the last not while the server runs.
Accounted ==
    /\ 1..received \subseteq stored \cup dropped \cup lost \cup Kept
    /\ phase = "running" => lost = {}

\* The memory that messages take: the buffer and the one batch that is being inserted.
Bounded == Len(buffer) <= BufferMax /\ Len(batch) <= BufferMax

InLine == Range(ready) \cup Range(waiting) \cup Range(batch) \cup Range(buffer)
LbCount ==
    /\ 1..received \subseteq stored \cup dropped \cup lost \cup InLine
    /\ phase = "running" => lost = {}
    /\ Bounded

\* What a flush moves and what an insert ends is accounted for.
LEMMA EnteredCount ==
    ASSUME LbInv, LbCount, Enter
    PROVE  LbCount'
<1>. DEFINE m == Head(waiting)
            b == Append(buffer, m)
<1>1. LbTypes /\ LbKnown /\ LbLine /\ waiting # <<>>
  BY DEF LbInv, Enter
<1>2. /\ m \in Nat /\ Range(waiting) = {m} \cup Range(Tail(waiting))
  BY <1>1, Shortened DEF LbTypes, LbLine, Line
<1>3. /\ b \in Seq(Nat) /\ Range(b) = Range(buffer) \cup {m} /\ Ordered(lines, b)
  <2>1. Before(lines, Range(buffer), {m})
    BY <1>1, <1>2 DEF LbLine, Line, Before
  <2>. QED BY <1>1, <1>2, <2>1, Appended DEF LbTypes, LbLine, Line
<1>4. Len(Capped(b)) <= BufferMax
  BY <1>3, CappedInOrder
<1>5. /\ waiting' = Tail(waiting) /\ batch = <<>> /\ Range(batch) = {}
      /\ UNCHANGED <<received, ready, stored, lost>>
  BY NoneLeft DEF Enter, LockFree, LbInv, LbLock
<1>6. phase' = "running" => phase = "running"
  BY DEF Enter, TimedFlush, LastFlush, Enqueue
<1>7. CASE m \notin {Flusher, Stopper}
  <2>1. /\ dropped' = dropped \cup Excess(b)
        /\ \/ batch' = Capped(b) /\ buffer' = <<>>
           \/ buffer' = Capped(b) /\ UNCHANGED batch
    BY <1>7 DEF Enter, Enqueue, Flush
  <2>2. Range(b) \subseteq Excess(b) \cup Range(Capped(b))
    BY DEF Excess
  <2>. HIDE DEF b
  <2>3. Range(buffer') \cup Range(batch') = Range(Capped(b)) /\ Bounded'
    <3>1. Len(<<>>) = 0
      OBVIOUS
    <3>. QED BY <1>4, <1>5, <2>1, <3>1, NoneLeft, BufferAssumption DEF Bounded
  <2>. QED BY <1>2, <1>3, <1>5, <1>6, <2>1, <2>2, <2>3 DEF LbCount, InLine
<1>8. CASE m \in {Flusher, Stopper}
  <2>1. /\ UNCHANGED dropped
        /\ \/ batch' = buffer /\ buffer' = <<>>
           \/ UNCHANGED <<batch, buffer>>
    <3>1. Flusher # Stopper
      BY BufferAssumption DEF Flusher, Stopper
    <3>. QED BY <1>8, <3>1 DEF Enter, TimedFlush, LastFlush, Flush
  <2>2. Range(buffer') \cup Range(batch') = Range(buffer) /\ Bounded'
    <3>1. Len(<<>>) = 0
      OBVIOUS
    <3>. QED BY <1>5, <2>1, <3>1, NoneLeft, BufferAssumption DEF Bounded, LbCount
  <2>3. m \notin 1..received
    <3>. HIDE DEF m
    <3>. QED BY <1>1, <1>8, BufferAssumption DEF LbTypes, Flusher, Stopper
  <2>. QED BY <1>2, <1>5, <1>6, <2>1, <2>2, <2>3 DEF LbCount, InLine
<1>. QED BY <1>7, <1>8

\* So is what goes back to the buffer.
LEMMA RequeuedCount ==
    ASSUME LbInv, LbCount, InsertFails
    PROVE  LbCount'
<1>. DEFINE b == batch \o buffer
<1>1. b \in Seq(Nat) /\ Range(b) = Range(batch) \cup Range(buffer) /\ Ordered(lines, b)
  BY Joined DEF LbInv, LbTypes, LbLine, Line
<1>2. Len(Capped(b)) <= BufferMax
  BY <1>1, CappedInOrder
<1>3. /\ buffer' = Capped(b) /\ dropped' = dropped \cup Excess(b) /\ batch' = <<>>
      /\ stored \subseteq stored' /\ UNCHANGED <<received, ready, waiting, lost>>
      /\ phase' = "running" => phase = "running"
  BY DEF InsertFails, Requeue, Release
<1>4. Range(b) \subseteq Excess(b) \cup Range(Capped(b))
  BY DEF Excess
<1>. HIDE DEF b
<1>5. Range(batch') = {} /\ Bounded'
  <2>1. Len(<<>>) = 0
    OBVIOUS
  <2>. QED BY <1>2, <1>3, <2>1, NoneLeft, BufferAssumption DEF Bounded
<1>. QED BY <1>1, <1>3, <1>4, <1>5 DEF LbCount, InLine

\* A cancelled flush loop takes nothing with it but its batch.
LEMMA StoppedCount ==
    ASSUME LbInv, LbCount, Stop
    PROVE  LbCount'
<1>1. LbTypes /\ LbLine
  BY DEF LbInv
<1>2. 1..received \cap Range(waiting) \subseteq Range(waiting')
  <2>1. CASE waiting' = waiting
    BY <2>1
  <2>2. ASSUME NEW i \in DOMAIN waiting, waiting[i] = Flusher, waiting' = RemoveAt(waiting, i)
        PROVE  1..received \cap Range(waiting) \subseteq Range(waiting')
    <3>1. Range(waiting) \subseteq Range(waiting') \cup {Flusher}
      BY <1>1, <2>2, LeftTheQueue DEF LbTypes, LbLine, Line
    <3>2. Flusher \notin 1..received
      BY <1>1 DEF LbTypes, Flusher
    <3>. QED BY <3>1, <3>2
  <2>. QED BY <2>1, <2>2 DEF Stop
<1>3. /\ \/ batch' = <<>> /\ Range(batch) \subseteq stored' \cup lost'
         \/ UNCHANGED batch
      /\ stored \subseteq stored' /\ lost \subseteq lost'
      /\ UNCHANGED <<received, ready, buffer, dropped>> /\ phase' # "running"
  BY DEF Stop
<1>4. Bounded' /\ Range(batch) \subseteq Range(batch') \cup stored' \cup lost'
  <2>1. Len(<<>>) = 0
    OBVIOUS
  <2>. QED BY <1>3, <2>1, BufferAssumption DEF Bounded, LbCount
<1>. QED BY <1>2, <1>3, <1>4 DEF LbCount, InLine

\* Every step keeps the account.
LEMMA CountStep == LbInv /\ LbCount /\ [BufNext]_bufVars => LbCount'
<1>. SUFFICES ASSUME LbInv, LbCount, [BufNext]_bufVars PROVE LbCount'
  OBVIOUS
<1>1. CASE ReceiveDatagram
  <2>1. /\ received' = received + 1 /\ ready' = Append(ready, received')
        /\ UNCHANGED <<waiting, buffer, batch, phase, stored, dropped, lost>>
    BY <1>1 DEF ReceiveDatagram
  <2>2. received \in Nat /\ 1..received' = 1..received \cup {received'}
    BY <2>1 DEF LbInv, LbTypes
  <2>3. Range(ready') = Range(ready) \cup {received'}
    BY <2>1, <2>2, AnyAppended DEF LbInv, LbTypes
  <2>. QED BY <2>1, <2>2, <2>3 DEF LbCount, InLine, Bounded
<1>2. CASE ReceiveLine
  <2>1. /\ received' = received + 1 /\ waiting' = Append(waiting, received')
        /\ UNCHANGED <<ready, buffer, batch, phase, stored, dropped, lost>>
    BY <1>2 DEF ReceiveLine
  <2>2. received \in Nat /\ 1..received' = 1..received \cup {received'}
    BY <2>1 DEF LbInv, LbTypes
  <2>3. Range(waiting') = Range(waiting) \cup {received'}
    BY <2>1, <2>2, AnyAppended DEF LbInv, LbTypes
  <2>. QED BY <2>1, <2>2, <2>3 DEF LbCount, InLine, Bounded
<1>3. CASE Reach
  <2>1. /\ ready # <<>> /\ waiting' = Append(waiting, Head(ready)) /\ ready' = Tail(ready)
        /\ UNCHANGED <<received, buffer, batch, phase, stored, dropped, lost>>
    BY <1>3 DEF Reach
  <2>2. Head(ready) \in Nat /\ Range(ready) = {Head(ready)} \cup Range(Tail(ready))
    BY <2>1, Shortened DEF LbInv, LbTypes, LbLine, Line
  <2>3. Range(waiting') = Range(waiting) \cup {Head(ready)}
    BY <2>1, <2>2, AnyAppended DEF LbInv, LbTypes
  <2>. QED BY <2>1, <2>2, <2>3 DEF LbCount, InLine, Bounded
<1>4. CASE InsertDone
  <2>1. /\ batch' = <<>> /\ stored' = stored \cup Range(batch)
        /\ UNCHANGED <<received, ready, waiting, buffer, dropped, lost>>
        /\ phase' = "running" => phase = "running"
    BY <1>4 DEF InsertDone, Release
  <2>2. Len(<<>>) = 0
    OBVIOUS
  <2>. QED BY <2>1, <2>2, BufferAssumption DEF LbCount, InLine, Bounded
<1>5. ASSUME NEW w \in {Flusher, Stopper}, waiting' = Append(waiting, w),
             UNCHANGED <<received, ready, buffer, batch, stored, dropped, lost>>,
             phase' = "running" => phase = "running"
      PROVE  LbCount'
  <2>1. Range(waiting') = Range(waiting) \cup {w}
    BY <1>5, NoMessages, AnyAppended DEF LbInv, LbTypes
  <2>. QED BY <1>5, <2>1 DEF LbCount, InLine, Bounded
<1>6. CASE Wake
  BY <1>5, <1>6 DEF Wake
<1>7. CASE Closed
  BY <1>5, <1>7 DEF Closed
<1>8. CASE End
  <2>1. /\ batch' = <<>> /\ buffer' = <<>> /\ UNCHANGED <<received, stored, dropped>>
        /\ lost' = lost \cup ((1..received) \ (stored \cup dropped)) /\ phase' # "running"
    BY <1>8 DEF End
  <2>2. Len(<<>>) = 0
    OBVIOUS
  <2>. QED BY <2>1, <2>2, BufferAssumption DEF LbCount, Bounded
<1>9. CASE Connect \/ Disconnect \/ UNCHANGED bufVars
  BY <1>9 DEF Connect, Disconnect, bufVars, taskVars, LbCount, InLine, Bounded
<1>. QED BY <1>1, <1>2, <1>3, <1>4, <1>6, <1>7, <1>8, <1>9, EnteredCount, RequeuedCount,
            StoppedCount DEF BufNext

\* While the server runs no accepted message vanishes, whatever ClickHouse answers: the
\* safe half of Delivered (_enqueue, _flush_buffer). At the end of the server what is
\* lost is what the cancelled flush or the process had.
THEOREM NoMessageVanishes == BufSpec => []Accounted
<1>1. BufInit => LbCount
  BY NoneLeft, BufferAssumption DEF BufInit, LbCount, Bounded
<1>2. LbInv /\ LbCount => Accounted
  <2>. SUFFICES ASSUME LbInv, LbCount PROVE Accounted
    OBVIOUS
  <2>1. Flusher \notin 1..received /\ Stopper \notin 1..received
    BY BufferAssumption DEF LbInv, LbTypes, Flusher, Stopper
  <2>. QED BY <2>1 DEF LbCount, InLine, Accounted, Kept, Pending, Messages
<1>. QED BY <1>1, <1>2, CountStep, LineIsKept, PTL DEF BufSpec

\* However many messages arrive and however long ClickHouse fails, buffer and batch
\* never exceed the cap (_BUFFER_MAX).
THEOREM MemoryIsBounded == BufSpec => []Bounded
<1>1. BufInit => LbCount
  BY NoneLeft, BufferAssumption DEF BufInit, LbCount, Bounded
<1>2. LbCount => Bounded
  BY DEF LbCount
<1>. QED BY <1>1, <1>2, CountStep, LineIsKept, PTL DEF BufSpec

-----------------------------------------------------------------------------
(***************************************************************************)
(* LogTemplates: a message is in memory, in the flush that runs or in the  *)
(* row of its template, in one of them at a time.                          *)
(***************************************************************************)
TplFlushes == [on : BOOLEAN, counts : [Templates -> Nat], new : SUBSET Templates,
               todo : SUBSET Templates, added : SUBSET Templates]

TplTypes ==
    /\ tplCounts \in [Templates -> Nat] /\ tplSeen \in [Templates -> Nat]
    /\ tplNew \subseteq Templates
    /\ tplFlush \in TplFlushes
    /\ tplFlush.todo \subseteq tplFlush.new /\ tplFlush.added \subseteq tplFlush.new
    /\ Stored \subseteq Templates
    /\ \A t \in Stored : tplRows[t] \in Nat

TplInv == TplTypes /\ NoMessageCountedTwice

\* What is inserted with its count is new, and what is new gets no count added.
LEMMA TplCommitted ==
    ASSUME TplTypes, CommitFlush, NEW t \in Templates
    PROVE  /\ t \in Stored' => tplRows'[t] \in Nat
           /\ Tallied(t)' <= Tallied(t)
<1>1. /\ tplRows' = [u \in Stored \union tplFlush.added |->
                       (IF u \in Stored THEN tplRows[u] ELSE tplFlush.counts[u])
                       + (IF u \in Recounted THEN tplFlush.counts[u] ELSE 0)]
      /\ tplFlush' = NoFlush /\ tplCounts' = tplCounts
  BY DEF CommitFlush
<1>2. /\ Stored' = Stored \union tplFlush.added
      /\ t \in Stored' => tplRows'[t] = (IF t \in Stored THEN tplRows[t] ELSE tplFlush.counts[t])
                                        + (IF t \in Recounted THEN tplFlush.counts[t] ELSE 0)
  BY <1>1 DEF Stored
<1>3. tplFlush'.counts[t] = 0
  BY <1>1 DEF NoFlush, NoCounts
<1>4. /\ tplFlush.counts[t] \in Nat /\ tplCounts[t] \in Nat
      /\ t \in Stored => tplRows[t] \in Nat
  BY DEF TplTypes, TplFlushes
<1>5. t \in tplFlush.added => t \notin Recounted
  BY DEF Recounted, TplTypes
<1> HIDE DEF Stored, Recounted
<1>6. Tallied(t)' = (IF t \in Stored' THEN tplRows'[t] ELSE 0) + tplFlush'.counts[t] + tplCounts[t]
  BY <1>1 DEF Tallied
<1>7. CASE t \in Stored
  BY <1>2, <1>3, <1>4, <1>6, <1>7 DEF Tallied
<1>8. CASE t \notin Stored /\ t \in tplFlush.added
  BY <1>2, <1>3, <1>4, <1>5, <1>6, <1>8 DEF Tallied
<1>9. CASE t \notin Stored /\ t \notin tplFlush.added
  BY <1>2, <1>3, <1>4, <1>6, <1>9 DEF Tallied
<1> QED BY <1>7, <1>8, <1>9

\* Every step of the messages, the flush, the retention and the process.
LEMMA TplStep == ASSUME TplInv, [TplNext]_tplVars PROVE TplInv'
<1>1. CASE \E t \in Templates : ProcessMessage(t)
  <2>1. PICK t \in Templates : ProcessMessage(t)
    BY <1>1
  <2>2. TplTypes'
    BY <2>1 DEF ProcessMessage, TplInv, TplTypes, Stored
  <2>3. \A u \in Templates : Tallied(u)' - tplSeen'[u] = Tallied(u) - tplSeen[u]
    BY <2>1 DEF ProcessMessage, TplInv, TplTypes, TplFlushes, Tallied, Stored
  <2>4. \A u \in Templates : Tallied(u) \in Nat /\ tplSeen[u] \in Nat /\ Tallied(u)' \in Nat /\ tplSeen'[u] \in Nat
    BY <2>2 DEF TplInv, TplTypes, TplFlushes, Tallied
  <2> QED BY <2>2, <2>3, <2>4 DEF TplInv, NoMessageCountedTwice
<1>2. CASE \E t \in Templates : FlushTemplate(t)
  <2>1. PICK t \in Templates : FlushTemplate(t)
    BY <1>2
  <2>2. TplTypes'
    BY <2>1 DEF FlushTemplate, TplInv, TplTypes, TplFlushes, Stored
  <2>3. \A u \in Templates : Tallied(u)' = Tallied(u) /\ tplSeen' = tplSeen
    BY <2>1 DEF FlushTemplate, Tallied, TplInv, TplTypes, TplFlushes, Stored
  <2> QED BY <2>2, <2>3 DEF TplInv, NoMessageCountedTwice
<1>3. CASE StartFlush
  <2>1. TplTypes'
    BY <1>3 DEF StartFlush, TplInv, TplTypes, TplFlushes, NoCounts, Stored
  <2>2. \A u \in Templates : Tallied(u)' <= Tallied(u) /\ Tallied(u)' \in Nat /\ Tallied(u) \in Nat
    BY <1>3, <2>1 DEF StartFlush, TplInv, TplTypes, TplFlushes, NoCounts, Tallied, Stored
  <2>3. tplSeen' = tplSeen /\ \A u \in Templates : tplSeen[u] \in Nat
    BY <1>3 DEF StartFlush, TplInv, TplTypes
  <2> QED BY <2>1, <2>2, <2>3 DEF TplInv, NoMessageCountedTwice
<1>4. CASE CommitFlush
  <2>1. \A u \in Templates : (u \in Stored' => tplRows'[u] \in Nat) /\ Tallied(u)' <= Tallied(u)
    BY <1>4, TplCommitted DEF TplInv
  <2>2. Stored' = Stored \union tplFlush.added
    BY <1>4 DEF CommitFlush, Stored
  <2>3. TplTypes'
    BY <1>4, <2>1, <2>2 DEF CommitFlush, TplInv, TplTypes, TplFlushes, NoFlush, NoCounts
  <2>4. tplSeen' = tplSeen
    BY <1>4 DEF CommitFlush
  <2>5. \A u \in Templates : tplSeen[u] \in Nat /\ Tallied(u) \in Nat /\ Tallied(u)' \in Nat
    BY <2>3 DEF TplInv, TplTypes, TplFlushes, Tallied
  <2> QED BY <2>1, <2>3, <2>4, <2>5 DEF TplInv, NoMessageCountedTwice
<1>5. CASE FlushFails \/ RestartIntelligence
  <2>1. /\ tplFlush' = NoFlush /\ tplCounts' \in {tplCounts, NoCounts} /\ tplNew' \in {tplNew, {}}
        /\ UNCHANGED <<tplRows, tplSeen>>
    BY <1>5 DEF FlushFails, RestartIntelligence
  <2>2. TplTypes'
    BY <2>1 DEF TplInv, TplTypes, TplFlushes, NoFlush, NoCounts, Stored
  <2>3. \A u \in Templates : Tallied(u)' <= Tallied(u)
    BY <2>1 DEF TplInv, TplTypes, TplFlushes, NoFlush, NoCounts, Tallied, Stored
  <2>4. \A u \in Templates : tplSeen[u] \in Nat /\ Tallied(u) \in Nat /\ Tallied(u)' \in Nat
    BY <2>2 DEF TplInv, TplTypes, TplFlushes, Tallied
  <2> QED BY <2>1, <2>2, <2>3, <2>4 DEF TplInv, NoMessageCountedTwice
<1>6. CASE CleanupTemplates
  <2>1. /\ tplRows' = [t \in Stored \ ExpiredTemplates |-> tplRows[t]]
        /\ UNCHANGED <<tplCounts, tplNew, tplFlush, tplSeen>>
    BY <1>6 DEF CleanupTemplates
  <2>2. Stored' = Stored \ ExpiredTemplates /\ \A t \in Stored' : tplRows'[t] = tplRows[t]
    BY <2>1 DEF Stored
  <2>3. TplTypes'
    BY <2>1, <2>2 DEF TplInv, TplTypes
  <2>4. \A u \in Templates : /\ Tallied(u)' <= Tallied(u) /\ Tallied(u)' \in Nat /\ Tallied(u) \in Nat
                            /\ tplSeen[u] \in Nat
    BY <2>1, <2>2, <2>3 DEF TplInv, TplTypes, TplFlushes, Tallied
  <2> QED BY <2>1, <2>3, <2>4 DEF TplInv, NoMessageCountedTwice
<1>7. CASE (\E t \in Templates : GrowOld(t) \/ Outage(t)) \/ OutagesPass \/ EditBlacklist \/ LearnPrecursors
           \/ UNCHANGED tplVars
  <2>1. UNCHANGED <<tplCounts, tplNew, tplFlush, tplRows, tplSeen>>
    BY <1>7 DEF GrowOld, Outage, OutagesPass, EditBlacklist, LearnPrecursors, tplVars
  <2> QED BY <2>1 DEF TplInv, TplTypes, NoMessageCountedTwice, Tallied, Stored
<1> QED BY <1>1, <1>2, <1>3, <1>4, <1>5, <1>6, <1>7 DEF TplNext

\* For any templates and numbers of messages, failures and restarts: no message is counted
\* twice (process_message, flush_templates, cleanup_log_templates, load_template_cache).
THEOREM TemplatesAreNotOvercounted == TplSpec => []NoMessageCountedTwice
<1>1. TplInit => TplInv
  BY DEF TplInit, TplInv, TplTypes, TplFlushes, NoFlush, NoCounts, Stored, NoMessageCountedTwice, Tallied
<1>2. TplInv => NoMessageCountedTwice
  BY DEF TplInv
<1> QED BY <1>1, <1>2, TplStep, PTL DEF TplSpec

-----------------------------------------------------------------------------
(***************************************************************************)
(* LogPatterns: what rule 7 has counted and has no active row can only be  *)
(* left over from a run that failed.                                       *)
(***************************************************************************)
FlpInv ==
    /\ flpHits \in [FlpTemplates -> Nat] /\ flpActive \in [FlpTemplates -> Nat \cup {None}]
    /\ \A t \in FlpTemplates : flpHits[t] > 0 /\ flpActive[t] = None => flpFailed

LEMMA FlpInvInit == FlpInit => FlpInv
BY DEF FlpInit, FlpInv

\* A row is checked now, or as old as it was, or closed.
LEMMA FlpRows ==
    ASSUME FlpInv, RowsChecked
    PROVE  flpActive' \in [FlpTemplates -> Nat \cup {None}]
<1>1. \A t \in FlpTemplates : Found(t) \in Nat \cup {None}
  BY DEF FlpInv, Found, Rechecked
<1> QED BY <1>1 DEF RowsChecked

\* A completed run gives a row to what it counts and forgets what it does not count.
LEMMA FlpInvStep == FlpInv /\ [FlpNext]_flpVars => FlpInv'
<1> SUFFICES ASSUME FlpInv, [FlpNext]_flpVars PROVE FlpInv'
  OBVIOUS
<1>1. \A t \in FlpTemplates : Counted(t) \in Nat
  BY FlpAssumption DEF FlpInv, Counted
<1>2. CASE DetectFleetPatterns
  <2>1. flpHits' = [t \in FlpTemplates |-> IF t \in Issues THEN Counted(t) ELSE 0]
    BY <1>2 DEF DetectFleetPatterns, HitsPruned
  <2>2. /\ RowsChecked
        /\ flpActive' = [t \in FlpTemplates |->
                           IF AnyWide /\ StaleRow(Found(t)) THEN None ELSE Found(t)]
    BY <1>2 DEF DetectFleetPatterns, RowsChecked
  <2>3. \A t \in Issues : t \in FlpTemplates /\ Found(t) = 0 /\ ~StaleRow(Found(t)) /\ Found(t) # None
    BY FlpAssumption DEF Issues, Found, StaleRow, None
  <2>4. \A t \in Issues : flpActive'[t] # None
    BY <2>2, <2>3
  <2> QED BY <1>1, <2>1, <2>2, <2>4, FlpRows DEF FlpInv
<1>3. CASE RunFails
  <2>1. CASE UNCHANGED <<flpActive, flpHits>>
    BY <1>3, <2>1 DEF RunFails, FlpInv
  <2>2. CASE RowsChecked
    <3>1. flpFailed'
      BY <1>3 DEF RunFails
    <3>2. flpHits' \in [FlpTemplates -> Nat]
      BY <1>1, <1>3 DEF RunFails, HitsPruned, FlpInv
    <3> QED BY <2>2, <3>1, <3>2, FlpRows DEF FlpInv
  <2> QED BY <1>3, <2>1, <2>2 DEF RunFails
<1>4. CASE EngineRestarts
  BY <1>4 DEF EngineRestarts, FlpInv
<1>5. CASE FleetTick
  <2>1. \A t \in FlpTemplates : OlderRow(flpActive[t]) \in Nat \cup {None}
                               /\ (OlderRow(flpActive[t]) = None => flpActive[t] = None)
    BY FlpAssumption DEF FlpInv, OlderRow, None
  <2> QED BY <1>5, <2>1 DEF FleetTick, FlpInv
<1>6. CASE TemplateChanges \/ RefreshNoiseScores \/ FleetChanges \/ UNCHANGED flpVars
  BY <1>6 DEF TemplateChanges, RefreshNoiseScores, FleetChanges, flpVars, flpEngine, FlpInv
<1> QED BY <1>2, <1>3, <1>4, <1>5, <1>6 DEF FlpNext

\* For any templates, ages and settings: where a rule has to match in two runs or more, the
\* fleet-wide rule raises an incident only in a run whose predecessor failed
\* (detect_fleet_patterns, _rule_fleet_wide); when no run fails it never raises one.
THEOREM FleetRuleNeedsFailure == FlpSpec => RaisesOnlyAfterFailure
<1>1. FlpInv /\ [FlpNext]_flpVars => [FlpCycles >= 2 /\ flpRaised' # flpRaised => flpFailed]_flpVars
  <2> SUFFICES ASSUME FlpInv, FlpNext, FlpCycles >= 2, flpRaised' # flpRaised PROVE flpFailed
    OBVIOUS
  <2>1. DetectFleetPatterns
    BY DEF FlpNext, TemplateChanges, RefreshNoiseScores, FleetChanges, FleetTick, RunFails,
           EngineRestarts, flpEngine
  <2>2. PICK t \in Issues : FleetConfirmed(t)
    BY <2>1 DEF DetectFleetPatterns
  <2>3. t \in FlpTemplates /\ flpActive[t] = None /\ flpHits[t] > 0
    BY <2>2, FlpAssumption DEF Issues, FleetConfirmed, FlpInv
  <2> QED BY <2>3 DEF FlpInv
<1> QED BY <1>1, FlpInvInit, FlpInvStep, PTL DEF FlpSpec, RaisesOnlyAfterFailure

=============================================================================
