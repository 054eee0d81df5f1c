---------------------------- MODULE GoBackNProofs ---------------------------
(***************************************************************************)
(* Theorems about GoBackN for every file length, window and sequence       *)
(* space.  Types hold on any network; the protocol's own guarantees hold   *)
(* when the network keeps the order (~Reorder), see README.md.             *)
(***************************************************************************)
EXTENDS GoBackN, SequenceTheorems, TLAPS

-----------------------------------------------------------------------------
(* Sequence numbers: they decide positions that are less than one round    *)
(* apart, and AckDistance finds the distance.                              *)

\* Multiples of a positive number are far apart.
LEMMA MultiplesApart ==
    ASSUME NEW m \in Nat \ {0}, NEW q \in Int, NEW p \in Int, q < p
    PROVE  q * m + m <= p * m
<1> DEFINE d == p - q - 1
<1>1. d \in Nat
  OBVIOUS
<1>2. d * m >= 0
  BY <1>1
<1>3. p * m = (q + 1 + d) * m
  BY <1>1
<1>4. (q + 1 + d) * m = q * m + m + d * m
  BY <1>1
<1> QED BY <1>2, <1>3, <1>4

\* Remainder and quotient.
LEMMA DivMod ==
    ASSUME NEW m \in Nat \ {0}, NEW a \in Int
    PROVE  /\ a % m \in 0 .. m - 1
           /\ a \div m \in Int
           /\ a = (a \div m) * m + (a % m)
OBVIOUS

\* The remainder is the only number below m at a multiple of m from a.
LEMMA ModUnique ==
    ASSUME NEW m \in Nat \ {0}, NEW a \in Int, NEW q \in Int, NEW r \in 0 .. m - 1,
           a = q * m + r
    PROVE  a % m = r
<1> DEFINE p == a \div m
<1>1. /\ a % m \in 0 .. m - 1
      /\ p \in Int
      /\ a = p * m + (a % m)
  BY DivMod
<1> HIDE DEF p
<1>2. q * m \in Int /\ p * m \in Int
  BY <1>1
<1>3. CASE q < p
  BY <1>1, <1>2, <1>3, MultiplesApart
<1>4. CASE p < q
  BY <1>1, <1>2, <1>4, MultiplesApart
<1>5. CASE p = q
  BY <1>1, <1>2, <1>5
<1> QED BY <1>1, <1>3, <1>4, <1>5

\* Positions with the same number are a whole round apart or equal.
LEMMA SameNumberSamePosition ==
    ASSUME NEW a \in Int, NEW b \in Int,
           a % SeqNumModulo = b % SeqNumModulo,
           a - b < SeqNumModulo, b - a < SeqNumModulo
    PROVE  a = b
<1> DEFINE M == SeqNumModulo
           p == a \div M
           q == b \div M
<1>1. M \in Nat \ {0}
  BY ModuloAssumption
<1>2. p \in Int /\ a % M \in 0 .. M - 1 /\ a = p * M + (a % M)
  BY <1>1, DivMod
<1>3. q \in Int /\ b % M \in 0 .. M - 1 /\ b = q * M + (b % M)
  BY <1>1, DivMod
<1>4. a % M = b % M /\ a - b < M /\ b - a < M
  OBVIOUS
<1> HIDE DEF M, p, q
<1>5. p * M \in Int /\ q * M \in Int
  BY <1>1, <1>2, <1>3
<1>6. CASE p < q
  BY <1>1, <1>2, <1>3, <1>4, <1>5, <1>6, MultiplesApart
<1>7. CASE q < p
  BY <1>1, <1>2, <1>3, <1>4, <1>5, <1>7, MultiplesApart
<1>8. CASE p = q
  BY <1>2, <1>3, <1>4, <1>5, <1>8
<1> QED BY <1>2, <1>3, <1>6, <1>7, <1>8

\* Java's remainder is congruent to its argument and keeps its sign.
LEMMA JavaRemProperties ==
    ASSUME NEW a \in Int
    PROVE  /\ JavaRem(a) \in Int
           /\ -SeqNumModulo < JavaRem(a) /\ JavaRem(a) < SeqNumModulo
           /\ a >= 0 => JavaRem(a) = a % SeqNumModulo /\ JavaRem(a) >= 0
           /\ \E q \in Int : a = q * SeqNumModulo + JavaRem(a)
<1> DEFINE M == SeqNumModulo
<1>1. M \in Nat \ {0}
  BY ModuloAssumption
<1>2. CASE a >= 0
  <2>1. /\ a % M \in 0 .. M - 1
        /\ a \div M \in Int
        /\ a = (a \div M) * M + (a % M)
    BY <1>1, DivMod
  <2>2. JavaRem(a) = a % M
    BY <1>2 DEF JavaRem
  <2>3. \E q \in Int : a = q * M + JavaRem(a)
    BY <2>1, <2>2
  <2>4. a % M \in Int /\ 0 <= a % M /\ a % M < M
    BY <1>1, <2>1
  <2> HIDE DEF M
  <2>5. JavaRem(a) \in Int /\ -M < JavaRem(a) /\ JavaRem(a) < M /\ JavaRem(a) >= 0
    BY <1>1, <2>2, <2>4
  <2> QED BY <2>2, <2>3, <2>5 DEF M
<1>3. CASE a < 0
  <2> DEFINE q == (-a) \div M
             r == (-a) % M
  <2>1. /\ r \in 0 .. M - 1
        /\ q \in Int
        /\ -a = q * M + r
    BY <1>1, DivMod
  <2>2. JavaRem(a) = -r
    BY <1>3 DEF JavaRem
  <2> HIDE DEF q, r
  <2>3. (-q) * M = -(q * M) /\ q * M \in Int
    BY <1>1, <2>1
  <2>4. a = (-q) * M + JavaRem(a)
    BY <2>1, <2>2, <2>3
  <2> QED BY <1>1, <1>3, <2>1, <2>2, <2>4
<1> QED BY <1>2, <1>3

\* The number of position k, or -1 when the receiver repeats the ACK of a
\* position that ends a round.
NumberOf(seqnum, k) ==
    \/ seqnum = k % SeqNumModulo
    \/ seqnum = -1 /\ k % SeqNumModulo = SeqNumModulo - 1

\* An ACK for position k, less than a round ahead, is taken for exactly k.
LEMMA AckDistanceExact ==
    ASSUME NEW last \in Int, last >= -1,
           NEW k \in Nat, last <= k, k - last < SeqNumModulo,
           NEW seqnum \in Int, NumberOf(seqnum, k), SeqNumModulo > 1
    PROVE  AckDistance(seqnum, last) = k - last
<1> DEFINE M == SeqNumModulo
           l == JavaRem(last)
           d == seqnum - l
           e == JavaRem(d) + M
<1>1. M \in Nat \ {0} /\ M > 1
  BY ModuloAssumption
<1>2. PICK p \in Int : last = p * M + l
  BY JavaRemProperties
<1>3. l \in Int /\ -M < l /\ l < M
  BY JavaRemProperties
<1>4. PICK q \in Int : k = q * M + seqnum
  <2>1. /\ k % M \in 0 .. M - 1
        /\ k \div M \in Int
        /\ k = (k \div M) * M + (k % M)
    BY <1>1, DivMod
  <2>2. CASE seqnum = k % M
    BY <2>1, <2>2
  <2>3. CASE seqnum = -1 /\ k % M = M - 1
    <3>1. ((k \div M) + 1) * M = (k \div M) * M + M
      BY <1>1, <2>1
    <3>2. k = ((k \div M) + 1) * M + seqnum
      BY <1>1, <2>1, <2>3, <3>1
    <3> QED BY <2>1, <3>2
  <2> QED BY <2>2, <2>3 DEF NumberOf
<1>5. d \in Int
  BY <1>3
<1>6. PICK t \in Int : d = t * M + JavaRem(d)
  BY <1>5, JavaRemProperties
<1>7. JavaRem(d) \in Int /\ -M < JavaRem(d)
  BY <1>5, JavaRemProperties
<1>8. e \in Int /\ e >= 0
  BY <1>1, <1>7
<1>9. e = (p - q - t + 1) * M + (k - last)
  <2> DEFINE jr == JavaRem(d)
  <2>1. last = p * M + l /\ k = q * M + seqnum /\ seqnum - l = t * M + jr
    BY <1>2, <1>4, <1>6
  <2>2. jr \in Int /\ l \in Int
    BY <1>3, <1>7
  <2> HIDE DEF jr, l
  <2>3. (p - q - t + 1) * M = p * M - q * M - t * M + M
    BY <1>1
  <2>4. p * M \in Int /\ q * M \in Int /\ t * M \in Int
    BY <1>1
  <2>5. jr + M = (p - q - t + 1) * M + (k - last)
    BY <1>1, <2>1, <2>2, <2>3, <2>4
  <2> QED BY <2>5 DEF jr, l
<1>10. k - last \in 0 .. M - 1
  BY <1>1
<1>11. e % M = k - last
  <2> DEFINE s == p - q - t + 1
             r == k - last
  <2>1. s \in Int /\ e = s * M + r /\ r \in 0 .. M - 1
    BY <1>9, <1>10
  <2> HIDE DEF M, e, s, r
  <2>2. e % M = r
    BY <1>1, <1>8, <2>1, ModUnique
  <2> QED BY <2>2 DEF r
<1>12. AckDistance(seqnum, last) = JavaRem(e)
  BY DEF AckDistance
<1> QED BY <1>8, <1>11, <1>12, JavaRemProperties

\* The distance is never negative, whatever number arrives.
LEMMA AckDistanceNat ==
    ASSUME NEW last \in Int, NEW seqnum \in Int
    PROVE  AckDistance(seqnum, last) \in Nat
<1> DEFINE l == JavaRem(last)
           d == JavaRem(seqnum - l)
           e == d + SeqNumModulo
<1>1. SeqNumModulo \in Nat \ {0}
  BY ModuloAssumption
<1>2. l \in Int
  BY JavaRemProperties
<1>3. d \in Int /\ -SeqNumModulo < d
  <2>1. seqnum - l \in Int
    BY <1>2
  <2> QED BY <2>1, JavaRemProperties
<1>4. e \in Int /\ e >= 0
  BY <1>1, <1>3
<1>5. JavaRem(e) \in Int /\ JavaRem(e) >= 0
  BY <1>4, JavaRemProperties
<1> QED BY <1>5 DEF AckDistance

\* A number that fits on the wire is not changed by packing it again.
LEMMA JavaRemOfNumber ==
    ASSUME NEW a \in SeqNums, SeqNumModulo > 1
    PROVE  JavaRem(a) = a
<1>1. SeqNumModulo \in Nat \ {0}
  BY ModuloAssumption
<1>2. a \in Int /\ (a = -1 \/ a \in 0 .. SeqNumModulo - 1)
  BY <1>1 DEF SeqNums
<1>3. 0 * SeqNumModulo = 0
  BY <1>1
<1>4. CASE a \in 0 .. SeqNumModulo - 1
  <2>1. a = 0 * SeqNumModulo + a
    BY <1>2, <1>3
  <2>2. a % SeqNumModulo = a
    BY <1>1, <1>2, <1>4, <2>1, ModUnique
  <2> QED BY <1>4, <2>2 DEF JavaRem
<1>5. CASE a = -1
  <2>1. 1 = 0 * SeqNumModulo + 1 /\ 1 \in 0 .. SeqNumModulo - 1
    BY <1>1, <1>3
  <2>2. 1 % SeqNumModulo = 1
    BY <1>1, <2>1, ModUnique
  <2>3. a < 0 /\ -a = 1
    <3>1. a \in Int /\ a + 1 = 0
      BY <1>2, <1>5
    <3> QED BY <3>1
  <2>4. JavaRem(a) = -((-a) % SeqNumModulo)
    BY <2>3 DEF JavaRem
  <2>5. JavaRem(a) = -1
    BY <2>2, <2>3, <2>4
  <2> QED BY <1>5, <2>5
<1> QED BY <1>2, <1>4, <1>5

\* The numbers of neighbouring positions.
LEMMA NextNumber ==
    ASSUME NEW n \in Nat
    PROVE  ((n % SeqNumModulo) + 1) % SeqNumModulo = (n + 1) % SeqNumModulo
<1> DEFINE M == SeqNumModulo
           q == n \div M
           r == n % M
           s == (r + 1) \div M
           t == (r + 1) % M
<1>1. M \in Nat \ {0}
  BY ModuloAssumption
<1>2. q \in Int /\ r \in 0 .. M - 1 /\ n = q * M + r
  BY <1>1, DivMod
<1>3. r + 1 \in Int
  BY <1>1, <1>2
<1>4. s \in Int /\ t \in 0 .. M - 1 /\ r + 1 = s * M + t
  <2> HIDE DEF r
  <2> QED BY <1>1, <1>3, DivMod
<1> SUFFICES (n + 1) % M = t
  OBVIOUS
<1> HIDE DEF M, q, r, s, t
<1>5. (q + s) * M = q * M + s * M /\ q * M \in Int /\ s * M \in Int
  BY <1>1, <1>2, <1>4
<1>6. n + 1 = (q + s) * M + t /\ q + s \in Int
  BY <1>1, <1>2, <1>4, <1>5
<1>7. n + 1 \in Int
  OBVIOUS
<1> QED BY <1>1, <1>4, <1>6, <1>7, ModUnique

LEMMA PreviousNumber ==
    ASSUME NEW n \in Nat \ {0}, SeqNumModulo > 1
    PROVE  NumberOf((n % SeqNumModulo) - 1, n - 1)
<1> DEFINE M == SeqNumModulo
           q == n \div M
           r == n % M
<1>1. M \in Nat \ {0} /\ M > 1
  BY ModuloAssumption
<1>2. q \in Int /\ r \in 0 .. M - 1 /\ n = q * M + r
  BY <1>1, DivMod
<1> SUFFICES \/ r - 1 = (n - 1) % M
             \/ r - 1 = -1 /\ (n - 1) % M = M - 1
  BY DEF NumberOf
<1> HIDE DEF M, q, r
<1>3. CASE r > 0
  <2>1. n - 1 = q * M + (r - 1) /\ r - 1 \in 0 .. M - 1 /\ n - 1 \in Int
    BY <1>1, <1>2, <1>3
  <2> QED BY <1>1, <1>2, <2>1, ModUnique
<1>4. CASE r = 0
  <2>1. (q - 1) * M = q * M - M
    BY <1>1, <1>2
  <2>2. n - 1 = (q - 1) * M + (M - 1) /\ M - 1 \in 0 .. M - 1 /\ n - 1 \in Int /\ q - 1 \in Int
    BY <1>1, <1>2, <1>4, <2>1
  <2>3. (n - 1) % M = M - 1
    BY <1>1, <2>2, ModUnique
  <2> QED BY <1>4, <2>3
<1> QED BY <1>1, <1>2, <1>3, <1>4

-----------------------------------------------------------------------------
(* Channels. *)

\* A channel without its i-th packet.
LEMMA RemoveAtPackets ==
    ASSUME NEW S, NEW s \in Seq(S), NEW i \in 1 .. Len(s)
    PROVE  /\ RemoveAt(s, i) \in Seq(S)
           /\ Len(RemoveAt(s, i)) = Len(s) - 1
           /\ \A j \in 1 .. Len(s) - 1 :
                RemoveAt(s, i)[j] = IF j < i THEN s[j] ELSE s[j + 1]
<1> DEFINE a == SubSeq(s, 1, i - 1)
           b == SubSeq(s, i + 1, Len(s))
<1>1. i \in Int /\ 1 <= i /\ i <= Len(s) /\ Len(s) \in Nat
  BY LenProperties
<1>2. /\ a \in Seq(S) /\ Len(a) = i - 1
      /\ \A j \in 1 .. i - 1 : a[j] = s[j]
  BY <1>1
<1>3. /\ b \in Seq(S) /\ Len(b) = Len(s) - i
      /\ \A j \in 1 .. Len(s) - i : b[j] = s[i + j]
  BY <1>1
<1>4. RemoveAt(s, i) = a \o b
  BY DEF RemoveAt
<1> HIDE DEF a, b
<1>5. /\ a \o b \in Seq(S)
      /\ Len(a \o b) = Len(a) + Len(b)
      /\ \A j \in 1 .. Len(a) + Len(b) : (a \o b)[j] = IF j <= Len(a) THEN a[j] ELSE b[j - Len(a)]
  BY <1>2, <1>3, ConcatProperties
<1>6. Len(a) + Len(b) = Len(s) - 1
  BY <1>1, <1>2, <1>3
<1>7. ASSUME NEW j \in 1 .. Len(s) - 1
      PROVE  (a \o b)[j] = IF j < i THEN s[j] ELSE s[j + 1]
  <2>1. (a \o b)[j] = IF j <= i - 1 THEN a[j] ELSE b[j - (i - 1)]
    BY <1>2, <1>5, <1>6
  <2>2. CASE j < i
    <3>1. j <= i - 1 /\ j \in 1 .. i - 1
      BY <1>1, <2>2
    <3>2. a[j] = s[j]
      BY <1>2, <3>1
    <3> QED BY <2>1, <2>2, <3>1, <3>2
  <2>3. CASE ~(j < i)
    <3>1. ~(j <= i - 1) /\ j - (i - 1) \in 1 .. Len(s) - i /\ i + (j - (i - 1)) = j + 1
      BY <1>1, <2>3
    <3>2. b[j - (i - 1)] = s[j + 1]
      BY <1>3, <3>1
    <3> QED BY <2>1, <2>3, <3>1, <3>2
  <2> QED BY <2>2, <2>3
<1> QED BY <1>4, <1>5, <1>6, <1>7

\* What Put leaves in a channel: the old packets, then the new ones.
LEMMA PutPackets ==
    ASSUME NEW S, NEW s \in Seq(S), NEW t \in Seq(S)
    PROVE  /\ Put(s, t) \in Seq(S)
           /\ \A j \in DOMAIN Put(s, t) :
                \/ j \in DOMAIN s /\ Put(s, t)[j] = s[j]
                \/ j - Len(s) \in DOMAIN t /\ j > Len(s) /\ Put(s, t)[j] = t[j - Len(s)]
<1> DEFINE all == s \o t
           n == IF Len(all) < ChannelCap THEN Len(all) ELSE ChannelCap
<1>1. /\ all \in Seq(S) /\ Len(all) = Len(s) + Len(t)
      /\ Len(s) \in Nat /\ Len(t) \in Nat
      /\ DOMAIN s = 1 .. Len(s) /\ DOMAIN t = 1 .. Len(t)
  OBVIOUS
<1>2. \A j \in 1 .. Len(all) : all[j] = IF j <= Len(s) THEN s[j] ELSE t[j - Len(s)]
  BY <1>1
<1> HIDE DEF all
<1>3. n \in 0 .. Len(all)
  BY <1>1, SizesAssumption
<1> HIDE DEF n
<1>4. /\ SubSeq(all, 1, n) \in Seq(S)
      /\ Len(SubSeq(all, 1, n)) = n
      /\ \A j \in 1 .. n : SubSeq(all, 1, n)[j] = all[j]
  BY <1>1, <1>3
<1>5. Put(s, t) = SubSeq(all, 1, n)
  BY DEF Put, all, n
<1>6. ASSUME NEW j \in DOMAIN Put(s, t)
      PROVE  \/ j \in DOMAIN s /\ Put(s, t)[j] = s[j]
             \/ j - Len(s) \in DOMAIN t /\ j > Len(s) /\ Put(s, t)[j] = t[j - Len(s)]
  <2>1. j \in 1 .. n /\ j \in 1 .. Len(all)
    BY <1>3, <1>4, <1>5
  <2>2. Put(s, t)[j] = IF j <= Len(s) THEN s[j] ELSE t[j - Len(s)]
    BY <1>2, <1>4, <1>5, <2>1
  <2> QED BY <1>1, <2>1, <2>2
<1> QED BY <1>4, <1>5, <1>6

-----------------------------------------------------------------------------
(* Packets. *)

\* What the assumptions give: numbers have at least two values.
LEMMA Sizes ==
    /\ SeqNumModulo \in Nat /\ SeqNumModulo > 1
    /\ WindowSize \in Nat /\ WindowSize > 0 /\ WindowSize < SeqNumModulo
    /\ NumChunks \in Nat /\ NumChunks > 0
    /\ MaxFired \in Nat
BY ModuloAssumption, SizesAssumption, WindowAssumption

\* Data and EOT packets carry the number of their position.
LEMMA DataAndEot ==
    ASSUME NEW i \in Nat
    PROVE  /\ DataPacket(i) \in Packet /\ EotPacket(i) \in Packet
           /\ DataPacket(i).type = "data" /\ EotPacket(i).type = "eot"
           /\ DataPacket(i).pos = i /\ EotPacket(i).pos = i
           /\ DataPacket(i).seqnum = i % SeqNumModulo
           /\ EotPacket(i).seqnum = i % SeqNumModulo
<1>1. SeqNum(i) = i % SeqNumModulo /\ SeqNum(i) \in SeqNums
  BY Sizes, JavaRemProperties DEF SeqNum, SeqNums
<1> QED BY <1>1 DEF DataPacket, EotPacket, Packet

\* ACKs carry the number they were made with.
LEMMA Acks ==
    ASSUME NEW s \in SeqNums, NEW i \in Nat
    PROVE  /\ AckPacket(s, i) \in Packet
           /\ AckPacket(s, i).type = "ack"
           /\ AckPacket(s, i).pos = i
           /\ AckPacket(s, i).seqnum = s
<1>1. SeqNum(s) = s
  BY Sizes, JavaRemOfNumber DEF SeqNum
<1> QED BY <1>1 DEF AckPacket, Packet

\* The receiver's next number, and the one it repeats.
LEMMA ReceiverNumbers ==
    ASSUME NEW e \in 0 .. SeqNumModulo - 1
    PROVE  /\ JavaRem(e + 1) \in 0 .. SeqNumModulo - 1
           /\ JavaRem(e + 1) = (e + 1) % SeqNumModulo
           /\ JavaRem(e - 1) = e - 1
           /\ e - 1 \in SeqNums
<1>1. e - 1 \in SeqNums
  BY Sizes DEF SeqNums
<1>2. JavaRem(e - 1) = e - 1
  BY <1>1, Sizes, JavaRemOfNumber
<1>3. e + 1 \in Int /\ e + 1 >= 0
  BY Sizes
<1>4. /\ JavaRem(e + 1) \in Int /\ JavaRem(e + 1) >= 0 /\ JavaRem(e + 1) < SeqNumModulo
      /\ JavaRem(e + 1) = (e + 1) % SeqNumModulo
  BY <1>3, JavaRemProperties
<1>5. JavaRem(e + 1) \in 0 .. SeqNumModulo - 1
  BY <1>4, Sizes
<1> QED BY <1>1, <1>2, <1>4, <1>5

\* The packets of a ResendTask.
LEMMA UnconfirmedPackets ==
    ASSUME lastConfirmedChunk \in Int, lastConfirmedChunk >= -1, lastSentChunk \in Int
    PROVE  /\ Unconfirmed \in Seq(Packet)
           /\ \A k \in DOMAIN Unconfirmed :
                /\ k \in Int /\ k >= 1 /\ k <= lastSentChunk - lastConfirmedChunk
                /\ Unconfirmed[k] = DataPacket(lastConfirmedChunk + k)
<1> DEFINE n == lastSentChunk - lastConfirmedChunk
<1>1. n \in Int /\ Unconfirmed = [k \in 1 .. n |-> DataPacket(lastConfirmedChunk + k)]
  BY DEF Unconfirmed
<1>2. \A k \in 1 .. n : lastConfirmedChunk + k \in Nat
  BY <1>1
<1>3. \A k \in 1 .. n : DataPacket(lastConfirmedChunk + k) \in Packet
  BY <1>2, DataAndEot
<1>4. Unconfirmed \in [1 .. n -> Packet]
  BY <1>1, <1>3
<1>5. CASE n >= 0
  BY <1>1, <1>4, <1>5, SeqDef
<1>6. CASE n < 0
  <2>1. 1 .. n = 1 .. 0
    BY <1>1, <1>6
  <2>2. Unconfirmed \in [1 .. 0 -> Packet]
    BY <1>4, <2>1
  <2> QED BY <1>1, <2>1, <2>2, SeqDef
<1>7. Unconfirmed \in Seq(Packet)
  BY <1>1, <1>5, <1>6
<1>8. ASSUME NEW k \in DOMAIN Unconfirmed
      PROVE  /\ k \in Int /\ k >= 1 /\ k <= n
             /\ Unconfirmed[k] = DataPacket(lastConfirmedChunk + k)
  BY <1>1
<1> QED BY <1>7, <1>8

-----------------------------------------------------------------------------
(* Type correctness, on every network. *)

TypeInv == TypeOK /\ (sendPc \in {"waiting", "room"} => DataStillLeft)

LEMMA TypeInit == Init => TypeInv
<1> SUFFICES ASSUME Init PROVE TypeInv
  OBVIOUS
<1>1. written \in Seq(Nat) /\ toReceiver \in Seq(Packet) /\ toSender \in Seq(Packet)
  BY EmptySeq DEF Init
<1>2. lastSentChunk \in -1 .. NumChunks - 1 /\ lastConfirmedChunk \in Int /\ lastConfirmedChunk >= -1
  BY Sizes DEF Init
<1>3. firedResends \in 0 .. MaxFired /\ expectSeqNum \in 0 .. SeqNumModulo - 1 /\ total \in Nat
  BY Sizes DEF Init
<1>4. /\ timerStarted \in BOOLEAN /\ wasSignalled \in BOOLEAN /\ receivedEOT \in BOOLEAN
      /\ sendPc = "check" /\ recvPc = "notify"
  BY DEF Init
<1> QED BY <1>1, <1>2, <1>3, <1>4 DEF TypeInv, TypeOK

\* Every deliverable packet is a packet of the channel.
LEMMA DeliverableInChannel ==
    ASSUME NEW S, NEW c \in Seq(S), NEW i \in Deliverable(c)
    PROVE  i \in 1 .. Len(c) /\ c[i] \in S /\ RemoveAt(c, i) \in Seq(S)
<1>1. i \in DOMAIN c /\ DOMAIN c = 1 .. Len(c)
  BY LenProperties DEF Deliverable
<1>2. i \in 1 .. Len(c)
  BY <1>1
<1> QED BY <1>2, ElementOfSeq, RemoveAtPackets

\* Putting one packet.
LEMMA PutOne ==
    ASSUME NEW c \in Seq(Packet), NEW p \in Packet
    PROVE  Put(c, <<p>>) \in Seq(Packet)
<1>1. <<p>> \in Seq(Packet)
  OBVIOUS
<1> QED BY <1>1, PutPackets

LEMMA TypeNext == TypeInv /\ [Next]_vars => TypeInv'
<1> SUFFICES ASSUME TypeInv, [Next]_vars PROVE TypeInv'
  OBVIOUS
<1> USE Sizes DEF TypeInv, TypeOK, shared, sender, receiver
<1>1. CASE FindRoom
  BY <1>1 DEF FindRoom, DataStillLeft
<1>2. CASE WaitForSignal
  BY <1>2 DEF WaitForSignal, DataStillLeft
<1>3. CASE WakeUp
  BY <1>3 DEF WakeUp, DataStillLeft
<1>4. CASE SendNextPacket
  <2>1. lastSentChunk + 1 \in Nat /\ lastSentChunk + 1 <= NumChunks - 1
    BY <1>4 DEF SendNextPacket, DataStillLeft
  <2>2. Put(toReceiver, <<DataPacket(lastSentChunk + 1)>>) \in Seq(Packet)
    BY <2>1, DataAndEot, PutOne
  <2> QED BY <1>4, <2>1, <2>2 DEF SendNextPacket
<1>5. CASE AllSentOnce
  BY <1>5 DEF AllSentOnce
<1>6. CASE TimerExpires
  BY <1>6 DEF TimerExpires, DataStillLeft
<1>7. CASE Resend
  <2>1. Put(toReceiver, Unconfirmed) \in Seq(Packet)
    BY UnconfirmedPackets, PutPackets
  <2> QED BY <1>7, <2>1 DEF Resend, DataStillLeft
<1>8. CASE NotifyIfRoom
  BY <1>8 DEF NotifyIfRoom, DataStillLeft
<1>9. ASSUME NEW i \in Deliverable(toSender), ReceiveAck(i)
      PROVE  TypeInv'
  <2> DEFINE confirmed == lastConfirmedChunk + AckDistance(toSender[i].seqnum, lastConfirmedChunk)
  <2>1. /\ toSender[i] \in Packet
        /\ RemoveAt(toSender, i) \in Seq(Packet)
    BY DeliverableInChannel
  <2>2. toSender[i].seqnum \in Int
    BY <2>1 DEF Packet, SeqNums
  <2>3. confirmed \in Int /\ confirmed >= -1
    <3>1. AckDistance(toSender[i].seqnum, lastConfirmedChunk) \in Nat
      BY <2>2, AckDistanceNat
    <3> QED BY <3>1
  <2>4. Put(toReceiver, <<EotPacket(confirmed + 1)>>) \in Seq(Packet)
    <3>1. confirmed + 1 \in Nat
      BY <2>3
    <3> QED BY <3>1, DataAndEot, PutOne
  <2>5. /\ lastConfirmedChunk' = confirmed
        /\ timerStarted' = ~(confirmed = lastSentChunk)
        /\ toReceiver' = IF confirmed = lastSentChunk THEN Put(toReceiver, <<EotPacket(confirmed + 1)>>)
                                                      ELSE toReceiver
        /\ toSender' = RemoveAt(toSender, i)
        /\ recvPc' = "notify"
        /\ UNCHANGED <<lastSentChunk, wasSignalled, firedResends, sendPc, receiver>>
    BY <1>9 DEF ReceiveAck
  <2> HIDE DEF confirmed
  <2> QED BY <2>1, <2>3, <2>4, <2>5 DEF DataStillLeft
<1>10. ASSUME NEW i \in Deliverable(toSender), ReceiveEotAck(i)
       PROVE  TypeInv'
  <2>1. RemoveAt(toSender, i) \in Seq(Packet)
    BY DeliverableInChannel
  <2> QED BY <1>10, <2>1 DEF ReceiveEotAck, DataStillLeft
<1>11. ASSUME NEW i \in Deliverable(toReceiver), Accept(i)
       PROVE  TypeInv'
  <2> DEFINE pkt == toReceiver[i]
             answer == IF pkt.type = "eot" THEN EotPacket(total) ELSE AckPacket(pkt.seqnum, total)
  <2>1. pkt \in Packet /\ RemoveAt(toReceiver, i) \in Seq(Packet)
    BY DeliverableInChannel
  <2>2. pkt.pos \in Nat /\ pkt.seqnum \in SeqNums
    BY <2>1 DEF Packet
  <2>3. answer \in Packet
    BY <2>2, DataAndEot, Acks
  <2>4. Put(toSender, <<answer>>) \in Seq(Packet)
    BY <2>3, PutOne
  <2>5. JavaRem(expectSeqNum + 1) \in 0 .. SeqNumModulo - 1
    BY ReceiverNumbers
  <2>6. Append(written, pkt.pos) \in Seq(Nat)
    BY <2>2
  <2>7. /\ receivedEOT' = (pkt.type = "eot")
        /\ toSender' = Put(toSender, <<answer>>)
        /\ written' = IF pkt.type = "eot" THEN written ELSE Append(written, pkt.pos)
        /\ total' = total + 1
        /\ expectSeqNum' = JavaRem(expectSeqNum + 1)
        /\ toReceiver' = RemoveAt(toReceiver, i)
        /\ UNCHANGED sender
    BY <1>11 DEF Accept
  <2> HIDE DEF pkt, answer
  <2> QED BY <2>1, <2>4, <2>5, <2>6, <2>7 DEF DataStillLeft
<1>12. ASSUME NEW i \in Deliverable(toReceiver), Reject(i)
       PROVE  TypeInv'
  <2>1. RemoveAt(toReceiver, i) \in Seq(Packet)
    BY DeliverableInChannel
  <2>2. CASE total = 0
    BY <1>12, <2>1, <2>2 DEF Reject, DataStillLeft
  <2>3. CASE total # 0
    <3>1. /\ JavaRem(expectSeqNum - 1) \in SeqNums
          /\ total - 1 \in Nat
      BY <2>3, ReceiverNumbers
    <3>2. Put(toSender, <<AckPacket(JavaRem(expectSeqNum - 1), total - 1)>>) \in Seq(Packet)
      BY <3>1, Acks, PutOne
    <3> QED BY <1>12, <2>1, <2>3, <3>2 DEF Reject, DataStillLeft
  <2> QED BY <2>2, <2>3
<1>13. ASSUME NEW i \in Deliverable(toReceiver), LoseForward(i)
       PROVE  TypeInv'
  <2>1. RemoveAt(toReceiver, i) \in Seq(Packet)
    BY DeliverableInChannel
  <2> QED BY <1>13, <2>1 DEF LoseForward, DataStillLeft
<1>14. ASSUME NEW i \in Deliverable(toSender), LoseBackward(i)
       PROVE  TypeInv'
  <2>1. RemoveAt(toSender, i) \in Seq(Packet)
    BY DeliverableInChannel
  <2> QED BY <1>14, <2>1 DEF LoseBackward, DataStillLeft
<1>15. CASE UNCHANGED vars
  BY <1>15 DEF vars, DataStillLeft
<1> QED BY <1>1, <1>2, <1>3, <1>4, <1>5, <1>6, <1>7, <1>8, <1>9, <1>10, <1>11, <1>12,
           <1>13, <1>14, <1>15
        DEF Next, SendingThread, ReceivingThread, Receiver, Lose

\* Every reachable state is well typed, whether or not packets are reordered.
THEOREM TypeCorrect == Spec => []TypeOK
<1>1. TypeInv => TypeOK
  BY DEF TypeInv
<1> QED BY TypeInit, TypeNext, <1>1, PTL DEF Spec

-----------------------------------------------------------------------------
(* Wake-ups, timer and room: these hold on every network too. *)

ControlInv == NoLostWakeUp /\ TimerCoversUnconfirmed /\ RoomIsKept

LEMMA ControlInit == Init => ControlInv
BY DEF Init, ControlInv, NoLostWakeUp, TimerCoversUnconfirmed, RoomIsKept

LEMMA ControlNext == TypeInv /\ ControlInv /\ [Next]_vars => ControlInv'
<1> SUFFICES ASSUME TypeInv, ControlInv, [Next]_vars PROVE ControlInv'
  OBVIOUS
<1> USE Sizes DEF ControlInv, NoLostWakeUp, TimerCoversUnconfirmed, RoomIsKept,
                  IsWindowFull, DataStillLeft
<1>0. lastConfirmedChunk \in Int /\ lastSentChunk \in Int
  BY DEF TypeInv, TypeOK
<1>1. CASE FindRoom
  BY <1>1 DEF FindRoom, shared
<1>2. CASE WaitForSignal
  BY <1>2 DEF WaitForSignal
<1>3. CASE WakeUp
  BY <1>3 DEF WakeUp
<1>4. CASE SendNextPacket
  BY <1>4 DEF SendNextPacket
<1>5. CASE AllSentOnce
  BY <1>5 DEF AllSentOnce, shared
<1>6. CASE TimerExpires
  BY <1>6 DEF TimerExpires
<1>7. CASE Resend
  BY <1>7 DEF Resend
<1>8. CASE NotifyIfRoom
  BY <1>8 DEF NotifyIfRoom
<1>9. ASSUME NEW i \in Deliverable(toSender), ReceiveAck(i)
      PROVE  ControlInv'
  <2> DEFINE step == AckDistance(toSender[i].seqnum, lastConfirmedChunk)
  <2>1. step \in Nat
    <3>1. toSender[i] \in Packet
      BY DeliverableInChannel DEF TypeInv, TypeOK
    <3>2. toSender[i].seqnum \in Int
      BY <3>1 DEF Packet, SeqNums
    <3> QED BY <1>0, <3>2, AckDistanceNat
  <2>2. /\ lastConfirmedChunk' = lastConfirmedChunk + step
        /\ timerStarted' = ~(lastConfirmedChunk' = lastSentChunk)
        /\ recvPc' = "notify"
        /\ UNCHANGED <<lastSentChunk, wasSignalled, sendPc>>
    BY <1>9 DEF ReceiveAck
  <2> HIDE DEF step
  <2>3. NoLostWakeUp'
    BY <2>2
  <2>4. TimerCoversUnconfirmed'
    <3>1. lastConfirmedChunk' < lastSentChunk' => lastConfirmedChunk' # lastSentChunk
      BY <1>0, <2>1, <2>2
    <3> QED BY <2>2, <3>1, Zenon
  <2>5. RoomIsKept'
    <3>1. IsWindowFull' => IsWindowFull
      BY <1>0, <2>1, <2>2
    <3>2. DataStillLeft' = DataStillLeft
      BY <2>2
    <3> QED BY <2>2, <3>1, <3>2
  <2> QED BY <2>3, <2>4, <2>5
<1>10. ASSUME NEW i \in Deliverable(toSender), ReceiveEotAck(i)
       PROVE  ControlInv'
  BY <1>10 DEF ReceiveEotAck
<1>11. ASSUME NEW i \in Deliverable(toReceiver), Accept(i)
       PROVE  ControlInv'
  BY <1>11 DEF Accept, sender, shared
<1>12. ASSUME NEW i \in Deliverable(toReceiver), Reject(i)
       PROVE  ControlInv'
  BY <1>12 DEF Reject, sender, shared
<1>13. CASE Lose
  BY <1>13 DEF Lose, LoseForward, LoseBackward, sender, shared
<1>14. CASE UNCHANGED vars
  BY <1>14 DEF vars, sender, shared
<1> QED BY <1>1, <1>2, <1>3, <1>4, <1>5, <1>6, <1>7, <1>8, <1>9, <1>10, <1>11, <1>12,
           <1>13, <1>14
        DEF Next, SendingThread, ReceivingThread, Receiver

\* On every network no wake-up of the sending thread is lost (sender.java:79-89,
\* 195-205).
THEOREM WakeUpsKept == Spec => []NoLostWakeUp
<1>1. ControlInv => NoLostWakeUp
  BY DEF ControlInv
<1> QED BY TypeInit, TypeNext, ControlInit, ControlNext, <1>1, PTL DEF Spec

\* On every network unconfirmed chunks are covered by a running timer while ACKs
\* are awaited (sender.java:105, 267-277).
THEOREM TimerCovers == Spec => []TimerCoversUnconfirmed
<1>1. ControlInv => TimerCoversUnconfirmed
  BY DEF ControlInv
<1> QED BY TypeInit, TypeNext, ControlInit, ControlNext, <1>1, PTL DEF Spec

-----------------------------------------------------------------------------
(* Channels in order.  R is a set of pairs: any earlier packet of a channel *)
(* is related to any later one.                                             *)

InOrder(c, R) == \A m, n \in 1 .. Len(c) : m < n => <<c[m], c[n]>> \in R

\* Taking a packet out keeps the order, and what all packets have in common.
LEMMA RemoveInOrder ==
    ASSUME NEW S, NEW c \in Seq(S), NEW R, InOrder(c, R), NEW i \in 1 .. Len(c)
    PROVE  RemoveAt(c, i) \in Seq(S) /\ InOrder(RemoveAt(c, i), R)
<1> DEFINE d == RemoveAt(c, i)
           old(j) == IF j < i THEN j ELSE j + 1
<1>1. /\ d \in Seq(S) /\ Len(d) = Len(c) - 1 /\ Len(c) \in Nat /\ i \in Int
      /\ \A j \in 1 .. Len(c) - 1 : d[j] = IF j < i THEN c[j] ELSE c[j + 1]
  BY RemoveAtPackets, LenProperties
<1>2. ASSUME NEW m \in 1 .. Len(d), NEW n \in 1 .. Len(d), m < n
      PROVE  <<d[m], d[n]>> \in R
  <2>1. old(m) \in 1 .. Len(c) /\ old(n) \in 1 .. Len(c) /\ old(m) < old(n)
    BY <1>1, <1>2
  <2>2. d[m] = c[old(m)] /\ d[n] = c[old(n)]
    BY <1>1
  <2> HIDE DEF d, old
  <2>3. <<c[old(m)], c[old(n)]>> \in R
    BY <2>1 DEF InOrder
  <2> QED BY <2>2, <2>3
<1> QED BY <1>1, <1>2 DEF InOrder

\* Taking out the first packet leaves only packets that come after it.
LEMMA AfterFirst ==
    ASSUME NEW S, NEW c \in Seq(S), NEW R, InOrder(c, R), 1 \in 1 .. Len(c)
    PROVE  \A n \in 1 .. Len(RemoveAt(c, 1)) : <<c[1], RemoveAt(c, 1)[n]>> \in R
<1>1. /\ Len(RemoveAt(c, 1)) = Len(c) - 1 /\ Len(c) \in Nat
      /\ \A j \in 1 .. Len(c) - 1 : RemoveAt(c, 1)[j] = IF j < 1 THEN c[j] ELSE c[j + 1]
  BY RemoveAtPackets, LenProperties
<1>2. ASSUME NEW n \in 1 .. Len(RemoveAt(c, 1))
      PROVE  <<c[1], RemoveAt(c, 1)[n]>> \in R
  <2>1. RemoveAt(c, 1)[n] = c[n + 1] /\ n + 1 \in 1 .. Len(c) /\ 1 < n + 1
    BY <1>1
  <2> QED BY <2>1 DEF InOrder
<1> QED BY <1>2

\* Putting packets that may follow those in flight keeps the order.
LEMMA PutInOrder ==
    ASSUME NEW S, NEW c \in Seq(S), NEW t \in Seq(S), NEW R,
           InOrder(c, R), InOrder(t, R),
           \A m \in 1 .. Len(c), n \in 1 .. Len(t) : <<c[m], t[n]>> \in R
    PROVE  Put(c, t) \in Seq(S) /\ InOrder(Put(c, t), R)
<1> DEFINE d == Put(c, t)
<1>1. /\ d \in Seq(S)
      /\ \A j \in 1 .. Len(d) :
           \/ j \in 1 .. Len(c) /\ d[j] = c[j]
           \/ j - Len(c) \in 1 .. Len(t) /\ j > Len(c) /\ d[j] = t[j - Len(c)]
  BY PutPackets, LenProperties
<1>2. Len(c) \in Nat /\ Len(t) \in Nat
  BY LenProperties
<1> HIDE DEF d
<1>3. ASSUME NEW m \in 1 .. Len(d), NEW n \in 1 .. Len(d), m < n
      PROVE  <<d[m], d[n]>> \in R
  <2>1. CASE m \in 1 .. Len(c) /\ d[m] = c[m] /\ n \in 1 .. Len(c) /\ d[n] = c[n]
    <3>1. <<c[m], c[n]>> \in R
      BY <1>3, <2>1 DEF InOrder
    <3> QED BY <2>1, <3>1
  <2>2. CASE /\ m \in 1 .. Len(c) /\ d[m] = c[m]
             /\ n - Len(c) \in 1 .. Len(t) /\ d[n] = t[n - Len(c)]
    <3>1. <<c[m], t[n - Len(c)]>> \in R
      BY <2>2
    <3> QED BY <2>2, <3>1
  <2>3. CASE /\ m - Len(c) \in 1 .. Len(t) /\ d[m] = t[m - Len(c)]
             /\ n - Len(c) \in 1 .. Len(t) /\ d[n] = t[n - Len(c)]
    <3>1. m - Len(c) < n - Len(c)
      BY <1>2, <1>3
    <3>2. <<t[m - Len(c)], t[n - Len(c)]>> \in R
      BY <2>3, <3>1 DEF InOrder
    <3> QED BY <2>3, <3>2
  <2>4. CASE m > Len(c) /\ n \in 1 .. Len(c)
    BY <1>2, <1>3, <2>4
  <2> QED BY <1>1, <2>1, <2>2, <2>3, <2>4
<1> QED BY <1>1, <1>3 DEF InOrder, d

\* Putting one packet that may follow those in flight.
LEMMA PutOneInOrder ==
    ASSUME NEW S, NEW c \in Seq(S), NEW p \in S, NEW R, InOrder(c, R),
           \A m \in 1 .. Len(c) : <<c[m], p>> \in R
    PROVE  Put(c, <<p>>) \in Seq(S) /\ InOrder(Put(c, <<p>>), R)
<1>1. <<p>> \in Seq(S) /\ Len(<<p>>) = 1 /\ <<p>>[1] = p
  OBVIOUS
<1>2. InOrder(<<p>>, R)
  BY <1>1 DEF InOrder
<1>3. \A m \in 1 .. Len(c), n \in 1 .. Len(<<p>>) : <<c[m], <<p>>[n]>> \in R
  BY <1>1
<1> HIDE DEF InOrder
<1> QED BY <1>1, <1>2, <1>3, PutInOrder

\* A sequence all of whose elements lie in T.
LEMMA SeqIn ==
    ASSUME NEW S, NEW T, NEW c \in Seq(S), \A n \in 1 .. Len(c) : c[n] \in T
    PROVE  c \in Seq(T)
<1>1. Len(c) \in Nat /\ c \in [1 .. Len(c) -> S]
  BY LenProperties
<1>2. c \in [1 .. Len(c) -> T]
  BY <1>1
<1> QED BY <1>1, <1>2, SeqDef

-----------------------------------------------------------------------------
(* What the ordered network guarantees. *)

DataInv ==
    /\ WrittenInOrder
    /\ ConfirmedIsWritten
    /\ WindowRespected
    /\ ForwardInOrder
    /\ BackwardInOrder
    /\ Counted

FwdSet == {p \in Packet : ForwardPacket(p)}
FwdPairs == {pair \in Packet \X Packet : pair[1].pos < pair[2].pos + WindowSize}
BwdSet == {p \in Packet : BackwardPacket(p)}
BwdPairs == {pair \in Packet \X Packet : pair[1].pos <= pair[2].pos}

\* The packet at the head of the channel is the one that is handed over.
LEMMA FifoHead ==
    ASSUME ~Reorder, NEW S, NEW c \in Seq(S), NEW i \in Deliverable(c)
    PROVE  i = 1 /\ 1 \in 1 .. Len(c)
BY LenProperties DEF Deliverable

\* Both halves of the channel invariants in terms of sets.
LEMMA ForwardAsSets ==
    ASSUME toReceiver \in Seq(Packet), ForwardInOrder
    PROVE  toReceiver \in Seq(FwdSet) /\ InOrder(toReceiver, FwdPairs)
<1>1. \A n \in 1 .. Len(toReceiver) : toReceiver[n] \in Packet
  BY ElementOfSeq
<1>2. \A n \in 1 .. Len(toReceiver) : toReceiver[n] \in FwdSet
  BY <1>1 DEF ForwardInOrder, FwdSet
<1>3. InOrder(toReceiver, FwdPairs)
  BY <1>1 DEF ForwardInOrder, InOrder, FwdPairs
<1> QED BY <1>2, <1>3, SeqIn

LEMMA BackwardAsSets ==
    ASSUME toSender \in Seq(Packet), BackwardInOrder
    PROVE  toSender \in Seq(BwdSet) /\ InOrder(toSender, BwdPairs)
<1>1. \A n \in 1 .. Len(toSender) : toSender[n] \in Packet
  BY ElementOfSeq
<1>2. \A n \in 1 .. Len(toSender) : toSender[n] \in BwdSet
  BY <1>1 DEF BackwardInOrder, BwdSet
<1>3. InOrder(toSender, BwdPairs)
  BY <1>1 DEF BackwardInOrder, InOrder, BwdPairs
<1> QED BY <1>2, <1>3, SeqIn

\* And back, after a step.
LEMMA ForwardFromSets ==
    ASSUME toReceiver' \in Seq(FwdSet'), InOrder(toReceiver', FwdPairs)
    PROVE  ForwardInOrder'
<1>1. \A n \in 1 .. Len(toReceiver') : toReceiver'[n] \in FwdSet'
  BY ElementOfSeq
<1> QED BY <1>1 DEF ForwardInOrder, InOrder, FwdSet, FwdPairs

LEMMA BackwardFromSets ==
    ASSUME toSender' \in Seq(BwdSet'), InOrder(toSender', BwdPairs)
    PROVE  BackwardInOrder'
<1>1. \A n \in 1 .. Len(toSender') : toSender'[n] \in BwdSet'
  BY ElementOfSeq
<1> QED BY <1>1 DEF BackwardInOrder, InOrder, BwdSet, BwdPairs

\* What is said of forward packets stays true while the sender advances.
LEMMA ForwardGrows ==
    ASSUME TypeOK, TypeOK', lastConfirmedChunk' >= lastConfirmedChunk,
           lastSentChunk' >= lastSentChunk,
           receivedEOT' \/ (~receivedEOT /\ total' = total)
    PROVE  FwdSet \subseteq FwdSet'
<1> SUFFICES ASSUME NEW p \in Packet, ForwardPacket(p) PROVE ForwardPacket(p)'
  BY DEF FwdSet
<1>1. p.pos \in Nat
  BY DEF Packet
<1>2. /\ lastConfirmedChunk \in Int /\ lastConfirmedChunk' \in Int
      /\ lastSentChunk \in Int /\ lastSentChunk' \in Int
  BY DEF TypeOK
<1> QED BY <1>1, <1>2 DEF ForwardPacket

\* What is said of ACKs stays true while the receiver writes.
LEMMA BackwardGrows ==
    ASSUME TypeOK, TypeOK', lastConfirmedChunk' = lastConfirmedChunk,
           Len(written') >= Len(written), receivedEOT => receivedEOT'
    PROVE  BwdSet \subseteq BwdSet'
<1> SUFFICES ASSUME NEW p \in Packet, BackwardPacket(p) PROVE BackwardPacket(p)'
  BY DEF BwdSet
<1>1. p.pos \in Nat
  BY DEF Packet
<1>2. Len(written) \in Nat /\ Len(written') \in Nat
  BY LenProperties DEF TypeOK
<1> QED BY <1>1, <1>2 DEF BackwardPacket

LEMMA DataInit == Init => DataInv
<1> SUFFICES ASSUME Init PROVE DataInv
  OBVIOUS
<1>1. Len(<< >>) = 0 /\ DOMAIN << >> = {} /\ 1 .. 0 = {}
  OBVIOUS
<1>2. WrittenInOrder
  BY <1>1, Sizes DEF Init, WrittenInOrder
<1>3. ConfirmedIsWritten /\ WindowRespected
  BY <1>1, Sizes DEF Init, ConfirmedIsWritten, WindowRespected
<1>4. ForwardInOrder /\ BackwardInOrder
  BY <1>1 DEF Init, ForwardInOrder, BackwardInOrder
<1>5. Counted
  <2>1. 0 % SeqNumModulo = 0
    BY Sizes, ModUnique
  <2> QED BY <1>1, <2>1 DEF Init, Counted
<1> QED BY <1>2, <1>3, <1>4, <1>5 DEF DataInv

\* The data part of a state is what the threads' own steps leave alone.
LEMMA DataQuiet ==
    ASSUME DataInv,
           UNCHANGED <<lastConfirmedChunk, lastSentChunk, receiver, toReceiver, toSender>>
    PROVE  DataInv'
BY DEF DataInv, WrittenInOrder, ConfirmedIsWritten, WindowRespected, ForwardInOrder,
       ForwardPacket, BackwardInOrder, BackwardPacket, Counted, receiver

\* Numbers that the arithmetic of a step rests on.
LEMMA DataNumbers ==
    ASSUME TypeOK
    PROVE  /\ lastConfirmedChunk \in Int /\ lastSentChunk \in Int /\ total \in Nat
           /\ lastConfirmedChunk >= -1 /\ lastSentChunk >= -1
           /\ Len(written) \in Nat
           /\ expectSeqNum \in 0 .. SeqNumModulo - 1
           /\ toReceiver \in Seq(Packet) /\ toSender \in Seq(Packet)
           /\ written \in Seq(Nat) /\ receivedEOT \in BOOLEAN
BY Sizes, LenProperties DEF TypeOK

\* How far ahead packets in flight may be.
LEMMA ForwardBound ==
    ASSUME TypeOK, DataInv, NEW m \in 1 .. Len(toReceiver)
    PROVE  /\ toReceiver[m] \in Packet /\ ForwardPacket(toReceiver[m])
           /\ toReceiver[m].pos \in Nat
           /\ toReceiver[m].pos <= lastConfirmedChunk + WindowSize
           /\ toReceiver[m].pos <= lastSentChunk + 1
<1>1. toReceiver[m] \in Packet /\ ForwardPacket(toReceiver[m])
  BY ElementOfSeq DEF TypeOK, DataInv, ForwardInOrder
<1>2. toReceiver[m].pos \in Nat
  BY <1>1 DEF Packet
<1>3. /\ lastSentChunk - lastConfirmedChunk >= 0
      /\ lastSentChunk - lastConfirmedChunk <= WindowSize
  BY DataNumbers, Sizes DEF DataInv, WindowRespected
<1>4. toReceiver[m].pos <= lastSentChunk \/ toReceiver[m].pos <= lastConfirmedChunk + 1
  BY <1>1 DEF ForwardPacket
<1>5. /\ toReceiver[m].pos <= lastConfirmedChunk + WindowSize
      /\ toReceiver[m].pos <= lastSentChunk + 1
  <2>1. \A p, c, n, w \in Int :
            n - c >= 0 /\ n - c <= w /\ w > 0 /\ (p <= n \/ p <= c + 1) =>
                p <= c + w /\ p <= n + 1
    OBVIOUS
  <2>2. toReceiver[m].pos \in Int /\ lastConfirmedChunk \in Int /\ lastSentChunk \in Int
    BY <1>2, DataNumbers
  <2>3. WindowSize \in Int /\ WindowSize > 0
    BY Sizes
  <2> QED BY <1>3, <1>4, <2>1, <2>2, <2>3
<1> QED BY <1>1, <1>2, <1>5

LEMMA DataSend ==
    ASSUME TypeInv, TypeInv', ControlInv, DataInv, SendNextPacket
    PROVE  DataInv'
<1>0. /\ lastConfirmedChunk \in Int /\ lastSentChunk \in Int /\ total \in Nat
      /\ WindowSize \in Nat /\ WindowSize > 0
  BY DataNumbers, Sizes DEF TypeInv
<1>1. /\ sendPc = "room" /\ lastSentChunk' = lastSentChunk + 1
      /\ toReceiver' = Put(toReceiver, <<DataPacket(lastSentChunk + 1)>>)
      /\ UNCHANGED <<lastConfirmedChunk, expectSeqNum, total, receivedEOT, written, toSender>>
  BY DEF SendNextPacket, receiver
<1>2. /\ TypeOK /\ TypeOK'
      /\ lastSentChunk - lastConfirmedChunk < WindowSize
      /\ lastSentChunk - lastConfirmedChunk >= 0
  BY <1>1, DataNumbers, Sizes
     DEF TypeInv, ControlInv, RoomIsKept, IsWindowFull, DataInv, WindowRespected
<1>3. lastSentChunk + 1 \in Nat
  BY <1>2, DataNumbers
<1>4. PICK p \in Packet : /\ p = DataPacket(lastSentChunk + 1)
                          /\ p.type = "data" /\ p.pos = lastSentChunk + 1
                          /\ p.seqnum = p.pos % SeqNumModulo
  BY <1>3, DataAndEot
<1>5. WrittenInOrder' /\ ConfirmedIsWritten'
  BY <1>1 DEF DataInv, WrittenInOrder, ConfirmedIsWritten
<1>6. WindowRespected'
  BY <1>1, <1>2, DataNumbers, Sizes DEF WindowRespected
<1>7. Counted'
  BY <1>1, <1>2, DataNumbers DEF DataInv, Counted
<1>8. BackwardInOrder'
  BY <1>1 DEF DataInv, BackwardInOrder, BackwardPacket
<1>9. ForwardInOrder'
  <2>1. FwdSet \subseteq FwdSet'
    BY <1>1, <1>2, DataNumbers, ForwardGrows
  <2>2. toReceiver \in Seq(FwdSet) /\ InOrder(toReceiver, FwdPairs)
    BY <1>2, DataNumbers, ForwardAsSets DEF DataInv
  <2>3. toReceiver \in Seq(FwdSet')
    BY <2>1, <2>2, SeqMonotonic
  <2>4. p \in FwdSet'
    <3>1. ~receivedEOT => total <= lastSentChunk + 1
      BY DEF DataInv, Counted
    <3>2. ~receivedEOT => total <= p.pos + WindowSize
      BY <1>2, <1>4, <3>1, DataNumbers, Sizes
    <3>3. p.pos <= lastSentChunk'
      BY <1>1, <1>2, <1>4, DataNumbers
    <3>4. ForwardPacket(p)'
      BY <1>1, <1>4, <3>2, <3>3 DEF ForwardPacket
    <3> QED BY <1>4, <3>4 DEF FwdSet
  <2>5. ASSUME NEW m \in 1 .. Len(toReceiver)
        PROVE  <<toReceiver[m], p>> \in FwdPairs
    <3>1. /\ toReceiver[m] \in Packet /\ toReceiver[m].pos \in Nat
          /\ toReceiver[m].pos <= lastSentChunk + 1
      BY <1>2, ForwardBound
    <3>2. toReceiver[m].pos < p.pos + WindowSize
      BY <1>0, <1>4, <3>1
    <3> QED BY <1>4, <3>1, <3>2 DEF FwdPairs
  <2>6. toReceiver' \in Seq(FwdSet') /\ InOrder(toReceiver', FwdPairs)
    BY <1>1, <1>4, <2>2, <2>3, <2>4, <2>5, PutOneInOrder
  <2> QED BY <2>6, ForwardFromSets
<1> QED BY <1>5, <1>6, <1>7, <1>8, <1>9 DEF DataInv

LEMMA DataResend ==
    ASSUME TypeInv, TypeInv', DataInv, Resend
    PROVE  DataInv'
<1>0. /\ lastConfirmedChunk \in Int /\ lastSentChunk \in Int /\ total \in Nat
      /\ WindowSize \in Nat /\ WindowSize > 0
  BY DataNumbers, Sizes DEF TypeInv
<1>1. /\ toReceiver' = Put(toReceiver, Unconfirmed)
      /\ UNCHANGED <<lastConfirmedChunk, lastSentChunk, expectSeqNum, total, receivedEOT,
                     written, toSender>>
  BY DEF Resend, receiver
<1>2. /\ TypeOK /\ TypeOK'
      /\ lastSentChunk - lastConfirmedChunk <= WindowSize
  BY DataNumbers, Sizes DEF TypeInv, DataInv, WindowRespected
<1>3. /\ WrittenInOrder' /\ ConfirmedIsWritten' /\ WindowRespected' /\ Counted'
      /\ BackwardInOrder'
  BY <1>1 DEF DataInv, WrittenInOrder, ConfirmedIsWritten, WindowRespected, Counted,
              BackwardInOrder, BackwardPacket
<1>4. ForwardInOrder'
  <2>1. FwdSet' = FwdSet
    BY <1>1 DEF FwdSet, ForwardPacket
  <2>2. toReceiver \in Seq(FwdSet) /\ InOrder(toReceiver, FwdPairs)
    BY <1>2, DataNumbers, ForwardAsSets DEF DataInv
  <2>3. ASSUME NEW k \in 1 .. Len(Unconfirmed)
        PROVE  /\ k \in Int /\ k >= 1 /\ k <= lastSentChunk - lastConfirmedChunk
               /\ Unconfirmed[k] \in Packet
               /\ Unconfirmed[k].type = "data"
               /\ Unconfirmed[k].pos = lastConfirmedChunk + k
               /\ Unconfirmed[k].seqnum = Unconfirmed[k].pos % SeqNumModulo
    <3>1. k \in DOMAIN Unconfirmed
      BY <1>2, UnconfirmedPackets, DataNumbers, LenProperties
    <3>2. /\ k \in Int /\ k >= 1 /\ k <= lastSentChunk - lastConfirmedChunk
          /\ Unconfirmed[k] = DataPacket(lastConfirmedChunk + k)
      BY <1>2, <3>1, UnconfirmedPackets, DataNumbers
    <3>3. lastConfirmedChunk + k \in Nat
      BY <1>2, <3>2, DataNumbers
    <3> QED BY <3>2, <3>3, DataAndEot
  <2>4. Unconfirmed \in Seq(Packet)
    BY <1>2, UnconfirmedPackets, DataNumbers
  <2>5. \A k \in 1 .. Len(Unconfirmed) : Unconfirmed[k] \in FwdSet
    <3>1. ~receivedEOT => total <= lastSentChunk + 1
      BY DEF DataInv, Counted
    <3> SUFFICES ASSUME NEW k \in 1 .. Len(Unconfirmed) PROVE Unconfirmed[k] \in FwdSet
      OBVIOUS
    <3>0. /\ k \in Int /\ k >= 1 /\ Unconfirmed[k].pos = lastConfirmedChunk + k
      BY <2>3
    <3>2. ~receivedEOT => total <= Unconfirmed[k].pos + WindowSize
      BY <1>0, <1>2, <3>0, <3>1
    <3>3. Unconfirmed[k].pos <= lastSentChunk
      BY <1>2, <2>3, DataNumbers
    <3>4. ForwardPacket(Unconfirmed[k])
      BY <1>2, <2>3, <3>2, <3>3, DataNumbers DEF ForwardPacket
    <3> QED BY <2>3, <3>4 DEF FwdSet
  <2>6. InOrder(Unconfirmed, FwdPairs)
    <3> SUFFICES ASSUME NEW m \in 1 .. Len(Unconfirmed), NEW n \in 1 .. Len(Unconfirmed), m < n
                 PROVE  <<Unconfirmed[m], Unconfirmed[n]>> \in FwdPairs
      BY DEF InOrder
    <3>0. /\ Unconfirmed[m].pos = lastConfirmedChunk + m
          /\ Unconfirmed[n].pos = lastConfirmedChunk + n
      BY <2>3
    <3>1. Unconfirmed[m].pos < Unconfirmed[n].pos + WindowSize
      BY <1>0, <1>2, <3>0
    <3> QED BY <2>3, <3>1 DEF FwdPairs
  <2>7. \A m \in 1 .. Len(toReceiver), n \in 1 .. Len(Unconfirmed) :
          <<toReceiver[m], Unconfirmed[n]>> \in FwdPairs
    <3> SUFFICES ASSUME NEW m \in 1 .. Len(toReceiver), NEW n \in 1 .. Len(Unconfirmed)
                 PROVE  <<toReceiver[m], Unconfirmed[n]>> \in FwdPairs
      OBVIOUS
    <3>0. /\ Unconfirmed[n].pos = lastConfirmedChunk + n /\ n \in Int /\ n >= 1
          /\ toReceiver[m].pos \in Nat /\ toReceiver[m].pos <= lastConfirmedChunk + WindowSize
      BY <1>2, <2>3, ForwardBound
    <3>1. toReceiver[m].pos < Unconfirmed[n].pos + WindowSize
      BY <1>0, <1>2, <3>0
    <3> QED BY <1>2, <2>3, <3>1, ForwardBound DEF FwdPairs
  <2>8. Unconfirmed \in Seq(FwdSet)
    BY <2>4, <2>5, SeqIn
  <2>9. toReceiver' \in Seq(FwdSet') /\ InOrder(toReceiver', FwdPairs)
    BY <1>1, <2>1, <2>2, <2>6, <2>7, <2>8, PutInOrder
  <2> QED BY <2>9, ForwardFromSets
<1> QED BY <1>3, <1>4 DEF DataInv

\* What an ACK at the head of the channel says, and that it is understood.
LEMMA AckUnderstood ==
    ASSUME ~Reorder, TypeInv, DataInv, NEW i \in Deliverable(toSender), ReceiveAck(i)
    PROVE  /\ i = 1 /\ 1 \in 1 .. Len(toSender)
           /\ toSender[1].pos \in Nat
           /\ lastConfirmedChunk <= toSender[1].pos
           /\ toSender[1].pos < Len(written)
           /\ toSender[1].pos <= lastSentChunk
           /\ lastConfirmedChunk' = toSender[1].pos
<1> DEFINE p == toSender[1]
<1>1. i = 1 /\ 1 \in 1 .. Len(toSender)
  BY FifoHead, DataNumbers DEF TypeInv
<1>2. p \in Packet /\ BackwardPacket(p)
  BY <1>1, DataNumbers, ElementOfSeq DEF TypeInv, DataInv, BackwardInOrder
<1>3. p.type # "eot" /\ lastConfirmedChunk' = lastConfirmedChunk + AckDistance(p.seqnum, lastConfirmedChunk)
  BY <1>1 DEF ReceiveAck
<1>4. p.pos \in Nat /\ p.seqnum \in Int
  BY <1>2 DEF Packet, SeqNums
<1>5. /\ NumberOf(p.seqnum, p.pos)
      /\ lastConfirmedChunk <= p.pos /\ p.pos < Len(written)
  BY <1>2, <1>3 DEF BackwardPacket, NumberOf
<1> HIDE DEF p
<1>6. /\ lastConfirmedChunk \in Int /\ lastConfirmedChunk >= -1 /\ lastSentChunk \in Int
      /\ Len(written) \in Nat /\ Len(written) <= lastSentChunk + 1
      /\ lastSentChunk - lastConfirmedChunk <= WindowSize
  BY DataNumbers, Sizes DEF TypeInv, DataInv, WindowRespected, Counted
<1>7. p.pos <= lastSentChunk /\ p.pos - lastConfirmedChunk < SeqNumModulo
  BY <1>4, <1>5, <1>6, Sizes
<1>8. AckDistance(p.seqnum, lastConfirmedChunk) = p.pos - lastConfirmedChunk
  BY <1>4, <1>5, <1>6, <1>7, Sizes, AckDistanceExact
<1>9. lastConfirmedChunk' = p.pos
  BY <1>3, <1>4, <1>6, <1>8
<1> QED BY <1>1, <1>4, <1>5, <1>7, <1>9 DEF p

LEMMA DataAck ==
    ASSUME ~Reorder, TypeInv, TypeInv', DataInv, NEW i \in Deliverable(toSender), ReceiveAck(i)
    PROVE  DataInv'
<1>1. PICK k \in Nat :
        /\ k = toSender[1].pos /\ i = 1 /\ 1 \in 1 .. Len(toSender)
        /\ lastConfirmedChunk <= k /\ k < Len(written) /\ k <= lastSentChunk
        /\ lastConfirmedChunk' = k
  BY AckUnderstood
<1>2. /\ toReceiver' = IF k = lastSentChunk THEN Put(toReceiver, <<EotPacket(k + 1)>>)
                                            ELSE toReceiver
      /\ toSender' = RemoveAt(toSender, 1)
      /\ UNCHANGED <<lastSentChunk, expectSeqNum, total, receivedEOT, written>>
  BY <1>1 DEF ReceiveAck, receiver
<1>3. /\ lastConfirmedChunk \in Int /\ lastSentChunk \in Int /\ total \in Nat
      /\ WindowSize \in Nat /\ WindowSize > 0 /\ Len(written) \in Nat
      /\ lastSentChunk - lastConfirmedChunk <= WindowSize
  BY DataNumbers, Sizes DEF TypeInv, DataInv, WindowRespected
<1>4. WrittenInOrder' /\ Counted'
  BY <1>2 DEF DataInv, WrittenInOrder, Counted
<1>5. ConfirmedIsWritten'
  BY <1>1, <1>2 DEF ConfirmedIsWritten
<1>6. WindowRespected'
  BY <1>1, <1>2, <1>3 DEF WindowRespected
<1>7. ForwardInOrder'
  <2>1. FwdSet \subseteq FwdSet'
    <3>1. total' = total /\ lastSentChunk' >= lastSentChunk /\ lastConfirmedChunk' >= lastConfirmedChunk
      BY <1>1, <1>2, <1>3
    <3>2. receivedEOT' \/ (~receivedEOT /\ total' = total)
      BY <1>2
    <3> QED BY <3>1, <3>2, ForwardGrows DEF TypeInv
  <2>2. toReceiver \in Seq(FwdSet) /\ InOrder(toReceiver, FwdPairs)
    BY DataNumbers, ForwardAsSets DEF DataInv, TypeInv
  <2>3. toReceiver \in Seq(FwdSet')
    BY <2>1, <2>2, SeqMonotonic
  <2>4. CASE k # lastSentChunk
    BY <1>2, <2>2, <2>3, <2>4, ForwardFromSets
  <2>5. CASE k = lastSentChunk
    <3>1. PICK p \in Packet : /\ p = EotPacket(k + 1) /\ p.type = "eot" /\ p.pos = k + 1
                              /\ p.seqnum = p.pos % SeqNumModulo
      BY DataAndEot
    <3>2. ~receivedEOT => total <= p.pos + WindowSize
      <4>1. ~receivedEOT => total <= lastSentChunk + 1
        BY DEF DataInv, Counted
      <4> QED BY <1>3, <2>5, <3>1, <4>1
    <3>3. ForwardPacket(p)'
      BY <1>1, <1>2, <3>1, <3>2 DEF ForwardPacket
    <3>4. p \in FwdSet'
      BY <3>3 DEF FwdSet
    <3>5. ASSUME NEW m \in 1 .. Len(toReceiver)
          PROVE  <<toReceiver[m], p>> \in FwdPairs
      <4>1. /\ toReceiver[m] \in Packet /\ toReceiver[m].pos \in Nat
            /\ toReceiver[m].pos <= lastSentChunk + 1
        BY ForwardBound DEF TypeInv
      <4>2. toReceiver[m].pos < p.pos + WindowSize
        BY <1>3, <2>5, <3>1, <4>1
      <4> QED BY <4>1, <4>2 DEF FwdPairs
    <3>6. Put(toReceiver, <<p>>) \in Seq(FwdSet') /\ InOrder(Put(toReceiver, <<p>>), FwdPairs)
      BY <2>2, <2>3, <3>4, <3>5, PutOneInOrder
    <3>7. toReceiver' = Put(toReceiver, <<p>>)
      BY <1>2, <2>5, <3>1
    <3> QED BY <3>6, <3>7, ForwardFromSets
  <2> QED BY <2>4, <2>5
<1>8. BackwardInOrder'
  <2>1. toSender \in Seq(BwdSet) /\ InOrder(toSender, BwdPairs)
    BY DataNumbers, BackwardAsSets DEF DataInv, TypeInv
  <2>2. toSender' \in Seq(BwdSet) /\ InOrder(toSender', BwdPairs)
    BY <1>1, <1>2, <2>1, RemoveInOrder
  <2>3. \A n \in 1 .. Len(toSender') : <<toSender[1], toSender'[n]>> \in BwdPairs
    BY <1>1, <1>2, <2>1, AfterFirst
  <2>4. ASSUME NEW n \in 1 .. Len(toSender')
        PROVE  toSender'[n] \in BwdSet'
    <3>1. PICK p \in Packet : p = toSender'[n] /\ BackwardPacket(p)
      BY <2>2, ElementOfSeq DEF BwdSet
    <3>2. k <= p.pos
      BY <1>1, <2>3, <3>1 DEF BwdPairs
    <3>3. BackwardPacket(p)'
      BY <1>1, <1>2, <3>1, <3>2 DEF BackwardPacket
    <3> QED BY <3>1, <3>3 DEF BwdSet
  <2>5. toSender' \in Seq(BwdSet')
    BY <2>2, <2>4, SeqIn
  <2> QED BY <2>2, <2>5, BackwardFromSets
<1> QED BY <1>4, <1>5, <1>6, <1>7, <1>8 DEF DataInv

\* A packet is accepted only in the position the receiver has reached.
LEMMA AcceptedInPosition ==
    ASSUME ~Reorder, TypeInv, DataInv, NEW i \in Deliverable(toReceiver), Accept(i)
    PROVE  /\ i = 1 /\ 1 \in 1 .. Len(toReceiver)
           /\ toReceiver[1] \in Packet /\ ForwardPacket(toReceiver[1])
           /\ toReceiver[1].pos = total /\ total = Len(written)
<1>1. i = 1 /\ 1 \in 1 .. Len(toReceiver)
  BY FifoHead, DataNumbers DEF TypeInv
<1>2. /\ toReceiver[1] \in Packet /\ ForwardPacket(toReceiver[1])
      /\ toReceiver[1].pos \in Nat
      /\ toReceiver[1].pos <= lastConfirmedChunk + WindowSize
  BY <1>1, ForwardBound DEF TypeInv
<1>3. ~receivedEOT /\ toReceiver[1].seqnum = expectSeqNum
  BY <1>1 DEF Accept
<1>4. total = Len(written) /\ expectSeqNum = total % SeqNumModulo
  BY <1>3, DataNumbers DEF DataInv, Counted, TypeInv
<1>5. toReceiver[1].pos % SeqNumModulo = total % SeqNumModulo
  BY <1>2, <1>3, <1>4 DEF ForwardPacket
<1>6. total <= toReceiver[1].pos + WindowSize
  BY <1>2, <1>3 DEF ForwardPacket
<1>7. lastConfirmedChunk < total /\ lastConfirmedChunk \in Int /\ total \in Nat
  BY <1>4, DataNumbers DEF DataInv, ConfirmedIsWritten, TypeInv
<1>8. /\ toReceiver[1].pos - total < SeqNumModulo
      /\ total - toReceiver[1].pos < SeqNumModulo
  BY <1>2, <1>6, <1>7, Sizes
<1>9. toReceiver[1].pos = total
  BY <1>2, <1>5, <1>7, <1>8, SameNumberSamePosition
<1> QED BY <1>1, <1>2, <1>4, <1>9

LEMMA DataAccept ==
    ASSUME ~Reorder, TypeInv, TypeInv', DataInv, NEW i \in Deliverable(toReceiver), Accept(i)
    PROVE  DataInv'
<1>1. PICK p \in Packet :
        /\ p = toReceiver[1] /\ i = 1 /\ 1 \in 1 .. Len(toReceiver)
        /\ ForwardPacket(p) /\ p.pos = total /\ total = Len(written)
  BY AcceptedInPosition
<1> DEFINE isEot == p.type = "eot"
<1>2. /\ ~receivedEOT /\ p.seqnum = expectSeqNum /\ receivedEOT' = isEot
      /\ toSender' = Put(toSender, <<IF isEot THEN EotPacket(total) ELSE AckPacket(p.seqnum, total)>>)
      /\ written' = IF isEot THEN written ELSE Append(written, total)
      /\ total' = total + 1
      /\ expectSeqNum' = JavaRem(expectSeqNum + 1)
      /\ toReceiver' = RemoveAt(toReceiver, 1)
      /\ UNCHANGED <<lastConfirmedChunk, lastSentChunk>>
  BY <1>1 DEF Accept, sender, shared
<1>3. /\ TypeOK /\ TypeOK' /\ total \in Nat /\ WindowSize \in Nat
      /\ lastConfirmedChunk \in Int /\ lastSentChunk \in Int /\ lastSentChunk <= NumChunks - 1
      /\ NumChunks \in Int
      /\ written \in Seq(Nat) /\ expectSeqNum \in 0 .. SeqNumModulo - 1
      /\ expectSeqNum = total % SeqNumModulo
  <2>1. TypeOK /\ TypeOK'
    BY DEF TypeInv
  <2>2. NumChunks \in Int /\ lastSentChunk <= NumChunks - 1
    BY <2>1, Sizes DEF TypeOK
  <2>3. expectSeqNum = total % SeqNumModulo
    BY DEF DataInv, Counted
  <2> QED BY <2>1, <2>2, <2>3, DataNumbers, Sizes
<1>4. /\ Len(written') = IF isEot THEN total ELSE total + 1
      /\ \A k \in 1 .. total : written'[k] = written[k]
      /\ ~isEot => written'[total + 1] = total
      /\ DOMAIN written' = 1 .. Len(written') /\ DOMAIN written = 1 .. total
  BY <1>1, <1>2, <1>3
<1>5. ~isEot => p.type = "data" /\ total <= lastSentChunk
  BY <1>1 DEF ForwardPacket
<1>6. WrittenInOrder'
  <2>1. Len(written') <= NumChunks
    BY <1>1, <1>3, <1>4, <1>5 DEF DataInv, WrittenInOrder
  <2>2. ASSUME NEW k \in DOMAIN written'
        PROVE  written'[k] = k - 1
    <3>1. CASE k \in 1 .. total
      BY <1>4, <3>1 DEF DataInv, WrittenInOrder
    <3>2. CASE k \notin 1 .. total
      <4>1. k = total + 1 /\ ~isEot
        BY <1>3, <1>4, <3>2
      <4> QED BY <1>3, <1>4, <4>1
    <3> QED BY <3>1, <3>2
  <2> QED BY <2>1, <2>2 DEF WrittenInOrder
<1>7. Len(written') >= total /\ Len(written') \in Nat
  BY <1>3, <1>4
<1>8. ConfirmedIsWritten' /\ WindowRespected'
  BY <1>1, <1>2, <1>3, <1>7 DEF DataInv, ConfirmedIsWritten, WindowRespected
<1>9. Counted'
  <2>1. expectSeqNum' = total' % SeqNumModulo
    <3>1. expectSeqNum' = (expectSeqNum + 1) % SeqNumModulo
      BY <1>2, <1>3, ReceiverNumbers
    <3> QED BY <1>2, <1>3, <3>1, NextNumber
  <2>2. total' = Len(written') + (IF receivedEOT' THEN 1 ELSE 0)
    <3>1. CASE isEot
      BY <1>2, <1>3, <1>4, <3>1
    <3>2. CASE ~isEot
      <4>1. ~receivedEOT'
        BY <1>2, <3>2
      <4>2. total' = total + 1 /\ Len(written') = total + 1
        BY <1>2, <1>4, <3>2
      <4> QED BY <1>3, <4>1, <4>2
    <3> QED BY <3>1, <3>2
  <2>3. Len(written') <= lastSentChunk' + 1
    BY <1>1, <1>2, <1>3, <1>4, <1>5 DEF DataInv, Counted
  <2> QED BY <2>1, <2>2, <2>3 DEF Counted
<1> HIDE DEF isEot
<1>10. ForwardInOrder'
  <2>1. toReceiver \in Seq(FwdSet) /\ InOrder(toReceiver, FwdPairs)
    BY <1>3, DataNumbers, ForwardAsSets DEF DataInv
  <2>2. toReceiver' \in Seq(FwdSet) /\ InOrder(toReceiver', FwdPairs)
    BY <1>1, <1>2, <2>1, RemoveInOrder
  <2>3. \A n \in 1 .. Len(toReceiver') : <<toReceiver[1], toReceiver'[n]>> \in FwdPairs
    BY <1>1, <1>2, <2>1, AfterFirst
  <2>4. ASSUME NEW n \in 1 .. Len(toReceiver')
        PROVE  toReceiver'[n] \in FwdSet'
    <3>1. PICK r \in Packet : r = toReceiver'[n] /\ ForwardPacket(r)
      BY <2>2, ElementOfSeq DEF FwdSet
    <3>2. total < r.pos + WindowSize /\ r.pos \in Nat
      BY <1>1, <2>3, <3>1 DEF FwdPairs, Packet
    <3>3. total' <= r.pos + WindowSize
      BY <1>2, <1>3, <3>2
    <3>4. ForwardPacket(r)'
      BY <1>2, <3>1, <3>3 DEF ForwardPacket
    <3> QED BY <3>1, <3>4 DEF FwdSet
  <2>5. toReceiver' \in Seq(FwdSet')
    BY <2>2, <2>4, SeqIn
  <2> QED BY <2>2, <2>5, ForwardFromSets
<1>11. BackwardInOrder'
  <2>1. toSender \in Seq(BwdSet) /\ InOrder(toSender, BwdPairs)
    BY <1>3, DataNumbers, BackwardAsSets DEF DataInv
  <2>2. BwdSet \subseteq BwdSet'
    BY <1>1, <1>2, <1>3, <1>7, BackwardGrows
  <2>3. toSender \in Seq(BwdSet')
    BY <2>1, <2>2, SeqMonotonic
  <2>4. PICK a \in Packet :
          /\ a = IF isEot THEN EotPacket(total) ELSE AckPacket(p.seqnum, total)
          /\ a.pos = total
          /\ IF isEot THEN a.type = "eot" ELSE a.type = "ack" /\ a.seqnum = expectSeqNum
    <3>1. p.seqnum \in SeqNums
      BY DEF Packet
    <3> QED BY <1>2, <1>3, <3>1, DataAndEot, Acks
  <2>5. a \in BwdSet'
    <3>1. CASE isEot
      <4>1. BackwardPacket(a)'
        BY <1>2, <2>4, <3>1 DEF BackwardPacket
      <4> QED BY <4>1 DEF BwdSet
    <3>2. CASE ~isEot
      <4>1. lastConfirmedChunk' <= a.pos /\ a.pos < Len(written')
        BY <1>1, <1>2, <1>3, <1>4, <2>4, <3>2 DEF DataInv, ConfirmedIsWritten
      <4>2. BackwardPacket(a)'
        BY <1>3, <2>4, <3>2, <4>1 DEF BackwardPacket
      <4> QED BY <4>2 DEF BwdSet
    <3> QED BY <3>1, <3>2
  <2>6. ASSUME NEW m \in 1 .. Len(toSender)
        PROVE  <<toSender[m], a>> \in BwdPairs
    <3>1. toSender[m] \in Packet /\ BackwardPacket(toSender[m])
      BY <2>1, ElementOfSeq DEF BwdSet
    <3>2. toSender[m].pos < total /\ toSender[m].pos \in Nat
      BY <1>1, <1>2, <3>1 DEF BackwardPacket, Packet
    <3>3. toSender[m].pos <= a.pos
      BY <1>3, <2>4, <3>2
    <3> QED BY <3>1, <3>3 DEF BwdPairs
  <2>7. toSender' \in Seq(BwdSet') /\ InOrder(toSender', BwdPairs)
    BY <1>2, <2>1, <2>3, <2>4, <2>5, <2>6, PutOneInOrder
  <2> QED BY <2>7, BackwardFromSets
<1> QED BY <1>6, <1>8, <1>9, <1>10, <1>11 DEF DataInv

LEMMA DataReject ==
    ASSUME ~Reorder, TypeInv, TypeInv', DataInv, NEW i \in Deliverable(toReceiver), Reject(i)
    PROVE  DataInv'
<1>1. i = 1 /\ 1 \in 1 .. Len(toReceiver)
  BY FifoHead, DataNumbers DEF TypeInv
<1>2. /\ ~receivedEOT
      /\ toSender' = IF total = 0 THEN toSender
                     ELSE Put(toSender, <<AckPacket(JavaRem(expectSeqNum - 1), total - 1)>>)
      /\ toReceiver' = RemoveAt(toReceiver, 1)
      /\ UNCHANGED <<lastConfirmedChunk, lastSentChunk, expectSeqNum, total, receivedEOT, written>>
  BY <1>1 DEF Reject, sender, shared, receiver
<1>3. TypeOK /\ TypeOK'
  BY DEF TypeInv
<1>4. /\ WrittenInOrder' /\ ConfirmedIsWritten' /\ WindowRespected' /\ Counted'
  BY <1>2 DEF DataInv, WrittenInOrder, ConfirmedIsWritten, WindowRespected, Counted
<1>5. ForwardInOrder'
  <2>1. toReceiver \in Seq(FwdSet) /\ InOrder(toReceiver, FwdPairs)
    BY <1>3, DataNumbers, ForwardAsSets DEF DataInv
  <2>2. FwdSet' = FwdSet
    BY <1>2 DEF FwdSet, ForwardPacket
  <2>3. toReceiver' \in Seq(FwdSet') /\ InOrder(toReceiver', FwdPairs)
    BY <1>1, <1>2, <2>1, <2>2, RemoveInOrder
  <2> QED BY <2>3, ForwardFromSets
<1>6. BackwardInOrder'
  <2>1. toSender \in Seq(BwdSet) /\ InOrder(toSender, BwdPairs)
    BY <1>3, DataNumbers, BackwardAsSets DEF DataInv
  <2>2. BwdSet' = BwdSet
    BY <1>2 DEF BwdSet, BackwardPacket
  <2>3. CASE total = 0
    BY <1>2, <2>1, <2>2, <2>3, BackwardFromSets
  <2>4. CASE total # 0
    <3>1. /\ total = Len(written) /\ total \in Nat \ {0}
          /\ expectSeqNum = total % SeqNumModulo
          /\ expectSeqNum \in 0 .. SeqNumModulo - 1
          /\ lastConfirmedChunk \in Int /\ lastConfirmedChunk < total
      BY <1>2, <1>3, <2>4, DataNumbers DEF DataInv, Counted, ConfirmedIsWritten
    <3>2. /\ JavaRem(expectSeqNum - 1) = expectSeqNum - 1
          /\ expectSeqNum - 1 \in SeqNums
          /\ NumberOf(expectSeqNum - 1, total - 1)
          /\ total - 1 \in Nat
      <4>1. JavaRem(expectSeqNum - 1) = expectSeqNum - 1 /\ expectSeqNum - 1 \in SeqNums
        BY <3>1, ReceiverNumbers
      <4>2. SeqNumModulo > 1
        BY Sizes
      <4>3. NumberOf((total % SeqNumModulo) - 1, total - 1)
        BY <3>1, <4>2, PreviousNumber
      <4>4. total - 1 \in Nat
        BY <3>1
      <4> QED BY <3>1, <4>1, <4>3, <4>4
    <3>3. PICK a \in Packet :
            /\ a = AckPacket(JavaRem(expectSeqNum - 1), total - 1)
            /\ a.type = "ack" /\ a.pos = total - 1 /\ a.seqnum = expectSeqNum - 1
      BY <3>2, Acks
    <3>4. a \in BwdSet
      <4>1. lastConfirmedChunk <= a.pos /\ a.pos < Len(written)
        BY <3>1, <3>3
      <4>2. BackwardPacket(a)
        BY <3>2, <3>3, <4>1 DEF BackwardPacket, NumberOf
      <4> QED BY <4>2 DEF BwdSet
    <3>5. ASSUME NEW m \in 1 .. Len(toSender)
          PROVE  <<toSender[m], a>> \in BwdPairs
      <4>1. toSender[m] \in Packet /\ BackwardPacket(toSender[m])
        BY <2>1, ElementOfSeq DEF BwdSet
      <4>2. toSender[m].pos < Len(written) /\ toSender[m].pos \in Nat
        BY <1>2, <4>1 DEF BackwardPacket, Packet
      <4>3. toSender[m].pos <= a.pos
        BY <3>1, <3>3, <4>2
      <4> QED BY <4>1, <4>3 DEF BwdPairs
    <3>6. toSender' \in Seq(BwdSet') /\ InOrder(toSender', BwdPairs)
      BY <1>2, <2>1, <2>2, <2>4, <3>3, <3>4, <3>5, PutOneInOrder
    <3> QED BY <3>6, BackwardFromSets
  <2> QED BY <2>3, <2>4
<1> QED BY <1>4, <1>5, <1>6 DEF DataInv

LEMMA DataLoseForward ==
    ASSUME TypeInv, DataInv, NEW i \in Deliverable(toReceiver), LoseForward(i)
    PROVE  DataInv'
<1>1. /\ toReceiver' = RemoveAt(toReceiver, i)
      /\ UNCHANGED <<lastConfirmedChunk, lastSentChunk, expectSeqNum, total, receivedEOT,
                     written, toSender>>
  BY DEF LoseForward, sender, shared, receiver
<1>2. i \in 1 .. Len(toReceiver)
  BY DeliverableInChannel DEF TypeInv, TypeOK
<1>3. toReceiver \in Seq(FwdSet) /\ InOrder(toReceiver, FwdPairs)
  BY DataNumbers, ForwardAsSets DEF DataInv, TypeInv
<1>4. FwdSet' = FwdSet
  BY <1>1 DEF FwdSet, ForwardPacket
<1>5. ForwardInOrder'
  BY <1>1, <1>2, <1>3, <1>4, RemoveInOrder, ForwardFromSets
<1> QED BY <1>1, <1>5 DEF DataInv, WrittenInOrder, ConfirmedIsWritten, WindowRespected,
                          BackwardInOrder, BackwardPacket, Counted

LEMMA DataLoseBackward ==
    ASSUME TypeInv, DataInv, NEW i \in Deliverable(toSender), toSender' = RemoveAt(toSender, i),
           UNCHANGED <<lastConfirmedChunk, lastSentChunk, expectSeqNum, total, receivedEOT,
                       written, toReceiver>>
    PROVE  DataInv'
<1>1. i \in 1 .. Len(toSender)
  BY DeliverableInChannel DEF TypeInv, TypeOK
<1>2. toSender \in Seq(BwdSet) /\ InOrder(toSender, BwdPairs)
  BY DataNumbers, BackwardAsSets DEF DataInv, TypeInv
<1>3. BwdSet' = BwdSet
  BY DEF BwdSet, BackwardPacket
<1>4. BackwardInOrder'
  BY <1>1, <1>2, <1>3, RemoveInOrder, BackwardFromSets
<1> QED BY <1>4 DEF DataInv, WrittenInOrder, ConfirmedIsWritten, WindowRespected,
                    ForwardInOrder, ForwardPacket, Counted

LEMMA DataNext ==
    ASSUME ~Reorder, TypeInv, TypeInv', ControlInv, DataInv, [Next]_vars
    PROVE  DataInv'
<1>1. CASE FindRoom \/ WaitForSignal \/ WakeUp \/ AllSentOnce \/ TimerExpires \/ NotifyIfRoom
  <2>1. UNCHANGED <<lastConfirmedChunk, lastSentChunk, receiver, toReceiver, toSender>>
    BY <1>1 DEF FindRoom, WaitForSignal, WakeUp, AllSentOnce, TimerExpires, NotifyIfRoom, shared
  <2> QED BY <2>1, DataQuiet
<1>2. CASE SendNextPacket
  BY <1>2, DataSend
<1>3. CASE Resend
  BY <1>3, DataResend
<1>4. ASSUME NEW i \in Deliverable(toSender), ReceiveAck(i)
      PROVE  DataInv'
  BY <1>4, DataAck
<1>5. ASSUME NEW i \in Deliverable(toSender), ReceiveEotAck(i)
      PROVE  DataInv'
  BY <1>5, DataLoseBackward DEF ReceiveEotAck, receiver
<1>6. ASSUME NEW i \in Deliverable(toReceiver), Accept(i)
      PROVE  DataInv'
  BY <1>6, DataAccept
<1>7. ASSUME NEW i \in Deliverable(toReceiver), Reject(i)
      PROVE  DataInv'
  BY <1>7, DataReject
<1>8. ASSUME NEW i \in Deliverable(toReceiver), LoseForward(i)
      PROVE  DataInv'
  BY <1>8, DataLoseForward
<1>9. ASSUME NEW i \in Deliverable(toSender), LoseBackward(i)
      PROVE  DataInv'
  BY <1>9, DataLoseBackward DEF LoseBackward, sender, shared, receiver
<1>10. CASE UNCHANGED vars
  BY <1>10, DataQuiet DEF vars, sender, shared
<1> QED BY <1>1, <1>2, <1>3, <1>4, <1>5, <1>6, <1>7, <1>8, <1>9, <1>10
        DEF Next, SendingThread, ReceivingThread, Receiver, Lose

-----------------------------------------------------------------------------
(* The theorems of the ordered network. *)

IndInv == TypeInv /\ ControlInv /\ DataInv

LEMMA IndInvHolds == ASSUME ~Reorder PROVE Spec => []IndInv
<1>1. Init => IndInv
  BY TypeInit, ControlInit, DataInit DEF IndInv
<1>2. IndInv /\ [Next]_vars => IndInv'
  BY TypeNext, ControlNext, DataNext DEF IndInv
<1> QED BY <1>1, <1>2, PTL DEF Spec

\* The invariant of the ordered network: channels, counters and window together.
LEMMA OrderedSafe == ASSUME ~Reorder PROVE Spec => []OrderedInv
<1>1. IndInv => OrderedInv
  BY DEF IndInv, ControlInv, DataInv, OrderedInv
<1> QED BY IndInvHolds, <1>1, PTL

\* On a network that keeps the order the output is a prefix of the file
\* (receiver.java:38-58).
THEOREM OutputInOrder == ASSUME ~Reorder PROVE Spec => []WrittenInOrder
<1>1. OrderedInv => WrittenInOrder
  BY DEF OrderedInv
<1> QED BY OrderedSafe, <1>1, PTL

\* On such a network what the sender counts as confirmed is in the output
\* (sender.java:227-277).
THEOREM ConfirmationsTrue == ASSUME ~Reorder PROVE Spec => []ConfirmedIsWritten
<1>1. OrderedInv => ConfirmedIsWritten
  BY DEF OrderedInv
<1> QED BY OrderedSafe, <1>1, PTL

\* On such a network the sending thread is never more than a window ahead
\* (sender.java:63-109).
THEOREM WindowKept == ASSUME ~Reorder PROVE Spec => []WindowRespected
<1>1. OrderedInv => WindowRespected
  BY DEF OrderedInv
<1> QED BY OrderedSafe, <1>1, PTL

\* Steps that leave the output, the sender's account and the receiver's end alone.
LEMMA TransferQuiet ==
    ASSUME UNCHANGED <<lastConfirmedChunk, written, receivedEOT>>
    PROVE  UNCHANGED Transfer!vars
BY DEF Transfer!vars

\* Every step of the protocol is a step of the abstract transfer, or none.
LEMMA TransferStep ==
    ASSUME ~Reorder, IndInv, IndInv', [Next]_vars
    PROVE  [Transfer!Next]_(Transfer!vars)
<1> USE DEF IndInv
<1>1. ASSUME NEW i \in Deliverable(toSender), ReceiveAck(i)
      PROVE  [Transfer!Next]_(Transfer!vars)
  <2>1. PICK k \in Nat : lastConfirmedChunk <= k /\ k < Len(written) /\ lastConfirmedChunk' = k
    BY <1>1, AckUnderstood
  <2>2. UNCHANGED <<written, receivedEOT>>
    BY <1>1 DEF ReceiveAck, receiver
  <2>3. lastConfirmedChunk \in Int /\ Len(written) \in Nat
    BY DataNumbers DEF TypeInv
  <2>4. CASE k = lastConfirmedChunk
    BY <2>1, <2>2, <2>4, TransferQuiet
  <2>5. CASE k # lastConfirmedChunk
    <3>1. lastConfirmedChunk' + 1 \in (lastConfirmedChunk + 1) + 1 .. Len(written)
      BY <2>1, <2>3, <2>5
    <3> QED BY <2>2, <3>1 DEF Transfer!Next, Transfer!Confirm
  <2> QED BY <2>4, <2>5
<1>2. ASSUME NEW i \in Deliverable(toReceiver), Accept(i)
      PROVE  [Transfer!Next]_(Transfer!vars)
  <2>1. /\ i = 1 /\ toReceiver[1].pos = total /\ total = Len(written)
        /\ ForwardPacket(toReceiver[1])
    BY <1>2, AcceptedInPosition
  <2>2. /\ ~receivedEOT /\ receivedEOT' = (toReceiver[1].type = "eot")
        /\ written' = IF toReceiver[1].type = "eot" THEN written ELSE Append(written, total)
        /\ UNCHANGED lastConfirmedChunk
    BY <1>2, <2>1 DEF Accept, sender, shared
  <2>3. CASE toReceiver[1].type = "eot"
    BY <2>2, <2>3 DEF Transfer!Next, Transfer!Close
  <2>4. CASE toReceiver[1].type # "eot"
    <3>1. Len(written) < NumChunks
      <4>1. total <= lastSentChunk
        BY <2>1, <2>4 DEF ForwardPacket
      <4>2. lastSentChunk <= NumChunks - 1 /\ lastSentChunk \in Int /\ NumChunks \in Int
        BY Sizes DEF TypeInv, TypeOK
      <4> QED BY <2>1, <4>1, <4>2, DataNumbers DEF TypeInv
    <3>2. receivedEOT' = receivedEOT
      <4>1. receivedEOT = FALSE
        BY <2>2 DEF TypeInv, TypeOK
      <4>2. receivedEOT' = FALSE
        BY <2>2, <2>4
      <4> QED BY <4>1, <4>2
    <3> QED BY <2>1, <2>2, <2>4, <3>1, <3>2 DEF Transfer!Next, Transfer!WriteNext
  <2> QED BY <2>3, <2>4
<1>3. CASE \/ FindRoom \/ WaitForSignal \/ WakeUp \/ SendNextPacket \/ AllSentOnce
           \/ TimerExpires \/ Resend \/ NotifyIfRoom
  BY <1>3, TransferQuiet
     DEF FindRoom, WaitForSignal, WakeUp, SendNextPacket, AllSentOnce, TimerExpires, Resend,
         NotifyIfRoom, shared, receiver
<1>4. ASSUME NEW i \in Deliverable(toSender), ReceiveEotAck(i)
      PROVE  [Transfer!Next]_(Transfer!vars)
  BY <1>4, TransferQuiet DEF ReceiveEotAck, receiver
<1>5. ASSUME NEW i \in Deliverable(toReceiver), Reject(i)
      PROVE  [Transfer!Next]_(Transfer!vars)
  BY <1>5, TransferQuiet DEF Reject, sender, shared, receiver
<1>6. CASE Lose \/ UNCHANGED vars
  BY <1>6, TransferQuiet DEF Lose, LoseForward, LoseBackward, vars, sender, shared, receiver
<1> QED BY <1>1, <1>2, <1>3, <1>4, <1>5, <1>6
        DEF Next, SendingThread, ReceivingThread, Receiver

\* On a network that keeps the order the protocol implements the safety part of
\* the abstract transfer.
THEOREM ImplementsTransferSafely == ASSUME ~Reorder PROVE Spec => Transfer!Spec
<1>1. Init => Transfer!Init
  BY DEF Init, Transfer!Init
<1>2. IndInv /\ IndInv' /\ [Next]_vars => [Transfer!Next]_(Transfer!vars)
  BY TransferStep
<1> QED BY IndInvHolds, <1>1, <1>2, PTL DEF Spec, Transfer!Spec

\* The step property of the ordered network: an ACK moves the sender's account to the
\* position it was sent for, and never back.
THEOREM AckMoves == ASSUME ~Reorder PROVE Spec => AckMovesToItsPosition
<1> DEFINE Moved == lastConfirmedChunk' # lastConfirmedChunk =>
                      /\ lastConfirmedChunk' > lastConfirmedChunk
                      /\ \E i \in DOMAIN toSender : toSender[i].pos = lastConfirmedChunk'
<1>1. IndInv /\ [Next]_vars => [Moved]_vars
  <2> SUFFICES ASSUME IndInv, [Next]_vars PROVE [Moved]_vars
    OBVIOUS
  <2>1. ASSUME NEW i \in Deliverable(toSender), ReceiveAck(i) PROVE Moved
    <3>1. /\ 1 \in 1 .. Len(toSender) /\ toSender[1].pos \in Nat
          /\ lastConfirmedChunk <= toSender[1].pos /\ lastConfirmedChunk' = toSender[1].pos
      BY <2>1, AckUnderstood DEF IndInv
    <3>2. lastConfirmedChunk \in Int /\ 1 \in DOMAIN toSender
      BY <3>1, DataNumbers, LenProperties DEF IndInv, TypeInv
    <3> QED BY <3>1, <3>2
  <2>2. ASSUME UNCHANGED lastConfirmedChunk PROVE Moved
    BY <2>2
  <2> QED BY <2>1, <2>2
          DEF Next, SendingThread, FindRoom, WaitForSignal, WakeUp, SendNextPacket, AllSentOnce,
              TimerExpires, Resend, ReceivingThread, NotifyIfRoom, ReceiveEotAck, Receiver,
              Accept, Reject, Lose, LoseForward, LoseBackward, vars, sender, shared
<1>2. Spec => [][Moved]_vars
  <2> HIDE DEF Moved
  <2> QED BY IndInvHolds, <1>1, PTL DEF Spec
<1> QED BY <1>2 DEF AckMovesToItsPosition
=============================================================================
