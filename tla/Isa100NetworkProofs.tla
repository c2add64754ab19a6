------------------------ MODULE Isa100NetworkProofs ------------------------
(***************************************************************************)
(* Proofs about the nodes of a network together: the transmit powers of    *)
(* links, the header as it travels, and what holds of every network that   *)
(* is well formed, whatever its schedules, routes and medium.              *)
(***************************************************************************)
EXTENDS Isa100Network, LoopProofs

-----------------------------------------------------------------------------
(* Transmit powers *)

\* Rounding up to dBm loses nothing (SetTxPowersDbm).
LEMMA CeilSuffices ==
  ASSUME NEW half \in Int
  PROVE  Ceil(half) \in Int /\ 2 * Ceil(half) >= half /\ 2 * Ceil(half) <= half + 1
BY DEF Ceil

\* The power stored for a link that is in range is in the six bits of the PHY
\* and reaches the other end (CalculateTxPowers, SetTxPowersDbm).
THEOREM StoredPowerReaches ==
  ASSUME NEW half \in Int, InRange(half)
  PROVE  StoredPower(half) \in -32 .. 31 /\ 2 * StoredPower(half) >= half
<1>1. Ceil(half) \in Int /\ 2 * Ceil(half) >= half
  BY CeilSuffices
<1>2. half <= 2 * MaxTxPowerDbm
  BY <1>1, TxPowerAssumption DEF InRange
<1>3. CASE half < 2 * MinTxPowerDbm
  BY <1>2, <1>3, TxPowerAssumption DEF StoredPower, SixBits
<1>4. CASE ~(half < 2 * MinTxPowerDbm)
  BY <1>1, <1>2, <1>4, TxPowerAssumption DEF StoredPower, SixBits, InRange
<1> QED BY <1>3, <1>4

\* Of the powers six bits can hold the PHY refuses the negative ones, and those
\* only: compared without a sign they are above 0xbf (PlmeSetAttributeRequest).
THEOREM NegativePowersRefused ==
  ASSUME NEW val \in -32 .. 31
  PROVE  PowerAccepted(val) <=> val >= 0
BY DEF PowerAccepted

\* A node whose PHY refuses the power of a link sends with the power of the frame
\* before, which is one it once accepted: it still reaches the next hop.
THEOREM RefusedPowerReaches ==
  ASSUME NEW half \in Int, InRange(half), NEW old \in 0 .. 31
  PROVE  /\ PhyTransmitPower(old, StoredPower(half)) \in 0 .. 31
         /\ 2 * PhyTransmitPower(old, StoredPower(half)) >= half
<1> DEFINE val == StoredPower(half)
<1>1. val \in -32 .. 31 /\ 2 * val >= half
  BY StoredPowerReaches
<1>2. PowerAccepted(val) <=> val >= 0
  BY <1>1, NegativePowersRefused
<1> QED BY <1>1, <1>2 DEF PhyTransmitPower

-----------------------------------------------------------------------------
(* The header *)

Headers == [daddrSrc : Nat, daddrDst : Nat, src : Nat, dst : Nat, route : Seq(Nat)]
Payloads == {payload \in Seq(Nat) : Len(payload) = 2}

\* A sequence begins where the one before it ends.
LEMMA AfterEachOther ==
  ASSUME NEW s \in Seq(Nat), NEW t \in Seq(Nat)
  PROVE  /\ s \o t \in Seq(Nat) /\ Len(s \o t) = Len(s) + Len(t)
         /\ \A k \in 1 .. Len(s) : (s \o t)[k] = s[k]
         /\ \A k \in 1 .. Len(t) : (s \o t)[Len(s) + k] = t[k]
<1>1. \A k \in 1 .. Len(t) : k \in DOMAIN t /\ k + Len(s) = Len(s) + k
  OBVIOUS
<1> QED
  BY <1>1, Joined

\* A sequence that stands in another one from a place on is what SubSeq finds.
LEMMA PartOf ==
  ASSUME NEW R, NEW s \in Seq(R), NEW t \in Seq(R), NEW m \in Nat, NEW n \in Int,
         n = m + Len(t), n <= Len(s), \A k \in 1 .. Len(t) : s[m + k] = t[k]
  PROVE  SubSeq(s, m + 1, n) = t
<1> DEFINE p == SubSeq(s, m + 1, n)
<1>1. /\ Len(t) \in Nat /\ Len(s) \in Nat /\ m + 1 \in Int /\ n - (m + 1) + 1 = Len(t)
      /\ \A i \in (m + 1) .. n : i \in 1 .. Len(s) /\ s[i] \in R
  OBVIOUS
<1>2. /\ p \in Seq(R) /\ Len(p) = IF m + 1 <= n THEN n - (m + 1) + 1 ELSE 0
      /\ \A i \in 1 .. n - (m + 1) + 1 : p[i] = s[(m + 1) + i - 1]
  <2>1. PICK a : a = m + 1
    OBVIOUS
  <2>2. a \in Int /\ \A i \in a .. n : s[i] \in R
    BY <1>1, <2>1
  <2>3. /\ SubSeq(s, a, n) \in Seq(R) /\ Len(SubSeq(s, a, n)) = IF a <= n THEN n - a + 1 ELSE 0
        /\ \A i \in 1 .. n - a + 1 : SubSeq(s, a, n)[i] = s[a + i - 1]
    BY <2>2, SubSeqProperties
  <2> QED
    BY <2>1, <2>3, Zenon
<1> HIDE DEF p
<1>3. Len(p) = Len(t)
  BY <1>1, <1>2
<1>4. ASSUME NEW i \in 1 .. Len(t) PROVE p[i] = t[i]
  <2>1. (m + 1) + i - 1 = m + i
    OBVIOUS
  <2> QED
    BY <1>1, <1>2, <2>1
<1>5. p = t
  BY <1>2, <1>3, <1>4, SeqEqual
<1> QED
  BY <1>5 DEF p

\* Where the parts of a packet stand.
HasParts(packet, header, payload) ==
  LET n == Len(header.route)
  IN  /\ n \in Nat /\ packet \in Seq(Nat) /\ Len(packet) = (5 + n) + Len(payload)
      /\ packet[1] = header.dst /\ packet[2] = header.src /\ packet[3] = n
      /\ \A k \in 1 .. n : packet[3 + k] = header.route[k]
      /\ packet[4 + n] = header.daddrSrc /\ packet[5 + n] = header.daddrDst
      /\ \A k \in 1 .. Len(payload) : packet[(5 + n) + k] = payload[k]

LEMMA Places ==
  ASSUME NEW header \in Headers, NEW payload \in Seq(Nat)
  PROVE  HasParts(AddHeader(header, payload), header, payload)
<1>0. PICK packet, n : packet = AddHeader(header, payload) /\ n = Len(header.route)
  OBVIOUS
<1> DEFINE a == <<header.dst, header.src, n>>
           b == header.route
           c == <<header.daddrSrc, header.daddrDst>>
<1>1. n \in Nat /\ header.dst \in Nat /\ header.src \in Nat /\ b \in Seq(Nat)
      /\ header.daddrSrc \in Nat /\ header.daddrDst \in Nat
  BY <1>0 DEF Headers
<1>2. /\ a \in Seq(Nat) /\ Len(a) = 3 /\ a[1] = header.dst /\ a[2] = header.src /\ a[3] = n
      /\ c \in Seq(Nat) /\ Len(c) = 2 /\ c[1] = header.daddrSrc /\ c[2] = header.daddrDst
  BY <1>1
<1>3. packet = ((a \o b) \o c) \o payload
  BY <1>0 DEF AddHeader, Serialize
<1> HIDE DEF a, b, c
<1>4. /\ a \o b \in Seq(Nat) /\ Len(a \o b) = 3 + n
      /\ \A k \in 1 .. 3 : (a \o b)[k] = (a)[k]
      /\ \A k \in 1 .. n : (a \o b)[3 + k] = b[k]
  <2> DEFINE s == a
             t == b
  <2> HIDE DEF s, t
  <2>1. /\ s \in Seq(Nat) /\ t \in Seq(Nat) /\ Len(s) = 3 /\ Len(t) = n
    BY <1>0, <1>1, <1>2 DEF s, t, b
  <2>2. /\ s \o t \in Seq(Nat) /\ Len(s \o t) = Len(s) + Len(t)
        /\ \A k \in 1 .. Len(s) : (s \o t)[k] = s[k]
        /\ \A k \in 1 .. Len(t) : (s \o t)[Len(s) + k] = t[k]
    BY <2>1, AfterEachOther, Zenon
  <2>3. /\ s \o t \in Seq(Nat) /\ Len(s \o t) = 3 + n
        /\ \A k \in 1 .. 3 : (s \o t)[k] = s[k]
        /\ \A k \in 1 .. n : (s \o t)[3 + k] = t[k]
    BY ONLY <2>1, <2>2, Zenon
  <2> QED
    BY <2>3 DEF s, t
<1>5. Len(b) = n /\ (3 + n) + 2 = 5 + n
  BY <1>0, <1>1 DEF b
<1>6. /\ (a \o b) \o c \in Seq(Nat) /\ Len((a \o b) \o c) = (3 + n) + 2
      /\ \A k \in 1 .. (3 + n) : ((a \o b) \o c)[k] = (a \o b)[k]
      /\ \A k \in 1 .. 2 : ((a \o b) \o c)[(3 + n) + k] = c[k]
  <2> DEFINE s == a \o b
             t == c
  <2> HIDE DEF s, t
  <2>1. /\ s \in Seq(Nat) /\ t \in Seq(Nat) /\ Len(s) = (3 + n) /\ Len(t) = 2
    BY <1>2, <1>4 DEF s, t
  <2>2. /\ s \o t \in Seq(Nat) /\ Len(s \o t) = Len(s) + Len(t)
        /\ \A k \in 1 .. Len(s) : (s \o t)[k] = s[k]
        /\ \A k \in 1 .. Len(t) : (s \o t)[Len(s) + k] = t[k]
    BY <2>1, AfterEachOther, Zenon
  <2>3. /\ s \o t \in Seq(Nat) /\ Len(s \o t) = (3 + n) + 2
        /\ \A k \in 1 .. (3 + n) : (s \o t)[k] = s[k]
        /\ \A k \in 1 .. 2 : (s \o t)[(3 + n) + k] = t[k]
    BY ONLY <2>1, <2>2, Zenon
  <2> QED
    BY <2>3 DEF s, t
<1>7. /\ packet \in Seq(Nat) /\ Len(packet) = (5 + n) + Len(payload)
      /\ \A k \in 1 .. (5 + n) : (packet)[k] = ((a \o b) \o c)[k]
      /\ \A k \in 1 .. Len(payload) : (packet)[(5 + n) + k] = payload[k]
  <2> DEFINE s == (a \o b) \o c
             t == payload
  <2> HIDE DEF s, t
  <2>1. /\ s \in Seq(Nat) /\ t \in Seq(Nat) /\ Len(s) = (5 + n) /\ Len(t) = Len(payload)
    BY <1>5, <1>6 DEF s, t
  <2>2. /\ s \o t \in Seq(Nat) /\ Len(s \o t) = Len(s) + Len(t)
        /\ \A k \in 1 .. Len(s) : (s \o t)[k] = s[k]
        /\ \A k \in 1 .. Len(t) : (s \o t)[Len(s) + k] = t[k]
    BY <2>1, AfterEachOther, Zenon
  <2>3. /\ s \o t \in Seq(Nat) /\ Len(s \o t) = (5 + n) + Len(payload)
        /\ \A k \in 1 .. (5 + n) : (s \o t)[k] = s[k]
        /\ \A k \in 1 .. Len(payload) : (s \o t)[(5 + n) + k] = t[k]
    BY ONLY <2>1, <2>2, Zenon
  <2> QED
    BY <2>3, <1>3 DEF s, t
<1>8. /\ 1 \in 1 .. 3 /\ 2 \in 1 .. 3 /\ 3 \in 1 .. 3
      /\ \A k \in 1 .. 3 : k \in 1 .. 3 + n /\ k \in 1 .. 5 + n
      /\ \A k \in 1 .. n : 3 + k \in 1 .. 3 + n /\ 3 + k \in 1 .. 5 + n
      /\ 4 + n \in 1 .. 5 + n /\ 5 + n \in 1 .. 5 + n
      /\ 1 \in 1 .. 2 /\ 2 \in 1 .. 2 /\ (3 + n) + 1 = 4 + n /\ (3 + n) + 2 = 5 + n
  BY <1>1
<1>9. packet[1] = header.dst /\ packet[2] = header.src /\ packet[3] = n
  <2>1. ASSUME NEW k \in 1 .. 3 PROVE packet[k] = a[k]
    BY <1>4, <1>6, <1>7, <1>8, Zenon
  <2> QED
    BY <1>2, <1>8, <2>1, Zenon
<1>10. ASSUME NEW k \in 1 .. n PROVE packet[3 + k] = header.route[k]
  <2>1. 3 + k \in 1 .. 3 + n /\ 3 + k \in 1 .. 5 + n
    BY <1>8
  <2>2. /\ (a \o b)[3 + k] = b[k]
        /\ ((a \o b) \o c)[3 + k] = (a \o b)[3 + k]
        /\ packet[3 + k] = ((a \o b) \o c)[3 + k]
    BY <1>4, <1>6, <1>7, <2>1, Zenon
  <2> QED
    BY <2>2 DEF b
<1>11. packet[4 + n] = header.daddrSrc /\ packet[5 + n] = header.daddrDst
  <2>1. /\ ((a \o b) \o c)[(3 + n) + 1] = c[1] /\ ((a \o b) \o c)[(3 + n) + 2] = c[2]
        /\ packet[4 + n] = ((a \o b) \o c)[4 + n] /\ packet[5 + n] = ((a \o b) \o c)[5 + n]
    BY <1>6, <1>7, <1>8, Zenon
  <2> QED
    BY <1>2, <1>8, <2>1
<1> QED
  BY <1>0, <1>1, <1>7, <1>9, <1>10, <1>11 DEF HasParts

\* A header that is taken off a packet is the one that was put on it, and what is
\* left is the payload.
LEMMA HeaderComesBack ==
  ASSUME NEW header \in Headers, NEW payload \in Seq(Nat)
  PROVE  /\ AddHeader(header, payload) \in Seq(Nat)
         /\ Deserialize(AddHeader(header, payload)) = header
         /\ RemoveHeader(AddHeader(header, payload)) = payload
<1>0. PICK packet, n : packet = AddHeader(header, payload) /\ n = Len(header.route)
  OBVIOUS
<1>1. /\ n \in Nat /\ packet \in Seq(Nat) /\ Len(packet) = (5 + n) + Len(payload)
      /\ packet[1] = header.dst /\ packet[2] = header.src /\ packet[3] = n
      /\ \A k \in 1 .. n : packet[3 + k] = header.route[k]
      /\ packet[4 + n] = header.daddrSrc /\ packet[5 + n] = header.daddrDst
      /\ \A k \in 1 .. Len(payload) : packet[(5 + n) + k] = payload[k]
  <2>1. HasParts(packet, header, payload)
    BY <1>0, Places
  <2> QED
    BY <1>0, <2>1 DEF HasParts
<1>2. SubSeq(packet, 4, 3 + n) = header.route
  <2>1. /\ header.route \in Seq(Nat) /\ 3 \in Nat /\ 3 + n \in Int /\ 3 + 1 = 4
        /\ 3 + n = 3 + Len(header.route) /\ 3 + n <= Len(packet)
    BY <1>0, <1>1 DEF Headers
  <2>2. \A k \in 1 .. Len(header.route) : packet[3 + k] = header.route[k]
    BY <1>0, <1>1
  <2>3. SubSeq(packet, 3 + 1, 3 + n) = header.route
    BY <1>1, <2>1, <2>2, PartOf
  <2> QED
    BY <2>1, <2>3
<1>3. Deserialize(packet) = header
  <2>1. header = [dst |-> header.dst, src |-> header.src, route |-> header.route,
                  daddrSrc |-> header.daddrSrc, daddrDst |-> header.daddrDst]
    BY DEF Headers
  <2>2. Deserialize(packet) = [dst |-> packet[1], src |-> packet[2],
                               route |-> SubSeq(packet, 4, 3 + packet[3]),
                               daddrSrc |-> packet[4 + packet[3]],
                               daddrDst |-> packet[5 + packet[3]]]
    BY DEF Deserialize
  <2> QED
    BY <1>1, <1>2, <2>1, <2>2, Zenon
<1>4. RemoveHeader(packet) = payload
  <2>1. SerializedSize(Deserialize(packet)) = 5 + n
    BY <1>0, <1>3 DEF SerializedSize, Headers
  <2>2. RemoveHeader(packet) = SubSeq(packet, (5 + n) + 1, Len(packet))
    BY <2>1 DEF RemoveHeader
  <2>3. /\ 5 + n \in Nat /\ Len(packet) \in Int /\ Len(packet) <= Len(packet)
    BY <1>1
  <2>4. SubSeq(packet, (5 + n) + 1, Len(packet)) = payload
    BY <1>1, <2>3, PartOf
  <2> QED
    BY <2>2, <2>4
<1> QED
  BY <1>0, <1>1, <1>3, <1>4

-----------------------------------------------------------------------------
(* The routes *)

\* Setting the hops of a route one by one in an empty one gives the route.
LEMMA RouteSetFromNothing ==
  ASSUME NEW hops \in Seq(Nat)
  PROVE  RouteSet(<<>>, hops) = hops
<1> DEFINE n == Len(hops)
           part(h) == [i \in 1 .. h |-> hops[i]]
           Follows(f) ==
             f = [h \in 0 .. n |-> IF h = 0 THEN <<>>
                                  ELSE SetSourceRouteHop(f[h - 1], h - 1, hops[h])]
<1>0. n \in Nat
  OBVIOUS
<1>1. ASSUME NEW h \in 1 .. n PROVE SetSourceRouteHop(part(h - 1), h - 1, hops[h]) = part(h)
  <2>1. /\ h \in Nat /\ h - 1 \in Nat /\ (h - 1) + 1 = h /\ h > h - 1
        /\ \A i \in 1 .. h : i \in 1 .. n /\ hops[i] \in Nat /\ (i # h => i \in 1 .. h - 1)
    OBVIOUS
  <2>2. part(h - 1) \in [1 .. h - 1 -> Nat]
    BY <2>1
  <2>3. Len(part(h - 1)) = h - 1
    BY <2>1, <2>2, FunctionIsSequence
  <2>4. SetSourceRouteHop(part(h - 1), h - 1, hops[h]) =
          [i \in 1 .. h |-> IF i = h THEN hops[h] ELSE part(h - 1)[i]]
    <3> HIDE DEF part
    <3> QED
      BY <2>1, <2>3 DEF SetSourceRouteHop
  <2>5. \A i \in 1 .. h : (IF i = h THEN hops[h] ELSE part(h - 1)[i]) = hops[i]
    BY <2>1
  <2> QED
    BY <2>4, <2>5
<1>2. part(0) = <<>>
  OBVIOUS
<1>3. Follows([h \in 0 .. n |-> part(h)])
  <2> DEFINE f == [h \in 0 .. n |-> part(h)]
  <2>1. ASSUME NEW h \in 0 .. n, h # 0
        PROVE  f[h] = SetSourceRouteHop(f[h - 1], h - 1, hops[h])
    <3>1. h \in 1 .. n /\ h - 1 \in 0 .. n
      BY <1>0, <2>1
    <3>2. f[h] = part(h) /\ f[h - 1] = part(h - 1)
      BY <3>1
    <3> HIDE DEF f, part
    <3> QED
      BY <1>1, <3>1, <3>2
  <2>2. 0 \in 0 .. n
    BY <1>0
  <2>3. f[0] = <<>>
    BY <1>2, <2>2
  <2>4. f = [h \in 0 .. n |-> f[h]]
    OBVIOUS
  <2> HIDE DEF f, part
  <2> QED
    BY <2>1, <2>3, <2>4 DEF f
<1>4. PICK f : f = CHOOSE g : Follows(g)
  OBVIOUS
<1>5. RouteSet(<<>>, hops) = f[n]
  BY <1>4 DEF RouteSet
<1>6. Follows(f)
  <2> HIDE DEF Follows
  <2> QED
    BY <1>3, <1>4
<1>7. ASSUME NEW h \in 0 .. n PROVE f[h] = part(h)
  <2> DEFINE Bad == {k \in 0 .. n : f[k] # part(k)}
  <2> SUFFICES ASSUME Bad # {} PROVE FALSE
    OBVIOUS
  <2>1. Bad \in SUBSET Nat
    OBVIOUS
  <2>2. PICK k \in Bad : \A j \in Bad : k <= j
    <3> HIDE DEF Bad
    <3> QED
      BY <2>1, LeastNatural
  <2> HIDE DEF part
  <2>3. k \in 0 .. n /\ f[k] # part(k) /\ k # 0
    BY <1>0, <1>2, <1>6, <2>2
  <2>4. k \in 1 .. n /\ k - 1 \in 0 .. n /\ ~(k <= k - 1)
    BY <1>0, <2>3
  <2>5. f[k - 1] = part(k - 1)
    BY <2>2, <2>4
  <2>6. f[k] = SetSourceRouteHop(f[k - 1], k - 1, hops[k])
    BY <1>6, <2>3
  <2> QED
    BY <1>1, <2>3, <2>4, <2>5, <2>6
<1>8. part(n) = hops
  OBVIOUS
<1>9. n \in 0 .. n
  BY <1>0
<1> HIDE DEF part, n
<1> QED
  BY <1>5, <1>7, <1>8, <1>9

\* The text of a route gives the route again: CalculateSourceRouteStrings writes it
\* hop by hop with spaces between, the constructor of the routing algorithm looks for
\* the spaces.
THEOREM HopsComeBack ==
  ASSUME NEW route \in Seq(Nat), route # <<>>
  PROVE  Hops(RouteString(route)) = route
<1> DEFINE L == Len(route)
           text == RouteString(route)
           At == {i \in DOMAIN text : text[i] = Space}
           evens == [k \in 1 .. L - 1 |-> 2 * k]
<1>1. L \in Nat /\ L >= 1 /\ route \in [1 .. L -> Nat]
  <2>1. L \in Nat /\ route \in [1 .. L -> Nat]
    OBVIOUS
  <2> QED
    BY <2>1
<1>2. /\ \A k \in 1 .. L : 2 * k - 1 \in 1 .. 2 * L - 1 /\ (2 * k - 1) % 2 = 1
                           /\ (2 * k - 1 + 1) \div 2 = k
      /\ \A k \in 1 .. L - 1 : 2 * k \in 1 .. 2 * L - 1 /\ (2 * k) % 2 = 0
      /\ \A i \in 1 .. 2 * L - 1 : \/ \E k \in 1 .. L : i = 2 * k - 1
                                   \/ \E k \in 1 .. L - 1 : i = 2 * k
  <2>1. L \in Nat /\ L >= 1
    BY <1>1
  <2> HIDE DEF L
  <2>2. ASSUME NEW k \in 1 .. L
        PROVE  /\ 2 * k - 1 \in 1 .. 2 * L - 1 /\ (2 * k - 1) % 2 = 1
               /\ (2 * k - 1 + 1) \div 2 = k
    BY ONLY <2>1, <2>2
  <2>3. ASSUME NEW k \in 1 .. L - 1
        PROVE  2 * k \in 1 .. 2 * L - 1 /\ (2 * k) % 2 = 0
    BY ONLY <2>1, <2>3
  <2>4. ASSUME NEW i \in 1 .. 2 * L - 1
        PROVE  \/ \E k \in 1 .. L : i = 2 * k - 1
               \/ \E k \in 1 .. L - 1 : i = 2 * k
    <3>1. PICK h : h = (i + 1) \div 2
      OBVIOUS
    <3>2. h \in 1 .. L /\ (i = 2 * h - 1 \/ i = 2 * h)
      BY ONLY <2>1, <2>4, <3>1
    <3>3. i = 2 * h => h \in 1 .. L - 1
      BY ONLY <2>1, <2>4, <3>2
    <3> QED
      BY <3>2, <3>3
  <2> QED
    BY <2>2, <2>3, <2>4
<1>3. /\ DOMAIN text = 1 .. 2 * L - 1
      /\ \A k \in 1 .. L : text[2 * k - 1] = route[k]
      /\ \A k \in 1 .. L - 1 : text[2 * k] = Space
  BY <1>1, <1>2 DEF RouteString
<1> HIDE DEF text
<1>4. At = {2 * k : k \in 1 .. L - 1}
  <2> HIDE DEF L
  <2>1. ASSUME NEW k \in 1 .. L PROVE text[2 * k - 1] # Space
    <3>1. text[2 * k - 1] = route[k] /\ route[k] \in Nat
      BY <1>1, <1>3
    <3> QED
      BY <3>1 DEF Space
  <2>2. ASSUME NEW i \in At PROVE \E k \in 1 .. L - 1 : i = 2 * k
    BY <1>2, <1>3, <2>1, <2>2
  <2>3. ASSUME NEW k \in 1 .. L - 1 PROVE 2 * k \in At
    BY <1>2, <1>3, <2>3
  <2> QED
    BY <2>2, <2>3
<1>5. /\ evens \in Seq(At) /\ Len(evens) = L - 1 /\ Range(evens) = At
      /\ \A a, b \in DOMAIN evens : a < b => evens[a] < evens[b]
  <2>1. L - 1 \in Nat /\ evens \in [1 .. L - 1 -> At]
    BY <1>1, <1>4
  <2>2. evens \in Seq(At) /\ Len(evens) = L - 1
    <3> HIDE DEF evens, At, L
    <3> QED
      BY <2>1, FunctionIsSequence
  <2>3. Range(evens) = At
    BY <1>1, <1>4 DEF Range
  <2>4. \A a, b \in DOMAIN evens : a < b => evens[a] < evens[b]
    BY <1>1
  <2> QED
    BY <2>2, <2>3, <2>4
<1>6. At \in SUBSET Int /\ IsFiniteSet(At)
  <2>1. IsFiniteSet(1 .. 2 * L - 1)
    BY <1>1, FS_Interval
  <2>2. At \subseteq 1 .. 2 * L - 1
    BY <1>3
  <2> QED
    BY <1>1, <2>1, <2>2, FS_Subset
<1>7. Spaces(text) = evens
  <2> HIDE DEF evens
  <2>1. Ascending(At) = evens
    <3> HIDE DEF At
    <3> QED
      BY <1>5, <1>6, AscendingIs
  <2> QED
    BY <2>1 DEF Spaces
<1>8. Len(text) = 2 * L - 1
  <2>1. PICK m : m = 2 * L - 1
    OBVIOUS
  <2>2. m \in Nat /\ text = [i \in 1 .. m |-> IF i % 2 = 1 THEN route[(i + 1) \div 2] ELSE Space]
    BY <1>1, <2>1 DEF text, RouteString
  <2> QED
    BY <2>1, <2>2
<1>9. PICK ends : ends = Append(evens, 2 * L)
  OBVIOUS
<1>10. /\ DOMAIN ends = 1 .. L
       /\ \A h \in 1 .. L : ends[h] = 2 * h
  <2>1. evens \in Seq(Int)
    BY <1>5, <1>6
  <2>2. \A h \in 1 .. L - 1 : evens[h] = 2 * h
    OBVIOUS
  <2> HIDE DEF evens
  <2> HIDE DEF L
  <2>3. Len(ends) = L /\ \A h \in 1 .. L : ends[h] = IF h = L THEN 2 * L ELSE evens[h]
    BY <1>1, <1>5, <1>9, <2>1
  <2>4. DOMAIN ends = 1 .. Len(ends)
    BY <1>1, <1>9, <2>1
  <2>5. ASSUME NEW h \in 1 .. L, h # L PROVE h \in 1 .. L - 1
    BY <1>1, <2>5
  <2> QED
    BY <2>2, <2>3, <2>4, <2>5
<1>11. Hops(text) = [h \in DOMAIN ends |-> text[ends[h] - 1]]
  BY <1>1, <1>7, <1>8, <1>9 DEF Hops
<1>12. Hops(text) = [h \in 1 .. L |-> route[h]]
  BY <1>3, <1>10, <1>11
<1> QED
  BY <1>1, <1>12 DEF text

-----------------------------------------------------------------------------
(* What holds of every node and of every packet *)

\* Where a packet that node n holds may go: what is left of its route, or, from a
\* node without routes, to node 0.
OnRoute(config, n, header) ==
  LET source == header.daddrSrc
      route  == RouteFrom(config, source, header.daddrDst)
  IN  /\ source \in DOMAIN config.links
      /\ IF config.routing[source] = NoRouting
         THEN /\ source = n /\ header.dst = 0
              /\ 0 \in DOMAIN config.links /\ config.routing[0] = NoRouting
         ELSE /\ header.daddrDst \in DOMAIN config.routing[source]
              /\ \E k \in 1 .. Len(route) - 1 :
                   /\ route[k] = n /\ header.src = n
                   /\ header.dst = route[k + 1]
                   /\ header.route = SubSeq(route, k + 1, Len(route))

Held(config, n, packet) ==
  /\ packet = AddHeader(Deserialize(packet), RemoveHeader(packet))
  /\ Deserialize(packet) \in Headers
  /\ RemoveHeader(packet) \in Payloads
  /\ OnRoute(config, n, Deserialize(packet))

Frames == [packet : Seq(Nat), rxPow : Int]

NodeStates(config, n) ==
  [link : DOMAIN config.links[n], hop : DOMAIN config.pattern, wait : Int, idle : BOOLEAN,
   backoff : 0 .. MaxBackoff, xmit : {"none", "TX_ON", "CCA"}, radio : {"OFF", "RX", "TX"},
   channel : Nat, queue : Seq(Seq(Nat)), receiving : SUBSET DOMAIN config.links,
   heard : {NoFrame} \cup Frames, table : [DOMAIN config.links -> Int], applied : 0 .. 31,
   sent : Nat]

\* A power is the one the link needs, unless it has been learned of a link into n.
Stored(config, n, m, power) ==
  \/ power = StoredPower(config.required[n][m])
  \/ /\ power \in -32 .. 31
     /\ IsHop(config, m, n) /\ config.routing[n] # NoRouting

NodeInv(config, n, me) ==
  /\ me \in NodeStates(config, n)
  /\ \A i \in DOMAIN me.queue : Held(config, n, me.queue[i])
  /\ me.heard # NoFrame => \E s \in DOMAIN config.links : Held(config, s, me.heard.packet)
  /\ config.powerControl => \A m \in DOMAIN config.links : Stored(config, n, m, me.table[m])

\* What node n sends gets to its next hop.
Reaches(config, n, me) ==
  LET required == config.required[n][Deserialize(Head(me.queue)).dst]
  IN  config.powerControl /\ InRange(required) => 2 * me.applied >= required

\* The state of the medium and what the nodes will do in this slot fit together.
MediumInv ==
  /\ phase \in {"XMIT", "RX"} /\ air \subseteq Members
  /\ phase = "RX" => air = {} /\ \A n \in Members : nodes[n].xmit = "none"
  /\ \A n \in Members : /\ nodes[n].xmit = "TX_ON" => air = {}
                        /\ nodes[n].xmit = "CCA" => nodes[n].queue # <<>>
                        /\ \A m \in nodes[n].receiving : m \in air /\ Hears(nodes, n, m)
  /\ \A n \in air : /\ nodes[n].xmit = "none" /\ nodes[n].queue # <<>>
                    /\ nodes[n].radio = "TX" /\ nodes[n].receiving = {}
                    /\ Reaches(net, n, nodes[n])

NetRunning ==
  /\ Running
  /\ WellFormed(net) /\ (net.powerControl => OneWay(net))
  /\ DOMAIN nodes = Members
  /\ \A n \in Members : NodeInv(net, n, nodes[n])
  /\ MediumInv

NetInv ==
  /\ ~Running => phase = "RX" /\ air = {} /\ slot = 0
  /\ Running => NetRunning

-----------------------------------------------------------------------------
(* Packets on their routes *)

LEMMA SetUp ==
  ASSUME NEW config, WellFormed(config), NEW n \in DOMAIN config.links
  PROVE  /\ n \in Nat /\ config.period \in Nat /\ config.powerControl \in BOOLEAN
         /\ config.pattern \in Seq(Nat) /\ config.pattern # <<>>
         /\ config.links[n] \in Seq([slot : Nat, type : LinkTypes]) /\ config.links[n] # <<>>
         /\ \A m \in DOMAIN config.links : config.required[n][m] \in Int
         /\ config.routing[n] # NoRouting => \A dst \in DOMAIN config.routing[n] :
              /\ config.routing[n][dst] \in Seq(DOMAIN config.links)
              /\ config.routing[n][dst] # <<>> /\ Last(config.routing[n][dst]) = dst
         /\ config.apps[n].kind # "none" =>
              IF config.routing[n] # NoRouting THEN config.apps[n].dst \in DOMAIN config.routing[n]
              ELSE /\ config.apps[n].dst \in Nat
                   /\ 0 \in DOMAIN config.links /\ config.routing[0] = NoRouting
BY DEF WellFormed

LEMMA Singleton ==
  ASSUME NEW R, NEW x \in R
  PROVE  <<x>> \in Seq(R) /\ Len(<<x>>) = 1 /\ <<x>>[1] = x
OBVIOUS

\* A route begins at its source and ends at its destination.
LEMMA RouteEnds ==
  ASSUME NEW config, WellFormed(config), NEW source \in DOMAIN config.links,
         config.routing[source] # NoRouting, NEW dst \in DOMAIN config.routing[source],
         NEW route, route = RouteFrom(config, source, dst)
  PROVE  /\ route \in Seq(DOMAIN config.links) /\ Len(route) \in Nat /\ Len(route) > 1
         /\ route[1] = source /\ route[Len(route)] = dst
         /\ config.routing[source][dst] = SubSeq(route, 2, Len(route))
         /\ config.routing[source][dst][1] = route[2]
         /\ config.routing[source][dst] \in Seq(Nat)
         /\ source \in Nat /\ dst \in Nat
<1> DEFINE members == DOMAIN config.links
<1>0. PICK hops : hops = config.routing[source][dst]
  OBVIOUS
<1>1. /\ hops \in Seq(members) /\ hops # <<>> /\ Last(hops) = dst
      /\ members \subseteq Nat
  BY <1>0, SetUp
<1>2. /\ <<source>> \in Seq(members) /\ Len(<<source>>) = 1 /\ <<source>>[1] = source
      /\ Len(hops) \in Nat /\ Len(hops) > 0 /\ hops[Len(hops)] = dst
      /\ hops \in Seq(Nat) /\ Len(hops) \in 1 .. Len(hops)
  <2>1. Len(hops) \in Nat /\ Len(hops) > 0
    BY <1>1
  <2>2. \A k \in 1 .. Len(hops) : hops[k] \in members
    BY <1>1
  <2>3. hops = [k \in 1 .. Len(hops) |-> hops[k]]
    BY <1>1
  <2>4. hops \in [1 .. Len(hops) -> Nat]
    BY <1>1, <2>2, <2>3
  <2>5. hops \in Seq(Nat)
    BY <2>1, <2>4, FunctionIsSequence
  <2>6. hops[Len(hops)] = dst
    BY <1>1 DEF Last
  <2>7. <<source>> \in Seq(members) /\ Len(<<source>>) = 1 /\ <<source>>[1] = source
    BY Singleton
  <2>8. Len(hops) \in 1 .. Len(hops)
    BY <2>1
  <2> QED
    BY <2>1, <2>5, <2>6, <2>7, <2>8, Zenon
<1>3. route = <<source>> \o hops
  BY <1>0 DEF RouteFrom
<1>4. /\ route \in Seq(members) /\ Len(route) = 1 + Len(hops)
      /\ route[1] = source
      /\ \A k \in 1 .. Len(hops) : route[1 + k] = hops[k]
  BY <1>1, <1>2, <1>3
<1>5. SubSeq(route, 1 + 1, Len(route)) = hops
  <2>1. 1 \in Nat /\ Len(route) \in Int /\ Len(route) <= Len(route)
    BY <1>2, <1>4
  <2> HIDE DEF members
  <2> QED
    BY <1>1, <1>4, <2>1, PartOf
<1>6. dst \in members
  BY <1>1, <1>2
<1>7. route[1 + 1] = hops[1] /\ 1 + 1 = 2 /\ Len(route) \in Nat /\ Len(route) > 1
      /\ route[1 + Len(hops)] = dst
  BY <1>2, <1>4
<1> QED
  BY <1>0, <1>1, <1>2, <1>4, <1>5, <1>6, <1>7

\* What is put on a packet is found in it.
LEMMA HeldWith ==
  ASSUME NEW config, NEW n, NEW header \in Headers, OnRoute(config, n, header),
         NEW payload \in Payloads
  PROVE  AddHeader(header, payload) \in Seq(Nat) /\ Held(config, n, AddHeader(header, payload))
<1>1. payload \in Seq(Nat)
  BY DEF Payloads
<1>2. PICK packet : packet = AddHeader(header, payload)
  OBVIOUS
<1>3. packet \in Seq(Nat) /\ Deserialize(packet) = header /\ RemoveHeader(packet) = payload
  BY <1>1, <1>2, HeaderComesBack
<1>4. Held(config, n, packet)
  BY <1>2, <1>3 DEF Held
<1> QED
  BY <1>2, <1>3, <1>4

\* The next hop of a packet is a node, the next one on its route.
LEMMA NextHopIsNode ==
  ASSUME NEW config, WellFormed(config), NEW n \in DOMAIN config.links,
         NEW header, OnRoute(config, n, header)
  PROVE  /\ header.dst \in DOMAIN config.links
         /\ config.routing[header.daddrSrc] = NoRouting =>
              header.daddrSrc = n /\ header.dst = 0 /\ config.routing[0] = NoRouting
         /\ config.routing[header.daddrSrc] # NoRouting =>
              header.src = n /\ IsHop(config, n, header.dst)
<1>1. CASE config.routing[header.daddrSrc] = NoRouting
  BY <1>1 DEF OnRoute
<1>2. CASE config.routing[header.daddrSrc] # NoRouting
  <2>1. PICK source, dst, route :
          /\ source = header.daddrSrc /\ dst = header.daddrDst
          /\ route = RouteFrom(config, source, dst)
    OBVIOUS
  <2>2. /\ source \in DOMAIN config.links /\ dst \in DOMAIN config.routing[source]
        /\ config.routing[source] # NoRouting
    BY <1>2, <2>1 DEF OnRoute
  <2>3. PICK k \in 1 .. Len(route) - 1 :
          route[k] = n /\ header.src = n /\ header.dst = route[k + 1]
    BY <1>2, <2>1 DEF OnRoute
  <2>4. route \in Seq(DOMAIN config.links) /\ Len(route) \in Nat
    BY <2>1, <2>2, RouteEnds
  <2>5. k + 1 \in 1 .. Len(route)
    BY <2>4
  <2>6. header.dst \in DOMAIN config.links
    BY <2>3, <2>4, <2>5
  <2>7. IsHop(config, n, header.dst)
    BY <2>1, <2>2, <2>3 DEF IsHop
  <2> QED
    BY <1>2, <2>3, <2>6, <2>7
<1> QED
  BY <1>1, <1>2

\* The header of a new packet has its whole route before it.
LEMMA RequestOnRoute ==
  ASSUME WellFormed(net), NEW n \in Members, net.apps[n].kind # "none"
  PROVE  LET header == Header(n, net.apps[n].dst)
         IN  header \in Headers /\ OnRoute(net, n, header)
<1> DEFINE dst == net.apps[n].dst
           h == Header(n, dst)
<1>1. n \in Nat /\ n \in DOMAIN net.links
  BY SetUp DEF Members
<1>2. CASE net.routing[n] = NoRouting
  <2>1. /\ dst \in Nat /\ 0 \in DOMAIN net.links /\ net.routing[0] = NoRouting
    BY <1>1, <1>2, SetUp
  <2>2. h = [daddrSrc |-> n, daddrDst |-> dst, src |-> 0, dst |-> 0, route |-> <<>>]
    BY <1>2 DEF Header, NewHeader
  <2> HIDE DEF h
  <2>3. h.daddrSrc = n /\ h.dst = 0 /\ h \in Headers
    BY <1>1, <2>1, <2>2 DEF Headers
  <2>4. OnRoute(net, n, h)
    BY <1>1, <1>2, <2>1, <2>3 DEF OnRoute
  <2> QED
    BY <2>3, <2>4 DEF h
<1>3. CASE net.routing[n] # NoRouting
  <2>1. dst \in DOMAIN net.routing[n]
    BY <1>1, <1>3, SetUp
  <2>2. PICK route, hops : route = RouteFrom(net, n, dst) /\ hops = net.routing[n][dst]
    OBVIOUS
  <2>3. /\ Len(route) \in Nat /\ Len(route) > 1 /\ route[1] = n
        /\ hops = SubSeq(route, 2, Len(route)) /\ hops[1] = route[2]
        /\ hops \in Seq(Nat) /\ dst \in Nat /\ hops[1] \in Nat
    <3>1. /\ route \in Seq(DOMAIN net.links) /\ Len(route) \in Nat /\ Len(route) > 1
          /\ route[1] = n
          /\ hops = SubSeq(route, 2, Len(route)) /\ hops[1] = route[2]
          /\ hops \in Seq(Nat) /\ dst \in Nat
      <4> HIDE DEF dst
      <4> QED
        BY SMTT(60), <1>1, <1>3, <2>1, <2>2, RouteEnds
    <3>2. route[2] \in DOMAIN net.links
      BY <3>1
    <3>3. route[2] \in Nat
      BY <3>2, SetUp
    <3> QED
      BY <3>1, <3>3
  <2>4. h = [daddrSrc |-> n, daddrDst |-> dst, src |-> n, dst |-> hops[1],
             route |-> RouteSet(<<>>, hops)]
    BY <1>3, <2>2 DEF Header, NewHeader, PrepTxPacketHeader
  <2>5. RouteSet(<<>>, hops) = hops
    BY <2>3, RouteSetFromNothing
  <2> HIDE DEF h, dst
  <2>6. h.daddrSrc = n /\ h.daddrDst = dst /\ h.src = n /\ h.dst = route[2]
        /\ h.route = SubSeq(route, 2, Len(route)) /\ h \in Headers
    BY <1>1, <2>3, <2>4, <2>5 DEF Headers
  <2>7. 1 \in 1 .. Len(route) - 1 /\ 1 + 1 = 2
    BY <2>3
  <2>8. \E k \in 1 .. Len(route) - 1 :
          /\ route[k] = n /\ h.src = n /\ h.dst = route[k + 1]
          /\ h.route = SubSeq(route, k + 1, Len(route))
    BY <2>3, <2>6, <2>7
  <2>9. OnRoute(net, n, h)
    BY <1>1, <1>3, <2>1, <2>2, <2>6, <2>8 DEF OnRoute
  <2> QED
    BY <2>6, <2>9 DEF h, dst
<1> QED
  BY <1>2, <1>3

\* A packet that is forwarded stays on its route.
LEMMA ForwardedOnRoute ==
  ASSUME NEW config, WellFormed(config), NEW s \in DOMAIN config.links,
         NEW n \in DOMAIN config.links,
         NEW header \in Headers, OnRoute(config, s, header), header.dst = n,
         config.routing[n] # NoRouting, ForwardPacketOn(n, header)
  PROVE  /\ ProcessRxPacket(n, header) \in Headers
         /\ OnRoute(config, n, ProcessRxPacket(n, header))
<1>0. PICK source, dst, route, h :
        /\ source = header.daddrSrc /\ dst = header.daddrDst
        /\ route = RouteFrom(config, source, dst) /\ h = ProcessRxPacket(n, header)
  OBVIOUS
<1>1. config.routing[source] # NoRouting /\ source \in DOMAIN config.links
      /\ dst \in DOMAIN config.routing[source]
  BY <1>0, NextHopIsNode DEF OnRoute
<1>2. PICK k \in 1 .. Len(route) - 1 :
        /\ route[k] = s /\ header.dst = route[k + 1]
        /\ header.route = SubSeq(route, k + 1, Len(route))
  BY <1>0, <1>1 DEF OnRoute
<1>3. /\ route \in Seq(DOMAIN config.links) /\ Len(route) \in Nat /\ route[Len(route)] = dst
      /\ n # dst
  BY <1>0, <1>1, RouteEnds DEF ForwardPacketOn
<1>4. k + 1 # Len(route)
  BY <1>2, <1>3
<1>5. /\ k \in Nat /\ k + 1 \in 1 .. Len(route) - 1 /\ k + 1 \in 1 .. Len(route)
      /\ (k + 1) + 1 = k + 2 /\ k + 2 \in 1 .. Len(route) /\ k + 2 \in (k + 2) .. Len(route)
      /\ Len(route) \in (k + 1) .. Len(route) /\ Len(route) \in (k + 2) .. Len(route)
      /\ Len(route) - (k + 1) + 1 > 1 /\ k + 1 <= Len(route)
      /\ \A i \in (k + 1) .. Len(route) : i \in 1 .. Len(route)
  BY <1>3, <1>4
<1>6. /\ Len(header.route) > 1 /\ Tail(header.route) = SubSeq(route, k + 2, Len(route))
      /\ Tail(header.route)[1] = route[k + 2]
  <2> DEFINE first == k + 1
             rest == k + 2
             R == DOMAIN config.links
  <2>1. /\ first \in 1 .. Len(route) /\ Len(route) \in first .. Len(route) /\ first \in Int
        /\ first + 1 = rest /\ rest \in 1 .. Len(route) /\ Len(route) \in rest .. Len(route)
        /\ Len(route) \in Int /\ first <= Len(route) /\ Len(route) - first + 1 > 1
        /\ \A i \in first .. Len(route) : route[i] \in R
    BY <1>3, <1>5
  <2>2. header.route = SubSeq(route, first, Len(route)) /\ route \in Seq(R)
    BY <1>2, <1>3
  <2> HIDE DEF first, rest, R
  <2>3. Tail(SubSeq(route, first, Len(route))) = SubSeq(route, first + 1, Len(route))
    BY <2>1, <2>2, HeadTailOfSubSeq
  <2>4. Len(SubSeq(route, first, Len(route))) = Len(route) - first + 1
    <3>1. /\ SubSeq(route, first, Len(route)) \in Seq(R)
          /\ Len(SubSeq(route, first, Len(route))) =
               IF first <= Len(route) THEN Len(route) - first + 1 ELSE 0
      BY <2>1, SubSeqProperties
    <3> QED
      BY <2>1, <3>1
  <2>5. Head(SubSeq(route, rest, Len(route))) = route[rest]
    BY <2>1, <2>2, HeadTailOfSubSeq
  <2>6. SubSeq(route, rest, Len(route))[1] = route[rest]
    <3> DEFINE t == SubSeq(route, rest, Len(route))
    <3>1. rest \in Int /\ \A i \in rest .. Len(route) : route[i] \in R
      <4>1. \A i \in rest .. Len(route) : i \in first .. Len(route)
        BY <2>1
      <4> QED
        BY <2>1, <4>1
    <3>2. t \in Seq(R) /\ Len(t) = IF rest <= Len(route) THEN Len(route) - rest + 1 ELSE 0
      BY <2>1, <3>1, SubSeqProperties
    <3> HIDE DEF t
    <3>3. t # <<>>
      BY <2>1, <3>2
    <3>4. Head(t) = t[1]
      BY <3>2, <3>3
    <3> QED
      BY <2>5, <3>4 DEF t
  <2> QED
    BY <2>1, <2>2, <2>3, <2>4, <2>6 DEF rest
<1>7. /\ h.src = n /\ h.dst = route[k + 2] /\ h.route = SubSeq(route, k + 2, Len(route))
      /\ h.daddrSrc = source /\ h.daddrDst = dst
      /\ h = [header EXCEPT !.route = SubSeq(route, k + 2, Len(route)), !.src = n,
                            !.dst = route[k + 2]]
  BY <1>0, <1>3, <1>6
  DEF ProcessRxPacket, ForwardPacketOn, NextSourceRoutingHop, RoutePopped, Headers
<1>8. h \in Headers
  <2>1. n \in Nat /\ route[k + 2] \in Nat
    <3>1. route[k + 2] \in DOMAIN config.links
      BY <1>3, <1>5
    <3> QED
      BY <3>1, SetUp
  <2>2. Tail(header.route) \in Seq(Nat)
    <3>1. header.route \in Seq(Nat) /\ header.route # <<>>
      BY <1>6 DEF Headers
    <3> QED
      BY <3>1
  <2> QED
    BY <1>6, <1>7, <2>1, <2>2 DEF Headers
<1>9. \E i \in 1 .. Len(route) - 1 :
        /\ route[i] = n /\ h.src = n /\ h.dst = route[i + 1]
        /\ h.route = SubSeq(route, i + 1, Len(route))
  <2>1. route[k + 1] = n /\ (k + 1) + 1 = k + 2
    BY <1>2, <1>5
  <2> QED
    BY <1>5, <1>7, <2>1
<1>10. OnRoute(config, n, h)
  <2>1. h.daddrSrc = source /\ h.daddrDst = dst
    BY <1>7
  <2> QED
    BY <1>0, <1>1, <1>9, <2>1, Zenon DEF OnRoute
<1> QED
  BY <1>0, <1>8, <1>10

-----------------------------------------------------------------------------
(* What is done to a node *)

LEMMA StoredInSixBits ==
  ASSUME NEW half \in Int
  PROVE  StoredPower(half) \in -32 .. 31
<1>1. Ceil(half) \in Int
  BY CeilSuffices
<1> QED
  BY <1>1, TxPowerAssumption DEF StoredPower, SixBits

LEMMA NotEmpty ==
  ASSUME NEW R, NEW s \in Seq(R), s # <<>>
  PROVE  /\ 1 \in DOMAIN s /\ s[1] \in R /\ DOMAIN s = 1 .. Len(s)
         /\ Len(s) \in Nat /\ Len(s) > 0
OBVIOUS

LEMMA Element ==
  ASSUME NEW R, NEW s \in Seq(R), NEW i \in DOMAIN s
  PROVE  s[i] \in R
OBVIOUS

LEMMA AppendedLast ==
  ASSUME NEW R, NEW s \in Seq(R), NEW x \in R
  PROVE  /\ Append(s, x) \in Seq(R) /\ Append(s, x) # <<>>
         /\ \A i \in DOMAIN Append(s, x) :
              Append(s, x)[i] = x \/ (i \in DOMAIN s /\ Append(s, x)[i] = s[i])
OBVIOUS

LEMMA SameData ==
  ASSUME NEW config, NEW n, NEW me, NodeInv(config, n, me),
         NEW other \in NodeStates(config, n),
         other.queue = me.queue, other.heard = me.heard, other.table = me.table
  PROVE  NodeInv(config, n, other)
BY DEF NodeInv

LEMMA NodeStarts ==
  ASSUME NEW config, WellFormed(config), NEW n \in DOMAIN config.links
  PROVE  /\ NodeInv(config, n, Started(config, n))
         /\ Started(config, n).xmit = "none" /\ Started(config, n).receiving = {}
<1> DEFINE me == Started(config, n)
           table == [m \in DOMAIN config.links |->
                       IF config.powerControl THEN StoredPower(config.required[n][m]) ELSE 100]
<1>1. /\ config.links[n] \in Seq([slot : Nat, type : LinkTypes]) /\ config.links[n] # <<>>
      /\ config.pattern \in Seq(Nat) /\ config.pattern # <<>>
      /\ \A m \in DOMAIN config.links : config.required[n][m] \in Int
  BY SetUp
<1>2. /\ 1 \in DOMAIN config.links[n] /\ 1 \in DOMAIN config.pattern
      /\ config.links[n][1].slot \in Nat
  <2>1. 1 \in DOMAIN config.links[n] /\ config.links[n][1] \in [slot : Nat, type : LinkTypes]
    BY <1>1, NotEmpty
  <2>2. 1 \in DOMAIN config.pattern
    BY <1>1, NotEmpty
  <2> QED
    BY <2>1, <2>2
<1>3. table \in [DOMAIN config.links -> Int]
  <2>1. ASSUME NEW m \in DOMAIN config.links
        PROVE  StoredPower(config.required[n][m]) \in Int
    <3>1. config.required[n][m] \in Int
      BY <1>1
    <3>2. StoredPower(config.required[n][m]) \in -32 .. 31
      BY <3>1, StoredInSixBits
    <3> QED
      BY <3>2
  <2> QED
    BY <2>1
<1>4. me.table = table /\ me.queue = <<>> /\ me.heard = NoFrame
      /\ me.xmit = "none" /\ me.receiving = {}
  BY DEF Started
<1>5. me \in NodeStates(config, n)
  BY <1>2, <1>3, BackoffAssumption DEF Started, NodeStates
<1> HIDE DEF me
<1>8. \A m \in DOMAIN config.links : me.table[m] =
        IF config.powerControl THEN StoredPower(config.required[n][m]) ELSE 100
  BY <1>4
<1>6. config.powerControl => \A m \in DOMAIN config.links : Stored(config, n, m, me.table[m])
  BY <1>8 DEF Stored
<1>7. \A i \in DOMAIN me.queue : FALSE
  BY <1>4
<1> QED
  BY <1>4, <1>5, <1>6, <1>7 DEF NodeInv, me

LEMMA Requested ==
  ASSUME WellFormed(net), NEW n \in Members, NEW me, NodeInv(net, n, me),
         net.apps[n].kind # "none", NEW sent \in Nat,
         NEW other, other = WithRequest(n, me, sent)
  PROVE  /\ NodeInv(net, n, other)
         /\ \A f \in DOMAIN me \ {"queue", "sent"} : other[f] = me[f]
         /\ other.queue # <<>>
<1> DEFINE header == Header(n, net.apps[n].dst)
           packet == AddHeader(header, <<me.sent, 0>>)
<1>1. me \in NodeStates(net, n) /\ me.sent \in Nat /\ me.queue \in Seq(Seq(Nat))
  BY DEF NodeInv, NodeStates
<1>2. packet \in Seq(Nat) /\ Held(net, n, packet)
  <2>1. header \in Headers /\ OnRoute(net, n, header)
    BY RequestOnRoute
  <2>2. <<me.sent, 0>> \in Payloads
    BY <1>1 DEF Payloads
  <2> HIDE DEF header
  <2> QED
    BY <2>1, <2>2, HeldWith
<1>3. other = [me EXCEPT !.queue = Append(@, packet), !.sent = sent]
  BY DEF WithRequest
<1> HIDE DEF packet
<1>4. /\ Append(me.queue, packet) \in Seq(Seq(Nat)) /\ Append(me.queue, packet) # <<>>
      /\ \A i \in DOMAIN Append(me.queue, packet) :
           Append(me.queue, packet)[i] = packet \/
           (i \in DOMAIN me.queue /\ Append(me.queue, packet)[i] = me.queue[i])
  <2> DEFINE q == me.queue
             R == Seq(Nat)
  <2>1. q \in Seq(R) /\ packet \in R
    BY <1>1, <1>2
  <2> HIDE DEF q, R
  <2>2. /\ Append(q, packet) \in Seq(R) /\ Append(q, packet) # <<>>
        /\ \A i \in DOMAIN Append(q, packet) :
             Append(q, packet)[i] = packet \/ (i \in DOMAIN q /\ Append(q, packet)[i] = q[i])
    BY <2>1, AppendedLast
  <2> QED
    BY <2>2 DEF q, R
<1>5. other \in NodeStates(net, n)
  BY <1>1, <1>3, <1>4 DEF NodeStates
<1>6. /\ other.queue = Append(me.queue, packet)
      /\ \A f \in DOMAIN me \ {"queue", "sent"} : other[f] = me[f]
  BY <1>1, <1>3 DEF NodeStates
<1>7. other.heard = me.heard /\ other.table = me.table
  BY <1>1, <1>6 DEF NodeStates
<1>8. \A i \in DOMAIN other.queue : Held(net, n, other.queue[i])
  BY <1>2, <1>4, <1>6 DEF NodeInv
<1> QED
  BY <1>4, <1>5, <1>6, <1>7, <1>8 DEF NodeInv

LEMMA Sampled ==
  ASSUME WellFormed(net), NEW n \in Members, NEW me, NodeInv(net, n, me),
         NEW other, other = WithSample(n, me)
  PROVE  NodeInv(net, n, other) /\ other.xmit = me.xmit /\ other.receiving = me.receiving
<1>1. CASE other = me
  BY <1>1
<1>2. CASE net.apps[n].kind = "field" /\ other = WithRequest(n, me, (me.sent + 1) % 2)
  <2>1. me \in NodeStates(net, n) /\ (me.sent + 1) % 2 \in Nat
    BY DEF NodeInv, NodeStates
  <2>2. net.apps[n].kind # "none"
    BY <1>2
  <2>3. /\ NodeInv(net, n, other)
        /\ \A f \in DOMAIN me \ {"queue", "sent"} : other[f] = me[f]
    BY <1>2, <2>1, <2>2, Requested
  <2> QED
    BY <2>1, <2>3 DEF NodeStates
<1> QED
  BY <1>1, <1>2 DEF WithSample

\* Turning the pages of the superframe leaves the packets alone.
LEMMA SlotStarted ==
  ASSUME WellFormed(net), NEW n \in Members, NEW me, NodeInv(net, n, me),
         me.xmit = "none", NEW other, other = SlotStart(n, me)
  PROVE  /\ NodeInv(net, n, other) /\ other.receiving = me.receiving
         /\ other.xmit = "CCA" => other.queue # <<>>
<1> DEFINE links == net.links[n]
<1>1. /\ links \in Seq([slot : Nat, type : LinkTypes]) /\ links # <<>>
      /\ net.pattern \in Seq(Nat) /\ net.pattern # <<>> /\ net.period \in Nat
  BY SetUp DEF Members
<1>2. me \in NodeStates(net, n)
  BY DEF NodeInv
<1>3. CASE me.wait # 0
  <2> PICK wait, radio : wait = me.wait - 1 /\ radio = IF me.idle THEN "OFF" ELSE me.radio
    OBVIOUS
  <2>1. other = [me EXCEPT !.wait = wait, !.radio = radio, !.idle = FALSE]
    BY <1>3 DEF SlotStart, IdleSlot
  <2>4. wait \in Int /\ radio \in {"OFF", "RX", "TX"} /\ FALSE \in BOOLEAN
    BY <1>2 DEF NodeStates
  <2>2. other \in NodeStates(net, n)
    BY <1>2, <2>1, <2>4 DEF NodeStates
  <2>3. /\ other.queue = me.queue /\ other.heard = me.heard /\ other.table = me.table
        /\ other.receiving = me.receiving /\ other.xmit = me.xmit
    BY <1>2, <2>1 DEF NodeStates
  <2> QED
    BY <2>2, <2>3, SameData
<1>4. CASE me.wait = 0
  <2> DEFINE type == links[me.link].type
             jump == SlotJump(n, me.link)
  <2>1. me.link \in DOMAIN links /\ me.hop \in DOMAIN net.pattern
    BY <1>2 DEF NodeStates
  <2>2. NextLink(n, me.link) \in DOMAIN links
    <3>1. DOMAIN links = 1 .. Len(links) /\ Len(links) \in Nat /\ Len(links) > 0
      BY <1>1, NotEmpty
    <3> HIDE DEF links
    <3>2. me.link \in Nat
      BY <2>1, <3>1
    <3>3. me.link % Len(links) \in 0 .. Len(links) - 1
      BY <3>1, <3>2
    <3> QED
      BY <3>1, <3>3 DEF NextLink, links
  <2>3. jump \in Int
    <3>1. links[me.link] \in [slot : Nat, type : LinkTypes]
          /\ links[NextLink(n, me.link)] \in [slot : Nat, type : LinkTypes]
      <4> HIDE DEF links
      <4> QED
        BY <1>1, <2>1, <2>2, Element
    <3>2. PICK cur, next : /\ cur = links[me.link].slot
                           /\ next = links[NextLink(n, me.link)].slot
      OBVIOUS
    <3>3. cur \in Nat /\ next \in Nat
      BY <3>1, <3>2
    <3>4. jump = IF next <= cur THEN next + net.period - cur ELSE next - cur
      BY <3>2 DEF SlotJump
    <3> HIDE DEF jump, links
    <3> QED
      BY <1>1, <3>3, <3>4
  <2>4. (me.hop % Len(net.pattern)) + 1 \in DOMAIN net.pattern /\ net.pattern[me.hop] \in Nat
    <3>1. /\ DOMAIN net.pattern = 1 .. Len(net.pattern)
          /\ Len(net.pattern) \in Nat /\ Len(net.pattern) > 0
      BY <1>1, NotEmpty
    <3>2. me.hop \in Nat
      BY <2>1, <3>1
    <3>3. me.hop % Len(net.pattern) \in 0 .. Len(net.pattern) - 1
      BY <3>1, <3>2
    <3>4. net.pattern[me.hop] \in Nat
      BY <1>1, <2>1
    <3> QED
      BY <3>1, <3>3, <3>4
  <2>5. XmitEvent(type, me) \in {"none", "TX_ON", "CCA"}
        /\ (XmitEvent(type, me) = "CCA" => me.queue # <<>>)
    BY DEF XmitEvent
  <2>6. PICK backoff : backoff = IF type = "TRANSMIT" \/ me.backoff = 0 THEN 0 ELSE me.backoff - 1
    OBVIOUS
  <2>7. backoff \in 0 .. MaxBackoff
    BY <1>2, <2>6, BackoffAssumption DEF NodeStates
  <2>8. PICK radio : radio = IF Listens(type, me) THEN "RX" ELSE me.radio
    OBVIOUS
  <2>9. radio \in {"OFF", "RX", "TX"}
    BY <1>2, <2>8 DEF NodeStates
  <2>10. other = [me EXCEPT !.channel = net.pattern[me.hop],
                           !.hop = (me.hop % Len(net.pattern)) + 1,
                           !.radio = radio, !.xmit = XmitEvent(type, me), !.backoff = backoff,
                           !.link = NextLink(n, me.link), !.wait = jump - 1, !.idle = jump > 1]
    BY <1>4, <2>6, <2>8 DEF SlotStart, ProcessLink
  <2>13. jump - 1 \in Int /\ (jump > 1) \in BOOLEAN
    BY <2>3
  <2> HIDE DEF jump, type, links
  <2>14. PICK channel, hop, link, wait, idle, xmit :
           /\ channel = net.pattern[me.hop] /\ hop = (me.hop % Len(net.pattern)) + 1
           /\ link = NextLink(n, me.link) /\ wait = jump - 1 /\ idle = (jump > 1)
           /\ xmit = XmitEvent(type, me)
    OBVIOUS
  <2>15. other = [me EXCEPT !.channel = channel, !.hop = hop, !.radio = radio, !.xmit = xmit,
                           !.backoff = backoff, !.link = link, !.wait = wait, !.idle = idle]
    BY <2>10, <2>14
  <2>16. /\ channel \in Nat /\ hop \in DOMAIN net.pattern /\ link \in DOMAIN net.links[n]
         /\ wait \in Int /\ idle \in BOOLEAN /\ xmit \in {"none", "TX_ON", "CCA"}
    BY <2>2, <2>4, <2>5, <2>13, <2>14 DEF links
  <2>11. other \in NodeStates(net, n)
    BY ZenonT(60), <1>2, <2>7, <2>9, <2>15, <2>16 DEF NodeStates
  <2>12. /\ other.queue = me.queue /\ other.heard = me.heard /\ other.table = me.table
         /\ other.receiving = me.receiving /\ other.xmit = XmitEvent(type, me)
    BY <1>2, <2>10 DEF NodeStates
  <2> QED
    BY <2>5, <2>11, <2>12, SameData
<1> QED
  BY <1>3, <1>4

\* What is sent gets to its next hop: no power stored for it has been learned of a
\* link the other way.
LEMMA Sent ==
  ASSUME WellFormed(net), net.powerControl => OneWay(net), NEW n \in Members,
         NEW me, NodeInv(net, n, me), me.queue # <<>>, NEW other, other = Sending(me)
  PROVE  /\ NodeInv(net, n, other) /\ Reaches(net, n, other)
         /\ \A f \in DOMAIN me \ {"xmit", "radio", "applied"} : other[f] = me[f]
         /\ other.xmit = "none" /\ other.radio = "TX"
<1> DEFINE header == Deserialize(Head(me.queue))
           m == header.dst
           required == net.required[n][m]
           power == PhyTransmitPower(me.applied, me.table[m])
<1>1. me \in NodeStates(net, n) /\ me.applied \in 0 .. 31 /\ me.queue \in Seq(Seq(Nat))
  BY DEF NodeInv, NodeStates
<1>2. OnRoute(net, n, header) /\ n \in DOMAIN net.links
  <2>1. 1 \in DOMAIN me.queue /\ Head(me.queue) = me.queue[1]
    BY <1>1
  <2> QED
    BY <2>1 DEF NodeInv, Held, Members
<1> HIDE DEF header
<1>3. /\ m \in DOMAIN net.links
      /\ net.routing[header.daddrSrc] = NoRouting =>
           header.daddrSrc = n /\ header.dst = 0 /\ net.routing[0] = NoRouting
      /\ net.routing[header.daddrSrc] # NoRouting => header.src = n /\ IsHop(net, n, m)
  BY <1>2, NextHopIsNode
<1>4. required \in Int
  BY <1>2, <1>3, SetUp
<1>5. ASSUME net.powerControl
      PROVE  me.table[m] = StoredPower(required)
  <2>1. Stored(net, n, m, me.table[m])
    BY <1>3, <1>5 DEF NodeInv
  <2>2. ~(IsHop(net, m, n) /\ net.routing[n] # NoRouting)
    BY <1>2, <1>3, <1>5 DEF OneWay
  <2> QED
    BY <2>1, <2>2 DEF Stored
<1> HIDE DEF m, required
<1>6. ASSUME net.powerControl
      PROVE  power \in 0 .. 31 /\ (InRange(required) => 2 * power >= required)
  <2>1. power = PhyTransmitPower(me.applied, StoredPower(required))
    BY <1>5, <1>6
  <2>2. StoredPower(required) \in -32 .. 31
    BY <1>4, StoredInSixBits
  <2>3. power \in 0 .. 31
    <3>1. PowerAccepted(StoredPower(required)) <=> StoredPower(required) >= 0
      BY <2>2, NegativePowersRefused
    <3>2. PICK val : val = StoredPower(required)
      OBVIOUS
    <3>3. power = IF val >= 0 THEN val ELSE me.applied
      BY <2>1, <3>1, <3>2 DEF PhyTransmitPower
    <3>4. val \in -32 .. 31 /\ me.applied \in 0 .. 31
      BY <1>1, <2>2, <3>2
    <3> QED
      BY ONLY <3>3, <3>4
  <2>4. InRange(required) => 2 * power >= required
    BY <1>1, <1>4, <2>1, RefusedPowerReaches
  <2> QED
    BY <2>3, <2>4
<1> HIDE DEF power
<1>7. PICK applied : applied = IF net.powerControl THEN power ELSE me.applied
  OBVIOUS
<1>8. applied \in 0 .. 31
  BY <1>1, <1>6, <1>7
<1>9. other = [me EXCEPT !.xmit = "none", !.radio = "TX", !.applied = applied]
  BY <1>7 DEF Sending, power, m, header
<1>10. /\ other \in NodeStates(net, n) /\ other.applied = applied
       /\ \A f \in DOMAIN me \ {"xmit", "radio", "applied"} : other[f] = me[f]
       /\ other.xmit = "none" /\ other.radio = "TX"
  BY <1>1, <1>8, <1>9 DEF NodeStates
<1>11. other.queue = me.queue /\ other.heard = me.heard /\ other.table = me.table
  BY <1>1, <1>10 DEF NodeStates
<1>12. NodeInv(net, n, other)
  BY <1>10, <1>11, SameData
<1>13. Reaches(net, n, other)
  BY <1>6, <1>7, <1>10, <1>11 DEF Reaches, required, m, header
<1> QED
  BY <1>10, <1>12, <1>13

LEMMA Finished ==
  ASSUME NEW config, NEW n, NEW me, NodeInv(config, n, me), me.queue # <<>>,
         NEW other \in NodeStates(config, n), other.queue = Tail(me.queue),
         other.heard = me.heard, other.table = me.table
  PROVE  NodeInv(config, n, other)
<1>1. me.queue \in Seq(Seq(Nat))
  BY DEF NodeInv, NodeStates
<1>2. \A i \in DOMAIN Tail(me.queue) :
        i + 1 \in DOMAIN me.queue /\ Tail(me.queue)[i] = me.queue[i + 1]
  BY <1>1
<1>3. \A i \in DOMAIN other.queue : Held(config, n, other.queue[i])
  BY <1>2 DEF NodeInv
<1> QED
  BY <1>3 DEF NodeInv

\* Powers are learned of the links into a node.
LEMMA Learned ==
  ASSUME WellFormed(net), NEW n \in Members, NEW me, NodeInv(net, n, me),
         NEW frame \in Frames, NEW s \in DOMAIN net.links, Held(net, s, frame.packet),
         net.routing[n] # NoRouting, Addressed(n, Deserialize(frame.packet)),
         NEW other, other = PowerLearned(me, frame)
  PROVE  /\ NodeInv(net, n, other)
         /\ \A f \in DOMAIN me \ {"table"} : other[f] = me[f]
<1>1. CASE ~net.powerControl
  BY <1>1 DEF PowerLearned
<1>2. CASE net.powerControl
  <2> DEFINE header == Deserialize(frame.packet)
             payload == RemoveHeader(frame.packet)
  <2>1. header \in Headers /\ OnRoute(net, s, header) /\ payload \in Payloads
    BY DEF Held
  <2>2. header.dst = n
    BY DEF Addressed
  <2> HIDE DEF header, payload
  <2>3. header.src = s /\ IsHop(net, s, n)
    <3>1. /\ net.routing[header.daddrSrc] = NoRouting =>
               header.dst = 0 /\ net.routing[0] = NoRouting
          /\ net.routing[header.daddrSrc] # NoRouting =>
               header.src = s /\ IsHop(net, s, header.dst)
      BY <2>1, NextHopIsNode
    <3> QED
      BY <2>2, <3>1
  <2>4. Last(payload) \in Nat
    <3>1. payload \in Seq(Nat) /\ Len(payload) = 2
      BY <2>1 DEF Payloads
    <3>2. DOMAIN payload = 1 .. Len(payload)
      BY <3>1
    <3>3. 2 \in DOMAIN payload
      BY <3>1, <3>2
    <3>4. payload[2] \in Nat
      BY <3>1, <3>3, Element
    <3> QED
      BY <3>1, <3>4 DEF Last
  <2>5. PICK half, power : /\ half = 2 * TrailerTxPower(frame.packet) - frame.rxPow
                           /\ power = StoredPower(half)
    OBVIOUS
  <2>6. half \in Int
    <3>1. frame.rxPow \in Int /\ TrailerTxPower(frame.packet) \in Nat
      BY <2>4 DEF Frames, TrailerTxPower, payload
    <3> QED
      BY <2>5, <3>1
  <2>7. power \in -32 .. 31
    BY <2>5, <2>6, StoredInSixBits
  <2>8. me \in NodeStates(net, n)
    BY DEF NodeInv
  <2>9. other = [me EXCEPT !.table = [me.table EXCEPT ![s] = power]]
    BY <1>2, <2>3, <2>5 DEF PowerLearned, header
  <2>10. PICK table : table = [me.table EXCEPT ![s] = power]
    OBVIOUS
  <2>11. table \in [DOMAIN net.links -> Int]
    BY <2>7, <2>8, <2>10 DEF NodeStates
  <2>12. other = [me EXCEPT !.table = table]
    BY <2>9, <2>10
  <2>13. /\ other \in NodeStates(net, n) /\ other.table = table
         /\ \A f \in DOMAIN me \ {"table"} : other[f] = me[f]
    BY <2>8, <2>11, <2>12 DEF NodeStates
  <2>14. other.queue = me.queue /\ other.heard = me.heard
    BY <2>8, <2>13 DEF NodeStates
  <2>15. \A m \in DOMAIN net.links : Stored(net, n, m, table[m])
    <3> SUFFICES ASSUME NEW m \in DOMAIN net.links PROVE Stored(net, n, m, table[m])
      OBVIOUS
    <3>1. me.table \in [DOMAIN net.links -> Int]
      BY <2>8 DEF NodeStates
    <3>2. CASE m = s
      <4>1. table[m] = power
        BY <2>10, <3>1, <3>2
      <4> QED
        BY <2>3, <2>7, <3>2, <4>1 DEF Stored
    <3>3. CASE m # s
      <4>1. table[m] = me.table[m]
        BY <2>10, <3>1, <3>3
      <4> QED
        BY <1>2, <4>1 DEF NodeInv
    <3> QED
      BY <3>2, <3>3
  <2> QED
    BY <2>13, <2>14, <2>15 DEF NodeInv
<1> QED
  BY <1>1, <1>2

\* What the data link layer makes of a frame.
LEMMA Indicated ==
  ASSUME WellFormed(net), NEW n \in Members, NodeInv(net, n, nodes[n]),
         nodes[n].heard # NoFrame,
         NEW frame, frame = nodes[n].heard, NEW header, header = Deserialize(frame.packet),
         NEW me, me = [nodes[n] EXCEPT !.heard = NoFrame],
         NEW other,
         \/ other = me
         \/ Addressed(n, header) /\ net.routing[n] # NoRouting /\ other = PowerLearned(me, frame)
         \/ /\ Addressed(n, header) /\ net.routing[n] # NoRouting /\ ForwardPacketOn(n, header)
            /\ other = Forward(PowerLearned(me, frame), frame, ProcessRxPacket(n, header))
  PROVE  NodeInv(net, n, other) /\ other.xmit = me.xmit /\ other.receiving = me.receiving
         /\ me.xmit = nodes[n].xmit /\ me.receiving = nodes[n].receiving
<1>1. nodes[n] \in NodeStates(net, n)
  BY DEF NodeInv
<1>2. frame \in Frames /\ \E s \in DOMAIN net.links : Held(net, s, frame.packet)
  BY <1>1 DEF NodeInv, NodeStates
<1>3. PICK s \in DOMAIN net.links : Held(net, s, frame.packet)
  BY <1>2
<1>4. /\ me \in NodeStates(net, n) /\ me.heard = NoFrame
      /\ me.queue = nodes[n].queue /\ me.table = nodes[n].table
      /\ me.xmit = nodes[n].xmit /\ me.receiving = nodes[n].receiving
  BY <1>1 DEF NodeStates
<1>5. NodeInv(net, n, me)
  BY <1>4 DEF NodeInv
<1>6. CASE other = me
  BY <1>4, <1>5, <1>6
<1> DEFINE learned == PowerLearned(me, frame)
<1>7. ASSUME Addressed(n, header), net.routing[n] # NoRouting
      PROVE  /\ NodeInv(net, n, learned) /\ learned.xmit = me.xmit
             /\ learned.receiving = me.receiving
  <2>1. /\ NodeInv(net, n, learned)
        /\ \A f \in DOMAIN me \ {"table"} : learned[f] = me[f]
    BY <1>2, <1>3, <1>5, <1>7, Learned
  <2> QED
    BY <1>4, <2>1 DEF NodeStates
<1>8. CASE Addressed(n, header) /\ net.routing[n] # NoRouting /\ other = learned
  BY <1>4, <1>7, <1>8
<1> HIDE DEF learned
<1>9. CASE /\ Addressed(n, header) /\ net.routing[n] # NoRouting /\ ForwardPacketOn(n, header)
           /\ other = Forward(learned, frame, ProcessRxPacket(n, header))
  <2> DEFINE forwarded == ProcessRxPacket(n, header)
             payload == RemoveHeader(frame.packet)
             packet == AddHeader(forwarded, payload)
  <2>1. /\ header \in Headers /\ OnRoute(net, s, header) /\ payload \in Payloads
        /\ header.dst = n /\ n \in DOMAIN net.links
    BY <1>3, <1>9 DEF Held, Addressed, Members
  <2>2. forwarded \in Headers /\ OnRoute(net, n, forwarded)
    BY <1>9, <2>1, ForwardedOnRoute
  <2> HIDE DEF payload, forwarded
  <2>3. packet \in Seq(Nat) /\ Held(net, n, packet)
    BY <2>1, <2>2, HeldWith
  <2>4. /\ NodeInv(net, n, learned) /\ learned \in NodeStates(net, n)
        /\ learned.queue \in Seq(Seq(Nat))
    BY <1>7, <1>9 DEF NodeInv, NodeStates
  <2>5. other = [learned EXCEPT !.queue = Append(learned.queue, packet)]
    BY <1>9 DEF Forward, payload, forwarded
  <2> HIDE DEF packet
  <2>6. PICK queue : queue = Append(learned.queue, packet)
    OBVIOUS
  <2>7. /\ queue \in Seq(Seq(Nat))
        /\ \A i \in DOMAIN queue :
             queue[i] = packet \/ (i \in DOMAIN learned.queue /\ queue[i] = learned.queue[i])
    <3> DEFINE q == learned.queue
               R == Seq(Nat)
    <3>1. q \in Seq(R) /\ packet \in R
      BY <2>3, <2>4
    <3> HIDE DEF q, R
    <3>2. /\ Append(q, packet) \in Seq(R)
          /\ \A i \in DOMAIN Append(q, packet) :
               Append(q, packet)[i] = packet \/ (i \in DOMAIN q /\ Append(q, packet)[i] = q[i])
      BY <3>1, AppendedLast
    <3> QED
      BY <2>6, <3>2 DEF q, R
  <2>8. other = [learned EXCEPT !.queue = queue]
    BY <2>5, <2>6
  <2>9. /\ other \in NodeStates(net, n) /\ other.queue = queue
        /\ other.heard = learned.heard /\ other.table = learned.table
        /\ other.xmit = learned.xmit /\ other.receiving = learned.receiving
    BY <2>4, <2>7, <2>8 DEF NodeStates
  <2>10. \A i \in DOMAIN other.queue : Held(net, n, other.queue[i])
    BY <2>3, <2>4, <2>7, <2>9 DEF NodeInv
  <2>11. NodeInv(net, n, other)
    BY <2>4, <2>9, <2>10 DEF NodeInv
  <2> QED
    BY <1>4, <1>7, <1>9, <2>9, <2>11
<1> QED
  BY <1>6, <1>8, <1>9 DEF learned

-----------------------------------------------------------------------------
(* The steps of a network *)

\* A signal is counted and changes nothing else.
LEMMA Signalled ==
  ASSUME NEW state, \A m \in Members : NodeInv(net, m, state[m]),
         NEW senders \in SUBSET Members, NEW other, other = WithSignals(state, senders)
  PROVE  /\ DOMAIN other = Members
         /\ \A m \in Members :
              /\ NodeInv(net, m, other[m])
              /\ other[m].xmit = state[m].xmit /\ other[m].queue = state[m].queue
              /\ other[m].radio = state[m].radio /\ other[m].channel = state[m].channel
              /\ other[m].applied = state[m].applied
              /\ state[m].radio = "TX" => other[m].receiving = state[m].receiving
              /\ \A n \in other[m].receiving :
                   n \in state[m].receiving \/ (n \in senders /\ Hears(state, m, n))
<1>1. DOMAIN other = Members /\ \A m \in Members : other[m] =
        IF state[m].radio = "RX"
          THEN [state[m] EXCEPT !.receiving = @ \cup {n \in senders : Hears(state, m, n)}]
          ELSE state[m]
  BY DEF WithSignals
<1> SUFFICES ASSUME NEW m \in Members
             PROVE  /\ NodeInv(net, m, other[m])
                    /\ other[m].xmit = state[m].xmit /\ other[m].queue = state[m].queue
                    /\ other[m].radio = state[m].radio /\ other[m].channel = state[m].channel
                    /\ other[m].applied = state[m].applied
                    /\ state[m].radio = "TX" => other[m].receiving = state[m].receiving
                    /\ \A n \in other[m].receiving :
                         n \in state[m].receiving \/ (n \in senders /\ Hears(state, m, n))
  BY <1>1
<1>2. CASE state[m].radio # "RX"
  BY <1>1, <1>2
<1>3. CASE state[m].radio = "RX"
  <2>1. state[m] \in NodeStates(net, m)
    BY DEF NodeInv
  <2>2. PICK heard : heard = {n \in senders : Hears(state, m, n)}
    OBVIOUS
  <2>3. PICK receiving : receiving = state[m].receiving \cup heard
    OBVIOUS
  <2>4. receiving \subseteq DOMAIN net.links
    BY <2>1, <2>2, <2>3 DEF NodeStates, Members
  <2>5. other[m] = [state[m] EXCEPT !.receiving = receiving]
    BY <1>1, <1>3, <2>2, <2>3
  <2>6. /\ other[m] \in NodeStates(net, m) /\ other[m].receiving = receiving
        /\ other[m].xmit = state[m].xmit /\ other[m].queue = state[m].queue
        /\ other[m].radio = state[m].radio /\ other[m].channel = state[m].channel
        /\ other[m].applied = state[m].applied /\ other[m].heard = state[m].heard
        /\ other[m].table = state[m].table
    BY <2>1, <2>4, <2>5 DEF NodeStates
  <2>7. NodeInv(net, m, other[m])
    BY <2>6, SameData
  <2> QED
    BY <1>3, <2>2, <2>3, <2>6, <2>7
<1> QED
  BY <1>2, <1>3

\* Whether a node hears another one is a matter of its channel and of the power and
\* the channel of the other.
LEMMA HearsAsBefore ==
  ASSUME NEW s, NEW t, NEW m, NEW n, t[m].channel = s[m].channel, t[n].channel = s[n].channel,
         t[n].applied = s[n].applied
  PROVE  Hears(t, m, n) <=> Hears(s, m, n)
BY DEF Hears

LEMMA SendPacketKeeps ==
  ASSUME NetRunning, NEW n \in Members, SendPacket(n)
  PROVE  NetRunning'
<1>1. /\ phase = "RX" /\ UNCHANGED <<net, slot, phase, air>> /\ air = {}
      /\ net.apps[n].kind = "generator"
      /\ nodes' = [nodes EXCEPT ![n] = WithRequest(n, nodes[n], nodes[n].sent + 1)]
  BY DEF SendPacket, NetRunning, MediumInv
<1>2. WellFormed(net) /\ DOMAIN nodes = Members /\ \A m \in Members : NodeInv(net, m, nodes[m])
  BY DEF NetRunning
<1>3. PICK me, other : me = nodes[n] /\ other = WithRequest(n, me, me.sent + 1)
  OBVIOUS
<1>4. NodeInv(net, n, me) /\ me \in NodeStates(net, n) /\ me.sent + 1 \in Nat
  <2>1. NodeInv(net, n, me)
    BY <1>2, <1>3
  <2>2. me \in NodeStates(net, n)
    BY <2>1 DEF NodeInv
  <2>3. me.sent \in Nat
    BY <2>2 DEF NodeStates
  <2> QED
    BY <2>1, <2>2, <2>3
<1>5. /\ NodeInv(net, n, other)
      /\ \A f \in DOMAIN me \ {"queue", "sent"} : other[f] = me[f]
  <2>1. net.apps[n].kind # "none"
    BY <1>1
  <2> QED
    BY <1>2, <1>3, <1>4, <2>1, Requested
<1>6. other.xmit = me.xmit /\ other.receiving = me.receiving
  BY <1>4, <1>5 DEF NodeStates
<1>7. /\ Members' = Members /\ Running' /\ DOMAIN nodes' = Members
      /\ \A m \in Members : nodes'[m] = IF m = n THEN other ELSE nodes[m]
  BY <1>1, <1>2, <1>3 DEF Members, NetRunning, Running
<1>8. \A m \in Members : NodeInv(net, m, nodes'[m])
  BY <1>2, <1>5, <1>7
<1>9. \A m \in Members : nodes'[m].xmit = "none" /\ nodes'[m].receiving = {}
  <2>1. \A m \in Members : nodes[m].xmit = "none" /\ nodes[m].receiving = {}
    BY <1>1 DEF NetRunning, MediumInv
  <2> QED
    BY <1>3, <1>6, <1>7, <2>1
<1>10. MediumInv'
  BY <1>1, <1>7, <1>9 DEF MediumInv
<1> QED
  BY <1>1, <1>2, <1>7, <1>8, <1>10 DEF NetRunning

LEMMA BeginSlotKeeps ==
  ASSUME NetRunning, BeginSlot
  PROVE  NetRunning'
<1>1. /\ phase = "RX" /\ phase' = "XMIT" /\ UNCHANGED <<net, air>> /\ air = {}
      /\ nodes' = [n \in Members |-> SlotStart(n, WithSample(n, nodes[n]))]
  BY DEF BeginSlot, NetRunning, MediumInv
<1>2. WellFormed(net) /\ DOMAIN nodes = Members /\ \A m \in Members : NodeInv(net, m, nodes[m])
  BY DEF NetRunning
<1>3. \A m \in Members : nodes[m].xmit = "none" /\ nodes[m].receiving = {}
  BY <1>1 DEF NetRunning, MediumInv
<1>4. Members' = Members /\ Running' /\ DOMAIN nodes' = Members
  BY <1>1 DEF Members, NetRunning, Running
<1>5. ASSUME NEW n \in Members
      PROVE  /\ NodeInv(net, n, nodes'[n]) /\ nodes'[n].receiving = {}
             /\ nodes'[n].xmit = "CCA" => nodes'[n].queue # <<>>
  <2>1. PICK me, other : me = WithSample(n, nodes[n]) /\ other = SlotStart(n, me)
    OBVIOUS
  <2>2. NodeInv(net, n, me) /\ me.xmit = "none" /\ me.receiving = {}
    BY <1>2, <1>3, <2>1, Sampled
  <2>3. /\ NodeInv(net, n, other) /\ other.receiving = {}
        /\ other.xmit = "CCA" => other.queue # <<>>
    BY <1>2, <2>1, <2>2, SlotStarted
  <2> QED
    BY <1>1, <2>1, <2>3
<1>6. MediumInv'
  BY <1>1, <1>4, <1>5 DEF MediumInv
<1> QED
  BY <1>1, <1>2, <1>4, <1>5, <1>6 DEF NetRunning

LEMMA TurnTransmittersOnKeeps ==
  ASSUME NetRunning, TurnTransmittersOn
  PROVE  NetRunning'
<1> DEFINE due == {n \in Members : nodes[n].xmit = "TX_ON"}
           senders == {n \in due : nodes[n].queue # <<>>}
<1>0. PICK state : state = [n \in Members |->
                 CASE n \in senders -> Sending(nodes[n])
                   [] n \in due \ senders -> [nodes[n] EXCEPT !.xmit = "none", !.radio = "OFF"]
                   [] OTHER -> nodes[n]]
  OBVIOUS
<1>1. /\ phase = "XMIT" /\ due # {} /\ UNCHANGED <<net, phase>>
      /\ air' = senders /\ nodes' = WithSignals(state, senders)
  BY <1>0 DEF TurnTransmittersOn
<1>2. WellFormed(net) /\ DOMAIN nodes = Members /\ \A m \in Members : NodeInv(net, m, nodes[m])
      /\ (net.powerControl => OneWay(net))
  BY DEF NetRunning
<1>3. /\ air = {}
      /\ \A m \in Members : /\ nodes[m].receiving = {}
                            /\ nodes[m].xmit = "CCA" => nodes[m].queue # <<>>
  BY <1>1 DEF NetRunning, MediumInv
<1>4. ASSUME NEW m \in Members
      PROVE  /\ NodeInv(net, m, state[m]) /\ state[m].receiving = {}
             /\ state[m].queue = nodes[m].queue
             /\ m \in senders => /\ Reaches(net, m, state[m]) /\ state[m].xmit = "none"
                                 /\ state[m].radio = "TX" /\ state[m].queue # <<>>
             /\ state[m].xmit # "TX_ON"
             /\ state[m].xmit = "CCA" => state[m].queue # <<>>
  <2>1. nodes[m] \in NodeStates(net, m)
    BY <1>2 DEF NodeInv
  <2>2. CASE m \in senders
    <3>1. state[m] = Sending(nodes[m]) /\ nodes[m].queue # <<>>
      BY <1>0, <2>2
    <3>2. PICK me, other : me = nodes[m] /\ other = state[m]
      OBVIOUS
    <3>3. /\ NodeInv(net, m, other) /\ Reaches(net, m, other)
          /\ \A f \in DOMAIN me \ {"xmit", "radio", "applied"} : other[f] = me[f]
          /\ other.xmit = "none" /\ other.radio = "TX"
      <4>1. NodeInv(net, m, me) /\ me.queue # <<>> /\ other = Sending(me)
        BY <1>2, <3>1, <3>2
      <4> QED
        BY <1>2, <4>1, Sent
    <3>4. other.queue = me.queue /\ other.receiving = me.receiving
      BY <2>1, <3>2, <3>3 DEF NodeStates
    <3> QED
      BY <1>3, <3>1, <3>2, <3>3, <3>4
  <2>3. CASE m \in due \ senders
    <3>1. state[m] = [nodes[m] EXCEPT !.xmit = "none", !.radio = "OFF"]
      BY <1>0, <2>3
    <3>2. /\ state[m] \in NodeStates(net, m) /\ state[m].queue = nodes[m].queue
          /\ state[m].heard = nodes[m].heard /\ state[m].table = nodes[m].table
          /\ state[m].receiving = nodes[m].receiving /\ state[m].xmit = "none"
      BY <2>1, <3>1 DEF NodeStates
    <3>3. NodeInv(net, m, state[m])
      BY <1>2, <3>2, SameData
    <3> QED
      BY <1>3, <2>3, <3>2, <3>3
  <2>4. CASE m \notin due
    <3>1. state[m] = nodes[m] /\ nodes[m].xmit # "TX_ON"
      BY <1>0, <2>4
    <3> QED
      BY <1>2, <1>3, <2>4, <3>1
  <2> QED
    BY <2>2, <2>3, <2>4
<1>5. senders \subseteq Members
  OBVIOUS
<1> HIDE DEF due, senders
<1>6. PICK other : other = nodes'
  OBVIOUS
<1>7. DOMAIN other = Members /\ \A m \in Members :
              /\ NodeInv(net, m, other[m])
              /\ other[m].xmit = state[m].xmit /\ other[m].queue = state[m].queue
              /\ other[m].radio = state[m].radio /\ other[m].channel = state[m].channel
              /\ other[m].applied = state[m].applied
              /\ state[m].radio = "TX" => other[m].receiving = state[m].receiving
              /\ \A n \in other[m].receiving :
                   n \in state[m].receiving \/ (n \in senders /\ Hears(state, m, n))
  <2>1. other = WithSignals(state, senders)
    BY <1>1, <1>6
  <2> QED
    BY <1>4, <1>5, <2>1, Signalled
<1>8. Members' = Members /\ Running'
  BY <1>1 DEF Members, NetRunning, Running
<1>9. \A m \in Members : \A n \in other[m].receiving : n \in senders /\ Hears(other, m, n)
  <2> SUFFICES ASSUME NEW m \in Members, NEW n \in other[m].receiving
               PROVE  n \in senders /\ Hears(other, m, n)
    OBVIOUS
  <2>1. n \in senders /\ Hears(state, m, n)
    BY <1>4, <1>7
  <2>2. n \in Members
    BY <1>5, <2>1
  <2> QED
    BY <1>7, <2>1, <2>2, HearsAsBefore
<1>10. \A n \in senders : /\ other[n].xmit = "none" /\ other[n].queue # <<>>
                          /\ other[n].radio = "TX" /\ other[n].receiving = {}
                          /\ Reaches(net, n, other[n])
  BY <1>4, <1>5, <1>7 DEF Reaches
<1>11. \A m, n : Hears(nodes, m, n)' <=> Hears(other, m, n)
  BY <1>1, <1>6 DEF Hears, Required
<1>12. MediumInv'
  BY <1>1, <1>4, <1>5, <1>6, <1>7, <1>8, <1>9, <1>10, <1>11 DEF MediumInv
<1> QED
  BY <1>1, <1>2, <1>6, <1>7, <1>8, <1>12 DEF NetRunning

LEMMA AssessKeeps ==
  ASSUME NetRunning, NEW n \in Members, Assess(n)
  PROVE  NetRunning'
<1>1. /\ phase = "XMIT" /\ UNCHANGED <<net, phase>> /\ nodes[n].xmit = "CCA"
      /\ \A m \in Members : nodes[m].xmit # "TX_ON"
  BY DEF Assess
<1>2. WellFormed(net) /\ DOMAIN nodes = Members /\ \A m \in Members : NodeInv(net, m, nodes[m])
      /\ (net.powerControl => OneWay(net))
  BY DEF NetRunning
<1>3. /\ air \subseteq Members
      /\ \A m \in Members : /\ nodes[m].xmit = "CCA" => nodes[m].queue # <<>>
                            /\ \A k \in nodes[m].receiving : k \in air /\ Hears(nodes, m, k)
      /\ \A m \in air : /\ nodes[m].xmit = "none" /\ nodes[m].queue # <<>>
                        /\ nodes[m].radio = "TX" /\ nodes[m].receiving = {}
                        /\ Reaches(net, m, nodes[m])
  BY DEF NetRunning, MediumInv
<1>4. n \notin air /\ nodes[n].queue # <<>>
  BY <1>1, <1>3
<1>5. Members' = Members /\ Running'
  BY <1>1 DEF Members, NetRunning, Running
<1>6. nodes[n] \in NodeStates(net, n)
  BY <1>2 DEF NodeInv
<1>7. CASE \E b \in 0 .. MaxBackoff :
             /\ nodes' = [nodes EXCEPT ![n].xmit = "none", ![n].radio = "RX", ![n].backoff = b]
             /\ UNCHANGED air
  <2>1. PICK b \in 0 .. MaxBackoff :
          nodes' = [nodes EXCEPT ![n] = [nodes[n] EXCEPT !.xmit = "none", !.radio = "RX",
                                                        !.backoff = b]]
    BY <1>7
  <2>2. PICK me, other : me = nodes[n] /\ other = [me EXCEPT !.xmit = "none", !.radio = "RX",
                                                           !.backoff = b]
    OBVIOUS
  <2>3. /\ other \in NodeStates(net, n) /\ other.queue = me.queue /\ other.heard = me.heard
        /\ other.table = me.table /\ other.receiving = me.receiving /\ other.xmit = "none"
        /\ other.channel = me.channel /\ other.applied = me.applied
    BY <1>6, <2>2 DEF NodeStates
  <2>4. NodeInv(net, n, other)
    BY <1>2, <2>2, <2>3, SameData
  <2>5. PICK new : new = nodes'
    OBVIOUS
  <2>6. DOMAIN new = Members /\ \A m \in Members : new[m] = IF m = n THEN other ELSE nodes[m]
    BY <1>2, <2>1, <2>2, <2>5
  <2>7. \A m \in Members : NodeInv(net, m, new[m])
    BY <1>2, <2>4, <2>6
  <2>8. \A m \in Members : \A k \in new[m].receiving : k \in air /\ Hears(new, m, k)
    <3> SUFFICES ASSUME NEW m \in Members, NEW k \in new[m].receiving
                 PROVE  k \in air /\ Hears(new, m, k)
      OBVIOUS
    <3>1. k \in air /\ Hears(nodes, m, k)
      BY <1>3, <2>2, <2>3, <2>6
    <3>2. /\ new[m].channel = nodes[m].channel /\ new[k].channel = nodes[k].channel
          /\ new[k].applied = nodes[k].applied
      BY <1>3, <2>2, <2>3, <2>6, <3>1
    <3> QED
      BY <3>1, <3>2, HearsAsBefore
  <2>9. \A m \in Members : new[m].xmit # "TX_ON" /\ (new[m].xmit = "CCA" => new[m].queue # <<>>)
    BY <1>1, <1>3, <2>3, <2>6
  <2>10. \A m \in air : new[m] = nodes[m]
    BY <1>3, <1>4, <2>6
  <2>11. \A m, k : Hears(nodes, m, k)' <=> Hears(new, m, k)
    BY <1>1, <2>5 DEF Hears, Required
  <2>12. MediumInv'
    BY <1>1, <1>3, <1>5, <1>7, <2>5, <2>8, <2>9, <2>10, <2>11 DEF MediumInv
  <2> QED
    BY <1>1, <1>2, <1>5, <2>5, <2>6, <2>7, <2>12 DEF NetRunning
<1>8. CASE /\ ~ \E m \in air : Hears(nodes, n, m)
           /\ nodes' = WithSignals([nodes EXCEPT ![n] = Sending(@)], {n})
           /\ air' = air \cup {n}
  <2>1. PICK me, sending : me = nodes[n] /\ sending = Sending(me)
    OBVIOUS
  <2>2. PICK state : state = [nodes EXCEPT ![n] = sending]
    OBVIOUS
  <2>3. PICK new : new = nodes'
    OBVIOUS
  <2>4. new = WithSignals(state, {n})
    BY <1>8, <2>1, <2>2, <2>3
  <2>5. /\ NodeInv(net, n, sending) /\ Reaches(net, n, sending)
        /\ \A f \in DOMAIN me \ {"xmit", "radio", "applied"} : sending[f] = me[f]
        /\ sending.xmit = "none" /\ sending.radio = "TX"
    <3>1. NodeInv(net, n, me) /\ me.queue # <<>>
      BY <1>2, <1>4, <2>1
    <3> QED
      BY <1>2, <2>1, <3>1, Sent
  <2>6. /\ sending.queue = me.queue /\ sending.receiving = me.receiving
        /\ sending.channel = me.channel
    BY <1>6, <2>1, <2>5 DEF NodeStates
  <2>7. me.receiving = {}
    BY <1>3, <1>8, <2>1
  <2>8. \A m \in Members : state[m] = IF m = n THEN sending ELSE nodes[m]
    BY <1>2, <2>2
  <2>9. \A m \in Members : NodeInv(net, m, state[m])
    BY <1>2, <2>5, <2>8
  <2>10. DOMAIN new = Members /\ \A m \in Members :
              /\ NodeInv(net, m, new[m])
              /\ new[m].xmit = state[m].xmit /\ new[m].queue = state[m].queue
              /\ new[m].radio = state[m].radio /\ new[m].channel = state[m].channel
              /\ new[m].applied = state[m].applied
              /\ state[m].radio = "TX" => new[m].receiving = state[m].receiving
              /\ \A k \in new[m].receiving :
                   k \in state[m].receiving \/ (k \in {n} /\ Hears(state, m, k))
    BY <2>4, <2>9, Signalled
  <2>11. \A m \in Members : \A k \in new[m].receiving : k \in air' /\ Hears(new, m, k)
    <3> SUFFICES ASSUME NEW m \in Members, NEW k \in new[m].receiving
                 PROVE  k \in air' /\ Hears(new, m, k)
      OBVIOUS
    <3>1. CASE k = n /\ Hears(state, m, k)
      BY <1>8, <2>10, <3>1, HearsAsBefore
    <3>2. CASE k \in state[m].receiving
      <4>1. m # n /\ k \in air /\ Hears(nodes, m, k) /\ k # n /\ k \in Members
        BY <1>3, <1>4, <2>6, <2>7, <2>8, <3>2
      <4>2. /\ new[m].channel = nodes[m].channel /\ new[k].channel = nodes[k].channel
            /\ new[k].applied = nodes[k].applied
        BY <2>8, <2>10, <4>1
      <4> QED
        BY <1>8, <4>1, <4>2, HearsAsBefore
    <3> QED
      BY <2>10, <3>1, <3>2
  <2>12. \A m \in Members : new[m].xmit # "TX_ON" /\ (new[m].xmit = "CCA" => new[m].queue # <<>>)
    BY <1>1, <1>3, <2>5, <2>8, <2>10
  <2>13. \A m \in air' : /\ new[m].xmit = "none" /\ new[m].queue # <<>>
                         /\ new[m].radio = "TX" /\ new[m].receiving = {}
                         /\ Reaches(net, m, new[m])
    <3> SUFFICES ASSUME NEW m \in air'
                 PROVE  /\ new[m].xmit = "none" /\ new[m].queue # <<>>
                        /\ new[m].radio = "TX" /\ new[m].receiving = {}
                        /\ Reaches(net, m, new[m])
      OBVIOUS
    <3>1. m \in Members /\ (m = n \/ (m # n /\ m \in air))
      BY <1>3, <1>4, <1>8
    <3>2. /\ state[m].xmit = "none" /\ state[m].queue # <<>>
          /\ state[m].radio = "TX" /\ state[m].receiving = {} /\ Reaches(net, m, state[m])
      BY <1>3, <1>4, <2>1, <2>5, <2>6, <2>7, <2>8, <3>1
    <3> QED
      BY <2>10, <3>1, <3>2 DEF Reaches
  <2>14. \A m, k : Hears(nodes, m, k)' <=> Hears(new, m, k)
    BY <1>1, <2>3 DEF Hears, Required
  <2>15. air' \subseteq Members
    BY <1>3, <1>8
  <2>16. MediumInv'
    BY <1>1, <1>5, <2>3, <2>11, <2>12, <2>13, <2>14, <2>15 DEF MediumInv
  <2> QED
    BY <1>1, <1>2, <1>5, <2>3, <2>10, <2>16 DEF NetRunning
<1> QED
  BY <1>7, <1>8 DEF Assess

\* Who sends does not receive.
LEMMA SenderIsNotIntact ==
  ASSUME NetRunning, NEW n \in air
  PROVE  Cardinality(nodes[n].receiving) # 1
<1>1. nodes[n].receiving = {}
  BY DEF NetRunning, MediumInv
<1>2. Cardinality({}) = 0
  BY FS_EmptySet
<1> QED
  BY <1>1, <1>2

LEMMA EndFramesKeeps ==
  ASSUME NetRunning, EndFrames
  PROVE  NetRunning'
<1> DEFINE intact == {m \in Members : Cardinality(nodes[m].receiving) = 1}
<1>1. /\ phase' = "RX" /\ air' = {} /\ UNCHANGED net
      /\ \A n \in Members : nodes[n].xmit = "none"
  BY DEF EndFrames
<1>2. PICK ok \in SUBSET intact :
        nodes' = [n \in Members |->
             CASE n \in air -> [nodes[n] EXCEPT !.radio = "OFF", !.queue = Tail(nodes[n].queue)]
               [] n \in ok -> [nodes[n] EXCEPT
                                !.heard = Frame(n, CHOOSE s \in nodes[n].receiving : TRUE),
                                !.receiving = {}]
               [] OTHER -> [nodes[n] EXCEPT !.receiving = {}]]
  BY DEF EndFrames, AfterSending
<1>3. WellFormed(net) /\ DOMAIN nodes = Members /\ \A m \in Members : NodeInv(net, m, nodes[m])
  BY DEF NetRunning
<1>4. /\ air \subseteq Members
      /\ \A m \in Members : \A k \in nodes[m].receiving : k \in air
      /\ \A m \in air : nodes[m].queue # <<>> /\ nodes[m].receiving = {}
  BY DEF NetRunning, MediumInv
<1>5. Members' = Members /\ Running' /\ DOMAIN nodes' = Members
  BY <1>1, <1>2 DEF Members, NetRunning, Running
<1>6. ASSUME NEW n \in Members
      PROVE  /\ NodeInv(net, n, nodes'[n]) /\ nodes'[n].receiving = {}
             /\ nodes'[n].xmit = "none"
  <2>1. nodes[n] \in NodeStates(net, n)
    BY <1>3 DEF NodeInv
  <2>2. CASE n \in air
    <3>1. n \notin ok
      BY <1>2, <2>2, SenderIsNotIntact
    <3>2. nodes'[n] = [nodes[n] EXCEPT !.radio = "OFF", !.queue = Tail(nodes[n].queue)]
      BY <1>2, <2>2, <3>1
    <3>3. PICK me, other : me = nodes[n] /\ other = nodes'[n]
      OBVIOUS
    <3>4. other = [me EXCEPT !.radio = "OFF", !.queue = Tail(me.queue)]
      BY <3>2, <3>3
    <3>5. /\ NodeInv(net, n, me) /\ me.queue # <<>>
          /\ me.xmit = "none" /\ me.receiving = {}
      BY <1>1, <1>3, <1>4, <2>2, <3>3
    <3>6. me \in NodeStates(net, n)
      BY <2>1, <3>3
    <3>7. Tail(me.queue) \in Seq(Seq(Nat))
      <4>1. me.queue \in Seq(Seq(Nat))
        BY <3>6 DEF NodeStates
      <4> QED
        BY <3>5, <4>1
    <3>8. /\ other \in NodeStates(net, n) /\ other.queue = Tail(me.queue)
          /\ other.heard = me.heard /\ other.table = me.table
          /\ other.xmit = me.xmit /\ other.receiving = me.receiving
      BY <3>4, <3>6, <3>7 DEF NodeStates
    <3>9. NodeInv(net, n, other)
      BY <3>5, <3>8, Finished
    <3> QED
      BY <3>3, <3>5, <3>8, <3>9
  <2>3. CASE n \notin air /\ n \in ok
    <3>1. PICK s, frame : s = (CHOOSE k \in nodes[n].receiving : TRUE) /\ frame = Frame(n, s)
      OBVIOUS
    <3>2. nodes[n].receiving # {}
      <4>1. Cardinality(nodes[n].receiving) = 1
        BY <1>2, <2>3
      <4>2. Cardinality({}) = 0
        BY FS_EmptySet
      <4> QED
        BY <4>1, <4>2
    <3>3. s \in Members /\ nodes[s].queue # <<>>
      BY <1>4, <3>1, <3>2
    <3>4. nodes[s] \in NodeStates(net, s) /\ NodeInv(net, s, nodes[s])
      BY <1>3, <3>3 DEF NodeInv
    <3>5. /\ Head(nodes[s].queue) \in Seq(Nat) /\ 1 \in DOMAIN nodes[s].queue
          /\ Head(nodes[s].queue) = nodes[s].queue[1]
      <4>1. nodes[s].queue \in Seq(Seq(Nat))
        BY <3>4 DEF NodeStates
      <4>2. PICK q : q = nodes[s].queue
        OBVIOUS
      <4>3. q \in Seq(Seq(Nat)) /\ q # <<>>
        BY <3>3, <4>1, <4>2
      <4>4. 1 \in DOMAIN q /\ q[1] \in Seq(Nat)
        BY <4>3, NotEmpty
      <4>5. Head(q) = q[1]
        BY <4>3
      <4> QED
        BY <4>2, <4>4, <4>5
    <3>6. Held(net, s, Head(nodes[s].queue))
      BY <3>4, <3>5 DEF NodeInv
    <3>7. frame.packet = Head(nodes[s].queue) /\ frame \in Frames
      <4>1. nodes[s].applied \in 0 .. 31
        BY <3>4, Zenon DEF NodeStates
      <4>2. Required(s, n) \in Int
        BY <1>3, <3>3, SetUp DEF Required, Members
      <4>3. PICK rxPow : rxPow = 2 * nodes[s].applied - Required(s, n)
        OBVIOUS
      <4>4. rxPow \in Int
        BY <4>1, <4>2, <4>3
      <4>5. frame = [packet |-> Head(nodes[s].queue), rxPow |-> rxPow]
        <5>1. frame = Frame(n, s)
          BY <3>1
        <5> QED
          BY <4>1, <4>2, <4>3, <5>1 DEF Frame
      <4> QED
        BY <3>5, <4>4, <4>5 DEF Frames
    <3>8. nodes'[n] = [nodes[n] EXCEPT !.heard = frame, !.receiving = {}]
      BY <1>2, <2>3, <3>1
    <3>9. /\ nodes'[n] \in NodeStates(net, n) /\ nodes'[n].heard = frame
          /\ nodes'[n].receiving = {} /\ nodes'[n].queue = nodes[n].queue
          /\ nodes'[n].table = nodes[n].table /\ nodes'[n].xmit = nodes[n].xmit
      BY <2>1, <3>7, <3>8 DEF NodeStates
    <3>10. s \in DOMAIN net.links
      BY <3>3 DEF Members
    <3>11. NodeInv(net, n, nodes'[n])
      BY <1>3, <3>6, <3>7, <3>9, <3>10 DEF NodeInv
    <3> QED
      BY <1>1, <3>9, <3>11
  <2>4. CASE n \notin air /\ n \notin ok
    <3>1. nodes'[n] = [nodes[n] EXCEPT !.receiving = {}]
      BY <1>2, <2>4
    <3>2. /\ nodes'[n] \in NodeStates(net, n) /\ nodes'[n].heard = nodes[n].heard
          /\ nodes'[n].receiving = {} /\ nodes'[n].queue = nodes[n].queue
          /\ nodes'[n].table = nodes[n].table /\ nodes'[n].xmit = nodes[n].xmit
      BY <2>1, <3>1 DEF NodeStates
    <3>3. NodeInv(net, n, nodes'[n])
      BY <1>3, <3>2, SameData
    <3> QED
      BY <1>1, <3>2, <3>3
  <2> QED
    BY <2>2, <2>3, <2>4
<1>7. MediumInv'
  BY <1>1, <1>5, <1>6 DEF MediumInv
<1> QED
  BY <1>1, <1>3, <1>5, <1>6, <1>7 DEF NetRunning

LEMMA IndicationKeeps ==
  ASSUME NetRunning, NEW n \in Members, ProcessPdDataIndication(n)
  PROVE  NetRunning'
<1> DEFINE frame  == nodes[n].heard
           header == Deserialize(frame.packet)
           me     == [nodes[n] EXCEPT !.heard = NoFrame]
<1>1. /\ phase = "RX" /\ UNCHANGED <<net, phase, air>> /\ nodes[n].heard # NoFrame
  BY DEF ProcessPdDataIndication
<1>2. /\ WellFormed(net) /\ DOMAIN nodes = Members
      /\ \A m \in Members : NodeInv(net, m, nodes[m])
  BY DEF NetRunning
<1>3. /\ air = {}
      /\ \A m \in Members : nodes[m].xmit = "none" /\ nodes[m].receiving = {}
  BY <1>1 DEF NetRunning, MediumInv
<1>4. Members' = Members /\ Running'
  BY <1>1 DEF Members, NetRunning, Running
<1>5. PICK other :
        /\ nodes' = [nodes EXCEPT ![n] = other]
        /\ \/ other = me
           \/ Addressed(n, header) /\ net.routing[n] # NoRouting /\ other = PowerLearned(me, frame)
           \/ /\ Addressed(n, header) /\ net.routing[n] # NoRouting /\ ForwardPacketOn(n, header)
              /\ other = Forward(PowerLearned(me, frame), frame, ProcessRxPacket(n, header))
  <2> HIDE DEF frame, header, me
  <2>1. \/ nodes' = [nodes EXCEPT ![n] = me]
        \/ /\ Addressed(n, header) /\ net.routing[n] # NoRouting
           /\ nodes' = [nodes EXCEPT ![n] = PowerLearned(me, frame)]
        \/ /\ Addressed(n, header) /\ net.routing[n] # NoRouting /\ ForwardPacketOn(n, header)
           /\ nodes' = [nodes EXCEPT ![n] =
                          Forward(PowerLearned(me, frame), frame, ProcessRxPacket(n, header))]
    BY DEF ProcessPdDataIndication, frame, header, me
  <2> QED
    BY <2>1
<1>6. NodeInv(net, n, other) /\ other.xmit = "none" /\ other.receiving = {}
  <2> HIDE DEF frame, header, me
  <2>1. frame = nodes[n].heard /\ header = Deserialize(frame.packet)
        /\ me = [nodes[n] EXCEPT !.heard = NoFrame]
    BY DEF frame, header, me
  <2> QED
    BY <1>1, <1>2, <1>3, <1>5, <2>1, Indicated
<1> HIDE DEF frame, header, me
<1>7. DOMAIN nodes' = Members /\ \A m \in Members : nodes'[m] = IF m = n THEN other ELSE nodes[m]
  BY <1>2, <1>5
<1>8. \A m \in Members : /\ NodeInv(net, m, nodes'[m]) /\ nodes'[m].xmit = "none"
                         /\ nodes'[m].receiving = {}
  BY <1>2, <1>3, <1>6, <1>7
<1>9. MediumInv'
  BY <1>1, <1>3, <1>4, <1>8 DEF MediumInv
<1> QED
  BY <1>1, <1>2, <1>4, <1>7, <1>8, <1>9 DEF NetRunning

-----------------------------------------------------------------------------
(* The clocks of the nodes *)

SameClock(a, b) ==
  a.link = b.link /\ a.wait = b.wait /\ a.hop = b.hop /\ a.channel = b.channel

LEMMA SendingClock ==
  ASSUME NEW config, NEW n, NEW me \in NodeStates(config, n), NEW other, other = Sending(me)
  PROVE  SameClock(other, me)
<1>1. PICK applied : applied = IF net.powerControl
                           THEN PhyTransmitPower(me.applied, me.table[Deserialize(Head(me.queue)).dst])
                           ELSE me.applied
  OBVIOUS
<1>2. other = [me EXCEPT !.xmit = "none", !.radio = "TX", !.applied = applied]
  BY <1>1 DEF Sending
<1> QED
  BY <1>2 DEF NodeStates, SameClock

LEMMA SignalledClock ==
  ASSUME NEW state, NEW senders, NEW m \in Members, state[m] \in NodeStates(net, m),
         NEW other, other = WithSignals(state, senders)
  PROVE  SameClock(other[m], state[m])
<1>1. PICK receiving : receiving = state[m].receiving \cup {n \in senders : Hears(state, m, n)}
  OBVIOUS
<1>2. other[m] = IF state[m].radio = "RX" THEN [state[m] EXCEPT !.receiving = receiving] ELSE state[m]
  BY <1>1 DEF WithSignals
<1> QED
  BY <1>2 DEF NodeStates, SameClock

LEMMA IndicatedClock ==
  ASSUME NEW config, NEW n, NEW me \in NodeStates(config, n), NEW frame, NEW header,
         NEW other, other \in {me, PowerLearned(me, frame), Forward(PowerLearned(me, frame), frame, header)}
  PROVE  SameClock(other, me)
<1>1. PICK learned : learned = PowerLearned(me, frame)
  OBVIOUS
<1>2. /\ SameClock(learned, me)
      /\ \E table : learned = [me EXCEPT !.table = table]
  <2>1. PICK table : table = IF net.powerControl
          THEN [me.table EXCEPT ![Deserialize(frame.packet).src] =
                      StoredPower(2 * TrailerTxPower(frame.packet) - frame.rxPow)]
          ELSE me.table
    OBVIOUS
  <2>2. learned = [me EXCEPT !.table = table]
    BY <1>1, <2>1 DEF PowerLearned, NodeStates
  <2> QED
    BY <2>2 DEF NodeStates, SameClock
<1>3. PICK queue : queue = Append(learned.queue, AddHeader(header, RemoveHeader(frame.packet)))
  OBVIOUS
<1>4. Forward(learned, frame, header) = [learned EXCEPT !.queue = queue]
  BY <1>3 DEF Forward
<1>5. SameClock([learned EXCEPT !.queue = queue], me)
  BY <1>2 DEF NodeStates, SameClock
<1> QED
  BY <1>1, <1>2, <1>4, <1>5 DEF SameClock

\* Nothing but a slot boundary moves a clock.
LEMMA ClocksMoveAtBoundaries ==
  ASSUME NetRunning, NetNext, ~BeginSlot
  PROVE  slot' = slot /\ \A m \in Members : SameClock(nodes'[m], nodes[m])
<1>1. /\ DOMAIN nodes = Members /\ \A m \in Members : nodes[m] \in NodeStates(net, m)
  BY DEF NetRunning, NodeInv
<1>2. \A m \in Members : SameClock(nodes[m], nodes[m])
  BY DEF SameClock
<1>3. ASSUME NEW n \in Members, NEW other, nodes' = [nodes EXCEPT ![n] = other],
             SameClock(other, nodes[n])
      PROVE  \A m \in Members : SameClock(nodes'[m], nodes[m])
  BY <1>1, <1>2, <1>3
<1>4. ASSUME NEW n \in Members, SendPacket(n)
      PROVE  slot' = slot /\ \A m \in Members : SameClock(nodes'[m], nodes[m])
  <2>1. PICK me, other : me = nodes[n] /\ other = WithRequest(n, me, me.sent + 1)
    OBVIOUS
  <2>2. me \in NodeStates(net, n)
    BY <1>1, <2>1
  <2>3. SameClock(other, me)
    BY <2>1, <2>2 DEF WithRequest, NodeStates, SameClock
  <2>4. nodes' = [nodes EXCEPT ![n] = other] /\ slot' = slot
    BY <1>4, <2>1 DEF SendPacket
  <2> QED
    BY <1>3, <2>1, <2>3, <2>4
<1>5. ASSUME TurnTransmittersOn
      PROVE  slot' = slot /\ \A m \in Members : SameClock(nodes'[m], nodes[m])
  <2> DEFINE due == {n \in Members : nodes[n].xmit = "TX_ON"}
             senders == {n \in due : nodes[n].queue # <<>>}
  <2>1. PICK state : state = [n \in Members |->
                 CASE n \in senders -> Sending(nodes[n])
                   [] n \in due \ senders -> [nodes[n] EXCEPT !.xmit = "none", !.radio = "OFF"]
                   [] OTHER -> nodes[n]]
    OBVIOUS
  <2>2. slot' = slot /\ nodes' = WithSignals(state, senders)
    BY <1>5, <2>1 DEF TurnTransmittersOn
  <2> SUFFICES ASSUME NEW m \in Members
               PROVE  SameClock(nodes'[m], nodes[m])
    BY <2>2
  <2>3. nodes[m] \in NodeStates(net, m) /\ NodeInv(net, m, nodes[m])
    BY <1>1 DEF NetRunning
  <2>4. state[m] \in NodeStates(net, m) /\ SameClock(state[m], nodes[m])
    <3>1. CASE m \in senders
      <4>1. PICK me, other : me = nodes[m] /\ other = Sending(me)
        OBVIOUS
      <4>2. state[m] = other /\ me.queue # <<>>
        BY <2>1, <3>1, <4>1
      <4>3. NodeInv(net, m, other)
        <5>1. NodeInv(net, m, me)
          BY <2>3, <4>1
        <5> QED
          BY <4>1, <4>2, <5>1, Sent DEF NetRunning
      <4>4. SameClock(other, me)
        BY <2>3, <4>1, SendingClock
      <4> QED
        BY <4>1, <4>2, <4>3, <4>4 DEF NodeInv
    <3>2. CASE m \in due \ senders
      <4>1. state[m] = [nodes[m] EXCEPT !.xmit = "none", !.radio = "OFF"]
        BY <2>1, <3>2
      <4> QED
        BY <2>3, <4>1 DEF NodeStates, SameClock
    <3>3. CASE m \notin due
      <4>1. state[m] = nodes[m]
        BY <2>1, <3>3
      <4> QED
        BY <1>2, <2>3, <4>1
    <3> QED
      BY <3>1, <3>2, <3>3
  <2>5. SameClock(nodes'[m], state[m])
    <3>1. PICK new : new = WithSignals(state, senders)
      OBVIOUS
    <3> HIDE DEF senders, due
    <3>2. SameClock(new[m], state[m])
      BY <2>4, <3>1, SignalledClock
    <3> QED
      BY <2>2, <3>1, <3>2
  <2> QED
    BY <2>4, <2>5 DEF SameClock
<1>6. ASSUME NEW n \in Members, Assess(n)
      PROVE  slot' = slot /\ \A m \in Members : SameClock(nodes'[m], nodes[m])
  <2>1. slot' = slot /\ nodes[n] \in NodeStates(net, n)
    BY <1>1, <1>6 DEF Assess
  <2>2. CASE \E b \in 0 .. MaxBackoff :
               nodes' = [nodes EXCEPT ![n].xmit = "none", ![n].radio = "RX", ![n].backoff = b]
    <3>1. PICK b \in 0 .. MaxBackoff :
            nodes' = [nodes EXCEPT ![n] = [nodes[n] EXCEPT !.xmit = "none", !.radio = "RX",
                                                          !.backoff = b]]
      BY <2>2
    <3>2. PICK other : other = [nodes[n] EXCEPT !.xmit = "none", !.radio = "RX", !.backoff = b]
      OBVIOUS
    <3>3. SameClock(other, nodes[n])
      BY <2>1, <3>2 DEF NodeStates, SameClock
    <3> QED
      BY <1>3, <2>1, <3>1, <3>2, <3>3
  <2>3. CASE nodes' = WithSignals([nodes EXCEPT ![n] = Sending(@)], {n})
             /\ ~ \E m \in air : Hears(nodes, n, m)
    <3>1. PICK me, sending : me = nodes[n] /\ sending = Sending(me)
      OBVIOUS
    <3>2. PICK state : state = [nodes EXCEPT ![n] = sending]
      OBVIOUS
    <3>3. nodes' = WithSignals(state, {n})
      BY <2>3, <3>1, <3>2
    <3>4. NodeInv(net, n, sending) /\ SameClock(sending, me)
      <4>1. NodeInv(net, n, me) /\ me.queue # <<>>
        BY <1>6, <3>1 DEF Assess, NetRunning, MediumInv
      <4> QED
        BY <2>1, <3>1, <4>1, Sent, SendingClock DEF NetRunning
    <3>5. \A m \in Members : state[m] = IF m = n THEN sending ELSE nodes[m]
      BY <1>1, <3>2
    <3>6. \A m \in Members : state[m] \in NodeStates(net, m) /\ SameClock(state[m], nodes[m])
      BY <1>1, <1>2, <3>1, <3>4, <3>5 DEF NodeInv
    <3>7. PICK new : new = WithSignals(state, {n})
      OBVIOUS
    <3>8. \A m \in Members : SameClock(new[m], state[m])
      BY <3>6, <3>7, SignalledClock
    <3> QED
      BY <2>1, <3>3, <3>6, <3>7, <3>8 DEF SameClock
  <2> QED
    BY <1>6, <2>2, <2>3 DEF Assess
<1>7. ASSUME EndFrames
      PROVE  slot' = slot /\ \A m \in Members : SameClock(nodes'[m], nodes[m])
  <2>1. PICK ok \in SUBSET {m \in Members : Cardinality(nodes[m].receiving) = 1} :
          nodes' = [n \in Members |->
             CASE n \in air -> [nodes[n] EXCEPT !.radio = "OFF", !.queue = Tail(nodes[n].queue)]
               [] n \in ok -> [nodes[n] EXCEPT
                                !.heard = Frame(n, CHOOSE s \in nodes[n].receiving : TRUE),
                                !.receiving = {}]
               [] OTHER -> [nodes[n] EXCEPT !.receiving = {}]]
    BY <1>7 DEF EndFrames, AfterSending
  <2> SUFFICES ASSUME NEW m \in Members
               PROVE  SameClock(nodes'[m], nodes[m])
    BY <1>7 DEF EndFrames
  <2>2. PICK queue, frame : /\ queue = Tail(nodes[m].queue)
                            /\ frame = Frame(m, CHOOSE s \in nodes[m].receiving : TRUE)
    OBVIOUS
  <2>3. \/ nodes'[m] = [nodes[m] EXCEPT !.radio = "OFF", !.queue = queue]
        \/ nodes'[m] = [nodes[m] EXCEPT !.heard = frame, !.receiving = {}]
        \/ nodes'[m] = [nodes[m] EXCEPT !.receiving = {}]
    <3>1. m \in ok => m \notin air
      BY <2>1, SenderIsNotIntact
    <3> QED
      BY <2>1, <2>2, <3>1
  <2>4. nodes[m] \in NodeStates(net, m)
    BY <1>1
  <2> QED
    BY <2>3, <2>4 DEF NodeStates, SameClock
<1>8. ASSUME NEW n \in Members, ProcessPdDataIndication(n)
      PROVE  slot' = slot /\ \A m \in Members : SameClock(nodes'[m], nodes[m])
  <2> DEFINE frame  == nodes[n].heard
             header == Deserialize(frame.packet)
             forwarded == ProcessRxPacket(n, header)
  <2>1. PICK old, me : old = nodes[n] /\ me = [old EXCEPT !.heard = NoFrame]
    OBVIOUS
  <2>2. old \in NodeStates(net, n)
    BY <1>1, <2>1
  <2>3. me \in NodeStates(net, n) /\ SameClock(me, nodes[n])
    BY <2>1, <2>2 DEF NodeStates, SameClock
  <2>4. PICK other \in {me, PowerLearned(me, frame), Forward(PowerLearned(me, frame), frame, forwarded)} :
          nodes' = [nodes EXCEPT ![n] = other]
    BY <1>8, <2>1 DEF ProcessPdDataIndication
  <2> HIDE DEF frame, forwarded, header
  <2>5. SameClock(other, me)
    BY <2>3, <2>4, IndicatedClock
  <2>6. SameClock(other, nodes[n])
    BY <2>3, <2>5 DEF SameClock
  <2>7. slot' = slot
    BY <1>8 DEF ProcessPdDataIndication
  <2> QED
    BY <1>3, <2>4, <2>6, <2>7
<1> QED
  BY <1>4, <1>5, <1>6, <1>7, <1>8 DEF NetNext

\* What the start of a slot does to the clock.
ClockStarted(n, me, other) ==
  IF me.wait # 0
  THEN /\ other.wait = me.wait - 1 /\ other.link = me.link
       /\ other.hop = me.hop /\ other.channel = me.channel /\ other.xmit = me.xmit
  ELSE /\ other.wait = SlotJump(n, me.link) - 1 /\ other.link = NextLink(n, me.link)
       /\ other.channel = net.pattern[me.hop]
       /\ other.xmit = XmitEvent(net.links[n][me.link].type, me)
       /\ Listens(net.links[n][me.link].type, me) => other.radio = "RX"

LEMMA SampleClock ==
  ASSUME NEW n, NEW me \in NodeStates(net, n), NEW other, other = WithSample(n, me)
  PROVE  SameClock(other, me) /\ other.xmit = me.xmit /\ other.radio = me.radio
<1>1. CASE other = me
  BY <1>1 DEF SameClock
<1>2. CASE other = WithRequest(n, me, (me.sent + 1) % 2)
  BY <1>2 DEF WithRequest, NodeStates, SameClock
<1> QED
  BY <1>1, <1>2 DEF WithSample

LEMMA StartClock ==
  ASSUME NEW n, NEW me \in NodeStates(net, n), NEW other, other = SlotStart(n, me)
  PROVE  ClockStarted(n, me, other)
<1>1. CASE me.wait # 0
  <2>1. PICK wait, radio : wait = me.wait - 1 /\ radio = IF me.idle THEN "OFF" ELSE me.radio
    OBVIOUS
  <2>2. other = [me EXCEPT !.wait = wait, !.radio = radio, !.idle = FALSE]
    BY <1>1, <2>1 DEF SlotStart, IdleSlot
  <2> QED
    BY <1>1, <2>1, <2>2 DEF NodeStates, ClockStarted
<1>2. CASE me.wait = 0
  <2>1. PICK channel, hop, link, wait, idle, xmit, radio, backoff, type :
           /\ channel = net.pattern[me.hop] /\ hop = (me.hop % Len(net.pattern)) + 1
           /\ link = NextLink(n, me.link) /\ wait = SlotJump(n, me.link) - 1
           /\ idle = (SlotJump(n, me.link) > 1)
           /\ type = net.links[n][me.link].type
           /\ xmit = XmitEvent(type, me)
           /\ radio = (IF Listens(type, me) THEN "RX" ELSE me.radio)
           /\ backoff = (IF type = "TRANSMIT" \/ me.backoff = 0 THEN 0 ELSE me.backoff - 1)
    OBVIOUS
  <2>2. other = [me EXCEPT !.channel = channel, !.hop = hop, !.radio = radio, !.xmit = xmit,
                           !.backoff = backoff, !.link = link, !.wait = wait, !.idle = idle]
    BY <1>2, <2>1 DEF SlotStart, ProcessLink
  <2>3. /\ other.channel = channel /\ other.radio = radio /\ other.xmit = xmit
        /\ other.link = link /\ other.wait = wait
    BY <2>2 DEF NodeStates
  <2> QED
    BY <1>2, <2>1, <2>3 DEF ClockStarted
<1> QED
  BY <1>1, <1>2

LEMMA JumpFits ==
  ASSUME WellFormed(net), LinksFit(net), NEW n \in Members, NEW link \in DOMAIN net.links[n]
  PROVE  /\ NextLink(n, link) \in DOMAIN net.links[n]
         /\ NextLink(n, link) = IF link = Len(net.links[n]) THEN 1 ELSE link + 1
         /\ net.links[n][link].slot \in 0 .. net.period - 1
         /\ net.links[n][NextLink(n, link)].slot \in 0 .. net.period - 1
         /\ SlotJump(n, link) \in 1 .. net.period
<1>1. PICK links, R : links = net.links[n] /\ R = [slot : Nat, type : LinkTypes]
  OBVIOUS
<1>2. links \in Seq(R) /\ links # <<>> /\ net.period \in Nat
  BY <1>1, SetUp DEF Members
<1>3. DOMAIN links = 1 .. Len(links) /\ Len(links) \in Nat /\ Len(links) > 0
  BY <1>2, NotEmpty
<1>4. PICK next : next = NextLink(n, link)
  OBVIOUS
<1>5. next = IF link = Len(links) THEN 1 ELSE link + 1
  <2>1. link \in 1 .. Len(links)
    BY <1>1, <1>3
  <2>2. next = (link % Len(links)) + 1
    BY <1>1, <1>4 DEF NextLink
  <2>3. PICK m : m = Len(links)
    OBVIOUS
  <2>4. link # m => link % m = link
    BY <1>3, <2>1, <2>3
  <2>5. m % m = 0
    BY <1>3, <2>3
  <2> QED
    BY <2>1, <2>2, <2>3, <2>4, <2>5
<1>6. next \in DOMAIN links /\ link \in DOMAIN links
  BY <1>1, <1>3, <1>5
<1>7. \A l \in DOMAIN links : links[l].slot \in 0 .. net.period - 1
  <2> SUFFICES ASSUME NEW l \in DOMAIN links PROVE links[l].slot \in 0 .. net.period - 1
    OBVIOUS
  <2>1. links[l] \in R
    BY <1>2, Element
  <2>2. links[l].slot \in Nat
    BY <1>1, <2>1
  <2>3. links[l].slot < net.period
    BY <1>1 DEF LinksFit, Members
  <2> QED
    BY <1>2, <2>2, <2>3
<1>8. PICK cur, then : cur = links[link].slot /\ then = links[next].slot
  OBVIOUS
<1>9. cur \in 0 .. net.period - 1 /\ then \in 0 .. net.period - 1
  BY <1>6, <1>7, <1>8
<1>10. SlotJump(n, link) = IF then <= cur THEN then + net.period - cur ELSE then - cur
  BY <1>1, <1>4, <1>8 DEF SlotJump
<1>11. SlotJump(n, link) \in 1 .. net.period
  BY <1>2, <1>9, <1>10
<1> QED
  BY <1>1, <1>4, <1>5, <1>6, <1>8, <1>9, <1>11

\* The next slot, and how long every node sleeps.
ClockInv ==
  Running /\ LinksFit(net) =>
    /\ slot \in 0 .. net.period - 1
    /\ \A n \in Members : nodes[n].wait \in 0 .. net.period - 1

LEMMA ClockKept ==
  ASSUME NetRunning, NetNext, ClockInv
  PROVE  ClockInv'
<1>1. /\ Running /\ net' = net /\ Members' = Members /\ net.period \in Nat
      /\ WellFormed(net) /\ DOMAIN nodes = Members
      /\ \A n \in Members : nodes[n] \in NodeStates(net, n)
  <2>1. net' = net
    BY DEF NetNext, BeginSlot, TurnTransmittersOn, EndFrames, SendPacket, Assess,
         ProcessPdDataIndication
  <2> QED
    BY <2>1 DEF NetRunning, NodeInv, Members, WellFormed
<1>2. CASE ~BeginSlot
  <2>1. slot' = slot /\ \A n \in Members : nodes'[n].wait = nodes[n].wait
    BY <1>2, ClocksMoveAtBoundaries DEF SameClock
  <2> QED
    BY <1>1, <2>1 DEF ClockInv, Running
<1>3. CASE BeginSlot
  <2>1. slot' = (slot + 1) % net.period
        /\ nodes' = [n \in Members |-> SlotStart(n, WithSample(n, nodes[n]))]
    BY <1>3 DEF BeginSlot
  <2>2. ASSUME LinksFit(net) PROVE slot' \in 0 .. net.period - 1
    <3>1. PICK p, s : p = net.period /\ s = slot + 1
      OBVIOUS
    <3>2. p \in Nat /\ p > 0 /\ s \in Nat
      BY <1>1, <2>2, <3>1 DEF ClockInv, LinksFit
    <3>3. s % p \in 0 .. p - 1
      BY <3>2
    <3> QED
      BY <2>1, <3>1, <3>3
  <2>3. ASSUME LinksFit(net), NEW n \in Members
        PROVE  nodes'[n].wait \in 0 .. net.period - 1
    <3>1. PICK me, other : me = WithSample(n, nodes[n]) /\ other = SlotStart(n, me)
      OBVIOUS
    <3>2. me \in NodeStates(net, n) /\ me.wait = nodes[n].wait
      <4>1. NodeInv(net, n, me)
        BY <3>1, Sampled DEF NetRunning
      <4> QED
        BY <1>1, <3>1, <4>1, SampleClock DEF NodeInv, SameClock
    <3>3. ClockStarted(n, me, other) /\ other = nodes'[n]
      BY <2>1, <3>1, <3>2, StartClock
    <3>4. me.link \in DOMAIN net.links[n] /\ me.wait \in 0 .. net.period - 1
      BY <1>1, <2>3, <3>2 DEF NodeStates, ClockInv
    <3>5. SlotJump(n, me.link) \in 1 .. net.period
      BY <1>1, <2>3, <3>4, JumpFits
    <3> QED
      BY <1>1, <3>3, <3>4, <3>5 DEF ClockStarted
  <2> QED
    BY <1>1, <2>2, <2>3 DEF ClockInv
<1> QED
  BY <1>2, <1>3

-----------------------------------------------------------------------------
(* Every network *)

\* What every step of an installed network keeps.
LEMMA NetNextKeeps ==
  ASSUME NetInv, NetNext
  PROVE  NetInv' /\ Running' /\ net' = net
<1>1. Running /\ NetRunning
  BY DEF NetNext, NetInv
<1>2. NetRunning'
  <2>1. CASE BeginSlot
    BY <1>1, <2>1, BeginSlotKeeps
  <2>2. CASE TurnTransmittersOn
    BY <1>1, <2>2, TurnTransmittersOnKeeps
  <2>3. CASE EndFrames
    BY <1>1, <2>3, EndFramesKeeps
  <2>4. CASE \E n \in Members : SendPacket(n) \/ Assess(n) \/ ProcessPdDataIndication(n)
    BY <1>1, <2>4, SendPacketKeeps, AssessKeeps, IndicationKeeps
  <2> QED
    BY <2>1, <2>2, <2>3, <2>4 DEF NetNext
<1>3. net' = net
  BY DEF NetNext, BeginSlot, TurnTransmittersOn, EndFrames, SendPacket, Assess,
         ProcessPdDataIndication
<1> QED
  BY <1>2, <1>3 DEF NetInv, NetRunning

\* A network that is whole starts that way.
LEMMA StartsWhole ==
  ASSUME NEW config, WellFormed(config), config.powerControl => OneWay(config),
         net = config, phase = "RX", air = {}, slot = 0,
         nodes = [n \in DOMAIN config.links |-> Started(config, n)]
  PROVE  NetInv
<1>1. Members = DOMAIN config.links /\ DOMAIN nodes = Members
  BY DEF Members
<1>2. \A n \in Members : /\ NodeInv(net, n, nodes[n])
                         /\ nodes[n].xmit = "none" /\ nodes[n].receiving = {}
  BY <1>1, NodeStarts
<1>3. MediumInv
  BY <1>1, <1>2 DEF MediumInv
<1> QED
  BY <1>1, <1>2, <1>3 DEF NetInv, NetRunning

LEMMA InstalledWhole ==
  ASSUME NEW config, WellFormed(config), config.powerControl => OneWay(config),
         Installed(config)
  PROVE  NetInv
BY StartsWhole DEF Installed

LEMMA DeployedWhole ==
  ASSUME NetInv, NEW config, WellFormed(config), config.powerControl => OneWay(config),
         Deploy(config)
  PROVE  NetInv' /\ net' = config
<1>1. /\ net' = config /\ phase' = "RX" /\ air' = {} /\ slot' = 0
      /\ nodes' = [n \in DOMAIN config.links |-> Started(config, n)]
  BY DEF Deploy, NetInv, Running
<1>2. Members' = DOMAIN config.links /\ DOMAIN nodes' = Members'
  BY <1>1 DEF Members
<1>3. \A n \in Members' : /\ NodeInv(config, n, nodes'[n])
                          /\ nodes'[n].xmit = "none" /\ nodes'[n].receiving = {}
  BY <1>1, <1>2, NodeStarts
<1>4. MediumInv'
  BY <1>1, <1>2, <1>3 DEF MediumInv
<1> QED
  BY <1>1, <1>2, <1>3, <1>4 DEF NetInv, NetRunning

\* The properties of the packets and the powers.
LEMMA HeaderFromInv ==
  ASSUME NetInv
  PROVE  HeaderIsRemainingRoute
<1>1. SUFFICES ASSUME Running, NEW n \in Members, NEW i \in DOMAIN nodes[n].queue
               PROVE  OnRoute(net, n, Deserialize(nodes[n].queue[i]))
  BY Zenon DEF HeaderIsRemainingRoute, OnRoute
<1> QED
  BY <1>1 DEF NetInv, NetRunning, NodeInv, Held

LEMMA PowerFromInv ==
  ASSUME NetInv
  PROVE  PowerReachesNextHop
<1>1. SUFFICES ASSUME Running, NEW n \in air
               PROVE  Reaches(net, n, nodes[n])
  BY DEF PowerReachesNextHop, Reaches, NextHopOf, Required
<1> QED
  BY <1>1 DEF NetInv, NetRunning, MediumInv

LEMMA ClockStarts ==
  ASSUME NEW config, WellFormed(config), LinksFit(config), NEW n \in DOMAIN config.links
  PROVE  0 \in 0 .. config.period - 1 /\ Started(config, n).wait \in 0 .. config.period - 1
<1>1. PICK links, R : links = config.links[n] /\ R = [slot : Nat, type : LinkTypes]
  OBVIOUS
<1>2. links \in Seq(R) /\ links # <<>> /\ config.period \in Nat
  BY <1>1, SetUp
<1>3. 1 \in DOMAIN links /\ links[1] \in R
  BY <1>2, NotEmpty
<1>4. links[1].slot \in Nat /\ links[1].slot < config.period
  BY <1>1, <1>3 DEF LinksFit
<1>5. Started(config, n).wait = links[1].slot
  BY <1>1 DEF Started
<1> QED
  BY <1>2, <1>4, <1>5

\* The types, where the superframe has the slots of all links.
LEMMA TypesFromInv ==
  ASSUME NetInv, ClockInv, Running => LinksFit(net)
  PROVE  NetTypeOK
<1>1. CASE ~Running
  BY <1>1 DEF NetTypeOK, NetInv
<1>2. CASE Running
  <2>1. NetRunning /\ slot \in 0 .. net.period - 1 /\ net.period \in Nat
    BY <1>2 DEF NetInv, ClockInv, NetRunning, WellFormed
  <2>2. air \subseteq Members /\ phase \in {"XMIT", "RX"}
    BY <2>1 DEF NetRunning, MediumInv
  <2>3. ASSUME NEW n \in Members, NEW me, me = nodes[n]
        PROVE  /\ me.link \in DOMAIN net.links[n] /\ me.hop \in DOMAIN net.pattern
               /\ me.wait \in 0 .. net.period - 1 /\ me.idle \in BOOLEAN
               /\ me.backoff \in 0 .. MaxBackoff
               /\ me.xmit \in {"none", "TX_ON", "CCA"} /\ me.radio \in {"OFF", "RX", "TX"}
               /\ me.receiving \subseteq Members
               /\ me.applied \in Int /\ me.sent \in Nat
    <3>1. me \in NodeStates(net, n) /\ me.wait \in 0 .. net.period - 1
      BY <1>2, <2>1, <2>3 DEF NetRunning, NodeInv, ClockInv
    <3>2. /\ me.link \in DOMAIN net.links[n] /\ me.hop \in DOMAIN net.pattern
          /\ me.idle \in BOOLEAN /\ me.backoff \in 0 .. MaxBackoff
          /\ me.xmit \in {"none", "TX_ON", "CCA"} /\ me.radio \in {"OFF", "RX", "TX"}
          /\ me.receiving \in SUBSET DOMAIN net.links /\ me.applied \in 0 .. 31 /\ me.sent \in Nat
      BY <3>1, Zenon DEF NodeStates
    <3>3. me.applied \in Int
      <4>1. PICK applied \in 0 .. 31 : applied = me.applied
        BY <3>2
      <4> QED
        BY <4>1
    <3>4. me.receiving \subseteq Members
      BY <3>2 DEF Members
    <3> QED
      BY <3>1, <3>2, <3>3, <3>4
  <2> QED
    BY <1>2, <2>1, <2>2, <2>3 DEF NetTypeOK
<1> QED
  BY <1>1, <1>2
-----------------------------------------------------------------------------
(* Who transmits and who listens *)

\* The slots from one number to another, which may be in the next superframe.
Distance(period, from, to) == IF to >= from THEN to - from ELSE to + period - from

\* A node wakes up for the link that comes next, whichever slot that is.
Lockstep(config, n, me, next) ==
  /\ me.wait = Distance(config.period, next, config.links[n][me.link].slot)
  /\ \A l \in DOMAIN config.links[n] :
       me.wait <= Distance(config.period, next, config.links[n][l].slot)

\* The schedules a scheduler makes: reserved slots only, ascending, on one channel.
Orderly(config) ==
  /\ config.pattern = <<11>>
  /\ \A n \in DOMAIN config.links :
       /\ \A l \in DOMAIN config.links[n] : config.links[n][l].type # "SHARED"
       /\ \A a, b \in DOMAIN config.links[n] :
            a < b => config.links[n][a].slot < config.links[n][b].slot

HasLink(config, n, at, type) ==
  \E l \in DOMAIN config.links[n] : config.links[n][l].slot = at /\ config.links[n][l].type = type

\* A slot to transmit in belongs to one node, and everybody that node ever sends to
\* has it to receive in and is in range.
OnePath(config) ==
  /\ config.powerControl
  /\ \A n \in DOMAIN config.links : \A at \in Nat : HasLink(config, n, at, "TRANSMIT") =>
       /\ config.routing[n] # NoRouting
       /\ \A m \in DOMAIN config.links : HasLink(config, m, at, "TRANSMIT") => m = n
       /\ \A h \in DOMAIN config.links : IsHop(config, n, h) =>
            /\ h # n /\ HasLink(config, h, at, "RECEIVE")
            /\ InRange(config.required[n][h])

\* The slot under way.
Now == IF slot = 0 THEN net.period - 1 ELSE slot - 1

TurnOf(n, me) ==
  /\ me.channel = 11 /\ me.xmit # "CCA"
  /\ Lockstep(net, n, me, slot)
  /\ phase = "XMIT" =>
       /\ me.xmit = "TX_ON" \/ n \in air => HasLink(net, n, Now, "TRANSMIT")
       /\ HasLink(net, n, Now, "RECEIVE") => me.radio = "RX" /\ me.xmit = "none"

TurnsInv == \A n \in Members : TurnOf(n, nodes[n])

HeardInv == \A n \in air : nodes[NextHopOf(n)].receiving = {n}

ListensInv ==
  Running /\ LinksFit(net) /\ Orderly(net) => TurnsInv /\ (OnePath(net) => HeardInv)

LEMMA DistanceBounds ==
  ASSUME NEW p \in Nat, NEW s \in 0 .. p - 1, NEW t \in 0 .. p - 1
  PROVE  Distance(p, s, t) \in 0 .. p - 1 /\ (Distance(p, s, t) = 0 <=> s = t)
BY DEF Distance

LEMMA NextSlot ==
  ASSUME NEW p \in Nat \ {0}, NEW s \in 0 .. p - 1
  PROVE  /\ (s + 1) % p = IF s + 1 = p THEN 0 ELSE s + 1
         /\ (s + 1) % p \in 0 .. p - 1
<1>1. PICK t : t = s + 1
  OBVIOUS
<1>2. t \in Nat /\ t <= p
  BY <1>1
<1>3. t < p => t % p = t
  BY <1>2
<1>4. p % p = 0
  OBVIOUS
<1> QED
  BY <1>1, <1>2, <1>3, <1>4

\* A slot that is not the next one to begin comes one slot nearer.
LEMMA OneSlotNearer ==
  ASSUME NEW p \in Nat \ {0}, NEW s \in 0 .. p - 1, NEW t \in 0 .. p - 1, s # t,
         NEW next, next = (s + 1) % p
  PROVE  Distance(p, next, t) = Distance(p, s, t) - 1
<1>1. next = IF s + 1 = p THEN 0 ELSE s + 1
  BY NextSlot
<1> QED
  BY <1>1 DEF Distance

LEMMA FromNextSlot ==
  ASSUME NEW p \in Nat \ {0}, NEW s \in 0 .. p - 1, NEW t \in 0 .. p - 1,
         NEW next, next = (s + 1) % p
  PROVE  Distance(p, next, t) = IF t <= s THEN t + p - s - 1 ELSE t - s - 1
<1>1. next = IF s + 1 = p THEN 0 ELSE s + 1
  BY NextSlot
<1> QED
  BY <1>1 DEF Distance

LEMMA LinkSlots ==
  ASSUME WellFormed(net), LinksFit(net), NEW n \in Members
  PROVE  /\ net.period \in Nat \ {0}
         /\ Len(net.links[n]) \in Nat /\ DOMAIN net.links[n] = 1 .. Len(net.links[n])
         /\ \A l \in DOMAIN net.links[n] : net.links[n][l].slot \in 0 .. net.period - 1
<1>1. PICK links, R : links = net.links[n] /\ R = [slot : Nat, type : LinkTypes]
  OBVIOUS
<1>2. links \in Seq(R) /\ links # <<>> /\ net.period \in Nat /\ net.period > 0
  BY <1>1, SetUp DEF Members, LinksFit
<1>3. DOMAIN links = 1 .. Len(links) /\ Len(links) \in Nat
  BY <1>2, NotEmpty
<1> QED
  BY SMTT(60), <1>1, <1>2, <1>3, JumpFits

\* A node that has a link in the slot that begins is awake for it.
LEMMA AwakeInTurn ==
  ASSUME WellFormed(net), LinksFit(net), Orderly(net), NEW n \in Members,
         NEW me \in NodeStates(net, n), NEW s \in 0 .. net.period - 1, Lockstep(net, n, me, s)
  PROVE  /\ me.link \in DOMAIN net.links[n]
         /\ me.wait = 0 => net.links[n][me.link].slot = s
         /\ \A l \in DOMAIN net.links[n] : net.links[n][l].slot = s => me.wait = 0 /\ l = me.link
<1>1. me.link \in DOMAIN net.links[n]
  BY DEF NodeStates
<1>2. \A l \in DOMAIN net.links[n] :
        /\ Distance(net.period, s, net.links[n][l].slot) \in 0 .. net.period - 1
        /\ Distance(net.period, s, net.links[n][l].slot) = 0 <=> s = net.links[n][l].slot
  <2> SUFFICES ASSUME NEW l \in DOMAIN net.links[n], NEW t, t = net.links[n][l].slot
               PROVE  /\ Distance(net.period, s, t) \in 0 .. net.period - 1
                      /\ Distance(net.period, s, t) = 0 <=> s = t
    OBVIOUS
  <2>1. PICK p : p = net.period
    OBVIOUS
  <2>2. p \in Nat /\ t \in 0 .. p - 1 /\ s \in 0 .. p - 1
    BY <2>1, LinkSlots
  <2>3. Distance(p, s, t) \in 0 .. p - 1 /\ (Distance(p, s, t) = 0 <=> s = t)
    BY ZenonT(60), <2>2, DistanceBounds
  <2> QED
    BY <2>1, <2>3
<1>3. me.wait = 0 => net.links[n][me.link].slot = s
  BY <1>1, <1>2 DEF Lockstep
<1>4. ASSUME NEW l \in DOMAIN net.links[n], net.links[n][l].slot = s
      PROVE  me.wait = 0 /\ l = me.link
  <2>1. me.wait = 0
    <3>1. me.wait \in 0 .. net.period - 1 /\ me.wait <= 0
      BY <1>1, <1>2, <1>4 DEF Lockstep
    <3> QED
      BY <3>1, LinkSlots
  <2>2. net.links[n][me.link].slot = s
    BY <1>3, <2>1
  <2>3. \A a, b \in DOMAIN net.links[n] : a < b => net.links[n][a].slot # net.links[n][b].slot
    BY LinkSlots DEF Orderly, Members
  <2>4. ~(l < me.link) /\ ~(me.link < l)
    BY <1>1, <1>4, <2>2, <2>3
  <2>5. l \in Int /\ me.link \in Int
    BY <1>1, LinkSlots
  <2> QED
    BY <2>1, <2>4, <2>5
<1> QED
  BY <1>1, <1>3, <1>4

\* The nodes stay in step with the slots.
LEMMA StepInTurn ==
  ASSUME WellFormed(net), LinksFit(net), Orderly(net), NEW n \in Members,
         NEW me \in NodeStates(net, n), NEW s \in 0 .. net.period - 1, Lockstep(net, n, me, s),
         NEW other, ClockStarted(n, me, other), NEW next, next = (s + 1) % net.period
  PROVE  Lockstep(net, n, other, next)
<1> DEFINE p == net.period
           at(l) == net.links[n][l].slot
           L == DOMAIN net.links[n]
           len == Len(net.links[n])
<1>1. /\ p \in Nat \ {0} /\ len \in Nat /\ L = 1 .. len /\ \A l \in L : at(l) \in 0 .. p - 1
      /\ me.link \in L
  BY LinkSlots DEF NodeStates
<1>2. \A a, b \in L : a < b => at(a) < at(b)
  BY DEF Orderly, Members
<1>3. next = IF s + 1 = p THEN 0 ELSE s + 1
  BY <1>1, NextSlot
<1>4. /\ me.wait = Distance(p, s, at(me.link))
      /\ \A l \in L : me.wait <= Distance(p, s, at(l))
  BY DEF Lockstep
<1>5. CASE me.wait # 0
  <2>1. other.wait = me.wait - 1 /\ other.link = me.link
    BY <1>5 DEF ClockStarted
  <2>2. ASSUME NEW l \in L
        PROVE  /\ Distance(p, next, at(l)) = Distance(p, s, at(l)) - 1
               /\ Distance(p, s, at(l)) \in Int
    <3>1. s # at(l)
      BY <1>5, AwakeInTurn
    <3>2. at(l) \in 0 .. p - 1
      BY <1>1
    <3>3. PICK t : t = at(l)
      OBVIOUS
    <3> HIDE DEF at
    <3>4. t \in 0 .. p - 1 /\ s # t /\ p \in Nat \ {0}
      BY <1>1, <3>1, <3>2, <3>3
    <3>5. Distance(p, next, t) = Distance(p, s, t) - 1
      BY <3>4, OneSlotNearer, Zenon
    <3>6. Distance(p, s, t) \in 0 .. p - 1
      BY <3>4, DistanceBounds
    <3>7. Distance(p, s, t) \in Int
      BY <3>4, <3>6
    <3> QED
      BY <3>3, <3>5, <3>7
  <2>3. me.wait \in Int
    BY <1>1, <1>4, <2>2
  <2>4. \A l \in L : other.wait <= Distance(p, next, at(l))
    <3> HIDE DEF at, p, L
    <3> QED
      BY <1>4, <2>1, <2>2, <2>3
  <2>5. other.wait = Distance(p, next, at(other.link))
    <3> HIDE DEF at, p, L
    <3> QED
      BY <1>1, <1>4, <2>1, <2>2
  <2> QED
    BY <2>4, <2>5 DEF Lockstep
<1>6. CASE me.wait = 0
  <2>1. PICK jump, link : jump = SlotJump(n, me.link) /\ link = NextLink(n, me.link)
    OBVIOUS
  <2>2. other.wait = jump - 1 /\ other.link = link
    BY <1>6, <2>1 DEF ClockStarted
  <2>3. at(me.link) = s
    BY <1>6, AwakeInTurn
  <2>4. /\ link \in L /\ link = IF me.link = len THEN 1 ELSE me.link + 1
        /\ jump = IF at(link) <= s THEN at(link) + p - s ELSE at(link) - s
    BY <1>1, <2>1, <2>3, JumpFits DEF SlotJump
  <2>5. ASSUME NEW l \in L
        PROVE  Distance(p, next, at(l)) = IF at(l) <= s THEN at(l) + p - s - 1 ELSE at(l) - s - 1
    <3>1. PICK t : t = at(l)
      OBVIOUS
    <3>2. t \in 0 .. p - 1 /\ p \in Nat \ {0}
      BY <1>1, <3>1
    <3> HIDE DEF at
    <3>3. Distance(p, next, t) = IF t <= s THEN t + p - s - 1 ELSE t - s - 1
      BY <3>2, FromNextSlot, Zenon
    <3> HIDE DEF p
    <3> QED
      BY <3>1, <3>3
  <2> HIDE DEF at, p, L, len
  <2>6. p \in Nat /\ s \in 0 .. p - 1 /\ at(link) \in 0 .. p - 1
    BY <1>1, <2>4 DEF p
  <2>7. Distance(p, next, at(link)) = jump - 1
    BY <2>4, <2>5, <2>6
  <2>8. ASSUME NEW l \in L
        PROVE  jump - 1 <= Distance(p, next, at(l))
    <3>1. l \in Int /\ link \in Int /\ me.link \in Int /\ len \in Int
          /\ l >= 1 /\ l <= len /\ at(l) \in 0 .. p - 1
      BY <1>1, <2>4
    <3>2. l <= me.link => at(l) <= s
      <4>1. l = me.link \/ l < me.link \/ ~(l <= me.link)
        BY <3>1
      <4>2. l < me.link => at(l) < s
        BY <1>1, <1>2, <2>3
      <4> QED
        BY <2>3, <2>6, <3>1, <4>1, <4>2
    <3>3. link <= l => at(link) <= at(l)
      <4>1. link = l \/ link < l \/ ~(link <= l)
        BY <3>1
      <4>2. link < l => at(link) < at(l)
        BY <1>2, <2>4
      <4> QED
        BY <2>6, <3>1, <4>1, <4>2
    <3>4. me.link # len => s < at(link)
      <4>1. me.link # len => me.link < link
        BY <2>4, <3>1
      <4> QED
        BY <1>1, <1>2, <2>3, <2>4, <4>1
    <3>5. me.link = len => l <= me.link /\ link <= l
      BY <2>4, <3>1
    <3>6. me.link # len => l <= me.link \/ link <= l
      BY <2>4, <3>1
    <3> QED
      BY <2>4, <2>5, <2>6, <3>1, <3>2, <3>3, <3>4, <3>5, <3>6
  <2> QED
    BY <2>2, <2>7, <2>8 DEF Lockstep, at, p, L
<1> QED
  BY <1>5, <1>6
\* What a transmitter, a medium or a receiver does leaves the turns of a slot as
\* they are, as long as nobody is told to transmit and no receiver is turned off.
LEMMA TurnsLeft ==
  ASSUME NetRunning, NetRunning', NetNext, ~BeginSlot, TurnsInv,
         phase' = "XMIT" =>
           /\ phase = "XMIT"
           /\ \A n \in Members :
                /\ nodes'[n].xmit \in {"none", nodes[n].xmit}
                /\ n \in air' => n \in air \/ nodes[n].xmit = "TX_ON"
                /\ HasLink(net, n, Now, "RECEIVE") => nodes'[n].radio = "RX"
  PROVE  TurnsInv'
<1>1. net' = net /\ Members' = Members /\ slot' = slot /\ Now' = Now
      /\ \A n \in Members : SameClock(nodes'[n], nodes[n])
  <2>1. net' = net
    BY DEF NetNext, BeginSlot, TurnTransmittersOn, EndFrames, SendPacket, Assess,
         ProcessPdDataIndication
  <2> QED
    BY <2>1, ClocksMoveAtBoundaries DEF Members, Now
<1> SUFFICES ASSUME NEW n \in Members
             PROVE  TurnOf(n, nodes[n])'
  BY <1>1 DEF TurnsInv
<1>2. PICK old, me : old = nodes[n] /\ me = nodes'[n]
  OBVIOUS
<1>3. TurnOf(n, old) /\ SameClock(me, old)
  BY <1>1, <1>2 DEF TurnsInv
<1>4. me.channel = 11 /\ Lockstep(net, n, me, slot)
  BY <1>3 DEF TurnOf, SameClock, Lockstep
<1>5. CASE phase' = "XMIT"
  <2>1. /\ phase = "XMIT" /\ me.xmit \in {"none", old.xmit}
        /\ n \in air' => n \in air \/ old.xmit = "TX_ON"
        /\ HasLink(net, n, Now, "RECEIVE") => me.radio = "RX"
    BY <1>2, <1>5
  <2> QED
    BY <1>1, <1>2, <1>3, <1>4, <1>5, <2>1 DEF TurnOf
<1>6. CASE phase' # "XMIT"
  <2>1. me.xmit = "none"
    <3>1. phase' = "RX"
      BY <1>6 DEF NetRunning, MediumInv
    <3> QED
      BY <1>1, <1>2, <3>1 DEF NetRunning, MediumInv
  <2> QED
    BY <1>1, <1>2, <1>4, <1>6, <2>1 DEF TurnOf
<1> QED
  BY <1>5, <1>6

\* At a slot boundary everybody with a link in the slot takes its turn.
LEMMA TurnsBegin ==
  ASSUME NetRunning, ClockInv, LinksFit(net), Orderly(net), BeginSlot, TurnsInv
  PROVE  TurnsInv'
<1>1. /\ phase = "RX" /\ phase' = "XMIT" /\ air' = air /\ air = {} /\ net' = net
      /\ slot' = (slot + 1) % net.period
      /\ nodes' = [n \in Members |-> SlotStart(n, WithSample(n, nodes[n]))]
      /\ Members' = Members /\ WellFormed(net)
      /\ \A n \in Members : nodes[n].xmit = "none"
  BY DEF BeginSlot, NetRunning, MediumInv, Members
<1>2. net.period \in Nat \ {0} /\ slot \in 0 .. net.period - 1
  BY <1>1 DEF ClockInv, NetRunning, LinksFit, WellFormed
<1>3. slot' = (IF slot + 1 = net.period THEN 0 ELSE slot + 1) /\ Now' = slot
  <2>1. PICK p, s, next : p = net.period /\ s = slot /\ next = slot'
    OBVIOUS
  <2>2. next = IF s + 1 = p THEN 0 ELSE s + 1
    <3>1. next = (s + 1) % p /\ p \in Nat \ {0} /\ s \in 0 .. p - 1
      BY <1>1, <1>2, <2>1
    <3> QED
      BY <3>1, NextSlot
  <2>3. Now' = IF next = 0 THEN p - 1 ELSE next - 1
    BY <1>1, <2>1 DEF Now
  <2>4. Now' = s
    BY <1>2, <2>1, <2>2, <2>3
  <2> QED
    BY <2>1, <2>2, <2>4
<1> SUFFICES ASSUME NEW n \in Members
             PROVE  TurnOf(n, nodes[n])'
  BY <1>1 DEF TurnsInv
<1>4. PICK old, me, other : old = nodes[n] /\ me = WithSample(n, old) /\ other = SlotStart(n, me)
  OBVIOUS
<1>5. /\ me \in NodeStates(net, n) /\ SameClock(me, old)
      /\ me.xmit = "none" /\ me.radio = old.radio
  <2>1. NodeInv(net, n, old)
    BY <1>4 DEF NetRunning
  <2>2. NodeInv(net, n, me)
    BY <1>4, <2>1, Sampled DEF NetRunning
  <2> QED
    BY <1>1, <1>4, <2>1, <2>2, SampleClock DEF NodeInv
<1>6. ClockStarted(n, me, other) /\ other = nodes'[n]
  BY <1>1, <1>4, <1>5, StartClock
<1>7. me.channel = 11 /\ Lockstep(net, n, me, slot)
  BY <1>4, <1>5 DEF TurnsInv, TurnOf, SameClock, Lockstep
<1>8. Lockstep(net, n, other, slot')
  BY <1>1, <1>2, <1>5, <1>6, <1>7, StepInTurn
<1>9. PICK type : type = net.links[n][me.link].type
  OBVIOUS
<1>10. /\ me.link \in DOMAIN net.links[n]
       /\ me.wait = 0 => net.links[n][me.link].slot = slot
       /\ \A l \in DOMAIN net.links[n] : net.links[n][l].slot = slot => me.wait = 0 /\ l = me.link
       /\ type # "SHARED"
  BY <1>1, <1>2, <1>5, <1>7, <1>9, AwakeInTurn DEF Orderly, Members
<1>11. /\ other.channel = 11
       /\ other.xmit = IF me.wait = 0 /\ type = "TRANSMIT" THEN "TX_ON" ELSE "none"
       /\ me.wait = 0 /\ type = "RECEIVE" => other.radio = "RX"
  <2>1. net.pattern[me.hop] = 11
    <3>1. me.hop \in DOMAIN net.pattern /\ net.pattern = <<11>>
      BY <1>5 DEF NodeStates, Orderly
    <3> QED
      BY <3>1
  <2>2. XmitEvent(type, me) = IF type = "TRANSMIT" THEN "TX_ON" ELSE "none"
    BY <1>10 DEF XmitEvent
  <2> QED
    BY <1>5, <1>6, <1>7, <1>9, <2>1, <2>2 DEF ClockStarted, Listens
<1>12. other.xmit = "TX_ON" => HasLink(net, n, slot, "TRANSMIT")
  BY <1>9, <1>10, <1>11 DEF HasLink
<1>13. HasLink(net, n, slot, "RECEIVE") => other.radio = "RX" /\ other.xmit = "none"
  BY <1>9, <1>10, <1>11 DEF HasLink
<1> QED
  BY <1>1, <1>3, <1>6, <1>8, <1>11, <1>12, <1>13 DEF TurnOf
\* Turning transmitters on changes who sends, not who listens.
LEMMA TurnsTransmit ==
  ASSUME NetRunning, NetRunning', NetNext, TurnTransmittersOn, TurnsInv
  PROVE  TurnsInv'
<1> DEFINE due == {n \in Members : nodes[n].xmit = "TX_ON"}
           senders == {n \in due : nodes[n].queue # <<>>}
<1>1. PICK state : state = [n \in Members |->
                 CASE n \in senders -> Sending(nodes[n])
                   [] n \in due \ senders -> [nodes[n] EXCEPT !.xmit = "none", !.radio = "OFF"]
                   [] OTHER -> nodes[n]]
  OBVIOUS
<1>2. /\ phase = "XMIT" /\ air' = senders /\ ~BeginSlot
      /\ nodes' = WithSignals(state, senders)
  BY <1>1 DEF TurnTransmittersOn, BeginSlot
<1>3. \A n \in Members : nodes[n] \in NodeStates(net, n)
  BY DEF NetRunning, NodeInv
<1>4. \A n \in Members : nodes'[n].xmit = state[n].xmit /\ nodes'[n].radio = state[n].radio
  <2> SUFFICES ASSUME NEW n \in Members
               PROVE  nodes'[n].xmit = state[n].xmit /\ nodes'[n].radio = state[n].radio
    OBVIOUS
  <2>1. PICK receiving : receiving = state[n].receiving \cup {m \in senders : Hears(state, n, m)}
    OBVIOUS
  <2>2. nodes'[n] = IF state[n].radio = "RX" THEN [state[n] EXCEPT !.receiving = receiving]
                                            ELSE state[n]
    BY <1>2, <2>1 DEF WithSignals
  <2> QED
    BY <2>2
<1>5. \A n \in Members : /\ state[n].xmit \in {"none", nodes[n].xmit}
                         /\ nodes[n].xmit = "none" => state[n].radio = nodes[n].radio
  <2> SUFFICES ASSUME NEW n \in Members
               PROVE  /\ state[n].xmit \in {"none", nodes[n].xmit}
                      /\ nodes[n].xmit = "none" => state[n].radio = nodes[n].radio
    OBVIOUS
  <2>1. CASE n \in senders
    <3>1. PICK me, applied : /\ me = nodes[n]
                             /\ applied = IF net.powerControl
                                  THEN PhyTransmitPower(me.applied, me.table[Deserialize(Head(me.queue)).dst])
                                  ELSE me.applied
      OBVIOUS
    <3>2. state[n] = [me EXCEPT !.xmit = "none", !.radio = "TX", !.applied = applied]
      BY <1>1, <2>1, <3>1 DEF Sending
    <3>3. me \in NodeStates(net, n) /\ me.xmit = "TX_ON"
      BY <1>3, <2>1, <3>1
    <3> QED
      BY <3>1, <3>2, <3>3 DEF NodeStates
  <2>2. CASE n \in due \ senders
    <3>1. state[n] = [nodes[n] EXCEPT !.xmit = "none", !.radio = "OFF"]
      BY <1>1, <2>2
    <3> QED
      BY <1>3, <2>2, <3>1 DEF NodeStates
  <2>3. CASE n \notin due
    <3>1. state[n] = nodes[n]
      BY <1>1, <2>3
    <3> QED
      BY <3>1
  <2> QED
    BY <2>1, <2>2, <2>3
<1>6. \A n \in Members :
        /\ nodes'[n].xmit \in {"none", nodes[n].xmit}
        /\ n \in air' => nodes[n].xmit = "TX_ON"
        /\ HasLink(net, n, Now, "RECEIVE") => nodes'[n].radio = "RX"
  BY <1>2, <1>4, <1>5 DEF TurnsInv, TurnOf
<1> QED
  BY <1>2, <1>6, TurnsLeft

\* Every step keeps the turns.
LEMMA TurnsKept ==
  ASSUME NetRunning, NetRunning', NetNext, ClockInv, LinksFit(net), Orderly(net), TurnsInv
  PROVE  TurnsInv'
<1>1. CASE BeginSlot
  BY <1>1, TurnsBegin
<1>2. CASE TurnTransmittersOn
  BY <1>2, TurnsTransmit
<1>3. CASE EndFrames
  <2>1. phase' # "XMIT" /\ ~BeginSlot
    BY <1>3 DEF EndFrames, BeginSlot
  <2> QED
    BY <2>1, TurnsLeft
<1>4. ASSUME NEW n \in Members, SendPacket(n) \/ ProcessPdDataIndication(n)
      PROVE  TurnsInv'
  <2>1. phase' # "XMIT" /\ ~BeginSlot
    BY <1>4 DEF SendPacket, ProcessPdDataIndication, BeginSlot
  <2> QED
    BY <2>1, TurnsLeft
<1>5. ASSUME NEW n \in Members, Assess(n)
      PROVE  TurnsInv'
  BY <1>5 DEF Assess, TurnsInv, TurnOf
<1> QED
  BY <1>1, <1>2, <1>3, <1>4, <1>5 DEF NetNext

\* The next hop of a node that transmits in its slot receives in it.
LEMMA NextHopInTurn ==
  ASSUME NetRunning, OnePath(net), NEW n \in Members, nodes[n].queue # <<>>,
         NEW at \in Nat, HasLink(net, n, at, "TRANSMIT")
  PROVE  /\ NextHopOf(n) \in Members /\ NextHopOf(n) # n
         /\ HasLink(net, NextHopOf(n), at, "RECEIVE")
         /\ InRange(net.required[n][NextHopOf(n)])
<1>1. PICK queue, packet, header :
        queue = nodes[n].queue /\ packet = queue[1] /\ header = Deserialize(packet)
  OBVIOUS
<1>2. NodeInv(net, n, nodes[n]) /\ WellFormed(net)
  BY DEF NetRunning
<1>3. queue \in Seq(Seq(Nat)) /\ queue # <<>>
  BY <1>1, <1>2 DEF NodeInv, NodeStates
<1>4. 1 \in DOMAIN queue /\ Head(queue) = packet
  <2>1. PICK R : R = Seq(Nat)
    OBVIOUS
  <2>2. queue \in Seq(R)
    BY <1>3, <2>1
  <2> QED
    BY <1>1, <1>3, <2>2
<1>5. OnRoute(net, n, header) /\ NextHopOf(n) = header.dst
  BY <1>1, <1>2, <1>4 DEF NodeInv, Held, NextHopOf
<1>6. /\ header.dst \in Members
      /\ net.routing[header.daddrSrc] = NoRouting =>
           header.daddrSrc = n
      /\ net.routing[header.daddrSrc] # NoRouting => IsHop(net, n, header.dst)
  BY <1>2, <1>5, NextHopIsNode DEF Members
<1>7. net.routing[n] # NoRouting
      /\ \A h \in Members : IsHop(net, n, h) =>
           /\ h # n /\ HasLink(net, h, at, "RECEIVE") /\ InRange(net.required[n][h])
  BY DEF OnePath, Members
<1>8. IsHop(net, n, header.dst)
  BY <1>6, <1>7
<1> QED
  BY <1>5, <1>6, <1>7, <1>8

\* What a node sends in its slot, its next hop receives, and nothing else.
LEMMA HeardWhenSent ==
  ASSUME NetRunning, NetRunning', ClockInv, LinksFit(net), OnePath(net), TurnsInv,
         TurnTransmittersOn
  PROVE  HeardInv'
<1> DEFINE due == {n \in Members : nodes[n].xmit = "TX_ON"}
           senders == {n \in due : nodes[n].queue # <<>>}
<1>1. PICK state : state = [n \in Members |->
                 CASE n \in senders -> Sending(nodes[n])
                   [] n \in due \ senders -> [nodes[n] EXCEPT !.xmit = "none", !.radio = "OFF"]
                   [] OTHER -> nodes[n]]
  OBVIOUS
<1>2. /\ phase = "XMIT" /\ air' = senders /\ net' = net /\ Members' = Members
      /\ nodes' = WithSignals(state, senders)
  BY <1>1 DEF TurnTransmittersOn, Members
<1> SUFFICES ASSUME NEW n \in senders
             PROVE  (nodes[NextHopOf(n)].receiving = {n})'
  BY <1>2 DEF HeardInv
<1>3. PICK me, sending : me = nodes[n] /\ sending = Sending(me)
  OBVIOUS
<1>4. /\ n \in Members /\ me.xmit = "TX_ON" /\ me.queue # <<>> /\ NodeInv(net, n, me)
      /\ me \in NodeStates(net, n) /\ WellFormed(net)
  BY <1>3 DEF NetRunning, NodeInv
<1>5. Now \in Nat
  BY <1>4 DEF ClockInv, Now, LinksFit, WellFormed, NetRunning
<1>6. HasLink(net, n, Now, "TRANSMIT")
  BY <1>2, <1>3, <1>4 DEF TurnsInv, TurnOf
<1>7. senders = {n}
  <2> SUFFICES ASSUME NEW m \in senders PROVE m = n
    OBVIOUS
  <2>1. HasLink(net, m, Now, "TRANSMIT")
    BY <1>2 DEF TurnsInv, TurnOf
  <2>2. m \in DOMAIN net.links /\ n \in DOMAIN net.links
    BY <1>4 DEF Members
  <2> QED
    BY <1>5, <1>6, <2>1, <2>2, Zenon DEF OnePath
<1>8. PICK hop : hop = NextHopOf(n)
  OBVIOUS
<1>9. /\ hop \in Members /\ hop # n /\ HasLink(net, hop, Now, "RECEIVE")
      /\ InRange(net.required[n][hop])
  BY <1>3, <1>4, <1>5, <1>6, <1>8, NextHopInTurn
<1>10. nodes[hop].radio = "RX" /\ nodes[hop].xmit = "none" /\ nodes[hop].receiving = {}
  <2>1. air = {}
    BY <1>3, <1>4 DEF NetRunning, MediumInv
  <2> QED
    BY <1>2, <1>9, <2>1 DEF TurnsInv, TurnOf, NetRunning, MediumInv
<1>11. state[hop] = nodes[hop] /\ state[n] = sending
  BY <1>1, <1>3, <1>4, <1>9, <1>10
<1>12. /\ sending.radio = "TX" /\ sending.queue = me.queue /\ sending.channel = me.channel
  <2>1. PICK applied : applied = IF net.powerControl
                         THEN PhyTransmitPower(me.applied, me.table[Deserialize(Head(me.queue)).dst])
                         ELSE me.applied
    OBVIOUS
  <2>2. sending = [me EXCEPT !.xmit = "none", !.radio = "TX", !.applied = applied]
    BY <1>3, <2>1 DEF Sending
  <2> QED
    BY <1>4, <2>2 DEF NodeStates
<1>13. nodes'[n] = sending
  BY <1>2, <1>4, <1>11, <1>12 DEF WithSignals
<1>14. NextHopOf(n)' = hop
  BY <1>3, <1>8, <1>12, <1>13 DEF NextHopOf
<1>15. 2 * sending.applied >= net.required[n][hop]
  <2>1. Reaches(net, n, nodes[n])'
    BY <1>2 DEF NetRunning, MediumInv
  <2>2. Reaches(net, n, sending)
    BY <1>2, <1>13, <2>1 DEF Reaches
  <2>3. Deserialize(Head(sending.queue)).dst = hop
    BY <1>3, <1>8, <1>12 DEF NextHopOf
  <2> QED
    BY <1>9, <2>2, <2>3 DEF Reaches, OnePath
<1>16. Hears(state, hop, n)
  <2>1. state[n].channel = 11 /\ state[hop].channel = 11 /\ state[n].applied = sending.applied
    BY <1>3, <1>4, <1>9, <1>11, <1>12 DEF TurnsInv, TurnOf
  <2>2. PICK power, loss : power = 2 * sending.applied /\ loss = net.required[n][hop]
    OBVIOUS
  <2>3. power - loss >= 0
    <3>1. loss \in Int
      BY <1>4, <1>9, <2>2 DEF WellFormed, Members
    <3>2. sending.applied \in 0 .. 31
      BY <1>2, <1>4, <1>13 DEF NetRunning, NodeInv, NodeStates
    <3> QED
      BY <1>15, <2>2, <3>1, <3>2
  <2>4. PICK psd : psd = TxPsd(power, 11)
    OBVIOUS
  <2>5. psd = [b \in {11} |-> power]
    <3>1. Bands \cap {11} = {11}
      BY DEF Bands
    <3> QED
      BY <2>4, <3>1 DEF TxPsd
  <2>6. RxPsd(psd, loss) = [b \in {11} |-> power - loss]
    BY <2>5 DEF RxPsd
  <2>7. InChannel(RxPsd(psd, loss), 11, 0)
    BY <2>3, <2>6 DEF InChannel
  <2> QED
    BY <1>9, <2>1, <2>2, <2>4, <2>7 DEF Hears, Required
<1>17. PICK receiving : receiving = nodes[hop].receiving \cup {m \in senders : Hears(state, hop, m)}
  OBVIOUS
<1>18. receiving = {n}
  BY <1>7, <1>10, <1>16, <1>17
<1>19. nodes'[hop] = [nodes[hop] EXCEPT !.receiving = receiving]
  BY <1>2, <1>9, <1>10, <1>11, <1>17 DEF WithSignals
<1>20. nodes[hop] \in NodeStates(net, hop)
  BY <1>9 DEF NetRunning, NodeInv
<1>21. nodes'[hop].receiving = {n}
  BY <1>18, <1>19, <1>20 DEF NodeStates
<1> QED
  BY <1>14, <1>21

LEMMA ListensKept ==
  ASSUME NetInv, NetInv', ClockInv, NetNext, ListensInv
  PROVE  ListensInv'
<1>1. Running /\ NetRunning /\ NetRunning' /\ net' = net
  BY NetNextKeeps DEF NetNext, NetInv
<1> SUFFICES ASSUME LinksFit(net), Orderly(net)
             PROVE  TurnsInv' /\ (OnePath(net) => HeardInv')
  BY <1>1 DEF ListensInv
<1>2. TurnsInv /\ (OnePath(net) => HeardInv)
  BY <1>1 DEF ListensInv
<1>3. TurnsInv'
  BY <1>1, <1>2, TurnsKept
<1>4. CASE TurnTransmittersOn
  BY <1>1, <1>2, <1>3, <1>4, HeardWhenSent
<1>5. CASE ~TurnTransmittersOn
  <2>1. phase' = "RX" \/ BeginSlot
    BY <1>2, <1>5 DEF NetNext, EndFrames, SendPacket, Assess, ProcessPdDataIndication,
                      TurnsInv, TurnOf
  <2>2. air' = {}
    <3>1. CASE phase' = "RX"
      BY <1>1, <3>1 DEF NetRunning, MediumInv
    <3>2. CASE BeginSlot
      BY <1>1, <3>2 DEF NetRunning, MediumInv, BeginSlot
    <3> QED
      BY <2>1, <3>1, <3>2
  <2> QED
    BY <1>3, <2>2 DEF HeardInv
<1> QED
  BY <1>3, <1>4, <1>5

\* Everybody starts asleep, waiting for its first link.
LEMMA ListensFromStart ==
  ASSUME NEW config, WellFormed(config), LinksFit(config), Orderly(config),
         NEW n \in DOMAIN config.links, NEW me, me = Started(config, n)
  PROVE  Lockstep(config, n, me, 0) /\ me.channel = 11 /\ me.xmit = "none"
<1>1. PICK links, R, p : /\ links = config.links[n] /\ R = [slot : Nat, type : LinkTypes]
                         /\ p = config.period
  OBVIOUS
<1>2. links \in Seq(R) /\ links # <<>> /\ p \in Nat
  BY <1>1, SetUp
<1>3. 1 \in DOMAIN links /\ DOMAIN links = 1 .. Len(links) /\ Len(links) \in Nat
  BY <1>2, NotEmpty
<1>4. \A l \in DOMAIN links : links[l].slot \in Nat
  <2> SUFFICES ASSUME NEW l \in DOMAIN links PROVE links[l].slot \in Nat
    OBVIOUS
  <2>1. links[l] \in R
    BY <1>2, Element
  <2> QED
    BY <1>1, <2>1
<1>5. \A l \in DOMAIN links : Distance(p, 0, links[l].slot) = links[l].slot
  BY <1>4 DEF Distance
<1>6. \A l \in DOMAIN links : links[1].slot <= links[l].slot
  <2> SUFFICES ASSUME NEW l \in DOMAIN links PROVE links[1].slot <= links[l].slot
    OBVIOUS
  <2>1. l = 1 \/ 1 < l
    BY <1>3
  <2>2. 1 < l => links[1].slot < links[l].slot
    BY <1>1, <1>3 DEF Orderly
  <2> QED
    BY <1>3, <1>4, <2>1, <2>2
<1>7. me.link = 1 /\ me.wait = links[1].slot /\ me.channel = 11 /\ me.xmit = "none"
  BY <1>1 DEF Started
<1> QED
  BY <1>1, <1>3, <1>5, <1>6, <1>7 DEF Lockstep
-----------------------------------------------------------------------------
(* What the steps do to the queues *)

\* The application of a node takes a sample at this slot boundary.
Samples(n) == net.apps[n].kind = "field" /\ slot = net.period - 2

Report(n, me) == AddHeader(Header(n, net.apps[n].dst), <<me.sent, 0>>)

LEMMA SampleTaken ==
  ASSUME NEW n, NEW me \in NodeStates(net, n), NEW other, other = WithSample(n, me)
  PROVE  /\ other.heard = me.heard /\ other.idle = me.idle /\ other.wait = me.wait
         /\ other.link = me.link /\ other.radio = me.radio
         /\ ~Samples(n) => other.queue = me.queue /\ other.sent = me.sent
         /\ Samples(n) => /\ other.queue = Append(me.queue, Report(n, me))
                          /\ other.sent = (me.sent + 1) % 2
<1>1. CASE ~Samples(n)
  <2>1. other = me
    BY <1>1 DEF WithSample, Samples
  <2> QED
    BY <1>1, <2>1
<1>2. CASE Samples(n)
  <2>1. PICK queue, sent : queue = Append(me.queue, Report(n, me)) /\ sent = (me.sent + 1) % 2
    OBVIOUS
  <2>2. other = [me EXCEPT !.queue = queue, !.sent = sent]
    BY <1>2, <2>1 DEF WithSample, Samples, WithRequest, Report
  <2> QED
    BY <1>2, <2>1, <2>2 DEF NodeStates
<1> QED
  BY <1>1, <1>2

LEMMA StartRadio ==
  ASSUME NEW n, NEW me \in NodeStates(net, n), NEW other, other = SlotStart(n, me)
  PROVE  /\ other.queue = me.queue /\ other.heard = me.heard /\ other.sent = me.sent
         /\ me.wait # 0 => ~other.idle /\ other.radio = IF me.idle THEN "OFF" ELSE me.radio
         /\ me.wait = 0 =>
              /\ other.wait = SlotJump(n, me.link) - 1
              /\ other.idle <=> SlotJump(n, me.link) > 1
              /\ other.radio = IF Listens(net.links[n][me.link].type, me) THEN "RX" ELSE me.radio
<1>1. CASE me.wait # 0
  <2>1. PICK wait, radio : wait = me.wait - 1 /\ radio = IF me.idle THEN "OFF" ELSE me.radio
    OBVIOUS
  <2>2. other = [me EXCEPT !.wait = wait, !.radio = radio, !.idle = FALSE]
    BY <1>1, <2>1 DEF SlotStart, IdleSlot
  <2> QED
    BY <1>1, <2>1, <2>2 DEF NodeStates
<1>2. CASE me.wait = 0
  <2>1. PICK channel, hop, link, wait, idle, xmit, radio, backoff, type :
           /\ channel = net.pattern[me.hop] /\ hop = (me.hop % Len(net.pattern)) + 1
           /\ link = NextLink(n, me.link) /\ wait = SlotJump(n, me.link) - 1
           /\ idle = (SlotJump(n, me.link) > 1)
           /\ type = net.links[n][me.link].type
           /\ xmit = XmitEvent(type, me)
           /\ radio = (IF Listens(type, me) THEN "RX" ELSE me.radio)
           /\ backoff = (IF type = "TRANSMIT" \/ me.backoff = 0 THEN 0 ELSE me.backoff - 1)
    OBVIOUS
  <2>2. other = [me EXCEPT !.channel = channel, !.hop = hop, !.radio = radio, !.xmit = xmit,
                           !.backoff = backoff, !.link = link, !.wait = wait, !.idle = idle]
    BY <1>2, <2>1 DEF SlotStart, ProcessLink
  <2>3. /\ other.queue = me.queue /\ other.heard = me.heard /\ other.sent = me.sent
        /\ other.radio = radio /\ other.wait = wait /\ other.idle = idle
    BY <2>2 DEF NodeStates
  <2> QED
    BY <1>2, <2>1, <2>3
<1> QED
  BY <1>1, <1>2

\* A slot boundary adds the samples to the queues, and turns radios off whose nodes
\* have no link in the slot.
LEMMA SlotBegins ==
  ASSUME NetRunning, BeginSlot, NEW n \in Members,
         NEW old, old = nodes[n], NEW other, other = nodes'[n]
  PROVE  /\ other.heard = NoFrame
         /\ ~Samples(n) => other.queue = old.queue /\ other.sent = old.sent
         /\ Samples(n) => /\ other.queue = Append(old.queue, Report(n, old))
                          /\ other.sent = (old.sent + 1) % 2
         /\ old.wait # 0 => ~other.idle /\ other.radio = IF old.idle THEN "OFF" ELSE old.radio
         /\ old.wait = 0 =>
              /\ other.wait = SlotJump(n, old.link) - 1
              /\ other.idle <=> SlotJump(n, old.link) > 1
              /\ net.links[n][old.link].type \in {"TRANSMIT", "RECEIVE"} =>
                   other.radio = IF net.links[n][old.link].type = "RECEIVE" THEN "RX" ELSE old.radio
<1>1. PICK me : me = WithSample(n, old)
  OBVIOUS
<1>2. old.heard = NoFrame /\ other = SlotStart(n, me)
  BY <1>1 DEF BeginSlot, NoneHeard
<1>3. old \in NodeStates(net, n) /\ me \in NodeStates(net, n)
  <2>1. NodeInv(net, n, old)
    BY DEF NetRunning
  <2>2. NodeInv(net, n, me)
    BY <1>1, <2>1, Sampled DEF NetRunning
  <2> QED
    BY <2>1, <2>2 DEF NodeInv
<1>4. /\ me.heard = old.heard /\ me.idle = old.idle /\ me.wait = old.wait
      /\ me.link = old.link /\ me.radio = old.radio
      /\ ~Samples(n) => me.queue = old.queue /\ me.sent = old.sent
      /\ Samples(n) => /\ me.queue = Append(old.queue, Report(n, old))
                       /\ me.sent = (old.sent + 1) % 2
  BY <1>1, <1>3, SampleTaken
<1>5. /\ other.queue = me.queue /\ other.heard = me.heard /\ other.sent = me.sent
      /\ me.wait # 0 => ~other.idle /\ other.radio = IF me.idle THEN "OFF" ELSE me.radio
      /\ me.wait = 0 =>
           /\ other.wait = SlotJump(n, me.link) - 1
           /\ other.idle <=> SlotJump(n, me.link) > 1
           /\ other.radio = IF Listens(net.links[n][me.link].type, me) THEN "RX" ELSE me.radio
  BY <1>2, <1>3, StartRadio
<1> QED
  BY <1>2, <1>4, <1>5 DEF Listens

\* Who turns its transmitter on does not listen, and either sends or has nothing to
\* send; nobody hears who does not listen.
LEMMA TransmittersTurned ==
  ASSUME NetRunning, TurnTransmittersOn, NEW n \in Members,
         NEW old, old = nodes[n], NEW other, other = nodes'[n]
  PROVE  /\ other.queue = old.queue /\ other.heard = old.heard /\ other.sent = old.sent
         /\ other.idle = old.idle /\ other.wait = old.wait
         /\ IF old.xmit = "TX_ON"
            THEN other.radio # "RX" /\ (old.queue # <<>> => n \in air')
            ELSE other.radio = old.radio
         /\ other.receiving # {} => \/ old.receiving # {}
                                    \/ old.radio = "RX" /\ old.xmit # "TX_ON"
<1> DEFINE due == {m \in Members : nodes[m].xmit = "TX_ON"}
           senders == {m \in due : nodes[m].queue # <<>>}
<1>1. PICK state : state = [m \in Members |->
                 CASE m \in senders -> Sending(nodes[m])
                   [] m \in due \ senders -> [nodes[m] EXCEPT !.xmit = "none", !.radio = "OFF"]
                   [] OTHER -> nodes[m]]
  OBVIOUS
<1>2. air' = senders /\ nodes' = WithSignals(state, senders)
  BY <1>1 DEF TurnTransmittersOn
<1>3. old \in NodeStates(net, n)
  BY DEF NetRunning, NodeInv
<1>4. PICK me : me = state[n]
  OBVIOUS
<1>5. /\ me.queue = old.queue /\ me.heard = old.heard /\ me.sent = old.sent
      /\ me.idle = old.idle /\ me.wait = old.wait /\ me.receiving = old.receiving
      /\ IF old.xmit = "TX_ON"
         THEN me.radio # "RX" /\ (old.queue # <<>> => n \in senders)
         ELSE me.radio = old.radio
  <2>1. CASE n \in senders
    <3>1. PICK applied : applied = IF net.powerControl
                           THEN PhyTransmitPower(old.applied, old.table[Deserialize(Head(old.queue)).dst])
                           ELSE old.applied
      OBVIOUS
    <3>2. me = [old EXCEPT !.xmit = "none", !.radio = "TX", !.applied = applied]
      BY <1>1, <1>4, <2>1, <3>1 DEF Sending
    <3> QED
      BY <1>3, <2>1, <3>2 DEF NodeStates
  <2>2. CASE n \in due \ senders
    <3>1. me = [old EXCEPT !.xmit = "none", !.radio = "OFF"]
      BY <1>1, <1>4, <2>2
    <3> QED
      BY <1>3, <2>2, <3>1 DEF NodeStates
  <2>3. CASE n \notin due
    <3>1. me = old
      BY <1>1, <1>4, <2>3
    <3> QED
      BY <1>3, <2>3, <3>1 DEF NodeStates
  <2> QED
    BY <2>1, <2>2, <2>3
<1>6. CASE me.radio # "RX"
  <2>1. other = me
    BY <1>2, <1>4, <1>6 DEF WithSignals
  <2> QED
    BY <1>2, <1>5, <2>1
<1>7. CASE me.radio = "RX"
  <2>1. PICK receiving : receiving = me.receiving \cup {m \in senders : Hears(state, n, m)}
    OBVIOUS
  <2>2. other = [me EXCEPT !.receiving = receiving]
    BY <1>2, <1>4, <1>7, <2>1 DEF WithSignals
  <2>3. /\ other.queue = me.queue /\ other.heard = me.heard /\ other.sent = me.sent
        /\ other.idle = me.idle /\ other.wait = me.wait /\ other.radio = me.radio
    BY <2>2
  <2> QED
    BY <1>2, <1>5, <1>7, <2>3
<1> QED
  BY <1>6, <1>7

LEMMA EndFramesState ==
  ASSUME EndFrames
  PROVE  \E ok \in SUBSET {m \in Members : Cardinality(nodes[m].receiving) = 1} :
           nodes' = [n \in Members |->
             CASE n \in air -> [nodes[n] EXCEPT !.radio = "OFF", !.queue = Tail(nodes[n].queue)]
               [] n \in ok -> [nodes[n] EXCEPT
                                !.heard = Frame(n, CHOOSE s \in nodes[n].receiving : TRUE),
                                !.receiving = {}]
               [] OTHER -> [nodes[n] EXCEPT !.receiving = {}]]
BY DEF EndFrames, AfterSending

\* The end of a slot: who has sent has a packet less, who has heard one frame may
\* keep it, and nothing else changes.
LEMMA FramesEnded ==
  ASSUME NetRunning, EndFrames, NEW n \in Members,
         NEW old, old = nodes[n], NEW other, other = nodes'[n]
  PROVE  /\ other.sent = old.sent /\ other.idle = old.idle /\ other.wait = old.wait
         /\ n \in air => /\ old.queue # <<>> /\ other.queue = Tail(old.queue)
                         /\ other.heard = old.heard /\ other.radio = "OFF"
         /\ n \notin air => /\ other.queue = old.queue /\ other.radio = old.radio
                            /\ \/ other.heard = old.heard
                               \/ \E s \in air : s \in old.receiving /\ other.heard = Frame(n, s)
<1>1. PICK ok \in SUBSET {m \in Members : Cardinality(nodes[m].receiving) = 1} :
        nodes' = [k \in Members |->
             CASE k \in air -> [nodes[k] EXCEPT !.radio = "OFF", !.queue = Tail(nodes[k].queue)]
               [] k \in ok -> [nodes[k] EXCEPT
                                !.heard = Frame(k, CHOOSE s \in nodes[k].receiving : TRUE),
                                !.receiving = {}]
               [] OTHER -> [nodes[k] EXCEPT !.receiving = {}]]
  BY EndFramesState, Zenon
<1>2. /\ old \in NodeStates(net, n)
      /\ old.receiving \subseteq air /\ (n \in air => old.queue # <<>>)
      /\ n \in air => n \notin ok
  BY <1>1, SenderIsNotIntact DEF NetRunning, MediumInv, NodeInv
<1>3. CASE n \in air
  <2>1. PICK queue : queue = Tail(old.queue)
    OBVIOUS
  <2>2. other = [old EXCEPT !.radio = "OFF", !.queue = queue]
    <3>1. nodes'[n] = [nodes[n] EXCEPT !.radio = "OFF", !.queue = Tail(nodes[n].queue)]
      BY <1>1, <1>2, <1>3
    <3> QED
      BY <2>1, <3>1
  <2> QED
    BY <1>2, <1>3, <2>1, <2>2 DEF NodeStates
<1>4. CASE n \notin air /\ n \in ok
  <2>1. PICK s, frame : s = (CHOOSE k \in old.receiving : TRUE) /\ frame = Frame(n, s)
    OBVIOUS
  <2>2. old.receiving # {}
    <3>1. Cardinality(old.receiving) = 1
      BY <1>1, <1>4
    <3> QED
      BY SMTT(60), <3>1, FS_EmptySet
  <2>3. s \in old.receiving /\ s \in air
    BY <1>2, <2>1, <2>2
  <2>4. other = [old EXCEPT !.heard = frame, !.receiving = {}]
    <3>1. nodes'[n] = [nodes[n] EXCEPT !.heard = Frame(n, CHOOSE k \in nodes[n].receiving : TRUE),
                                       !.receiving = {}]
      BY <1>1, <1>4
    <3> QED
      BY <2>1, <3>1
  <2>5. /\ other.heard = frame /\ other.queue = old.queue /\ other.radio = old.radio
        /\ other.sent = old.sent /\ other.idle = old.idle /\ other.wait = old.wait
    BY <1>2, <2>4 DEF NodeStates
  <2> QED
    BY <1>4, <2>1, <2>3, <2>5
<1>5. CASE n \notin air /\ n \notin ok
  <2>1. other = [old EXCEPT !.receiving = {}]
    BY <1>1, <1>5
  <2> QED
    BY <1>2, <1>5, <2>1 DEF NodeStates
<1> QED
  BY <1>3, <1>4, <1>5

\* What a node has heard is dropped, handed up, or queued again with another header;
\* whoever hands it up is asked for no route or is the destination.
LEMMA PacketIndicated ==
  ASSUME NetRunning, NEW n \in Members, ProcessPdDataIndication(n),
         NEW old, old = nodes[n], NEW other, other = nodes'[n],
         NEW frame, frame = old.heard, NEW header, header = Deserialize(frame.packet)
  PROVE  /\ phase = "RX" /\ frame # NoFrame
         /\ \A m \in Members \ {n} : nodes'[m] = nodes[m]
         /\ other.heard = NoFrame /\ other.sent = old.sent /\ other.idle = old.idle
         /\ other.wait = old.wait /\ other.radio = old.radio
         /\ \/ /\ other.queue = old.queue /\ indication' = NoIndication /\ header.dst # n
            \/ /\ other.queue = old.queue /\ header.dst = n
               /\ indication' = DlDataIndication(n, frame.packet)
               /\ net.routing[n] = NoRouting \/ ~ForwardPacketOn(n, header)
            \/ /\ header.dst = n /\ net.routing[n] # NoRouting
               /\ indication' = NoIndication
               /\ \E packet : other.queue = Append(old.queue, packet) /\ Id(packet) = Id(frame.packet)
<1> DEFINE me == [old EXCEPT !.heard = NoFrame]
           forwarded == ProcessRxPacket(n, header)
           packet == AddHeader(forwarded, RemoveHeader(frame.packet))
<1>1. /\ WellFormed(net) /\ DOMAIN nodes = Members /\ \A m \in Members : NodeInv(net, m, nodes[m])
      /\ old \in NodeStates(net, n)
  BY DEF NetRunning, NodeInv
<1>2. phase = "RX" /\ frame # NoFrame
  BY DEF ProcessPdDataIndication
<1>3. PICK cleared, learned : cleared = me /\ learned = PowerLearned(cleared, frame)
  OBVIOUS
<1>4. cleared \in NodeStates(net, n)
      /\ cleared.heard = NoFrame /\ cleared.queue = old.queue /\ cleared.sent = old.sent
      /\ cleared.idle = old.idle /\ cleared.wait = old.wait /\ cleared.radio = old.radio
  BY <1>1, <1>3 DEF NodeStates
<1>5. learned.heard = NoFrame /\ learned.queue = old.queue /\ learned.sent = old.sent
      /\ learned.idle = old.idle /\ learned.wait = old.wait /\ learned.radio = old.radio
      /\ \E table : learned = [cleared EXCEPT !.table = table]
  <2>1. PICK table : table = IF net.powerControl
          THEN [cleared.table EXCEPT ![Deserialize(frame.packet).src] =
                      StoredPower(2 * TrailerTxPower(frame.packet) - frame.rxPow)]
          ELSE cleared.table
    OBVIOUS
  <2>2. learned = [cleared EXCEPT !.table = table]
    BY <1>3, <1>4, <2>1 DEF PowerLearned, NodeStates
  <2> QED
    BY <1>4, <2>2 DEF NodeStates
<1>6. \/ /\ header.dst # n /\ nodes' = [nodes EXCEPT ![n] = cleared]
         /\ indication' = NoIndication
      \/ /\ header.dst = n /\ net.routing[n] = NoRouting
         /\ nodes' = [nodes EXCEPT ![n] = cleared]
         /\ indication' = DlDataIndication(n, frame.packet)
      \/ /\ header.dst = n /\ net.routing[n] # NoRouting /\ ForwardPacketOn(n, header)
         /\ nodes' = [nodes EXCEPT ![n] = Forward(learned, frame, forwarded)]
         /\ indication' = NoIndication
      \/ /\ header.dst = n /\ net.routing[n] # NoRouting /\ ~ForwardPacketOn(n, header)
         /\ nodes' = [nodes EXCEPT ![n] = learned]
         /\ indication' = DlDataIndication(n, frame.packet)
  <2> HIDE DEF forwarded
  <2> QED
    BY <1>3, Zenon DEF ProcessPdDataIndication, Addressed, forwarded
<1>7. CASE nodes' = [nodes EXCEPT ![n] = cleared] \/ nodes' = [nodes EXCEPT ![n] = learned]
  <2>1. other \in {cleared, learned} /\ \A m \in Members \ {n} : nodes'[m] = nodes[m]
    BY <1>1, <1>7
  <2> HIDE DEF me, forwarded, packet
  <2>2. /\ other.heard = NoFrame /\ other.queue = old.queue /\ other.sent = old.sent
        /\ other.idle = old.idle /\ other.wait = old.wait /\ other.radio = old.radio
    BY <1>4, <1>5, <2>1
  <2>3. CASE header.dst = n /\ net.routing[n] # NoRouting /\ ForwardPacketOn(n, header)
    <3>1. nodes' = [nodes EXCEPT ![n] = Forward(learned, frame, forwarded)]
          /\ indication' = NoIndication
      BY <1>6, <2>3
    <3>2. other = Forward(learned, frame, forwarded)
      BY <1>1, <3>1
    <3>3. other = [learned EXCEPT !.queue = Append(learned.queue, packet)]
      BY <3>2 DEF Forward, packet
    <3>4. PICK table : learned = [cleared EXCEPT !.table = table]
      BY <1>5
    <3>5. other.queue = Append(learned.queue, packet)
      BY <1>4, <3>3, <3>4 DEF NodeStates
    <3>6. Append(old.queue, packet) # old.queue
      <4>1. old.queue \in Seq(Seq(Nat))
        BY <1>1 DEF NodeStates
      <4>2. PICK q, R : q = old.queue /\ R = Seq(Nat)
        OBVIOUS
      <4>3. q \in Seq(R)
        BY <4>1, <4>2
      <4>4. Len(Append(q, packet)) = Len(q) + 1 /\ Len(q) \in Nat
        BY <4>3
      <4> QED
        BY <4>2, <4>4
    <3> QED
      BY <1>5, <2>2, <3>5, <3>6
  <2>4. CASE ~(header.dst = n /\ net.routing[n] # NoRouting /\ ForwardPacketOn(n, header))
    BY <1>2, <1>6, <2>1, <2>2, <2>4
  <2> QED
    BY <2>3, <2>4
<1>8. CASE /\ header.dst = n /\ net.routing[n] # NoRouting /\ ForwardPacketOn(n, header)
           /\ nodes' = [nodes EXCEPT ![n] = Forward(learned, frame, forwarded)]
           /\ indication' = NoIndication
  <2>1. other = Forward(learned, frame, forwarded) /\ \A m \in Members \ {n} : nodes'[m] = nodes[m]
    BY <1>1, <1>8
  <2> HIDE DEF me
  <2>2. PICK table, queue : /\ learned = [cleared EXCEPT !.table = table]
                            /\ queue = Append(old.queue, packet)
    BY <1>5
  <2>3. other = [learned EXCEPT !.queue = queue]
    BY <1>5, <2>1, <2>2 DEF Forward
  <2>4. /\ other.heard = NoFrame /\ other.queue = queue /\ other.sent = old.sent
        /\ other.idle = old.idle /\ other.wait = old.wait /\ other.radio = old.radio
    BY <1>4, <2>2, <2>3 DEF NodeStates
  <2>5. Id(packet) = Id(frame.packet)
    <3>1. PICK s \in DOMAIN net.links : Held(net, s, frame.packet)
      BY <1>1, <1>2 DEF NodeInv
    <3>2. PICK payload : payload = RemoveHeader(frame.packet)
      OBVIOUS
    <3>3. /\ header \in Headers /\ payload \in Payloads /\ OnRoute(net, s, header)
      BY <3>1, <3>2 DEF Held
    <3>4. forwarded \in Headers
      BY <1>1, <1>8, <3>1, <3>3, ForwardedOnRoute DEF Members
    <3>5. PICK new : new = forwarded
      OBVIOUS
    <3>6. packet = AddHeader(new, payload) /\ new \in Headers /\ payload \in Seq(Nat)
      BY <3>2, <3>3, <3>4, <3>5 DEF Payloads
    <3> HIDE DEF packet, forwarded
    <3>7. Deserialize(packet) = new /\ RemoveHeader(packet) = payload
      BY <3>6, HeaderComesBack
    <3>8. new.daddrSrc = header.daddrSrc /\ new.daddrDst = header.daddrDst
      BY <3>3, <3>5 DEF forwarded, ProcessRxPacket, Headers
    <3> QED
      BY <3>2, <3>7, <3>8 DEF Id
  <2> QED
    BY ZenonT(60), <1>2, <1>8, <2>1, <2>2, <2>4, <2>5
<1> QED
  BY <1>6, <1>7, <1>8

-----------------------------------------------------------------------------
(* A packet leaves every queue in the superframe it enters it *)

\* The links of a type from slot at to the end of the superframe, and whether load
\* packets and what is received in those slots can be sent in them.
Ahead(config, n, type, at) == {s \in at .. config.period - 1 : HasLink(config, n, s, type)}

Fits(config, n, load, at) ==
  load + Cardinality(Ahead(config, n, "RECEIVE", at)) <= Cardinality(Ahead(config, n, "TRANSMIT", at))

BeforeSamples(config) ==
  \A n \in DOMAIN config.links :
    /\ config.apps[n].kind # "generator"
    /\ \A l \in DOMAIN config.links[n] : config.links[n][l].slot < config.period - 2

\* Nodes that neither send nor forward.
Sinks(config, n) == config.routing[n] = NoRouting /\ config.apps[n].kind = "none"

\* Every other node first receives, and then has a slot for whatever it has received
\* and one for its own sample.
Carries(config) ==
  \A n \in DOMAIN config.links : ~Sinks(config, n) =>
    /\ Fits(config, n, 1, 0)
    /\ \A s, t \in 0 .. config.period - 1 :
         HasLink(config, n, s, "RECEIVE") /\ HasLink(config, n, t, "TRANSMIT") => s < t

\* A receiver is on in no slot but those of its links.
Rested(me) == me.idle \/ me.wait = 0 \/ me.radio # "RX"

InSlot(n, me) ==
  phase = "XMIT" =>
    /\ me.radio = "RX" => me.xmit = "TX_ON" \/ HasLink(net, n, Now, "RECEIVE")
    /\ me.receiving # {} => HasLink(net, n, Now, "RECEIVE")
    /\ HasLink(net, n, Now, "TRANSMIT") => me.xmit = "TX_ON" \/ n \in air \/ me.queue = <<>>
    /\ me.heard = NoFrame

Load(me) == Len(me.queue) + (IF me.heard = NoFrame THEN 0 ELSE 1)

\* The slots left suffice for the packets there are; after the samples, for one.
HasRoom(n, me) ==
  IF Sinks(net, n) THEN me.queue = <<>>
  ELSE IF phase = "RX"
    THEN IF slot = net.period - 1 THEN Load(me) <= 1 ELSE Fits(net, n, Load(me), slot)
    ELSE IF Now >= net.period - 2 THEN Load(me) <= 1 ELSE Fits(net, n, Load(me), Now)

\* The packet is the last one its source has reported.
Current(id) == id.src \in Members /\ id.seq = LastReport(id.src)

IsFresh(me) ==
  /\ me.sent \in {0, 1}
  /\ \A i \in DOMAIN me.queue : Current(Id(me.queue[i]))
  /\ me.heard # NoFrame => Current(Id(me.heard.packet))

Carrying(config) == LinksFit(config) /\ BeforeSamples(config) /\ Orderly(config) /\ Carries(config)

CarryInv ==
  /\ ~Running => indication = NoIndication
  /\ Running /\ Carrying(net) =>
       /\ \A n \in Members : /\ Rested(nodes[n]) /\ InSlot(n, nodes[n])
                             /\ HasRoom(n, nodes[n]) /\ IsFresh(nodes[n])
       /\ indication # NoIndication => Current(indication.packet)

\* The slots ahead one by one.
LEMMA AheadStep ==
  ASSUME NEW config, config.period \in Nat, NEW n, NEW type, NEW at \in Nat, at < config.period
  PROVE  /\ Cardinality(Ahead(config, n, type, at)) \in Nat
         /\ Cardinality(Ahead(config, n, type, at + 1)) \in Nat
         /\ Cardinality(Ahead(config, n, type, at)) =
              Cardinality(Ahead(config, n, type, at + 1))
                + (IF HasLink(config, n, at, type) THEN 1 ELSE 0)
<1>1. PICK S, T, p : /\ S = Ahead(config, n, type, at) /\ T = Ahead(config, n, type, at + 1)
                     /\ p = config.period
  OBVIOUS
<1>2. p \in Nat /\ at < p
  BY <1>1
<1>3. IsFiniteSet(T)
  <2>1. IsFiniteSet(at + 1 .. p - 1)
    BY <1>2, FS_Interval
  <2>2. T \subseteq at + 1 .. p - 1
    BY <1>1 DEF Ahead
  <2> QED
    BY <2>1, <2>2, FS_Subset
<1>4. Cardinality(T) \in Nat
  BY <1>3, FS_CardinalityType
<1>5. at \notin T
  BY <1>1 DEF Ahead
<1>6. CASE HasLink(config, n, at, type)
  <2>1. S = T \cup {at}
    BY <1>1, <1>2, <1>6 DEF Ahead
  <2>2. Cardinality(S) = Cardinality(T) + 1
    BY <1>3, <1>5, <2>1, FS_AddElement
  <2> QED
    BY <1>1, <1>4, <1>6, <2>2
<1>7. CASE ~HasLink(config, n, at, type)
  <2>1. S = T
    BY <1>1, <1>2, <1>7 DEF Ahead
  <2> QED
    BY <1>1, <1>4, <1>7, <2>1
<1> QED
  BY <1>6, <1>7

LEMMA NothingAhead ==
  ASSUME NEW config, WellFormed(config), BeforeSamples(config), NEW n \in DOMAIN config.links,
         NEW type, NEW at \in Nat, at >= config.period - 2
  PROVE  ~HasLink(config, n, at, type) /\ Cardinality(Ahead(config, n, type, at)) = 0
<1>1. PICK p : p = config.period
  OBVIOUS
<1>2. p \in Nat /\ at >= p - 2
  BY <1>1 DEF WellFormed
<1>3. ASSUME NEW s \in Int, s >= at, HasLink(config, n, s, type)
      PROVE  FALSE
  <2>1. PICK l \in DOMAIN config.links[n] : config.links[n][l].slot = s
    BY <1>3 DEF HasLink
  <2>2. s < p - 2
    BY <1>1, <2>1 DEF BeforeSamples
  <2> QED
    BY <1>2, <1>3, <2>2
<1>4. Ahead(config, n, type, at) = {}
  <2> SUFFICES ASSUME NEW s \in Ahead(config, n, type, at) PROVE FALSE
    OBVIOUS
  <2>1. s \in at .. p - 1 /\ HasLink(config, n, s, type)
    BY <1>1 DEF Ahead
  <2> QED
    BY <1>2, <1>3, <2>1
<1> QED
  BY <1>3, <1>4, FS_EmptySet

\* A node that carries its packets has links before the samples.
LEMMA Superframe ==
  ASSUME NEW config, WellFormed(config), BeforeSamples(config), NEW n \in DOMAIN config.links
  PROVE  config.period \in Nat /\ config.period > 2
<1>1. PICK links, R : links = config.links[n] /\ R = [slot : Nat, type : LinkTypes]
  OBVIOUS
<1>2. links \in Seq(R) /\ links # <<>> /\ config.period \in Nat
  BY <1>1, SetUp
<1>3. 1 \in DOMAIN links /\ links[1] \in R
  BY <1>2, NotEmpty
<1>4. links[1].slot \in Nat
  BY <1>1, <1>3
<1>5. links[1].slot < config.period - 2
  BY <1>1, <1>3 DEF BeforeSamples
<1> QED
  BY <1>2, <1>4, <1>5

LEMMA LoadIs ==
  ASSUME NEW n, NEW me \in NodeStates(net, n)
  PROVE  /\ Len(me.queue) \in Nat /\ (Len(me.queue) = 0 <=> me.queue = <<>>)
         /\ Load(me) \in Nat /\ Load(me) >= Len(me.queue) /\ Load(me) <= Len(me.queue) + 1
         /\ me.heard = NoFrame => Load(me) = Len(me.queue)
         /\ me.heard # NoFrame => Load(me) = Len(me.queue) + 1
         /\ me.queue # <<>> => Len(Tail(me.queue)) = Len(me.queue) - 1
         /\ \A packet : Len(Append(me.queue, packet)) = Len(me.queue) + 1
<1>1. PICK q, R : q = me.queue /\ R = Seq(Nat)
  OBVIOUS
<1>2. q \in Seq(R)
  BY <1>1 DEF NodeStates
<1>3. /\ Len(q) \in Nat /\ (Len(q) = 0 <=> q = <<>>)
      /\ q # <<>> => Len(Tail(q)) = Len(q) - 1
  BY <1>2
<1>4. \A packet : Len(Append(q, packet)) = Len(q) + 1
  <2> SUFFICES ASSUME NEW packet PROVE Len(Append(q, packet)) = Len(q) + 1
    OBVIOUS
  <2>1. PICK Q : Q = R \cup {packet}
    OBVIOUS
  <2>2. q \in Seq(Q) /\ packet \in Q
    BY <1>2, <2>1
  <2> QED
    BY <2>2
<1>5. Load(me) = Len(q) + (IF me.heard = NoFrame THEN 0 ELSE 1)
  BY <1>1 DEF Load
<1>6. /\ Load(me) \in Nat /\ Load(me) >= Len(q) /\ Load(me) <= Len(q) + 1
      /\ me.heard = NoFrame => Load(me) = Len(q)
      /\ me.heard # NoFrame => Load(me) = Len(q) + 1
  BY <1>3, <1>5
<1> QED
  BY <1>1, <1>3, <1>4, <1>6

\* Who awakes at a slot boundary has a link in the slot, who has one awakes, and turns
\* its transmitter on if it is a link to transmit.
LEMMA LinkOfBoundary ==
  ASSUME NetRunning, ClockInv, LinksFit(net), Orderly(net), BeginSlot, TurnsInv,
         NEW n \in Members, NEW old, old = nodes[n], NEW other, other = nodes'[n],
         NEW type, type = net.links[n][old.link].type
  PROVE  /\ slot \in 0 .. net.period - 1 /\ Now' = slot
         /\ old.wait = 0 => HasLink(net, n, slot, type) /\ type \in {"TRANSMIT", "RECEIVE"}
         /\ \A t : HasLink(net, n, slot, t) => old.wait = 0 /\ t = type
         /\ old.wait = 0 /\ type = "TRANSMIT" => other.xmit = "TX_ON"
<1>1. /\ WellFormed(net) /\ net' = net /\ slot' = (slot + 1) % net.period
      /\ other = SlotStart(n, WithSample(n, old))
  BY DEF BeginSlot, NetRunning
<1>2. net.period \in Nat \ {0} /\ slot \in 0 .. net.period - 1
  BY <1>1 DEF ClockInv, NetRunning, LinksFit, WellFormed
<1>3. Now' = slot
  <2>1. PICK p, s, next : p = net.period /\ s = slot /\ next = slot'
    OBVIOUS
  <2>2. next = IF s + 1 = p THEN 0 ELSE s + 1
    <3>1. next = (s + 1) % p /\ p \in Nat \ {0} /\ s \in 0 .. p - 1
      BY <1>1, <1>2, <2>1
    <3> QED
      BY <3>1, NextSlot
  <2>3. Now' = IF next = 0 THEN p - 1 ELSE next - 1
    BY <1>1, <2>1 DEF Now
  <2> QED
    BY <1>2, <2>1, <2>2, <2>3
<1>4. NodeInv(net, n, old) /\ old \in NodeStates(net, n) /\ Lockstep(net, n, old, slot)
  BY DEF NetRunning, NodeInv, TurnsInv, TurnOf
<1>5. /\ old.link \in DOMAIN net.links[n]
      /\ old.wait = 0 => net.links[n][old.link].slot = slot
      /\ \A l \in DOMAIN net.links[n] : net.links[n][l].slot = slot => old.wait = 0 /\ l = old.link
  BY <1>1, <1>2, <1>4, AwakeInTurn
<1>6. type \in {"TRANSMIT", "RECEIVE"}
  <2>1. PICK links, R : links = net.links[n] /\ R = [slot : Nat, type : LinkTypes]
    OBVIOUS
  <2>2. links \in Seq(R)
    BY <1>1, <2>1, SetUp DEF Members
  <2>3. links[old.link] \in R
    BY <1>5, <2>1, <2>2, Element
  <2> QED
    BY <1>5, <2>1, <2>3 DEF Orderly, Members, LinkTypes
<1>7. ASSUME old.wait = 0, type = "TRANSMIT"
      PROVE  other.xmit = "TX_ON"
  <2>1. PICK me : me = WithSample(n, old)
    OBVIOUS
  <2>2. me \in NodeStates(net, n)
    <3>1. NodeInv(net, n, me)
      BY <1>1, <1>4, <2>1, Sampled
    <3> QED
      BY <3>1 DEF NodeInv
  <2>3. SameClock(me, old)
    BY <1>4, <2>1, SampleClock
  <2>4. ClockStarted(n, me, other)
    BY <1>1, <2>1, <2>2, StartClock
  <2> QED
    BY <1>7, <2>3, <2>4 DEF ClockStarted, SameClock, XmitEvent
<1> QED
  BY <1>2, <1>3, <1>5, <1>6, <1>7 DEF HasLink

\* The receivers: off in the slots without a link to receive.
LEMMA RestedAndInSlot ==
  ASSUME NetRunning, NetRunning', NetNext, ClockInv, Carrying(net), TurnsInv,
         NEW n \in Members, Rested(nodes[n]), InSlot(n, nodes[n])
  PROVE  Rested(nodes'[n]) /\ InSlot(n, nodes[n])'
<1>1. PICK old, other : old = nodes[n] /\ other = nodes'[n]
  OBVIOUS
<1>2. /\ LinksFit(net) /\ Orderly(net) /\ BeforeSamples(net) /\ WellFormed(net)
      /\ \A m \in Members : net.apps[m].kind # "generator"
  BY DEF Carrying, BeforeSamples, Members, NetRunning
<1>3. CASE BeginSlot
  <2>1. PICK type : type = net.links[n][old.link].type
    OBVIOUS
  <2>2. /\ slot \in 0 .. net.period - 1 /\ Now' = slot
        /\ old.wait = 0 => HasLink(net, n, slot, type) /\ type \in {"TRANSMIT", "RECEIVE"}
        /\ \A t : HasLink(net, n, slot, t) => old.wait = 0 /\ t = type
        /\ old.wait = 0 /\ type = "TRANSMIT" => other.xmit = "TX_ON"
    BY <1>1, <1>2, <1>3, <2>1, LinkOfBoundary
  <2>3. /\ other.heard = NoFrame
        /\ old.wait # 0 => ~other.idle /\ other.radio = IF old.idle THEN "OFF" ELSE old.radio
        /\ old.wait = 0 =>
             /\ other.wait = SlotJump(n, old.link) - 1
             /\ other.idle <=> SlotJump(n, old.link) > 1
             /\ type \in {"TRANSMIT", "RECEIVE"} =>
                  other.radio = IF type = "RECEIVE" THEN "RX" ELSE old.radio
    BY <1>1, <1>3, <2>1, SlotBegins
  <2>4. Rested(other)
    <3>1. old.wait = 0 => SlotJump(n, old.link) \in Int /\ SlotJump(n, old.link) >= 1
      <4>1. old.link \in DOMAIN net.links[n]
        <5>1. old \in NodeStates(net, n)
          BY <1>1 DEF NetRunning, NodeInv
        <5> QED
          BY <5>1 DEF NodeStates
      <4>2. SlotJump(n, old.link) \in 1 .. net.period
        BY <1>2, <4>1, JumpFits
      <4>3. net.period \in Nat
        BY <1>2 DEF WellFormed
      <4> QED
        BY <4>2, <4>3
    <3> QED
      BY <1>1, <2>3, <3>1 DEF Rested
  <2>5. other.radio = "RX" => other.xmit = "TX_ON" \/ HasLink(net, n, slot, "RECEIVE")
    BY <1>1, <2>2, <2>3 DEF Rested
  <2>6. HasLink(net, n, slot, "TRANSMIT") => other.xmit = "TX_ON"
    BY <2>2
  <2>7. other.receiving = {}
    <3>1. air' = {} /\ Members' = Members
      BY <1>3 DEF BeginSlot, NetRunning, MediumInv, Members
    <3> QED
      BY <1>1, <3>1 DEF NetRunning, MediumInv
  <2>8. net' = net
    BY <1>3 DEF BeginSlot
  <2> QED
    BY <1>1, <2>2, <2>3, <2>4, <2>5, <2>6, <2>7, <2>8 DEF InSlot
<1>4. CASE TurnTransmittersOn
  <2>1. /\ other.queue = old.queue /\ other.heard = old.heard
        /\ other.idle = old.idle /\ other.wait = old.wait
        /\ IF old.xmit = "TX_ON"
           THEN other.radio # "RX" /\ (old.queue # <<>> => n \in air')
           ELSE other.radio = old.radio
        /\ other.receiving # {} => \/ old.receiving # {}
                                   \/ old.radio = "RX" /\ old.xmit # "TX_ON"
    BY <1>1, <1>4, TransmittersTurned
  <2>2. phase = "XMIT" /\ net' = net /\ Now' = Now /\ air = {}
    BY <1>4 DEF TurnTransmittersOn, Now, NetRunning, MediumInv
  <2> QED
    BY <1>1, <2>1, <2>2 DEF Rested, InSlot
<1>5. CASE EndFrames
  <2>1. other.idle = old.idle /\ other.wait = old.wait /\ other.radio \in {"OFF", old.radio}
    BY <1>1, <1>5, FramesEnded
  <2>2. phase' = "RX"
    BY <1>5 DEF EndFrames
  <2> QED
    BY <1>1, <2>1, <2>2 DEF Rested, InSlot
<1>6. ASSUME NEW m \in Members, SendPacket(m)
      PROVE  FALSE
  BY <1>2, <1>6 DEF SendPacket
<1>7. ASSUME NEW m \in Members, Assess(m)
      PROVE  FALSE
  BY <1>7 DEF Assess, TurnsInv, TurnOf
<1>8. ASSUME NEW m \in Members, ProcessPdDataIndication(m)
      PROVE  Rested(nodes'[n]) /\ InSlot(n, nodes[n])'
  <2>1. phase' = "RX"
    BY <1>8 DEF ProcessPdDataIndication
  <2>2. other.idle = old.idle /\ other.wait = old.wait /\ other.radio = old.radio
    <3>1. CASE m = n
      BY <1>1, <1>8, <3>1, PacketIndicated
    <3>2. CASE m # n
      <4>1. PICK a, b, frame, header : /\ a = nodes[m] /\ b = nodes'[m] /\ frame = a.heard
                                       /\ header = Deserialize(frame.packet)
        OBVIOUS
      <4>2. nodes'[n] = nodes[n]
        BY <1>8, <3>2, <4>1, PacketIndicated
      <4> QED
        BY <1>1, <4>2
    <3> QED
      BY <3>1, <3>2
  <2> QED
    BY <1>1, <2>1, <2>2 DEF Rested, InSlot
<1> QED
  BY <1>3, <1>4, <1>5, <1>6, <1>7, <1>8 DEF NetNext

LEMMA OneLink ==
  ASSUME WellFormed(net), LinksFit(net), Orderly(net), NEW n \in Members, NEW at,
         HasLink(net, n, at, "TRANSMIT"), HasLink(net, n, at, "RECEIVE")
  PROVE  FALSE
<1>1. PICK a \in DOMAIN net.links[n] : net.links[n][a].slot = at /\ net.links[n][a].type = "TRANSMIT"
  BY DEF HasLink
<1>2. PICK b \in DOMAIN net.links[n] : net.links[n][b].slot = at /\ net.links[n][b].type = "RECEIVE"
  BY DEF HasLink
<1>3. /\ net.period \in Nat \ {0} /\ Len(net.links[n]) \in Nat
      /\ DOMAIN net.links[n] = 1 .. Len(net.links[n])
      /\ net.links[n][a].slot \in 0 .. net.period - 1
  BY LinkSlots
<1>4. a # b /\ a \in Int /\ b \in Int /\ at \in Int
  BY <1>1, <1>2, <1>3
<1>5. a < b \/ b < a
  BY <1>4
<1>6. at < at
  BY <1>1, <1>2, <1>5 DEF Orderly, Members
<1> QED
  BY <1>4, <1>6

\* Between the samples and the first slot there is one packet at most, and from there
\* on every packet has a slot.
LEMMA RoomAtBoundary ==
  ASSUME NetRunning, NetRunning', BeginSlot, ClockInv, Carrying(net), TurnsInv,
         NEW n \in Members, HasRoom(n, nodes[n])
  PROVE  HasRoom(n, nodes[n])'
<1>1. PICK old, other, p : old = nodes[n] /\ other = nodes'[n] /\ p = net.period
  OBVIOUS
<1>2. /\ LinksFit(net) /\ Orderly(net) /\ BeforeSamples(net) /\ WellFormed(net)
      /\ old \in NodeStates(net, n)
  BY <1>1 DEF Carrying, NetRunning, NodeInv
<1>3. p \in Nat /\ p > 2
  BY <1>1, <1>2, Superframe DEF Members
<1>4. /\ other.heard = NoFrame /\ old.heard = NoFrame
      /\ ~Samples(n) => other.queue = old.queue
      /\ Samples(n) => other.queue = Append(old.queue, Report(n, old))
  BY <1>1, SlotBegins DEF BeginSlot, NoneHeard
<1>5. slot \in 0 .. p - 1 /\ Now' = slot /\ phase = "RX" /\ phase' = "XMIT" /\ net' = net
  <2>1. PICK type : type = net.links[n][old.link].type
    OBVIOUS
  <2> QED
    BY <1>1, <1>2, <2>1, LinkOfBoundary DEF BeginSlot
<1>6. other \in NodeStates(net, n)
  BY <1>1, <1>5 DEF NetRunning, NodeInv, Members
<1>7. /\ Len(old.queue) \in Nat /\ Load(old) = Len(old.queue) /\ Load(other) = Len(other.queue)
      /\ ~Samples(n) => Load(other) = Load(old)
      /\ Samples(n) => Load(other) = Load(old) + 1
  BY <1>2, <1>4, <1>6, LoadIs
<1>8. CASE Sinks(net, n)
  BY <1>1, <1>4, <1>5, <1>8 DEF HasRoom, Sinks, Samples
<1>9. CASE ~Sinks(net, n) /\ slot < p - 2
  <2>1. Fits(net, n, Load(old), slot) /\ ~Samples(n)
    BY <1>1, <1>3, <1>5, <1>9 DEF HasRoom, Samples
  <2> QED
    BY <1>1, <1>3, <1>5, <1>7, <1>9, <2>1 DEF HasRoom
<1>10. CASE ~Sinks(net, n) /\ slot = p - 2
  <2>1. Fits(net, n, Load(old), slot)
    BY <1>1, <1>3, <1>5, <1>10 DEF HasRoom
  <2>2. \A type : Cardinality(Ahead(net, n, type, slot)) = 0
    <3>1. slot \in Nat /\ slot >= net.period - 2 /\ n \in DOMAIN net.links
      BY <1>1, <1>3, <1>5, <1>10 DEF Members
    <3> QED
      BY <1>2, <3>1, NothingAhead
  <2>3. Load(old) <= 0
    BY <1>7, <2>1, <2>2 DEF Fits
  <2>4. Load(other) <= 1
    BY <1>7, <2>3
  <2> QED
    BY <1>1, <1>3, <1>5, <1>10, <2>4 DEF HasRoom
<1>11. CASE ~Sinks(net, n) /\ slot = p - 1
  <2>1. Load(old) <= 1 /\ ~Samples(n)
    BY <1>1, <1>3, <1>5, <1>11 DEF HasRoom, Samples
  <2> QED
    BY <1>1, <1>3, <1>5, <1>7, <1>11, <2>1 DEF HasRoom
<1> QED
  BY <1>3, <1>5, <1>8, <1>9, <1>10, <1>11

\* A slot that is received in adds one packet at most, a slot that is sent in takes
\* one; when there is none, nothing will come before the samples.
LEMMA RoomAtEnd ==
  ASSUME NetRunning, NetRunning', EndFrames, ClockInv, Carrying(net), TurnsInv,
         NEW n \in Members, InSlot(n, nodes[n]), HasRoom(n, nodes[n])
  PROVE  HasRoom(n, nodes[n])'
<1>1. PICK old, other, p, at : old = nodes[n] /\ other = nodes'[n] /\ p = net.period /\ at = Now
  OBVIOUS
<1>2. /\ LinksFit(net) /\ Orderly(net) /\ BeforeSamples(net) /\ Carries(net) /\ WellFormed(net)
      /\ old \in NodeStates(net, n) /\ n \in DOMAIN net.links
  BY <1>1 DEF Carrying, NetRunning, NodeInv, Members
<1>3. p \in Nat /\ p > 2
  BY <1>1, <1>2, Superframe DEF Members
<1>4. /\ n \in air => /\ old.queue # <<>> /\ other.queue = Tail(old.queue)
                      /\ other.heard = old.heard
      /\ n \notin air => /\ other.queue = old.queue
                         /\ other.heard # old.heard => old.receiving # {}
  BY <1>1, FramesEnded
<1>5. /\ phase = "XMIT" /\ phase' = "RX" /\ net' = net /\ slot' = slot
      /\ old.xmit = "none" /\ slot \in 0 .. p - 1
      /\ at = IF slot = 0 THEN p - 1 ELSE slot - 1
  BY <1>1, <1>2 DEF EndFrames, ClockInv, NetRunning, Now
<1>6. other \in NodeStates(net, n)
  BY <1>1, <1>5 DEF NetRunning, NodeInv, Members
<1>7. /\ old.heard = NoFrame
      /\ old.receiving # {} => HasLink(net, n, at, "RECEIVE")
      /\ HasLink(net, n, at, "TRANSMIT") => n \in air \/ old.queue = <<>>
      /\ n \in air => HasLink(net, n, at, "TRANSMIT")
  BY <1>1, <1>5 DEF InSlot, TurnsInv, TurnOf
<1>8. /\ Load(old) \in Nat /\ Load(other) \in Nat
      /\ (Load(old) = 0 <=> old.queue = <<>>)
      /\ n \in air => Load(other) = Load(old) - 1
      /\ n \notin air => Load(other) <= Load(old) + 1
      /\ n \notin air /\ old.receiving = {} => Load(other) = Load(old)
  <2>1. /\ Load(old) = Len(old.queue) /\ Len(old.queue) \in Nat
        /\ (Len(old.queue) = 0 <=> old.queue = <<>>)
        /\ old.queue # <<>> => Len(Tail(old.queue)) = Len(old.queue) - 1
    BY <1>2, <1>7, LoadIs
  <2>2. /\ Load(other) \in Nat /\ Load(other) <= Len(other.queue) + 1
        /\ other.heard = NoFrame => Load(other) = Len(other.queue)
    BY <1>6, LoadIs
  <2> QED
    BY <1>4, <1>7, <2>1, <2>2
<1>9. CASE Sinks(net, n)
  BY <1>1, <1>4, <1>5, <1>9 DEF HasRoom
<1>10. CASE ~Sinks(net, n) /\ at >= p - 2
  <2>1. \A type : ~HasLink(net, n, at, type)
    <3>1. at \in Nat
      BY <1>3, <1>5
    <3> QED
      BY <1>1, <1>2, <1>10, <3>1, NothingAhead
  <2>2. Load(other) <= 1
    BY <1>1, <1>5, <1>7, <1>8, <1>10, <2>1 DEF HasRoom
  <2>3. CASE slot = p - 1
    BY <1>1, <1>5, <1>10, <2>2, <2>3 DEF HasRoom
  <2>4. CASE slot = 0
    <3>1. Fits(net, n, 1, 0)
      BY <1>2, <1>10 DEF Carries
    <3>2. /\ Cardinality(Ahead(net, n, "RECEIVE", 0)) \in Nat
          /\ Cardinality(Ahead(net, n, "TRANSMIT", 0)) \in Nat
      BY <1>1, <1>3, AheadStep
    <3>3. Fits(net, n, Load(other), 0)
      BY <1>8, <2>2, <3>1, <3>2 DEF Fits
    <3> QED
      BY <1>1, <1>3, <1>5, <1>10, <2>4, <3>3 DEF HasRoom
  <2> QED
    BY <1>3, <1>5, <1>10, <2>3, <2>4
<1>11. CASE ~Sinks(net, n) /\ at < p - 2
  <2>1. slot = at + 1 /\ at \in Nat /\ at < p /\ slot # p - 1
    BY <1>3, <1>5, <1>11
  <2>2. PICK R, T, r, t : /\ R = Cardinality(Ahead(net, n, "RECEIVE", at))
                          /\ T = Cardinality(Ahead(net, n, "TRANSMIT", at))
                          /\ r = Cardinality(Ahead(net, n, "RECEIVE", slot))
                          /\ t = Cardinality(Ahead(net, n, "TRANSMIT", slot))
    OBVIOUS
  <2>3. /\ r \in Nat /\ t \in Nat
        /\ R = r + (IF HasLink(net, n, at, "RECEIVE") THEN 1 ELSE 0)
        /\ T = t + (IF HasLink(net, n, at, "TRANSMIT") THEN 1 ELSE 0)
    BY <1>1, <1>3, <2>1, <2>2, AheadStep
  <2>4. Load(old) + R <= T
    <3>1. ~(Now >= net.period - 2)
      BY <1>1, <1>3, <1>11, <2>1
    <3>2. Fits(net, n, Load(old), at)
      BY <1>1, <1>5, <1>11, <3>1, Zenon DEF HasRoom
    <3> QED
      BY <2>2, <3>2 DEF Fits
  <2>5. ~(HasLink(net, n, at, "RECEIVE") /\ HasLink(net, n, at, "TRANSMIT"))
    BY <1>2, OneLink
  <2>6. Load(other) + r <= t
    <3>1. CASE n \in air
      BY <1>7, <1>8, <2>3, <2>4, <2>5, <3>1
    <3>2. CASE n \notin air /\ HasLink(net, n, at, "RECEIVE")
      BY <1>8, <2>3, <2>4, <2>5, <3>2
    <3>3. CASE n \notin air /\ ~HasLink(net, n, at, "RECEIVE") /\ ~HasLink(net, n, at, "TRANSMIT")
      BY <1>7, <1>8, <2>3, <2>4, <3>3
    <3>4. CASE n \notin air /\ HasLink(net, n, at, "TRANSMIT")
      <4>1. Ahead(net, n, "RECEIVE", slot) = {}
        <5> SUFFICES ASSUME NEW s \in Ahead(net, n, "RECEIVE", slot) PROVE FALSE
          OBVIOUS
        <5>1. s \in slot .. p - 1 /\ HasLink(net, n, s, "RECEIVE")
          BY <1>1 DEF Ahead
        <5>2. s \in 0 .. p - 1 /\ at \in 0 .. p - 1 /\ ~(s < at)
          BY <1>3, <1>5, <2>1, <5>1
        <5> QED
          BY <1>1, <1>2, <1>11, <3>4, <5>1, <5>2 DEF Carries
      <4>2. r = 0
        BY <2>2, <4>1, FS_EmptySet
      <4>3. Load(other) = 0
        BY <1>7, <1>8, <2>5, <3>4
      <4> QED
        BY <2>3, <4>2, <4>3
    <3> QED
      BY <3>1, <3>2, <3>3, <3>4
  <2>7. Fits(net, n, Load(other), slot)
    BY <2>2, <2>6 DEF Fits
  <2> QED
    BY <1>1, <1>5, <1>11, <2>1, <2>7 DEF HasRoom
<1> QED
  BY <1>3, <1>5, <1>9, <1>10, <1>11

\* Of what is heard at most one packet enters the queue again.
LEMMA RoomForHeard ==
  ASSUME NetRunning, NetRunning', NEW m \in Members, ProcessPdDataIndication(m), ClockInv,
         Carrying(net), NEW n \in Members, HasRoom(n, nodes[n])
  PROVE  HasRoom(n, nodes[n])'
<1>1. PICK old, other, frame, header, p :
        /\ old = nodes[m] /\ other = nodes'[m] /\ frame = old.heard
        /\ header = Deserialize(frame.packet) /\ p = net.period
  OBVIOUS
<1>2. /\ phase = "RX" /\ phase' = "RX" /\ net' = net /\ slot' = slot /\ Now' = Now
  BY DEF ProcessPdDataIndication, Now
<1>3. /\ frame # NoFrame /\ \A k \in Members \ {m} : nodes'[k] = nodes[k]
      /\ other.heard = NoFrame
      /\ \/ other.queue = old.queue
         \/ /\ net.routing[m] # NoRouting
            /\ \E packet : other.queue = Append(old.queue, packet) /\ Id(packet) = Id(frame.packet)
  BY SMTT(60), <1>1, PacketIndicated
<1>4. CASE m # n
  <2>1. nodes'[n] = nodes[n]
    BY <1>3, <1>4
  <2> QED
    BY <1>2, <2>1 DEF HasRoom
<1>5. CASE m = n
  <2>1. old \in NodeStates(net, n) /\ other \in NodeStates(net, n) /\ WellFormed(net)
    BY <1>1, <1>2, <1>5 DEF NetRunning, NodeInv, Members
  <2>2. /\ Len(old.queue) \in Nat /\ Load(old) = Len(old.queue) + 1
        /\ \A packet : Len(Append(old.queue, packet)) = Len(old.queue) + 1
    BY <1>1, <1>3, <2>1, LoadIs
  <2>3. Load(other) = Len(other.queue) /\ Load(other) \in Nat
    BY <1>3, <2>1, LoadIs
  <2>4. Load(other) <= Load(old) /\ Load(old) \in Nat
    BY <1>3, <2>2, <2>3
  <2>5. CASE Sinks(net, n)
    BY <1>1, <1>2, <1>3, <1>5, <2>5 DEF HasRoom, Sinks
  <2>6. CASE ~Sinks(net, n) /\ slot = p - 1
    <3>1. Load(old) <= 1
      BY <1>1, <1>2, <1>5, <2>6 DEF HasRoom
    <3>2. Load(other) <= 1
      BY <2>3, <2>4, <3>1
    <3> QED
      BY <1>1, <1>2, <1>5, <2>6, <3>2 DEF HasRoom
  <2>7. CASE ~Sinks(net, n) /\ slot # p - 1
    <3>1. Fits(net, n, Load(old), slot)
      BY <1>1, <1>2, <1>5, <2>7 DEF HasRoom
    <3>2. slot \in Nat /\ slot < p /\ p \in Nat
      BY <1>1, <2>1 DEF ClockInv, NetRunning, Carrying, WellFormed
    <3>3. /\ Cardinality(Ahead(net, n, "RECEIVE", slot)) \in Nat
          /\ Cardinality(Ahead(net, n, "TRANSMIT", slot)) \in Nat
      BY <1>1, <3>2, AheadStep
    <3>4. Fits(net, n, Load(other), slot)
      BY <2>3, <2>4, <3>1, <3>3 DEF Fits
    <3> QED
      BY <1>1, <1>2, <1>5, <2>7, <3>4 DEF HasRoom
  <2> QED
    BY <2>5, <2>6, <2>7
<1> QED
  BY <1>4, <1>5

\* Every step leaves room.
LEMMA RoomKept ==
  ASSUME NetRunning, NetRunning', NetNext, ClockInv, Carrying(net), TurnsInv,
         NEW n \in Members, InSlot(n, nodes[n]), HasRoom(n, nodes[n])
  PROVE  HasRoom(n, nodes[n])'
<1>1. ASSUME NEW m \in Members, SendPacket(m)
      PROVE  FALSE
  BY <1>1 DEF SendPacket, Carrying, BeforeSamples, Members
<1>2. ASSUME NEW m \in Members, Assess(m)
      PROVE  FALSE
  BY <1>2 DEF Assess, TurnsInv, TurnOf
<1>3. CASE TurnTransmittersOn
  <2>1. PICK old, other : old = nodes[n] /\ other = nodes'[n]
    OBVIOUS
  <2>2. other.queue = old.queue /\ other.heard = old.heard
    BY <1>3, <2>1, TransmittersTurned
  <2>3. phase' = phase /\ net' = net /\ slot' = slot /\ Now' = Now
    BY <1>3 DEF TurnTransmittersOn, Now
  <2>4. Load(other) = Load(old)
    BY <2>2 DEF Load
  <2> QED
    BY <2>1, <2>2, <2>3, <2>4 DEF HasRoom
<1>4. CASE BeginSlot
  BY <1>4, RoomAtBoundary
<1>5. CASE EndFrames
  BY <1>5, RoomAtEnd
<1>6. ASSUME NEW m \in Members, ProcessPdDataIndication(m)
      PROVE  HasRoom(n, nodes[n])'
  BY <1>6, RoomForHeard
<1> QED
  BY <1>1, <1>2, <1>3, <1>4, <1>5, <1>6 DEF NetNext

\* When samples are taken, every queue is empty.
LEMMA NothingLeft ==
  ASSUME NetRunning, ClockInv, Carrying(net), phase = "RX", NoneHeard, slot = net.period - 2,
         NEW n \in Members, HasRoom(n, nodes[n])
  PROVE  nodes[n].queue = <<>>
<1>1. CASE Sinks(net, n)
  BY <1>1 DEF HasRoom
<1>2. CASE ~Sinks(net, n)
  <2>1. net.period \in Nat /\ net.period > 2 /\ WellFormed(net) /\ BeforeSamples(net)
    BY Superframe DEF NetRunning, Carrying, Members
  <2>2. Fits(net, n, Load(nodes[n]), slot)
    BY <1>2, <2>1 DEF HasRoom
  <2>3. \A type : Cardinality(Ahead(net, n, type, slot)) = 0
    <3>1. slot \in Nat /\ slot >= net.period - 2 /\ n \in DOMAIN net.links
      BY <2>1 DEF Members
    <3> QED
      BY <2>1, <3>1, NothingAhead
  <2>4. PICK me : me = nodes[n]
    OBVIOUS
  <2>5. me \in NodeStates(net, n) /\ me.heard = NoFrame
    BY <2>4 DEF NetRunning, NodeInv, NoneHeard
  <2>6. /\ Len(me.queue) \in Nat /\ (Len(me.queue) = 0 <=> me.queue = <<>>)
        /\ Load(me) = Len(me.queue)
    BY <2>5, LoadIs
  <2>7. Load(me) + 0 <= 0
    BY <2>2, <2>3, <2>4 DEF Fits
  <2> QED
    BY <2>4, <2>6, <2>7
<1> QED
  BY <1>1, <1>2

LEMMA HeaderAddresses ==
  ASSUME NEW n, NEW dst
  PROVE  Header(n, dst).daddrSrc = n /\ Header(n, dst).daddrDst = dst
<1>1. CASE net.routing[n] = NoRouting
  <2>1. Header(n, dst) = [daddrSrc |-> n, daddrDst |-> dst, src |-> 0, dst |-> 0, route |-> <<>>]
    BY <1>1 DEF Header, NewHeader
  <2> QED
    BY <2>1
<1>2. CASE net.routing[n] # NoRouting
  <2>1. PICK hops : hops = net.routing[n][dst]
    OBVIOUS
  <2>2. Header(n, dst) = [daddrSrc |-> n, daddrDst |-> dst, src |-> n, dst |-> hops[1],
                          route |-> RouteSet(<<>>, hops)]
    BY <1>2, <2>1 DEF Header, NewHeader, PrepTxPacketHeader
  <2> QED
    BY <2>2
<1> QED
  BY <1>1, <1>2

\* What an application reports carries the number of its packet.
LEMMA ReportId ==
  ASSUME NetRunning, NEW n \in Members, net.apps[n].kind # "none",
         NEW me, me.sent \in Nat
  PROVE  /\ Report(n, me) \in Seq(Nat)
         /\ Id(Report(n, me)) = [src |-> n, dst |-> net.apps[n].dst, seq |-> me.sent]
         /\ Deserialize(Report(n, me)) = Header(n, net.apps[n].dst)
<1>1. PICK header, payload : header = Header(n, net.apps[n].dst) /\ payload = <<me.sent, 0>>
  OBVIOUS
<1>2. header \in Headers
  BY <1>1, RequestOnRoute DEF NetRunning
<1>3. payload \in Seq(Nat) /\ Head(payload) = me.sent
  BY <1>1
<1>4. PICK packet : packet = AddHeader(header, payload)
  OBVIOUS
<1>5. packet \in Seq(Nat) /\ Deserialize(packet) = header /\ RemoveHeader(packet) = payload
  BY <1>2, <1>3, <1>4, HeaderComesBack
<1>6. header.daddrSrc = n /\ header.daddrDst = net.apps[n].dst
  BY <1>1, HeaderAddresses
<1>7. Id(packet) = [src |-> n, dst |-> net.apps[n].dst, seq |-> me.sent]
  BY <1>3, <1>5, <1>6 DEF Id
<1> QED
  BY <1>1, <1>4, <1>5, <1>7 DEF Report

LEMMA TailElements ==
  ASSUME NEW R, NEW s \in Seq(R), s # <<>>
  PROVE  /\ Tail(s) \in Seq(R) /\ 1 \in DOMAIN s /\ Head(s) = s[1]
         /\ \A i \in DOMAIN Tail(s) : i + 1 \in DOMAIN s /\ i + 1 # 1 /\ Tail(s)[i] = s[i + 1]
OBVIOUS

\* What is on its way stays the last report of its source until the next one.
LEMMA StaysCurrent ==
  ASSUME Members' = Members, \A m \in Members : nodes'[m].sent = nodes[m].sent,
         NEW id, Current(id)
  PROVE  Current(id)'
BY DEF Current, LastReport

LEMMA FreshAtBoundary ==
  ASSUME NetRunning, NetRunning', BeginSlot, ClockInv, Carrying(net),
         \A m \in Members : HasRoom(m, nodes[m]) /\ IsFresh(nodes[m]), NEW n \in Members
  PROVE  IsFresh(nodes[n])'
<1>1. /\ Members' = Members /\ phase = "RX" /\ NoneHeard
  BY DEF BeginSlot, Members
<1>2. \A m \in Members :
        /\ nodes'[m].heard = NoFrame
        /\ ~Samples(m) => nodes'[m].queue = nodes[m].queue /\ nodes'[m].sent = nodes[m].sent
        /\ Samples(m) => /\ nodes'[m].queue = Append(nodes[m].queue, Report(m, nodes[m]))
                         /\ nodes'[m].sent = (nodes[m].sent + 1) % 2
  BY SlotBegins
<1>3. CASE slot # net.period - 2
  <2>1. \A m \in Members : nodes'[m].sent = nodes[m].sent
    BY <1>2, <1>3 DEF Samples
  <2>2. nodes'[n].queue = nodes[n].queue /\ nodes'[n].heard = NoFrame
        /\ nodes'[n].sent = nodes[n].sent
    BY <1>2, <1>3 DEF Samples
  <2>3. ASSUME NEW i \in DOMAIN nodes'[n].queue
        PROVE  Current(Id(nodes[n].queue[i]))'
    <3>1. PICK id : id = Id(nodes[n].queue[i])
      OBVIOUS
    <3>2. Current(id)
      BY <2>2, <2>3, <3>1 DEF IsFresh
    <3>3. Current(id)'
      BY <1>1, <2>1, <3>2, StaysCurrent
    <3> QED
      BY <2>2, <3>1, <3>3
  <2> QED
    BY <2>2, <2>3 DEF IsFresh
<1>4. CASE slot = net.period - 2
  <2>1. PICK old, other : old = nodes[n] /\ other = nodes'[n]
    OBVIOUS
  <2>2. old.queue = <<>> /\ old.sent \in {0, 1}
    BY <1>1, <1>4, <2>1, NothingLeft DEF IsFresh
  <2>3. CASE ~Samples(n)
    <3>1. other.queue = <<>> /\ other.heard = NoFrame /\ other.sent \in {0, 1}
      BY <1>2, <2>1, <2>2, <2>3
    <3> QED
      BY <2>1, <3>1 DEF IsFresh
  <2>4. CASE Samples(n)
    <3>1. PICK packet : packet = Report(n, old)
      OBVIOUS
    <3>2. Id(packet) = [src |-> n, dst |-> net.apps[n].dst, seq |-> old.sent]
      BY <2>2, <2>4, <3>1, ReportId DEF Samples
    <3>3. other.queue = <<packet>> /\ other.heard = NoFrame /\ other.sent = (old.sent + 1) % 2
      BY <1>2, <2>1, <2>2, <2>4, <3>1
    <3>4. other.sent \in {0, 1} /\ (other.sent + 1) % 2 = old.sent
      BY <2>2, <3>3
    <3>5. Current(Id(packet))'
      <4>1. PICK id : id = Id(packet)
        OBVIOUS
      <4>2. id.src = n /\ id.seq = old.sent
        BY <3>2, <4>1
      <4>3. Current(id)'
        BY <1>1, <2>1, <3>4, <4>2 DEF Current, LastReport
      <4> QED
        BY <4>1, <4>3
    <3>6. \A i \in DOMAIN other.queue : other.queue[i] = packet
      BY <3>3
    <3> QED
      BY <2>1, <3>3, <3>4, <3>5, <3>6 DEF IsFresh
  <2> QED
    BY <2>3, <2>4
<1> QED
  BY <1>3, <1>4

LEMMA FreshAtEnd ==
  ASSUME NetRunning, NetRunning', EndFrames, \A m \in Members : IsFresh(nodes[m]), NEW n \in Members
  PROVE  IsFresh(nodes[n])'
<1>1. PICK old, other : old = nodes[n] /\ other = nodes'[n]
  OBVIOUS
<1>2. Members' = Members
  BY DEF EndFrames, Members
<1>3. \A m \in Members : nodes'[m].sent = nodes[m].sent
  BY FramesEnded
<1>4. \A id : Current(id) => Current(id)'
  BY <1>2, <1>3, StaysCurrent
<1>5. old \in NodeStates(net, n) /\ IsFresh(old)
  BY <1>1 DEF NetRunning, NodeInv
<1>6. /\ n \in air => /\ old.queue # <<>> /\ other.queue = Tail(old.queue)
                      /\ other.heard = old.heard
      /\ n \notin air => /\ other.queue = old.queue
                         /\ \/ other.heard = old.heard
                            \/ \E s \in air : s \in old.receiving /\ other.heard = Frame(n, s)
  BY <1>1, FramesEnded
<1>7. ASSUME NEW i \in DOMAIN other.queue
      PROVE  \E j \in DOMAIN old.queue : other.queue[i] = old.queue[j]
  <2>1. PICK q, R : q = old.queue /\ R = Seq(Nat)
    OBVIOUS
  <2>2. q \in Seq(R)
    BY <1>5, <2>1 DEF NodeStates
  <2>3. CASE n \in air
    <3>1. q # <<>> /\ other.queue = Tail(q)
      BY <1>6, <2>1, <2>3
    <3>2. i + 1 \in DOMAIN q /\ other.queue[i] = q[i + 1]
      BY <1>7, <2>2, <3>1, TailElements
    <3> QED
      BY <2>1, <3>2
  <2>4. CASE n \notin air
    BY <1>6, <1>7, <2>4
  <2> QED
    BY <2>3, <2>4
<1>8. \A i \in DOMAIN other.queue : Current(Id(other.queue[i]))
  BY <1>5, <1>7 DEF IsFresh
<1>9. other.heard # NoFrame => Current(Id(other.heard.packet))
  <2>1. CASE other.heard = old.heard
    BY <1>5, <2>1 DEF IsFresh
  <2>2. ASSUME NEW s \in air, other.heard = Frame(n, s)
        PROVE  Current(Id(other.heard.packet))
    <3>1. PICK q, R : q = nodes[s].queue /\ R = Seq(Nat)
      OBVIOUS
    <3>2. s \in Members /\ q \in Seq(R) /\ q # <<>>
      BY <3>1 DEF NetRunning, MediumInv, NodeInv, NodeStates
    <3>3. 1 \in DOMAIN q /\ Head(q) = q[1]
      BY <3>2, TailElements
    <3>4. other.heard.packet = q[1]
      BY <2>2, <3>1, <3>3 DEF Frame
    <3> QED
      BY <3>1, <3>2, <3>3, <3>4 DEF IsFresh
  <2> QED
    BY <1>6, <2>1, <2>2
<1>10. other.sent \in {0, 1}
  BY <1>1, <1>3, <1>5 DEF IsFresh
<1>11. IsFresh(other)'
  BY <1>4, <1>8, <1>9, <1>10 DEF IsFresh
<1> QED
  BY <1>1, <1>11 DEF IsFresh

LEMMA FreshWhenHeard ==
  ASSUME NetRunning, NetRunning', NEW m \in Members, ProcessPdDataIndication(m),
         \A k \in Members : IsFresh(nodes[k])
  PROVE  /\ \A k \in Members : IsFresh(nodes[k])'
         /\ indication' # NoIndication => Current(indication.packet)'
<1>1. PICK old, other, frame, header :
        /\ old = nodes[m] /\ other = nodes'[m] /\ frame = old.heard
        /\ header = Deserialize(frame.packet)
  OBVIOUS
<1>2. /\ frame # NoFrame /\ \A k \in Members \ {m} : nodes'[k] = nodes[k]
      /\ other.heard = NoFrame /\ other.sent = old.sent
      /\ \/ other.queue = old.queue /\ indication' = NoIndication
         \/ other.queue = old.queue /\ indication' = DlDataIndication(m, frame.packet)
         \/ /\ indication' = NoIndication
            /\ \E packet : other.queue = Append(old.queue, packet) /\ Id(packet) = Id(frame.packet)
  BY <1>1, PacketIndicated
<1>3. Members' = Members
  BY DEF ProcessPdDataIndication, Members
<1>4. \A k \in Members : nodes'[k].sent = nodes[k].sent
  BY <1>1, <1>2
<1>5. \A id : Current(id) => Current(id)'
  BY <1>3, <1>4, StaysCurrent
<1>6. IsFresh(old) /\ Current(Id(frame.packet)) /\ old \in NodeStates(net, m)
  BY <1>1, <1>2 DEF IsFresh, NetRunning, NodeInv
<1>7. IsFresh(other)'
  <2>1. CASE other.queue = old.queue
    BY <1>2, <1>5, <1>6, <2>1 DEF IsFresh
  <2>2. ASSUME NEW packet, other.queue = Append(old.queue, packet), Id(packet) = Id(frame.packet)
        PROVE  IsFresh(other)'
    <3>1. PICK q, R : q = old.queue /\ R = Seq(Nat) \cup {packet}
      OBVIOUS
    <3>2. q \in Seq(R) /\ packet \in R
      <4>1. q \in Seq(Seq(Nat)) /\ Seq(Nat) \subseteq R /\ packet \in R
        BY <1>6, <3>1 DEF NodeStates
      <4> QED
        BY <4>1
    <3>3. \A i \in DOMAIN Append(q, packet) :
            Append(q, packet)[i] = packet \/ (i \in DOMAIN q /\ Append(q, packet)[i] = q[i])
      BY <3>2, AppendedLast
    <3>4. \A i \in DOMAIN other.queue : Current(Id(other.queue[i]))
      BY <1>6, <2>2, <3>1, <3>3 DEF IsFresh
    <3> QED
      BY <1>2, <1>5, <1>6, <3>4 DEF IsFresh
  <2> QED
    BY <1>2, <2>1, <2>2
<1>8. ASSUME NEW k \in Members
      PROVE  IsFresh(nodes[k])'
  <2>1. CASE k = m
    BY <1>1, <1>7, <2>1 DEF IsFresh
  <2>2. CASE k # m
    <3>1. PICK me : me = nodes[k]
      OBVIOUS
    <3>2. IsFresh(me)'
      BY <1>5, <3>1 DEF IsFresh
    <3>3. nodes'[k] = me
      BY <1>2, <2>2, <3>1
    <3> QED
      BY <3>2, <3>3 DEF IsFresh
  <2> QED
    BY <2>1, <2>2
<1>9. ASSUME indication' # NoIndication PROVE Current(indication.packet)'
  <2>1. PICK id : id = Id(frame.packet)
    OBVIOUS
  <2>2. indication'.packet = id
    BY <1>2, <1>9, <2>1 DEF DlDataIndication
  <2>3. Current(id)'
    BY <1>5, <1>6, <2>1
  <2> QED
    BY <2>2, <2>3
<1> QED
  BY <1>8, <1>9

LEMMA FreshKept ==
  ASSUME NetRunning, NetRunning', NetNext, ClockInv, Carrying(net), TurnsInv,
         \A m \in Members : HasRoom(m, nodes[m]) /\ IsFresh(nodes[m])
  PROVE  /\ \A m \in Members : IsFresh(nodes[m])'
         /\ indication' # NoIndication => Current(indication.packet)' \/ indication' = indication
<1>1. ASSUME NEW m \in Members, SendPacket(m)
      PROVE  FALSE
  BY <1>1 DEF SendPacket, Carrying, BeforeSamples, Members
<1>2. ASSUME NEW m \in Members, Assess(m)
      PROVE  FALSE
  BY <1>2 DEF Assess, TurnsInv, TurnOf
<1>3. CASE TurnTransmittersOn
  <2>1. \A m \in Members : /\ nodes'[m].queue = nodes[m].queue
                           /\ nodes'[m].heard = nodes[m].heard /\ nodes'[m].sent = nodes[m].sent
    BY <1>3, TransmittersTurned
  <2>2. Members' = Members /\ indication' = indication
    BY <1>3 DEF TurnTransmittersOn, Members
  <2>3. \A id : Current(id) => Current(id)'
    BY <2>1, <2>2, StaysCurrent
  <2>4. ASSUME NEW m \in Members
        PROVE  IsFresh(nodes[m])'
    <3>1. PICK old, other : old = nodes[m] /\ other = nodes'[m]
      OBVIOUS
    <3>2. IsFresh(old) /\ other.queue = old.queue /\ other.heard = old.heard /\ other.sent = old.sent
      BY <2>1, <3>1
    <3>3. IsFresh(other)'
      BY <2>3, <3>2 DEF IsFresh
    <3> QED
      BY <3>1, <3>3 DEF IsFresh
  <2> QED
    BY <2>2, <2>4
<1>4. CASE BeginSlot
  <2>1. indication' = NoIndication
    BY <1>4 DEF BeginSlot
  <2>2. \A m \in Members : IsFresh(nodes[m])'
    BY <1>4, FreshAtBoundary
  <2> QED
    BY <2>1, <2>2
<1>5. CASE EndFrames
  <2>1. indication' = indication
    BY <1>5 DEF EndFrames
  <2>2. \A m \in Members : IsFresh(nodes[m])'
    BY <1>5, FreshAtEnd
  <2> QED
    BY <2>1, <2>2
<1>6. ASSUME NEW m \in Members, ProcessPdDataIndication(m)
      PROVE  /\ \A k \in Members : IsFresh(nodes[k])'
             /\ indication' # NoIndication => Current(indication.packet)'
  BY <1>6, FreshWhenHeard
<1> QED
  BY <1>1, <1>2, <1>3, <1>4, <1>5, <1>6 DEF NetNext

LEMMA SentStays ==
  ASSUME NetRunning, NetNext, ~BeginSlot, \A m \in Members : ~SendPacket(m) /\ ~Assess(m)
  PROVE  \A m \in Members : nodes'[m].sent = nodes[m].sent
<1>1. CASE TurnTransmittersOn
  BY <1>1, TransmittersTurned
<1>2. CASE EndFrames
  BY <1>2, FramesEnded
<1>3. ASSUME NEW k \in Members, ProcessPdDataIndication(k)
      PROVE  \A m \in Members : nodes'[m].sent = nodes[m].sent
  <2>1. PICK old, other, frame, header :
          /\ old = nodes[k] /\ other = nodes'[k] /\ frame = old.heard
          /\ header = Deserialize(frame.packet)
    OBVIOUS
  <2>2. other.sent = old.sent /\ \A m \in Members \ {k} : nodes'[m] = nodes[m]
    BY <1>3, <2>1, PacketIndicated
  <2> QED
    BY <2>1, <2>2
<1> QED
  BY <1>1, <1>2, <1>3 DEF NetNext

LEMMA CarryKept ==
  ASSUME NetInv, NetInv', ClockInv, ListensInv, CarryInv, NetNext
  PROVE  CarryInv'
<1>1. Running /\ Running' /\ NetRunning /\ NetRunning' /\ net' = net /\ Members' = Members
  BY NetNextKeeps DEF NetNext, NetInv, Members
<1> SUFFICES ASSUME Carrying(net)
             PROVE  /\ \A n \in Members : /\ Rested(nodes[n])' /\ InSlot(n, nodes[n])'
                                          /\ HasRoom(n, nodes[n])' /\ IsFresh(nodes[n])'
                    /\ indication' # NoIndication => Current(indication.packet)'
  BY <1>1 DEF CarryInv
<1>2. /\ \A n \in Members : /\ Rested(nodes[n]) /\ InSlot(n, nodes[n])
                            /\ HasRoom(n, nodes[n]) /\ IsFresh(nodes[n])
      /\ indication # NoIndication => Current(indication.packet)
      /\ TurnsInv
  BY <1>1 DEF CarryInv, ListensInv, Carrying
<1>3. \A n \in Members : Rested(nodes'[n]) /\ InSlot(n, nodes[n])'
  BY <1>1, <1>2, RestedAndInSlot
<1>4. \A n \in Members : HasRoom(n, nodes[n])'
  BY <1>1, <1>2, RoomKept
<1>5. /\ \A n \in Members : IsFresh(nodes[n])'
      /\ indication' # NoIndication => Current(indication.packet)' \/ indication' = indication
  BY <1>1, <1>2, FreshKept
<1>6. ASSUME indication' = indication, indication' # NoIndication
      PROVE  Current(indication.packet)'
  <2>1. PICK id : id = indication.packet
    OBVIOUS
  <2>2. \A m \in Members : nodes'[m].sent = nodes[m].sent
    <3>1. ~BeginSlot /\ \A m \in Members : ~SendPacket(m) /\ ~Assess(m)
      BY <1>2, <1>6 DEF BeginSlot, SendPacket, Assess, TurnsInv, TurnOf
    <3> QED
      BY <1>1, <3>1, SentStays
  <2> QED
    BY <1>1, <1>2, <1>6, <2>1, <2>2, StaysCurrent
<1> QED
  BY <1>3, <1>4, <1>5, <1>6 DEF Rested

\* Nodes start with empty queues and room for them.
LEMMA StartsEmpty ==
  ASSUME NEW config, WellFormed(config), Carrying(config), NEW n \in DOMAIN config.links,
         NEW me, me = Started(config, n)
  PROVE  /\ me.radio = "OFF" /\ me.queue = <<>> /\ me.heard = NoFrame /\ me.sent = 0
         /\ config.period # 1
         /\ ~Sinks(config, n) => Fits(config, n, Load(me), 0)
<1>1. /\ me.radio = "OFF" /\ me.queue = <<>> /\ me.heard = NoFrame /\ me.sent = 0
  BY DEF Started
<1>2. config.period \in Nat /\ config.period > 2
  BY Superframe DEF Carrying
<1>3. CASE ~Sinks(config, n)
  <2>1. Fits(config, n, 1, 0)
    BY <1>3 DEF Carrying, Carries
  <2>2. /\ Cardinality(Ahead(config, n, "RECEIVE", 0)) \in Nat
        /\ Cardinality(Ahead(config, n, "TRANSMIT", 0)) \in Nat
    BY <1>2, AheadStep
  <2>3. Load(me) = 0
    BY <1>1 DEF Load
  <2> QED
    BY <1>1, <1>2, <2>1, <2>2, <2>3 DEF Fits
<1> QED
  BY <1>1, <1>2, <1>3

LEMMA SamplesFromInv ==
  ASSUME NetInv, ClockInv, CarryInv,
         Running /\ LinksBeforeSamples => Carrying(net)
  PROVE  SampleLeavesInAFrame
<1> SUFFICES ASSUME Running, LinksBeforeSamples
             PROVE  /\ phase = "RX" /\ NoneHeard /\ slot = net.period - 2 =>
                         \A n \in Members : nodes[n].queue = <<>>
                    /\ indication # NoIndication => DelayIsOwn(indication)
  BY DEF SampleLeavesInAFrame
<1>1. NetRunning /\ Carrying(net)
  BY DEF NetInv
<1>2. /\ \A n \in Members : HasRoom(n, nodes[n])
      /\ indication # NoIndication => Current(indication.packet)
  BY <1>1 DEF CarryInv
<1>3. phase = "RX" /\ NoneHeard /\ slot = net.period - 2 =>
        \A n \in Members : nodes[n].queue = <<>>
  BY <1>1, <1>2, NothingLeft
<1> QED
  BY <1>2, <1>3 DEF Current, DelayIsOwn

-----------------------------------------------------------------------------
(* Every packet is in one place *)

Ids(queue) == {Id(queue[i]) : i \in DOMAIN queue}

Different(queue) == \A i, j \in DOMAIN queue : Id(queue[i]) = Id(queue[j]) => i = j

\* What a node has heard that is addressed to it.
HeardId(n, me) ==
  IF me.heard # NoFrame /\ Deserialize(me.heard.packet).dst = n
  THEN {Id(me.heard.packet)} ELSE {}

IdsAt(n, me) == Ids(me.queue) \cup HeardId(n, me)

Apart(n, me) == Different(me.queue) /\ Ids(me.queue) \cap HeardId(n, me) = {}

\* Two samples of a node are never under way at once.
Numbered(config) == (\A n \in DOMAIN config.links : config.apps[n].kind # "field") \/ Carrying(config)

\* A generator has not used a number twice.
Known(id) ==
  /\ id \in [src : Nat, dst : Nat, seq : Nat] /\ id.src \in Members
  /\ net.apps[id.src].kind = "generator" => id.seq < nodes[id.src].sent
  /\ net.routing[id.src] = NoRouting => id.dst = 0

OnePlace ==
  /\ \A n \in Members : Apart(n, nodes[n]) /\ \A id \in IdsAt(n, nodes[n]) : Known(id)
  /\ \A n, m \in Members : n # m => IdsAt(n, nodes[n]) \cap IdsAt(m, nodes[m]) = {}

DeliverInv ==
  Running /\ Destined(net) /\ Numbered(net) =>
    /\ phase = "XMIT" => indication = NoIndication /\ NoneHeard
    /\ OnePlace

\* What a step of the network is to its applications.
Serves ==
  \/ \E S : /\ S \subseteq [src : Nat, dst : Nat, seq : Nat] \ InTransit
            /\ InTransit' = InTransit \cup S /\ indication' = NoIndication
  \/ InTransit' \subseteq InTransit /\ indication' = NoIndication
  \/ \E p \in InTransit : /\ InTransit' = InTransit \ {p}
                          /\ indication' = [at |-> p.dst, packet |-> p]
  \/ InTransit' = InTransit /\ indication' = indication

QueuedOf(members, state) ==
  UNION {{Id(state[n].queue[i]) : i \in DOMAIN state[n].queue} : n \in members}

Hearers(members, state) ==
  {m \in members : /\ state[m].heard # NoFrame
                   /\ Deserialize(state[m].heard.packet).dst = m}

TransitOf(members, state) ==
  QueuedOf(members, state) \cup {Id(state[n].heard.packet) : n \in Hearers(members, state)}

LEMMA TransitIs ==
  ASSUME NEW members, NEW state, NEW id
  PROVE  id \in TransitOf(members, state) <=> \E n \in members : id \in IdsAt(n, state[n])
<1>1. id \in QueuedOf(members, state) <=> \E n \in members : id \in Ids(state[n].queue)
  BY DEF Ids, QueuedOf
<1>2. id \in TransitOf(members, state) <=>
        \/ id \in QueuedOf(members, state)
        \/ \E n \in Hearers(members, state) : id = Id(state[n].heard.packet)
  BY DEF TransitOf
<1>3. \A n : n \in Hearers(members, state) <=> /\ n \in members /\ state[n].heard # NoFrame
                                               /\ Deserialize(state[n].heard.packet).dst = n
  BY DEF Hearers
<1>4. \A n : id \in HeardId(n, state[n]) <=> /\ state[n].heard # NoFrame
                                            /\ Deserialize(state[n].heard.packet).dst = n
                                            /\ id = Id(state[n].heard.packet)
  BY DEF HeardId
<1>5. (\E n \in Hearers(members, state) : id = Id(state[n].heard.packet)) <=>
        \E n \in members : id \in HeardId(n, state[n])
  BY <1>3, <1>4, Zenon
<1> QED
  BY <1>1, <1>2, <1>5 DEF IdsAt

LEMMA TransitOfNodes ==
  /\ Running => InTransit = TransitOf(Members, nodes)
  /\ Running' => InTransit' = TransitOf(Members', nodes')
BY Zenon DEF InTransit, TransitOf, QueuedOf, Hearers

LEMMA InTransitIs ==
  ASSUME Running, Running'
  PROVE  /\ \A id : id \in InTransit <=> \E n \in Members : id \in IdsAt(n, nodes[n])
         /\ \A id : id \in InTransit' <=> \E n \in Members' : id \in IdsAt(n, nodes'[n])
<1>1. InTransit = TransitOf(Members, nodes) /\ InTransit' = TransitOf(Members', nodes')
  BY TransitOfNodes
<1> QED
  BY <1>1, TransitIs, Zenon

LEMMA IdsAppended ==
  ASSUME NEW R, NEW q \in Seq(R), NEW x
  PROVE  /\ Ids(Append(q, x)) = Ids(q) \cup {Id(x)}
         /\ Different(q) /\ Id(x) \notin Ids(q) => Different(Append(q, x))
<1>1. PICK Q, p : Q = R \cup {x} /\ p = Append(q, x)
  OBVIOUS
<1>2. q \in Seq(Q) /\ x \in Q
  BY <1>1
<1>3. /\ Len(q) \in Nat /\ DOMAIN q = 1 .. Len(q) /\ DOMAIN p = 1 .. Len(q) + 1
      /\ \A i \in 1 .. Len(q) : p[i] = q[i]
      /\ p[Len(q) + 1] = x
  BY <1>1, <1>2
<1>4. Ids(p) = Ids(q) \cup {Id(x)}
  <2>1. ASSUME NEW id \in Ids(p) PROVE id \in Ids(q) \cup {Id(x)}
    <3>1. PICK i \in DOMAIN p : id = Id(p[i])
      BY DEF Ids
    <3>2. i \in 1 .. Len(q) \/ i = Len(q) + 1
      BY <1>3
    <3> QED
      BY <1>3, <3>1, <3>2 DEF Ids
  <2>2. ASSUME NEW id \in Ids(q) PROVE id \in Ids(p)
    <3>1. PICK i \in DOMAIN q : id = Id(q[i])
      BY DEF Ids
    <3>2. i \in DOMAIN p /\ p[i] = q[i]
      BY <1>3
    <3> QED
      BY <3>1, <3>2 DEF Ids
  <2>3. Id(x) \in Ids(p)
    <3>1. Len(q) + 1 \in DOMAIN p
      BY <1>3
    <3> QED
      BY <1>3, <3>1 DEF Ids
  <2> QED
    BY <2>1, <2>2, <2>3
<1>5. ASSUME Different(q), Id(x) \notin Ids(q) PROVE Different(p)
  <2> SUFFICES ASSUME NEW i \in DOMAIN p, NEW j \in DOMAIN p, Id(p[i]) = Id(p[j])
               PROVE  i = j
    BY DEF Different
  <2>1. /\ i \in 1 .. Len(q) \/ i = Len(q) + 1
        /\ j \in 1 .. Len(q) \/ j = Len(q) + 1
    BY <1>3
  <2>2. CASE i \in 1 .. Len(q) /\ j \in 1 .. Len(q)
    BY <1>3, <1>5, <2>2 DEF Different
  <2>3. \A k \in 1 .. Len(q) : Id(p[k]) # Id(x)
    BY <1>3, <1>5 DEF Ids
  <2> QED
    BY <1>3, <2>1, <2>2, <2>3
<1> QED
  BY <1>1, <1>4, <1>5

LEMMA IdsOfTail ==
  ASSUME NEW R, NEW q \in Seq(R), q # <<>>, Different(q)
  PROVE  /\ Id(Head(q)) \in Ids(q) /\ Different(Tail(q))
         /\ Ids(Tail(q)) \subseteq Ids(q) /\ Id(Head(q)) \notin Ids(Tail(q))
<1>1. /\ 1 \in DOMAIN q /\ Head(q) = q[1] /\ DOMAIN Tail(q) \subseteq Int
      /\ \A i \in DOMAIN Tail(q) : i + 1 \in DOMAIN q /\ i + 1 # 1 /\ Tail(q)[i] = q[i + 1]
  BY TailElements
<1>2. Different(Tail(q))
  <2> SUFFICES ASSUME NEW i \in DOMAIN Tail(q), NEW j \in DOMAIN Tail(q),
                      Id(Tail(q)[i]) = Id(Tail(q)[j])
               PROVE  i = j
    BY DEF Different
  <2>1. i + 1 = j + 1
    BY <1>1 DEF Different
  <2> QED
    BY <1>1, <2>1
<1>3. Ids(Tail(q)) \subseteq Ids(q)
  BY <1>1 DEF Ids
<1>4. ASSUME Id(Head(q)) \in Ids(Tail(q)) PROVE FALSE
  <2>1. PICK i \in DOMAIN Tail(q) : Id(q[1]) = Id(Tail(q)[i])
    BY <1>1, <1>4 DEF Ids
  <2>2. 1 = i + 1
    BY <1>1, <2>1 DEF Different
  <2> QED
    BY <1>1, <2>2
<1> QED
  BY <1>1, <1>2, <1>3, <1>4 DEF Ids

\* A packet that is under way is known as long as its source counts on.
LEMMA KnownStays ==
  ASSUME net' = net, Members' = Members, NEW id, Known(id),
         \A n \in Members : /\ nodes[n].sent \in Nat
                            /\ net.apps[n].kind = "generator" =>
                                 \/ nodes'[n].sent = nodes[n].sent
                                 \/ nodes'[n].sent = nodes[n].sent + 1
  PROVE  Known(id)'
<1>1. id.src \in Members /\ id.seq \in Nat
  BY DEF Known
<1>2. ASSUME net.apps[id.src].kind = "generator"
      PROVE  id.seq < nodes'[id.src].sent
  <2>1. PICK old, new, seq : old = nodes[id.src].sent /\ new = nodes'[id.src].sent /\ seq = id.seq
    OBVIOUS
  <2>2. old \in Nat /\ (new = old \/ new = old + 1) /\ seq \in Nat
    BY <1>1, <1>2, <2>1
  <2>3. seq < old
    BY <1>2, <2>1 DEF Known
  <2> QED
    BY <2>1, <2>2, <2>3
<1> QED
  BY <1>1, <1>2 DEF Known

\* Nothing moves: the packets are where they were.
LEMMA NothingMoves ==
  ASSUME NetRunning, net' = net, OnePlace,
         \A n \in Members : /\ nodes'[n].queue = nodes[n].queue
                            /\ nodes'[n].heard = nodes[n].heard /\ nodes'[n].sent = nodes[n].sent
  PROVE  OnePlace' /\ InTransit' = InTransit
<1>1. Members' = Members /\ Running /\ Running'
  BY DEF Members, NetRunning, Running
<1>2. \A n \in Members : nodes[n].sent \in Nat
  BY DEF NetRunning, NodeInv, NodeStates
<1>3. \A id : Known(id) => Known(id)'
  BY <1>1, <1>2, KnownStays
<1>4. \A n \in Members : IdsAt(n, nodes'[n]) = IdsAt(n, nodes[n])
  BY DEF IdsAt, HeardId
<1>5. \A n \in Members : Apart(n, nodes[n]) => Apart(n, nodes'[n])
  BY DEF Apart, HeardId
<1>6. OnePlace'
  BY <1>1, <1>3, <1>4, <1>5 DEF OnePlace
<1>7. \A id : id \in InTransit' <=> id \in InTransit
  BY <1>1, <1>4, InTransitIs
<1> QED
  BY <1>6, <1>7

LEMMA Assessed ==
  ASSUME NetRunning, NEW k \in Members, Assess(k), NEW n \in Members,
         NEW old, old = nodes[n], NEW other, other = nodes'[n]
  PROVE  other.queue = old.queue /\ other.heard = old.heard /\ other.sent = old.sent
<1>1. old \in NodeStates(net, n) /\ DOMAIN nodes = Members
  BY DEF NetRunning, NodeInv
<1>2. ASSUME NEW b, nodes' = [nodes EXCEPT ![k].xmit = "none", ![k].radio = "RX", ![k].backoff = b]
      PROVE  other.queue = old.queue /\ other.heard = old.heard /\ other.sent = old.sent
  <2>1. CASE n = k
    <3>1. other = [old EXCEPT !.xmit = "none", !.radio = "RX", !.backoff = b]
      BY <1>1, <1>2, <2>1
    <3> QED
      BY <1>1, <3>1 DEF NodeStates
  <2>2. CASE n # k
    BY <1>1, <1>2, <2>2
  <2> QED
    BY <2>1, <2>2
<1>3. CASE nodes' = WithSignals([nodes EXCEPT ![k] = Sending(@)], {k})
  <2>1. PICK state, me : state = [nodes EXCEPT ![k] = Sending(@)] /\ me = state[n]
    OBVIOUS
  <2>2. me.queue = old.queue /\ me.heard = old.heard /\ me.sent = old.sent
    <3>1. CASE n = k
      <4>1. PICK applied : applied = IF net.powerControl
                             THEN PhyTransmitPower(old.applied, old.table[Deserialize(Head(old.queue)).dst])
                             ELSE old.applied
        OBVIOUS
      <4>2. me = [old EXCEPT !.xmit = "none", !.radio = "TX", !.applied = applied]
        BY <1>1, <2>1, <3>1, <4>1 DEF Sending
      <4> QED
        BY <1>1, <4>2 DEF NodeStates
    <3>2. CASE n # k
      BY <1>1, <2>1, <3>2
    <3> QED
      BY <3>1, <3>2
  <2>3. CASE me.radio # "RX"
    <3>1. other = me
      BY <1>3, <2>1, <2>3 DEF WithSignals
    <3> QED
      BY <2>2, <3>1
  <2>4. CASE me.radio = "RX"
    <3>1. PICK receiving : receiving = me.receiving \cup {m \in {k} : Hears(state, n, m)}
      OBVIOUS
    <3>2. other = [me EXCEPT !.receiving = receiving]
      BY <1>3, <2>1, <2>4, <3>1 DEF WithSignals
    <3> QED
      BY <2>2, <3>2
  <2> QED
    BY <2>3, <2>4
<1> QED
  BY <1>2, <1>3 DEF Assess

LEMMA RequestSent ==
  ASSUME NetRunning, NEW m \in Members, SendPacket(m),
         NEW old, old = nodes[m], NEW other, other = nodes'[m]
  PROVE  /\ net.apps[m].kind = "generator"
         /\ \A n \in Members \ {m} : nodes'[n] = nodes[n]
         /\ other.queue = Append(old.queue, Report(m, old)) /\ other.heard = old.heard
         /\ other.sent = old.sent + 1
<1>1. old \in NodeStates(net, m) /\ DOMAIN nodes = Members
  BY DEF NetRunning, NodeInv
<1>2. PICK queue, sent : queue = Append(old.queue, Report(m, old)) /\ sent = old.sent + 1
  OBVIOUS
<1>3. /\ net.apps[m].kind = "generator"
      /\ nodes' = [nodes EXCEPT ![m] = WithRequest(m, @, @.sent + 1)]
  BY DEF SendPacket
<1>4. other = WithRequest(m, old, sent)
  BY <1>1, <1>2, <1>3
<1>5. other = [old EXCEPT !.queue = queue, !.sent = sent]
  BY <1>2, <1>4 DEF WithRequest, Report
<1>6. other.queue = queue /\ other.heard = old.heard /\ other.sent = sent
  BY <1>1, <1>5 DEF NodeStates
<1> QED
  BY <1>1, <1>2, <1>3, <1>6

\* A new packet goes to a node that hands it up.
LEMMA ReportKnown ==
  ASSUME NetRunning, Destined(net), NEW n \in Members, net.apps[n].kind # "none",
         NEW me, me.sent \in Nat, NEW id, id = Id(Report(n, me))
  PROVE  /\ id = [src |-> n, dst |-> net.apps[n].dst, seq |-> me.sent]
         /\ id \in [src : Nat, dst : Nat, seq : Nat]
         /\ net.routing[n] = NoRouting => id.dst = 0
<1>1. id = [src |-> n, dst |-> net.apps[n].dst, seq |-> me.sent]
  BY ReportId
<1>2. WellFormed(net) /\ n \in DOMAIN net.links
  BY DEF NetRunning, Members
<1>3. n \in Nat
  BY <1>2, SetUp
<1>4. CASE net.routing[n] = NoRouting
  <2>1. net.apps[n].dst = 0
    BY <1>2, <1>4 DEF Destined
  <2> QED
    BY <1>1, <1>3, <1>4, <2>1
<1>5. CASE net.routing[n] # NoRouting
  <2>1. PICK dst : dst = net.apps[n].dst
    OBVIOUS
  <2>2. dst \in DOMAIN net.routing[n]
    BY <1>2, <1>5, <2>1, SetUp
  <2>3. dst \in Nat
    BY <1>2, <1>5, <2>2, RouteEnds
  <2> QED
    BY <1>1, <1>3, <1>5, <2>1, <2>3
<1> QED
  BY <1>4, <1>5

\* What one node does to its packets, when it adds none that is under way already.
LEMMA OneAdds ==
  ASSUME NetRunning, net' = net, OnePlace, NEW m \in Members,
         \A n \in Members \ {m} : nodes'[n] = nodes[n],
         \A id : Known(id) => Known(id)',
         Apart(m, nodes'[m]), NEW added, added \cap InTransit = {},
         \A id \in added : Known(id)',
         IdsAt(m, nodes'[m]) \subseteq IdsAt(m, nodes[m]) \cup added
  PROVE  OnePlace'
<1>1. Members' = Members /\ Running /\ Running'
  BY DEF Members, NetRunning, Running
<1>2. \A n \in Members \ {m} : IdsAt(n, nodes'[n]) = IdsAt(n, nodes[n])
  OBVIOUS
<1>3. \A n \in Members : Apart(n, nodes'[n])
  BY DEF OnePlace
<1>4. \A n \in Members : \A id \in IdsAt(n, nodes'[n]) : Known(id)'
  <2> SUFFICES ASSUME NEW n \in Members, NEW id \in IdsAt(n, nodes'[n])
               PROVE  Known(id)'
    OBVIOUS
  <2>1. id \in IdsAt(n, nodes[n]) \/ id \in added
    BY <1>2
  <2> QED
    BY <2>1 DEF OnePlace
<1>5. \A n \in Members : added \cap IdsAt(n, nodes[n]) = {}
  BY <1>1, InTransitIs
<1>6. \A n, k \in Members : n # k => IdsAt(n, nodes'[n]) \cap IdsAt(k, nodes'[k]) = {}
  <2> SUFFICES ASSUME NEW n \in Members, NEW k \in Members, n # k, NEW id,
                      id \in IdsAt(n, nodes'[n]), id \in IdsAt(k, nodes'[k])
               PROVE  FALSE
    OBVIOUS
  <2>1. id \notin IdsAt(n, nodes[n]) \/ id \notin IdsAt(k, nodes[k])
    BY DEF OnePlace
  <2> QED
    BY <1>2, <1>5, <2>1
<1> QED
  BY <1>1, <1>3, <1>4, <1>6 DEF OnePlace

LEMMA ServedBySending ==
  ASSUME NetRunning, Destined(net), OnePlace, NEW m \in Members, SendPacket(m)
  PROVE  OnePlace' /\ Serves
<1>1. PICK old, other : old = nodes[m] /\ other = nodes'[m]
  OBVIOUS
<1>2. /\ net.apps[m].kind = "generator"
      /\ \A n \in Members \ {m} : nodes'[n] = nodes[n]
      /\ other.queue = Append(old.queue, Report(m, old)) /\ other.heard = old.heard
      /\ other.sent = old.sent + 1
  BY <1>1, RequestSent
<1>3. /\ net' = net /\ Members' = Members /\ Running /\ Running'
      /\ indication' = NoIndication
      /\ old.heard = NoFrame
  BY <1>1 DEF SendPacket, Members, NetRunning, Running, NoneHeard
<1>4. old \in NodeStates(net, m) /\ \A n \in Members : nodes[n].sent \in Nat
  BY <1>1 DEF NetRunning, NodeInv, NodeStates
<1>5. old.queue \in Seq(Seq(Nat)) /\ old.sent \in Nat
  BY <1>4 DEF NodeStates
<1>6. \A n \in Members : \/ nodes'[n].sent = nodes[n].sent
                        \/ nodes'[n].sent = nodes[n].sent + 1
  BY <1>1, <1>2
<1>7. \A id : Known(id) => Known(id)'
  BY <1>3, <1>4, <1>6, KnownStays
<1>8. PICK packet, new : packet = Report(m, old) /\ new = Id(packet)
  OBVIOUS
<1>9. /\ new = [src |-> m, dst |-> net.apps[m].dst, seq |-> old.sent]
      /\ new \in [src : Nat, dst : Nat, seq : Nat]
      /\ net.routing[m] = NoRouting => new.dst = 0
  BY <1>2, <1>5, <1>8, ReportKnown
<1>10. new.src = m /\ new.seq = old.sent
  BY <1>9
<1>11. Known(new)'
  <2>1. old.sent < old.sent + 1
    BY <1>5
  <2> QED
    BY <1>1, <1>2, <1>3, <1>9, <1>10, <2>1 DEF Known
<1>12. ~Known(new)
  <2>1. ~(old.sent < old.sent)
    BY <1>5
  <2> QED
    BY <1>1, <1>2, <1>10, <2>1 DEF Known
<1>13. \A n \in Members : new \notin IdsAt(n, nodes[n])
  BY <1>12 DEF OnePlace
<1>14. new \notin InTransit
  BY <1>3, <1>13, InTransitIs
<1>15. /\ HeardId(m, old) = {} /\ HeardId(m, other) = {}
       /\ Ids(other.queue) = Ids(old.queue) \cup {new} /\ Different(other.queue)
  <2>1. HeardId(m, old) = {} /\ HeardId(m, other) = {}
    BY <1>2, <1>3 DEF HeardId
  <2>2. PICK q, R : q = old.queue /\ R = Seq(Nat)
    OBVIOUS
  <2>3. q \in Seq(R) /\ Different(q) /\ new \notin Ids(q)
    BY <1>1, <1>5, <1>13, <2>2 DEF OnePlace, Apart, IdsAt
  <2>4. Ids(Append(q, packet)) = Ids(q) \cup {new} /\ Different(Append(q, packet))
    BY <1>8, <2>3, IdsAppended
  <2> QED
    BY <1>2, <1>8, <2>1, <2>2, <2>4
<1>16. IdsAt(m, other) = IdsAt(m, old) \cup {new} /\ Apart(m, other)
  BY <1>15 DEF IdsAt, Apart
<1>17. OnePlace'
  <2>1. PICK added : added = {new}
    OBVIOUS
  <2>2. /\ added \cap InTransit = {} /\ \A id \in added : Known(id)'
        /\ IdsAt(m, nodes'[m]) \subseteq IdsAt(m, nodes[m]) \cup added
        /\ Apart(m, nodes'[m])
    BY <1>1, <1>11, <1>14, <1>16, <2>1
  <2> QED
    BY <1>2, <1>3, <1>7, <2>2, OneAdds
<1>18. \A id : id \in InTransit' <=> id \in InTransit \/ id = new
  <2>1. \A n \in Members \ {m} : IdsAt(n, nodes'[n]) = IdsAt(n, nodes[n])
    BY <1>2
  <2> QED
    BY <1>1, <1>3, <1>16, <2>1, InTransitIs
<1>19. InTransit' = InTransit \cup {new} /\ {new} \subseteq [src : Nat, dst : Nat, seq : Nat] \ InTransit
  BY <1>9, <1>14, <1>18
<1> QED
  BY <1>3, <1>17, <1>19 DEF Serves

LEMMA OneQueued ==
  ASSUME NEW packet
  PROVE  Ids(Append(<<>>, packet)) = {Id(packet)} /\ Different(Append(<<>>, packet))
<1>1. PICK q : q = Append(<<>>, packet)
  OBVIOUS
<1>2. DOMAIN q = {1} /\ q[1] = packet
  BY <1>1
<1> QED
  BY <1>1, <1>2 DEF Ids, Different

LEMMA ServedAtBoundary ==
  ASSUME NetRunning, ClockInv, Destined(net), Numbered(net), OnePlace, BeginSlot,
         Carrying(net) => \A n \in Members : HasRoom(n, nodes[n])
  PROVE  OnePlace' /\ Serves /\ NoneHeard' /\ indication' = NoIndication
<1>1. /\ net' = net /\ Members' = Members /\ Running /\ Running'
      /\ indication' = NoIndication /\ phase = "RX" /\ NoneHeard
  BY DEF BeginSlot, Members, NetRunning, Running
<1>2. ASSUME NEW n \in Members, NEW old, old = nodes[n], NEW other, other = nodes'[n]
      PROVE  /\ other.heard = NoFrame /\ old.heard = NoFrame
             /\ ~Samples(n) => other.queue = old.queue /\ other.sent = old.sent
             /\ Samples(n) => other.queue = Append(old.queue, Report(n, old))
  BY <1>1, <1>2, SlotBegins DEF NoneHeard
<1>3. NoneHeard'
  BY <1>1, <1>2 DEF NoneHeard
<1>4. CASE \A n \in Members : ~Samples(n)
  <2>1. \A n \in Members : /\ nodes'[n].queue = nodes[n].queue
                          /\ nodes'[n].heard = nodes[n].heard /\ nodes'[n].sent = nodes[n].sent
    BY <1>2, <1>4
  <2>2. OnePlace' /\ InTransit' = InTransit
    BY <1>1, <2>1, NothingMoves
  <2> QED
    BY <1>1, <1>3, <2>2 DEF Serves
<1>5. ASSUME NEW k \in Members, Samples(k)
      PROVE  OnePlace' /\ Serves
  <2>1. Carrying(net) /\ slot = net.period - 2
    BY <1>5 DEF Numbered, Samples, Members
  <2>2. \A n \in Members : nodes[n].queue = <<>>
    BY <1>1, <2>1, NothingLeft
  <2>3. ASSUME NEW n \in Members
        PROVE  IdsAt(n, nodes[n]) = {}
    <3>1. Ids(nodes[n].queue) = {}
      BY <2>2 DEF Ids
    <3>2. HeardId(n, nodes[n]) = {}
      BY <1>2 DEF HeardId
    <3> QED
      BY <3>1, <3>2 DEF IdsAt
  <2>4. InTransit = {}
    BY <1>1, <2>3, InTransitIs
  <2>5. ASSUME NEW n \in Members
        PROVE  /\ Apart(n, nodes'[n])
               /\ \A id \in IdsAt(n, nodes'[n]) :
                    Known(id)' /\ id.src = n /\ id \in [src : Nat, dst : Nat, seq : Nat]
    <3>1. PICK old, other : old = nodes[n] /\ other = nodes'[n]
      OBVIOUS
    <3>2. HeardId(n, other) = {}
      BY <1>2, <3>1 DEF HeardId
    <3>3. CASE ~Samples(n)
      <4>1. other.queue = <<>>
        BY <1>2, <2>2, <3>1, <3>3
      <4>2. Ids(other.queue) = {} /\ Different(other.queue)
        BY <4>1 DEF Ids, Different
      <4> QED
        BY <3>1, <3>2, <4>2 DEF IdsAt, Apart
    <3>4. CASE Samples(n)
      <4>1. PICK packet, new : packet = Report(n, old) /\ new = Id(packet)
        OBVIOUS
      <4>2. other.queue = Append(<<>>, packet)
        BY <1>2, <2>2, <3>1, <3>4, <4>1
      <4>3. net.apps[n].kind = "field"
        BY <3>4 DEF Samples
      <4>4. old.sent \in Nat
        BY <3>1 DEF NetRunning, NodeInv, NodeStates
      <4>5. /\ new = [src |-> n, dst |-> net.apps[n].dst, seq |-> old.sent]
            /\ new \in [src : Nat, dst : Nat, seq : Nat]
            /\ net.routing[n] = NoRouting => new.dst = 0
        BY <4>1, <4>3, <4>4, ReportKnown
      <4>6. new.src = n
        BY <4>5
      <4>7. Known(new)'
        BY <1>1, <4>3, <4>5, <4>6 DEF Known
      <4>8. Ids(other.queue) = {new} /\ Different(other.queue)
        BY <4>1, <4>2, OneQueued
      <4>9. IdsAt(n, other) = {new} /\ Apart(n, other)
        BY <3>2, <4>8 DEF IdsAt, Apart
      <4> QED
        BY <3>1, <4>5, <4>6, <4>7, <4>9
    <3> QED
      BY <3>3, <3>4
  <2>6. OnePlace'
    BY <1>1, <2>5 DEF OnePlace
  <2>7. InTransit' \subseteq [src : Nat, dst : Nat, seq : Nat] \ InTransit
    BY <1>1, <2>4, <2>5, InTransitIs
  <2>8. InTransit' = InTransit \cup InTransit'
    BY <2>4
  <2> QED
    BY <1>1, <2>6, <2>7, <2>8 DEF Serves
<1> QED
  BY <1>1, <1>3, <1>4, <1>5

\* A frame that ends leaves its sender's queue, and is at most with the node it is
\* addressed to.
LEMMA ServedAtEnd ==
  ASSUME NetRunning, OnePlace, EndFrames, NoneHeard, indication = NoIndication
  PROVE  OnePlace' /\ Serves
<1>1. /\ net' = net /\ Members' = Members /\ Running /\ Running'
      /\ indication' = indication
  BY DEF EndFrames, Members, NetRunning, Running
<1>2. PICK first : first = [n \in air |-> Id(Head(nodes[n].queue))]
  OBVIOUS
<1>3. ASSUME NEW n \in air
      PROVE  n \in Members /\ first[n] \in IdsAt(n, nodes[n])
  <2>1. PICK q, R : q = nodes[n].queue /\ R = Seq(Nat)
    OBVIOUS
  <2>2. n \in Members /\ q \in Seq(R) /\ q # <<>>
    BY <1>3, <2>1 DEF NetRunning, MediumInv, NodeInv, NodeStates
  <2>3. Id(Head(q)) \in Ids(q)
    BY <2>1, <2>2, IdsOfTail DEF OnePlace, Apart
  <2> QED
    BY <1>2, <1>3, <2>1, <2>2, <2>3 DEF IdsAt
<1>4. \A n \in Members : nodes'[n].sent = nodes[n].sent /\ nodes[n].sent \in Nat
  <2>1. \A n \in Members : nodes'[n].sent = nodes[n].sent
    BY FramesEnded
  <2> QED
    BY <2>1 DEF NetRunning, NodeInv, NodeStates
<1>5. \A id : Known(id) => Known(id)'
  BY <1>1, <1>4, KnownStays
<1>6. ASSUME NEW n \in Members, NEW old, old = nodes[n], NEW other, other = nodes'[n]
      PROVE  /\ Different(other.queue) /\ Ids(other.queue) \subseteq IdsAt(n, old)
             /\ n \in air => first[n] \notin Ids(other.queue)
             /\ \A id \in HeardId(n, other) : \E s \in air \ {n} :
                  id = first[s] /\ Deserialize(Head(nodes[s].queue)).dst = n
  <2>1. /\ n \in air => /\ old.queue # <<>> /\ other.queue = Tail(old.queue)
                        /\ other.heard = old.heard
        /\ n \notin air => /\ other.queue = old.queue
                           /\ \/ other.heard = old.heard
                              \/ \E s \in air : s \in old.receiving /\ other.heard = Frame(n, s)
    BY <1>6, FramesEnded
  <2>2. Different(old.queue) /\ Ids(old.queue) \subseteq IdsAt(n, old) /\ old.heard = NoFrame
    BY <1>6 DEF OnePlace, Apart, IdsAt, NoneHeard
  <2>3. CASE n \in air
    <3>1. PICK q, R : q = old.queue /\ R = Seq(Nat)
      OBVIOUS
    <3>2. q \in Seq(R) /\ q # <<>> /\ Different(q)
      BY <1>6, <2>1, <2>2, <2>3, <3>1 DEF NetRunning, NodeInv, NodeStates
    <3>3. Different(Tail(q)) /\ Ids(Tail(q)) \subseteq Ids(q) /\ Id(Head(q)) \notin Ids(Tail(q))
      BY <3>2, IdsOfTail
    <3>4. HeardId(n, other) = {}
      BY <2>1, <2>2, <2>3 DEF HeardId
    <3>5. first[n] = Id(Head(q)) /\ other.queue = Tail(q)
      BY <1>2, <1>6, <2>1, <2>3, <3>1
    <3> QED
      BY <2>2, <3>1, <3>3, <3>4, <3>5
  <2>4. CASE n \notin air
    <3>1. ASSUME NEW id \in HeardId(n, other)
          PROVE  \E s \in air \ {n} : id = first[s] /\ Deserialize(Head(nodes[s].queue)).dst = n
      <4>1. /\ other.heard # NoFrame /\ id = Id(other.heard.packet)
            /\ Deserialize(other.heard.packet).dst = n
        BY <3>1 DEF HeardId
      <4>2. PICK s \in air : other.heard = Frame(n, s)
        BY <2>1, <2>2, <2>4, <4>1
      <4>3. other.heard.packet = Head(nodes[s].queue)
        BY <4>2 DEF Frame
      <4> QED
        BY <1>2, <2>4, <4>1, <4>2, <4>3
    <3> QED
      BY <2>1, <2>2, <2>4, <3>1
  <2> QED
    BY <2>3, <2>4
<1>7. ASSUME NEW n \in Members, NEW id \in IdsAt(n, nodes'[n])
      PROVE  \/ id \in IdsAt(n, nodes[n]) /\ (n \in air => id # first[n])
             \/ \E s \in air \ {n} : id = first[s] /\ Deserialize(Head(nodes[s].queue)).dst = n
  <2>1. id \in Ids(nodes'[n].queue) \/ id \in HeardId(n, nodes'[n])
    BY <1>7 DEF IdsAt
  <2> QED
    BY <1>6, <2>1
<1>8. ASSUME NEW n \in Members, NEW id \in IdsAt(n, nodes'[n])
      PROVE  \E k \in Members : id \in IdsAt(k, nodes[k])
  BY <1>3, <1>7, <1>8
<1>9. ASSUME NEW n \in Members
      PROVE  Apart(n, nodes'[n])
  <2>1. ASSUME NEW id \in Ids(nodes'[n].queue), id \in HeardId(n, nodes'[n])
        PROVE  FALSE
    <3>1. id \in IdsAt(n, nodes[n])
      BY <1>6, <2>1
    <3>2. PICK s \in air \ {n} : id = first[s]
      BY <1>6, <2>1
    <3>3. s \in Members /\ id \in IdsAt(s, nodes[s]) /\ s # n
      BY <1>3, <3>2
    <3> QED
      BY <3>1, <3>3 DEF OnePlace
  <2> QED
    BY <1>6, <2>1 DEF Apart
<1>10. ASSUME NEW n \in Members, NEW m \in Members, n # m, NEW id,
              id \in IdsAt(n, nodes'[n]), id \in IdsAt(m, nodes'[m])
       PROVE  FALSE
  <2>1. \A a, b \in Members : id \in IdsAt(a, nodes[a]) /\ id \in IdsAt(b, nodes[b]) => a = b
    BY DEF OnePlace
  <2>2. CASE id \in IdsAt(n, nodes[n]) /\ id \in IdsAt(m, nodes[m])
    BY <1>10, <2>1, <2>2
  <2>3. ASSUME NEW a \in Members, NEW b \in Members,
               id \in IdsAt(a, nodes[a]), a \in air => id # first[a],
               NEW s \in air \ {b}, id = first[s]
        PROVE  FALSE
    <3>1. s \in Members /\ id \in IdsAt(s, nodes[s])
      BY <1>3, <2>3
    <3>2. s = a
      BY <2>1, <2>3, <3>1
    <3> QED
      BY <2>3, <3>2
  <2>4. ASSUME NEW s \in air, NEW t \in air, id = first[s], id = first[t],
               Deserialize(Head(nodes[s].queue)).dst = n, Deserialize(Head(nodes[t].queue)).dst = m
        PROVE  FALSE
    <3>1. s = t
      BY <1>3, <2>1, <2>4
    <3> QED
      BY <1>10, <2>4, <3>1
  <2>5. /\ \/ id \in IdsAt(n, nodes[n]) /\ (n \in air => id # first[n])
           \/ \E s \in air \ {n} : id = first[s] /\ Deserialize(Head(nodes[s].queue)).dst = n
        /\ \/ id \in IdsAt(m, nodes[m]) /\ (m \in air => id # first[m])
           \/ \E s \in air \ {m} : id = first[s] /\ Deserialize(Head(nodes[s].queue)).dst = m
    BY <1>7, <1>10
  <2> QED
    BY <2>2, <2>3, <2>4, <2>5, Zenon
<1>11. OnePlace'
  <2>1. \A n \in Members : Apart(n, nodes'[n]) /\ \A id \in IdsAt(n, nodes'[n]) : Known(id)'
    BY <1>5, <1>8, <1>9 DEF OnePlace
  <2>2. \A n, m \in Members : n # m => IdsAt(n, nodes'[n]) \cap IdsAt(m, nodes'[m]) = {}
    BY <1>10
  <2> QED
    BY <1>1, <2>1, <2>2 DEF OnePlace
<1>12. InTransit' \subseteq InTransit
  BY <1>1, <1>8, InTransitIs
<1> QED
  BY <1>1, <1>11, <1>12 DEF Serves

\* Whoever hands a packet up is where it goes to.
LEMMA HandedUpThere ==
  ASSUME NetRunning, Destined(net), NEW s \in Members, NEW packet, Held(net, s, packet),
         Known(Id(packet)), NEW n \in Members, NEW header, header = Deserialize(packet),
         header.dst = n, net.routing[n] = NoRouting \/ ~ForwardPacketOn(n, header)
  PROVE  Id(packet).dst = n
<1>1. Id(packet).src = header.daddrSrc /\ Id(packet).dst = header.daddrDst
  BY DEF Id
<1>2. CASE ~ForwardPacketOn(n, header)
  BY <1>1, <1>2 DEF ForwardPacketOn
<1>3. CASE net.routing[n] = NoRouting
  <2>1. PICK source, dst, route :
          source = header.daddrSrc /\ dst = header.daddrDst /\ route = RouteFrom(net, source, dst)
    OBVIOUS
  <2>2. OnRoute(net, s, header) /\ WellFormed(net) /\ source \in DOMAIN net.links
    BY <2>1 DEF Held, NetRunning, OnRoute
  <2>3. CASE net.routing[source] = NoRouting
    <3>1. header.dst = 0
      BY <2>1, <2>2, <2>3 DEF OnRoute
    <3>2. Id(packet).dst = 0
      BY <1>1, <2>1, <2>3 DEF Known
    <3> QED
      BY <3>1, <3>2
  <2>4. CASE net.routing[source] # NoRouting
    <3>1. dst \in DOMAIN net.routing[source]
      BY <2>1, <2>2, <2>4 DEF OnRoute
    <3>2. PICK k \in 1 .. Len(route) - 1 : header.dst = route[k + 1]
      BY <2>1, <2>2, <2>4 DEF OnRoute
    <3>3. Len(route) \in Nat /\ route[Len(route)] = dst
      BY <2>1, <2>2, <2>4, <3>1, RouteEnds
    <3>4. \A i \in 2 .. Len(route) - 1 : net.routing[route[i]] # NoRouting
      BY <2>1, <2>2, <2>4, <3>1 DEF Destined
    <3>5. k + 1 \notin 2 .. Len(route) - 1
      BY <1>3, <3>2, <3>4
    <3>6. k + 1 = Len(route)
      BY <3>2, <3>3, <3>5
    <3> QED
      BY <1>1, <2>1, <3>2, <3>3, <3>6
  <2> QED
    BY <2>3, <2>4
<1> QED
  BY <1>2, <1>3

LEMMA ServedByIndication ==
  ASSUME NetRunning, Destined(net), OnePlace, NEW n \in Members, ProcessPdDataIndication(n)
  PROVE  OnePlace' /\ Serves
<1>1. PICK old, other, frame, header :
        /\ old = nodes[n] /\ other = nodes'[n] /\ frame = old.heard
        /\ header = Deserialize(frame.packet)
  OBVIOUS
<1>2. /\ frame # NoFrame /\ \A m \in Members \ {n} : nodes'[m] = nodes[m]
      /\ other.heard = NoFrame /\ other.sent = old.sent
      /\ \/ /\ other.queue = old.queue /\ indication' = NoIndication /\ header.dst # n
         \/ /\ other.queue = old.queue /\ header.dst = n
            /\ indication' = DlDataIndication(n, frame.packet)
            /\ net.routing[n] = NoRouting \/ ~ForwardPacketOn(n, header)
         \/ /\ header.dst = n /\ net.routing[n] # NoRouting
            /\ indication' = NoIndication
            /\ \E packet : other.queue = Append(old.queue, packet) /\ Id(packet) = Id(frame.packet)
  BY <1>1, PacketIndicated
<1>3. /\ net' = net /\ Members' = Members /\ Running /\ Running'
  BY DEF ProcessPdDataIndication, Members, NetRunning, Running
<1>4. old \in NodeStates(net, n) /\ \A m \in Members : nodes[m].sent \in Nat
  BY <1>1 DEF NetRunning, NodeInv, NodeStates
<1>5. \A m \in Members : nodes'[m].sent = nodes[m].sent
  BY <1>1, <1>2
<1>6. \A id : Known(id) => Known(id)'
  BY <1>3, <1>4, <1>5, KnownStays
<1>7. \A m \in Members \ {n} : IdsAt(m, nodes'[m]) = IdsAt(m, nodes[m])
  BY <1>2
<1>8. Apart(n, old) /\ HeardId(n, other) = {}
  BY <1>1, <1>2 DEF OnePlace, HeardId
<1>9. ASSUME Apart(n, other), IdsAt(n, other) \subseteq IdsAt(n, old)
      PROVE  OnePlace'
  <2>1. PICK added : added = {}
    OBVIOUS
  <2>2. /\ added \cap InTransit = {} /\ \A id \in added : Known(id)'
        /\ IdsAt(n, nodes'[n]) \subseteq IdsAt(n, nodes[n]) \cup added
        /\ Apart(n, nodes'[n])
    BY <1>1, <1>9, <2>1
  <2> QED
    BY <1>2, <1>3, <1>6, <2>2, OneAdds
<1>10. ASSUME IdsAt(n, other) = IdsAt(n, old)
       PROVE  InTransit' = InTransit
  <2>1. \A m \in Members : IdsAt(m, nodes'[m]) = IdsAt(m, nodes[m])
    BY <1>1, <1>7, <1>10
  <2>2. \A id : id \in InTransit' <=> id \in InTransit
    BY <1>3, <2>1, InTransitIs
  <2> QED
    BY <2>2
<1>11. CASE other.queue = old.queue /\ indication' = NoIndication /\ header.dst # n
  <2>1. HeardId(n, old) = {}
    BY <1>1, <1>11 DEF HeardId
  <2>2. IdsAt(n, other) = IdsAt(n, old) /\ Apart(n, other)
    BY <1>8, <1>11, <2>1 DEF IdsAt, Apart
  <2> QED
    BY <1>9, <1>10, <1>11, <2>2 DEF Serves
<1>12. CASE /\ header.dst = n /\ net.routing[n] # NoRouting
            /\ indication' = NoIndication
            /\ \E packet : other.queue = Append(old.queue, packet) /\ Id(packet) = Id(frame.packet)
  <2>1. PICK packet : other.queue = Append(old.queue, packet) /\ Id(packet) = Id(frame.packet)
    BY <1>12
  <2>2. HeardId(n, old) = {Id(packet)}
    BY <1>1, <1>2, <1>12, <2>1 DEF HeardId
  <2>3. PICK q, R : q = old.queue /\ R = Seq(Nat)
    OBVIOUS
  <2>4. q \in Seq(R) /\ Different(q) /\ Id(packet) \notin Ids(q)
    BY <1>4, <1>8, <2>2, <2>3 DEF Apart, NodeStates
  <2>5. Ids(Append(q, packet)) = Ids(q) \cup {Id(packet)} /\ Different(Append(q, packet))
    BY <2>4, IdsAppended
  <2>6. IdsAt(n, other) = IdsAt(n, old) /\ Apart(n, other)
    BY <1>8, <2>1, <2>2, <2>3, <2>5 DEF IdsAt, Apart
  <2> QED
    BY <1>9, <1>10, <1>12, <2>6 DEF Serves
<1>13. CASE /\ other.queue = old.queue /\ header.dst = n
            /\ indication' = DlDataIndication(n, frame.packet)
            /\ net.routing[n] = NoRouting \/ ~ForwardPacketOn(n, header)
  <2>1. PICK p : p = Id(frame.packet)
    OBVIOUS
  <2>2. HeardId(n, old) = {p}
    BY <1>1, <1>2, <1>13, <2>1 DEF HeardId
  <2>3. /\ IdsAt(n, other) = IdsAt(n, old) \ {p} /\ p \in IdsAt(n, old)
        /\ Apart(n, other)
    BY <1>8, <1>13, <2>2 DEF IdsAt, Apart
  <2>4. \A m \in Members \ {n} : p \notin IdsAt(m, nodes[m])
    BY <1>1, <2>3 DEF OnePlace
  <2>5. \A id : id \in InTransit' <=> id \in InTransit /\ id # p
    <3>1. \A m \in Members : \A id : id \in IdsAt(m, nodes'[m]) <=> id \in IdsAt(m, nodes[m]) /\ id # p
      BY <1>1, <1>7, <2>3, <2>4
    <3> QED
      BY <1>3, <3>1, InTransitIs
  <2>6. p \in InTransit /\ InTransit' = InTransit \ {p}
    BY <1>1, <1>3, <2>3, <2>5, InTransitIs
  <2>7. p.dst = n
    <3>1. PICK s \in Members : Held(net, s, frame.packet)
      BY <1>1, <1>2 DEF NetRunning, NodeInv, Members
    <3>2. Known(p)
      BY <1>1, <2>3 DEF OnePlace
    <3> QED
      BY <1>1, <1>13, <2>1, <3>1, <3>2, HandedUpThere
  <2>8. indication' = [at |-> p.dst, packet |-> p]
    BY <1>13, <2>1, <2>7 DEF DlDataIndication
  <2> QED
    BY <1>9, <2>3, <2>6, <2>8 DEF Serves
<1> QED
  BY <1>2, <1>11, <1>12, <1>13

\* Every step keeps the packets in one place each, and is one of the service.
LEMMA DeliverKept ==
  ASSUME NetInv, NetInv', ClockInv, CarryInv, DeliverInv, NetNext
  PROVE  DeliverInv' /\ (Destined(net) /\ Numbered(net) => Serves)
<1>1. Running /\ Running' /\ NetRunning /\ NetRunning' /\ net' = net /\ Members' = Members
  BY NetNextKeeps DEF NetNext, NetInv, Members
<1> SUFFICES ASSUME Destined(net), Numbered(net)
             PROVE  /\ (phase = "XMIT" => indication = NoIndication /\ NoneHeard)'
                    /\ OnePlace' /\ Serves
  BY <1>1 DEF DeliverInv
<1>2. OnePlace /\ (phase = "XMIT" => indication = NoIndication /\ NoneHeard)
  BY <1>1 DEF DeliverInv
<1>3. Carrying(net) => \A n \in Members : HasRoom(n, nodes[n])
  BY <1>1 DEF CarryInv
<1>4. CASE BeginSlot
  BY <1>1, <1>2, <1>3, <1>4, ServedAtBoundary
<1>5. ASSUME indication' = indication, phase' = phase, phase = "XMIT",
             \A n \in Members : /\ nodes'[n].queue = nodes[n].queue
                                /\ nodes'[n].heard = nodes[n].heard /\ nodes'[n].sent = nodes[n].sent
      PROVE  (indication = NoIndication /\ NoneHeard)' /\ OnePlace' /\ Serves
  <2>1. OnePlace' /\ InTransit' = InTransit
    BY <1>1, <1>2, <1>5, NothingMoves
  <2>2. NoneHeard'
    BY <1>1, <1>2, <1>5 DEF NoneHeard
  <2> QED
    BY <1>2, <1>5, <2>1, <2>2 DEF Serves
<1>6. CASE TurnTransmittersOn
  <2>1. /\ indication' = indication /\ phase' = phase /\ phase = "XMIT"
    BY <1>6 DEF TurnTransmittersOn
  <2>2. \A n \in Members : /\ nodes'[n].queue = nodes[n].queue
                          /\ nodes'[n].heard = nodes[n].heard /\ nodes'[n].sent = nodes[n].sent
    BY <1>1, <1>6, TransmittersTurned
  <2> QED
    BY <1>5, <2>1, <2>2
<1>7. CASE EndFrames
  <2>1. phase = "XMIT" /\ phase' = "RX"
    BY <1>7 DEF EndFrames
  <2>2. OnePlace' /\ Serves
    BY <1>1, <1>2, <1>7, <2>1, ServedAtEnd
  <2> QED
    BY <2>1, <2>2
<1>8. ASSUME NEW m \in Members, SendPacket(m)
      PROVE  phase' = "RX" /\ OnePlace' /\ Serves
  <2>1. phase' = "RX"
    BY <1>8 DEF SendPacket
  <2> QED
    BY <1>1, <1>2, <1>8, <2>1, ServedBySending
<1>9. ASSUME NEW m \in Members, Assess(m)
      PROVE  (indication = NoIndication /\ NoneHeard)' /\ OnePlace' /\ Serves
  <2>1. /\ indication' = indication /\ phase' = phase /\ phase = "XMIT"
    BY <1>9 DEF Assess
  <2>2. \A n \in Members : /\ nodes'[n].queue = nodes[n].queue
                          /\ nodes'[n].heard = nodes[n].heard /\ nodes'[n].sent = nodes[n].sent
    BY <1>1, <1>9, Assessed
  <2> QED
    BY <1>5, <2>1, <2>2
<1>10. ASSUME NEW m \in Members, ProcessPdDataIndication(m)
       PROVE  phase' = "RX" /\ OnePlace' /\ Serves
  <2>1. phase' = "RX"
    BY <1>10 DEF ProcessPdDataIndication
  <2> QED
    BY <1>1, <1>2, <1>10, <2>1, ServedByIndication
<1> QED
  BY <1>4, <1>6, <1>7, <1>8, <1>9, <1>10 DEF NetNext

\* Nobody holds a packet at the start.
LEMMA NothingInTransit ==
  ASSUME NEW config, NEW n \in DOMAIN config.links, NEW me, me = Started(config, n)
  PROVE  IdsAt(n, me) = {} /\ Apart(n, me)
<1>1. me.queue = <<>> /\ me.heard = NoFrame
  BY DEF Started
<1>2. Ids(me.queue) = {} /\ HeardId(n, me) = {} /\ Different(me.queue)
  BY <1>1 DEF Ids, HeardId, Different
<1> QED
  BY <1>2 DEF IdsAt, Apart
=============================================================================
