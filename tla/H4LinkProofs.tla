----------------------------- MODULE H4LinkProofs -----------------------------
(***************************************************************************)
(* The properties of H4Link, for any sizes of its buffers and FIFOs, any   *)
(* packets whose bytes can be counted (CountsPackets) and any host that    *)
(* has no more packets under way than the FIFO of the HCI layer has slots  *)
(* (FlowControlled).                                                       *)
(*                                                                         *)
(* Neither property says where the bytes are.  H4Inv does: the packets of  *)
(* a session, one behind the other, are a stream (Stream), and behind the  *)
(* packets given to the HCI layer come the bytes of the backup, of the     *)
(* unread buffers and of the line, without a gap (InStream).  A step moves *)
(* bytes from one of these to the one before it.  The handler cuts at the  *)
(* right place because what it reads begins where a packet of the host     *)
(* begins or where the backup ends, so the lengths it finds are those of   *)
(* this packet (HeaderTells).                                              *)
(***************************************************************************)
EXTENDS H4Link, SequenceTheorems, TLAPS

-----------------------------------------------------------------------------
(* Numbers modulo m: division with remainder *)
LEMMA Quotient ==
  ASSUME NEW x \in Int, NEW m \in Nat \ {0}
  PROVE  /\ x = (m * (x \div m)) + (x % m)
         /\ x % m \in 0 .. m - 1 /\ x \div m \in Int
  OBVIOUS

(* A multiple is at least as far from 0 as the number. *)
LEMMA Multiple ==
  ASSUME NEW k \in Int, NEW m \in Nat \ {0}, m * k < m, -m < m * k
  PROVE  k = 0
<1>1. k > 0 => m * k >= m
  OBVIOUS
<1>2. k < 0 => m * k <= -m
  <2> SUFFICES ASSUME k < 0 PROVE m * k <= -m
    OBVIOUS
  <2>1. -k \in Int /\ -k > 0
    OBVIOUS
  <2>2. m * (-k) >= m
    BY <2>1
  <2>3. m * (-k) = -(m * k)
    OBVIOUS
  <2> QED
    BY <2>2, <2>3
<1>3. m * k \in Int
  OBVIOUS
<1> QED
  BY <1>1, <1>2, <1>3

(* There is only one remainder. *)
LEMMA Remainder ==
  ASSUME NEW x \in Int, NEW m \in Nat \ {0}, NEW r \in 0 .. m - 1,
         \E k \in Int : x = (m * k) + r
  PROVE  x % m = r
<1> DEFINE p == x \div m
<1>0. PICK k \in Int : x = (m * k) + r
  OBVIOUS
<1>1. x = (m * p) + (x % m) /\ x % m \in 0 .. m - 1 /\ p \in Int
  BY Quotient
<1> HIDE DEF p
<1>2. m * (p - k) = r - (x % m)
  <2>1. m * (p - k) = (m * p) - (m * k) /\ m * p \in Int /\ m * k \in Int
    BY <1>1
  <2>2. x % m \in Int /\ r \in Int
    BY <1>1
  <2>3. x = (m * p) + (x % m) /\ x = (m * k) + r
    BY <1>0, <1>1
  <2>4. (m * p) - (m * k) = r - (x % m)
    BY <2>1, <2>2, <2>3
  <2> QED
    BY <2>1, <2>4
<1>3. p - k \in Int /\ m * (p - k) < m /\ -m < m * (p - k)
  BY <1>1, <1>2
<1>4. p - k = 0
  BY <1>3, Multiple
<1>5. p = k
  BY <1>1, <1>4
<1> QED
  BY <1>0, <1>1, <1>5

(* A number below m *)
LEMMA SmallRemainder ==
  ASSUME NEW m \in Nat \ {0}, NEW x \in 0 .. m - 1
  PROVE  x % m = x
<1>1. x = (m * 0) + x
  OBVIOUS
<1> QED
  BY <1>1, Remainder

(* Numbers that differ by a multiple of m *)
IsMultiple(x, m) == \E k \in Int : x = m * k
LEMMA SameRemainder ==
  ASSUME NEW x \in Int, NEW y \in Int, NEW m \in Nat \ {0}, IsMultiple(x - y, m)
  PROVE  x % m = y % m
<1>0. PICK k \in Int : x - y = m * k
  BY DEF IsMultiple
<1> DEFINE q == y \div m
<1>1. y = (m * q) + (y % m) /\ y % m \in 0 .. m - 1 /\ q \in Int
  BY Quotient
<1> HIDE DEF q
<1>2. m * (q + k) = (m * q) + (m * k) /\ m * q \in Int /\ m * k \in Int /\ q + k \in Int
  BY <1>1
<1>3. x = (m * (q + k)) + (y % m)
  BY <1>0, <1>1, <1>2
<1> QED
  BY <1>1, <1>2, <1>3, Remainder

(* Multiples add up. *)
LEMMA Multiples ==
  ASSUME NEW x \in Int, NEW y \in Int, NEW m \in Nat \ {0}, IsMultiple(x, m), IsMultiple(y, m)
  PROVE  IsMultiple(x + y, m) /\ IsMultiple(x - y, m)
<1>1. PICK k \in Int : x = m * k
  BY DEF IsMultiple
<1>2. PICK l \in Int : y = m * l
  BY DEF IsMultiple
<1>3. k + l \in Int /\ k - l \in Int /\ m * k \in Int /\ m * l \in Int
  OBVIOUS
<1>4. x + y = m * (k + l) /\ x - y = m * (k - l)
  BY <1>1, <1>2, <1>3
<1> QED
  BY <1>3, <1>4 DEF IsMultiple

LEMMA RemainderOff ==
  ASSUME NEW x \in Int, NEW m \in Nat \ {0}
  PROVE  /\ IsMultiple(x - (x % m), m) /\ IsMultiple(m, m) /\ IsMultiple(0, m)
         /\ x % m \in 0 .. m - 1
<1> DEFINE k == x \div m
<1>1. x = (m * k) + (x % m) /\ x % m \in 0 .. m - 1 /\ k \in Int
  BY Quotient
<1> HIDE DEF k
<1>2. m * k \in Int
  BY <1>1
<1>3. x - (x % m) = m * k
  BY <1>1, <1>2
<1>4. m = m * 1 /\ 0 = m * 0
  OBVIOUS
<1>5. IsMultiple(m, m) /\ IsMultiple(0, m)
  BY <1>4 DEF IsMultiple
<1>6. IsMultiple(x - (x % m), m)
  BY <1>1, <1>3 DEF IsMultiple
<1> QED
  BY <1>1, <1>5, <1>6

(* Numbers below m that differ by a multiple of it are the same. *)
LEMMA RemainderIs ==
  ASSUME NEW x \in Int, NEW m \in Nat \ {0}, NEW r \in 0 .. m - 1, IsMultiple(x - r, m)
  PROVE  x % m = r
<1>1. r \in Int /\ r % m = r
  BY SmallRemainder
<1>2. x % m = r % m
  BY <1>1, SameRemainder
<1> QED
  BY <1>1, <1>2

LEMMA Divides ==
  ASSUME NEW p \in Nat \ {0}, NEW m \in Nat \ {0}, p % m = 0
  PROVE  IsMultiple(p, m)
<1>1. p \in Int /\ p - 0 = p
  OBVIOUS
<1>2. IsMultiple(p - (p % m), m)
  BY <1>1, RemainderOff
<1> QED
  BY <1>1, <1>2

(* A multiple of a multiple *)
LEMMA MultipleOf ==
  ASSUME NEW x \in Int, NEW p \in Nat \ {0}, NEW m \in Nat \ {0}, IsMultiple(x, p), IsMultiple(p, m)
  PROVE  IsMultiple(x, m)
<1>1. PICK k \in Int : x = p * k
  BY DEF IsMultiple
<1>2. PICK l \in Int : p = m * l
  BY DEF IsMultiple
<1>3. (m * l) * k = m * (l * k) /\ l * k \in Int
  OBVIOUS
<1>4. x = m * (l * k)
  BY <1>1, <1>2, <1>3
<1> QED
  BY <1>3, <1>4 DEF IsMultiple

LEMMA NoMultiple ==
  ASSUME NEW x \in Int, NEW m \in Nat \ {0}, IsMultiple(x, m), x < m, -m < x
  PROVE  x = 0
<1>1. PICK k \in Int : x = m * k
  BY DEF IsMultiple
<1>2. k = 0
  BY <1>1, Multiple
<1> QED
  BY <1>1, <1>2

-----------------------------------------------------------------------------
(* A FIFO of s slots whose pointers have p values: it lies between its pointers. *)
Between(w, r, p) == (w - r) % p

LEMMA PointersApart ==
  ASSUME NEW p \in Nat \ {0}, NEW w \in 0 .. p - 1, NEW r \in 0 .. p - 1
  PROVE  /\ Between(w, r, p) \in 0 .. p - 1 /\ IsMultiple((w - r) - Between(w, r, p), p)
         /\ Between(w, r, p) = 0 <=> w = r
<1>1. PICK x \in Int, u \in Int : x = w - r /\ u = x % p
  OBVIOUS
<1>2. IsMultiple(x - u, p) /\ u \in 0 .. p - 1
  BY <1>1, RemainderOff
<1>3. u = 0 => w = r
  <2> SUFFICES ASSUME u = 0 PROVE w = r
    OBVIOUS
  <2>1. x - u = x /\ x < p /\ -p < x
    BY <1>1
  <2>2. x = 0
    BY <1>2, <2>1, NoMultiple
  <2> QED
    BY <1>1, <2>2
<1>4. w = r => u = 0
  <2> SUFFICES ASSUME w = r PROVE u = 0
    OBVIOUS
  <2>1. x = 0 /\ 0 \in 0 .. p - 1
    BY <1>1
  <2> QED
    BY <1>1, <2>1, SmallRemainder
<1> QED
  BY <1>1, <1>2, <1>3, <1>4 DEF Between

(* The pointers go on. *)
LEMMA WriteMoves ==
  ASSUME NEW p \in Nat \ {0}, NEW w \in 0 .. p - 1, NEW r \in 0 .. p - 1, Between(w, r, p) + 1 < p
  PROVE  /\ (w + 1) % p \in 0 .. p - 1
         /\ Between((w + 1) % p, r, p) = Between(w, r, p) + 1
<1>0. Between(w, r, p) \in 0 .. p - 1 /\ IsMultiple((w - r) - Between(w, r, p), p)
  BY PointersApart
<1>1. PICK u \in 0 .. p - 1 : u = Between(w, r, p) /\ IsMultiple((w - r) - u, p)
  BY <1>0
<1>2. PICK x \in Int, v \in Int : x = w + 1 /\ v = x % p
  OBVIOUS
<1>3. IsMultiple(x - v, p) /\ v \in 0 .. p - 1
  BY <1>2, RemainderOff
<1>4. IsMultiple(((w - r) - u) - (x - v), p)
  BY <1>1, <1>3, Multiples
<1>5. PICK y \in Int, n \in 0 .. p - 1 : y = v - r /\ n = u + 1
  BY <1>1
<1>6. y - n = ((w - r) - u) - (x - v)
  BY <1>2, <1>5
<1>7. y % p = n
  BY <1>4, <1>5, <1>6, RemainderIs
<1> QED
  BY <1>1, <1>2, <1>3, <1>5, <1>7 DEF Between

LEMMA ReadMoves ==
  ASSUME NEW p \in Nat \ {0}, NEW w \in 0 .. p - 1, NEW r \in 0 .. p - 1, Between(w, r, p) > 0
  PROVE  /\ (r + 1) % p \in 0 .. p - 1
         /\ Between(w, (r + 1) % p, p) = Between(w, r, p) - 1
<1>0. Between(w, r, p) \in 0 .. p - 1 /\ IsMultiple((w - r) - Between(w, r, p), p)
  BY PointersApart
<1>1. PICK u \in 0 .. p - 1 : u = Between(w, r, p) /\ IsMultiple((w - r) - u, p)
  BY <1>0
<1>2. PICK x \in Int, v \in Int : x = r + 1 /\ v = x % p
  OBVIOUS
<1>3. IsMultiple(x - v, p) /\ v \in 0 .. p - 1
  BY <1>2, RemainderOff
<1>4. IsMultiple(((w - r) - u) + (x - v), p)
  BY <1>1, <1>3, Multiples
<1>5. PICK y \in Int, n \in 0 .. p - 1 : y = w - v /\ n = u - 1
  BY <1>1, <1>3
<1>6. y - n = ((w - r) - u) + (x - v)
  BY <1>2, <1>5
<1>7. y % p = n
  BY <1>4, <1>5, <1>6, RemainderIs
<1> QED
  BY <1>1, <1>2, <1>3, <1>5, <1>7 DEF Between

(* The slots of what lies between them *)
LEMMA WriteSlot ==
  ASSUME NEW p \in Nat \ {0}, NEW s \in Nat \ {0}, IsMultiple(p, s),
         NEW w \in 0 .. p - 1, NEW r \in 0 .. p - 1
  PROVE  w % s = (r + Between(w, r, p)) % s
<1>0. Between(w, r, p) \in 0 .. p - 1 /\ IsMultiple((w - r) - Between(w, r, p), p)
  BY PointersApart
<1>1. PICK u \in 0 .. p - 1 : u = Between(w, r, p) /\ IsMultiple((w - r) - u, p)
  BY <1>0
<1>2. (w - r) - u \in Int /\ w \in Int /\ r + u \in Int
  OBVIOUS
<1>3. IsMultiple((w - r) - u, s)
  BY <1>1, <1>2, MultipleOf
<1>4. (w - r) - u = w - (r + u)
  OBVIOUS
<1>5. IsMultiple(w - (r + u), s)
  BY <1>3, <1>4
<1> QED
  BY <1>1, <1>2, <1>5, SameRemainder

Following(r, p) == (r + 1) % p
LEMMA ReadSlot ==
  ASSUME NEW p \in Nat \ {0}, NEW s \in Nat \ {0}, IsMultiple(p, s), NEW r \in 0 .. p - 1,
         NEW v \in 0 .. p - 1, v = Following(r, p), NEW i \in Int, NEW j \in Int, j = i + 1
  PROVE  (v + i) % s = (r + j) % s
<1>1. PICK x \in Int : x = r + 1 /\ v = x % p
  BY DEF Following
<1>2. IsMultiple(x - v, p)
  BY <1>1, RemainderOff
<1>3. PICK y \in Int, z \in Int, d \in Int : y = v + i /\ z = r + j /\ d = x - v
  OBVIOUS
<1>4. IsMultiple(d, s) /\ IsMultiple(0, s)
  BY <1>2, <1>3, MultipleOf, RemainderOff
<1>5. IsMultiple(0 - d, s)
  BY <1>4, Multiples
<1>6. 0 - d = y - z
  BY <1>1, <1>3
<1>7. IsMultiple(y - z, s)
  BY <1>5, <1>6
<1>8. y % s = z % s
  BY <1>7, SameRemainder
<1> QED
  BY <1>3, <1>8

LEMMA SlotsDiffer ==
  ASSUME NEW s \in Nat \ {0}, NEW r \in Int, NEW i \in 0 .. s - 1, NEW j \in 0 .. s - 1,
         (r + i) % s = (r + j) % s
  PROVE  i = j
<1>1. PICK x \in Int, y \in Int, z \in Int : x = r + i /\ y = r + j /\ z = x % s
  OBVIOUS
<1>2. IsMultiple(x - z, s)
  BY <1>1, RemainderOff
<1>3. IsMultiple(y - z, s)
  <2>1. z = y % s
    BY <1>1
  <2> QED
    BY <2>1, RemainderOff
<1>4. IsMultiple((x - z) - (y - z), s)
  BY <1>2, <1>3, Multiples
<1>5. PICK d \in Int : d = i - j /\ d < s /\ -s < d
  OBVIOUS
<1>6. (x - z) - (y - z) = x - y
  OBVIOUS
<1>7. i \in Int /\ j \in Int /\ x - y = d
  BY <1>1, <1>5
<1>8. IsMultiple(d, s)
  BY <1>4, <1>6, <1>7
<1>9. d = 0
  BY <1>5, <1>8, NoMultiple
<1> QED
  BY <1>5, <1>9

-----------------------------------------------------------------------------
(* The types *)
Bytes == Seq(Nat)
GoodPacket(p) ==
  /\ p \in Bytes /\ p[1] \in {CMD, ACL} /\ HasHead(p)
  /\ PacketLen(p) = Len(p) /\ Len(p) < CntVals
Packets == {p \in Bytes : GoodPacket(p)}

Pointers == 0 .. PtrVals - 1
BufSlots == 0 .. HCI_H4_TR_RX_BUF_NUM - 1
HciSlots == 0 .. HCI_RX_FIFO_NUM - 1
Buffers == [len : Nat, bytes : Bytes]
Dmas == [wptr : Pointers, rptr : Pointers, bufs : [BufSlots -> Buffers]]
Fifos == [wptr : Pointers, rptr : Pointers, slots : [HciSlots -> Bytes]]
Backups == [is : BOOLEAN, bytes : Bytes, timer : BOOLEAN]
Handlers == [pos : Nat, len : Nat, resumed : BOOLEAN]
NoBuffer == [pos |-> 0, len |-> 0, resumed |-> FALSE]

H4Types ==
  /\ line \in Bytes /\ (~h4host.up => line = <<>>)
  /\ dma \in Dmas
  /\ handler \in Handlers /\ (handler.len = 0 => handler = NoBuffer)
  /\ backup \in Backups /\ (~backup.timer => backup = NoBackup)
  /\ hci \in Fifos
  /\ sent \in Seq(Packets) /\ delivered \in Seq(Bytes)
  /\ Len(sent) - Len(delivered) <= HostCredits
  /\ h4host \in [up : BOOLEAN, sessions : Int]
  /\ damaged \in BOOLEAN

LEMMA H4ConstantsAre ==
  /\ HCI_H4_TR_RX_BUF_NUM \in Nat \ {0} /\ HCI_RX_FIFO_NUM \in Nat \ {0}
  /\ PtrVals \in Nat \ {0} /\ CntVals \in Nat \ {0} /\ HostCredits \in Nat \ {0}
  /\ H4BufSize \in Nat \ {0} /\ MaxSent \in Nat /\ Payload \in Nat
  /\ PtrVals % HCI_H4_TR_RX_BUF_NUM = 0 /\ PtrVals % HCI_RX_FIFO_NUM = 0
  /\ HCI_RX_FIFO_NUM < PtrVals /\ HCI_H4_TR_RX_BUF_NUM < PtrVals
  /\ Shapes \subseteq {1, 2} \X Nat
BY H4Assumption

(* Part of a sequence, whatever the bounds *)
LEMMA PartOf ==
  ASSUME NEW S, NEW s \in Seq(S), NEW m \in Nat \ {0}, NEW k \in Int, k <= Len(s)
  PROVE  /\ SubSeq(s, m, k) \in Seq(S)
         /\ Len(SubSeq(s, m, k)) = IF m <= k THEN k - m + 1 ELSE 0
         /\ \A i \in 1 .. k - m + 1 : SubSeq(s, m, k)[i] = s[m + i - 1]
<1>1. Len(s) \in Nat /\ m \in Int
  OBVIOUS
<1>2. \A i \in m .. k : s[i] \in S
  <2> SUFFICES ASSUME NEW i \in m .. k PROVE s[i] \in S
    OBVIOUS
  <2>1. i \in 1 .. Len(s)
    BY <1>1
  <2> QED
    BY <2>1, ElementOfSeq
<1> QED
  BY <1>1, <1>2, SubSeqProperties

(* Two byte sequences, one behind the other *)
LEMMA Joined ==
  ASSUME NEW S, NEW s \in Seq(S), NEW t \in Seq(S)
  PROVE  /\ s \o t \in Seq(S) /\ Len(s \o t) = Len(s) + Len(t)
         /\ \A i \in 1 .. Len(s) : (s \o t)[i] = s[i]
         /\ \A i \in 1 .. Len(t) : (s \o t)[Len(s) + i] = t[i]
<1>1. Len(s) \in Nat /\ Len(t) \in Nat
  OBVIOUS
<1>2. /\ s \o t \in Seq(S) /\ Len(s \o t) = Len(s) + Len(t)
      /\ \A i \in 1 .. Len(s) + Len(t) : (s \o t)[i] = IF i <= Len(s) THEN s[i] ELSE t[i - Len(s)]
  BY ConcatProperties
<1>3. ASSUME NEW i \in 1 .. Len(s) PROVE (s \o t)[i] = s[i]
  BY <1>1, <1>2
<1>4. ASSUME NEW i \in 1 .. Len(t) PROVE (s \o t)[Len(s) + i] = t[i]
  <2>1. Len(s) + i \in 1 .. Len(s) + Len(t) /\ ~(Len(s) + i <= Len(s)) /\ (Len(s) + i) - Len(s) = i
    BY <1>1
  <2> QED
    BY <1>2, <2>1
<1> QED
  BY <1>2, <1>3, <1>4

(* An empty sequence *)
LEMMA EmptyOrNot ==
  ASSUME NEW S, NEW s \in Seq(S)
  PROVE  Len(s) \in Nat /\ (s = <<>> <=> Len(s) = 0) /\ <<>> \in Seq(S) /\ Len(<<>>) = 0
<1>1. <<>> \in Seq(S) /\ Len(<<>>) = 0 /\ (s # <<>> => Len(s) \in Nat \ {0})
  BY EmptySeq
<1> QED
  BY <1>1

(* The lengths of packets *)
LEMMA HeadOf ==
  ASSUME NEW p \in Bytes, p[1] \in {CMD, ACL}
  PROVE  /\ Len(p) \in Nat
         /\ HasHead(p) <=> Len(p) >= IF p[1] = ACL THEN 5 ELSE 4
         /\ HasHead(p) =>
              /\ PacketLen(p) \in Nat /\ PacketLen(p) >= 4
              /\ PacketLen(p) = IF p[1] = ACL THEN 5 + (p[4] + CntVals * p[5]) ELSE 4 + p[4]
<1>1. Len(p) \in Nat
  BY DEF Bytes
<1>2. CASE p[1] = 1
  <2>1. HeadLen[p[1]] = 3
    BY <1>2 DEF HeadLen
  <2>2. ParamLen(p) = p[4]
    BY <1>2 DEF ParamLen, ACL, EVENT
  <2>3. HasHead(p) => p[4] \in Nat
    <3> SUFFICES ASSUME HasHead(p) PROVE p[4] \in Nat
      OBVIOUS
    <3>1. 4 \in 1 .. Len(p)
      BY <1>1, <2>1 DEF HasHead
    <3> QED
      BY <3>1, ElementOfSeq DEF Bytes
  <2>4. HasHead(p) <=> Len(p) >= 4
    BY <1>1, <2>1 DEF HasHead
  <2>5. PacketLen(p) = 1 + 3 + p[4]
    BY <2>1, <2>2 DEF PacketLen
  <2>6. p[1] # ACL
    BY <1>2 DEF ACL
  <2>7. HasHead(p) => PacketLen(p) \in Nat /\ PacketLen(p) >= 4
    BY <2>3, <2>5
  <2>8. HasHead(p) => PacketLen(p) = 4 + p[4]
    BY <2>3, <2>5
  <2> QED
    BY <1>1, <2>4, <2>6, <2>7, <2>8
<1>3. CASE p[1] = 2
  <2>1. HeadLen[p[1]] = 4
    BY <1>3 DEF HeadLen
  <2>2. ParamLen(p) = p[4] + CntVals * p[5]
    BY <1>3 DEF ParamLen, ACL, EVENT
  <2>3. HasHead(p) => p[4] \in Nat /\ p[5] \in Nat
    <3> SUFFICES ASSUME HasHead(p) PROVE p[4] \in Nat /\ p[5] \in Nat
      OBVIOUS
    <3>1. 4 \in 1 .. Len(p) /\ 5 \in 1 .. Len(p)
      BY <1>1, <2>1 DEF HasHead
    <3> QED
      BY <3>1, ElementOfSeq DEF Bytes
  <2>4. HasHead(p) <=> Len(p) >= 5
    BY <1>1, <2>1 DEF HasHead
  <2>5. PacketLen(p) = 1 + 4 + (p[4] + CntVals * p[5])
    BY <2>1, <2>2 DEF PacketLen
  <2>6. p[1] = ACL
    BY <1>3 DEF ACL
  <2>7. HasHead(p) => PacketLen(p) \in Nat /\ PacketLen(p) >= 4
    <3> SUFFICES ASSUME HasHead(p) PROVE PacketLen(p) \in Nat /\ PacketLen(p) >= 4
      OBVIOUS
    <3>1. p[4] \in Nat /\ p[5] \in Nat /\ CntVals \in Nat
      BY <2>3, H4ConstantsAre
    <3>2. CntVals * p[5] \in Nat
      BY <3>1
    <3> QED
      BY <2>5, <3>1, <3>2
  <2>8. HasHead(p) => PacketLen(p) = 5 + (p[4] + CntVals * p[5])
    <3> SUFFICES ASSUME HasHead(p) PROVE PacketLen(p) = 5 + (p[4] + CntVals * p[5])
      OBVIOUS
    <3>1. PICK q \in Int : q = CntVals * p[5]
      BY <2>3, H4ConstantsAre
    <3> QED
      BY <2>3, <2>5, <3>1
  <2> QED
    BY <1>1, <2>4, <2>6, <2>7, <2>8
<1> QED
  BY <1>2, <1>3 DEF CMD, ACL

(* The pointers name slots. *)
LEMMA SlotsAre ==
  ASSUME NEW r \in Pointers, NEW i \in Nat
  PROVE  /\ r \in Nat /\ (r + 1) % PtrVals \in Pointers
         /\ (r + i) % HCI_H4_TR_RX_BUF_NUM \in BufSlots
         /\ (r + i) % HCI_RX_FIFO_NUM \in HciSlots
         /\ r % HCI_H4_TR_RX_BUF_NUM \in BufSlots /\ r % HCI_RX_FIFO_NUM \in HciSlots
<1>1. PICK x \in Nat, y \in Nat, z \in Nat : x = r + i /\ y = r + 1 /\ z = r
  BY H4ConstantsAre DEF Pointers
<1>2. /\ x % HCI_H4_TR_RX_BUF_NUM \in 0 .. HCI_H4_TR_RX_BUF_NUM - 1
      /\ z % HCI_H4_TR_RX_BUF_NUM \in 0 .. HCI_H4_TR_RX_BUF_NUM - 1
  BY H4ConstantsAre, RemainderOff
<1>3. /\ x % HCI_RX_FIFO_NUM \in 0 .. HCI_RX_FIFO_NUM - 1
      /\ z % HCI_RX_FIFO_NUM \in 0 .. HCI_RX_FIFO_NUM - 1
  BY H4ConstantsAre, RemainderOff
<1>4. y % PtrVals \in 0 .. PtrVals - 1
  BY H4ConstantsAre, RemainderOff
<1> QED
  BY <1>1, <1>2, <1>3, <1>4 DEF Pointers, BufSlots, HciSlots

LEMMA Counted ==
  ASSUME NEW b \in Bytes
  PROVE  /\ Counted8(b) \in Bytes
         /\ Len(b) < CntVals => Counted8(b) = b
<1>1. Len(b) \in Nat /\ CntVals \in Nat \ {0}
  BY H4ConstantsAre DEF Bytes
<1>2. PICK k \in Int : k = Len(b) % CntVals
  BY <1>1
<1>3. k \in 0 .. CntVals - 1 /\ k <= Len(b)
  <2>1. k \in 0 .. CntVals - 1
    BY <1>1, <1>2, RemainderOff
  <2>2. Len(b) < CntVals => k = Len(b)
    BY <1>1, <1>2, SmallRemainder
  <2> QED
    BY <1>1, <2>1, <2>2
<1>4. SubSeq(b, 1, k) \in Bytes
  BY <1>3, PartOf DEF Bytes
<1>5. ASSUME Len(b) < CntVals PROVE Counted8(b) = b
  <2>1. k = Len(b)
    BY <1>1, <1>2, <1>5, SmallRemainder
  <2>2. SubSeq(b, 1, Len(b)) = b
    BY SubSeqFull DEF Bytes
  <2> QED
    BY <1>2, <2>1, <2>2 DEF Counted8
<1> QED
  BY <1>2, <1>4, <1>5 DEF Counted8

LEMMA TakeBounds ==
  ASSUME NEW b \in Bytes, NEW d \in Bytes
  PROVE  Take(b, d) \in 0 .. Len(d)
<1>1. Len(b) \in Nat /\ Len(d) \in Nat
  BY DEF Bytes
<1>2. CASE b = <<>> \/ b[1] \notin {CMD, ACL} \/ ~HasHead(b \o d)
  <2>1. Take(b, d) = Len(d)
    BY <1>2 DEF Take
  <2> QED
    BY <1>1, <2>1
<1>3. CASE ~(b = <<>> \/ b[1] \notin {CMD, ACL} \/ ~HasHead(b \o d))
  <2>1. b \o d \in Bytes /\ (b \o d)[1] = b[1]
    <3>1. Len(b) # 0
      BY <1>3, EmptyOrNot DEF Bytes
    <3>2. 1 \in 1 .. Len(b)
      BY <1>1, <3>1
    <3> QED
      BY <3>2, Joined DEF Bytes
  <2>2. PacketLen(b \o d) \in Nat
    BY <1>3, <2>1, HeadOf
  <2>3. PICK rest \in Int : rest = PacketLen(b \o d) - Len(b)
    BY <1>1, <2>2
  <2>4. Take(b, d) = IF rest < 0 THEN Len(d) ELSE Least(rest, Len(d))
    BY <1>3, <2>3 DEF Take
  <2> QED
    BY <1>1, <2>4 DEF Least
<1> QED
  BY <1>2, <1>3

LEMMA SlotTyped ==
  ASSUME NEW p \in Bytes, hci \in Fifos
  PROVE  [hci EXCEPT !.slots[hci.wptr % HCI_RX_FIFO_NUM] = p,
                     !.wptr = (@ + 1) % PtrVals] \in Fifos
<1>1. hci.wptr \in Pointers /\ hci.slots \in [HciSlots -> Bytes]
  BY DEF Fifos
<1>2. (hci.wptr + 1) % PtrVals \in Pointers
  BY <1>1, SlotsAre
<1> QED
  BY <1>1, <1>2 DEF Fifos

LEMMA BackUpTyped ==
  ASSUME NEW d \in Bytes, backup \in Backups, hci \in Fifos,
         ~backup.timer => backup = NoBackup, BackUpHandler(d)
  PROVE  backup' \in Backups /\ (~backup'.timer => backup' = NoBackup) /\ hci' \in Fifos
<1> DEFINE b == backup.bytes
           kept == Counted8(b \o SubSeq(d, 1, Take(b, d)))
<1>1. b \in Bytes /\ backup.is \in BOOLEAN
  BY DEF Backups
<1>2. kept \in Bytes
  <2>1. Take(b, d) \in Int /\ Take(b, d) <= Len(d)
    BY <1>1, TakeBounds DEF Bytes
  <2>2. SubSeq(d, 1, Take(b, d)) \in Bytes
    BY <2>1, PartOf DEF Bytes
  <2>3. b \o SubSeq(d, 1, Take(b, d)) \in Bytes
    BY <1>1, <2>2, Joined DEF Bytes
  <2> QED
    BY <2>3, Counted
<1>3. \/ backup' = Stored(d) /\ UNCHANGED hci
      \/ UNCHANGED <<backup, hci>>
      \/ /\ backup' = NoBackup
         /\ hci' = [hci EXCEPT !.slots[hci.wptr % HCI_RX_FIFO_NUM] = kept,
                               !.wptr = (@ + 1) % PtrVals]
      \/ backup' = [backup EXCEPT !.bytes = kept, !.timer = TRUE] /\ UNCHANGED hci
  BY DEF BackUpHandler
<1> HIDE DEF kept
<1>4. CASE backup' = Stored(d) /\ UNCHANGED hci
  <2>1. Counted8(d) \in Bytes
    BY Counted
  <2> QED
    BY <1>4, <2>1 DEF Stored, Backups
<1>5. CASE UNCHANGED <<backup, hci>>
  BY <1>5
<1>6. CASE /\ backup' = NoBackup
           /\ hci' = [hci EXCEPT !.slots[hci.wptr % HCI_RX_FIFO_NUM] = kept,
                                 !.wptr = (@ + 1) % PtrVals]
  <2>1. hci' \in Fifos
    BY <1>2, <1>6, SlotTyped
  <2>2. <<>> \in Bytes
    BY DEF Bytes
  <2> QED
    BY <1>6, <2>1, <2>2 DEF NoBackup, Backups
<1>7. CASE backup' = [backup EXCEPT !.bytes = kept, !.timer = TRUE] /\ UNCHANGED hci
  BY <1>1, <1>2, <1>7 DEF Backups
<1> QED
  BY <1>3, <1>4, <1>5, <1>6, <1>7

LEMMA GoOnTyped ==
  ASSUME NEW n \in Nat, NEW l \in Nat, NEW r \in BOOLEAN, dma \in Dmas, handler \in Handlers,
         GoOn(n, l, r)
  PROVE  dma' \in Dmas /\ handler' \in Handlers /\ (handler'.len = 0 => handler' = NoBuffer)
<1>1. dma.rptr \in Pointers /\ dma.wptr \in Pointers /\ dma.bufs \in [BufSlots -> Buffers]
  BY DEF Dmas
<1>2. (dma.rptr + 1) % PtrVals \in Pointers
  BY <1>1, SlotsAre
<1>3. EmptyBuf \in Buffers
  <2>1. <<>> \in Bytes
    BY DEF Bytes
  <2> QED
    BY <2>1 DEF EmptyBuf, Buffers
<1>4. dma' \in Dmas
  BY <1>1, <1>2, <1>3 DEF GoOn, Dmas
<1>5. handler.pos \in Nat
  BY DEF Handlers
<1>6. handler' = IF l = 0 THEN NoBuffer ELSE [pos |-> handler.pos + n, len |-> l, resumed |-> r]
  BY DEF GoOn, NoBuffer
<1>7. handler' \in Handlers
  BY <1>5, <1>6 DEF Handlers, NoBuffer
<1>8. handler'.len = 0 => handler' = NoBuffer
  BY <1>6
<1> QED
  BY <1>4, <1>7, <1>8

(* What the handler has not read of its buffer *)
LEMMA RestIs ==
  ASSUME H4Types
  PROVE  /\ BufferAt \in Buffers /\ Rest \in Bytes /\ Len(Rest) <= handler.len
         /\ handler.pos + handler.len <= Len(BufferAt.bytes) =>
              /\ Len(Rest) = handler.len
              /\ \A j \in 1 .. handler.len : Rest[j] = BufferAt.bytes[handler.pos + j]
<1>1. handler.pos \in Nat /\ handler.len \in Nat
  BY DEF H4Types, Handlers
<1>2. BufferAt \in Buffers
  <2>1. dma.rptr \in Pointers /\ dma.bufs \in [BufSlots -> Buffers]
    BY DEF H4Types, Dmas
  <2>2. dma.rptr % HCI_H4_TR_RX_BUF_NUM \in BufSlots
    BY <2>1, SlotsAre
  <2> QED
    BY <2>1, <2>2 DEF BufferAt
<1>3. PICK s \in Bytes : s = BufferAt.bytes
  BY <1>2 DEF Buffers
<1>4. PICK p \in Nat, l \in Nat, n \in Nat : p = handler.pos /\ l = handler.len /\ n = Len(s)
  BY <1>1 DEF Bytes
<1>5. PICK k \in Int : k = IF p + l < n THEN p + l ELSE n
  OBVIOUS
<1>6. PICK m \in Nat \ {0} : m = p + 1
  OBVIOUS
<1>7. Rest = SubSeq(s, m, k)
  BY <1>3, <1>4, <1>5, <1>6 DEF Rest, Least
<1>8. s \in Seq(Nat) /\ k <= Len(s) /\ k <= p + l
  BY <1>4, <1>5 DEF Bytes
<1>9. /\ SubSeq(s, m, k) \in Seq(Nat) /\ Len(SubSeq(s, m, k)) = IF m <= k THEN k - m + 1 ELSE 0
      /\ \A i \in 1 .. k - m + 1 : SubSeq(s, m, k)[i] = s[m + i - 1]
  BY <1>8, PartOf
<1>10. Len(SubSeq(s, m, k)) <= l
  BY <1>6, <1>8, <1>9
<1>11. ASSUME p + l <= n
       PROVE  Len(Rest) = l /\ \A j \in 1 .. l : Rest[j] = s[p + j]
  <2>1. k = p + l /\ k - m + 1 = l
    BY <1>5, <1>6, <1>11
  <2>2. l = 0 => ~(m <= k)
    BY <1>6, <2>1
  <2>3. l # 0 => m <= k
    BY <1>6, <2>1
  <2>4. Len(Rest) = l
    BY <1>7, <1>9, <2>1, <2>2, <2>3
  <2>5. ASSUME NEW j \in 1 .. l PROVE Rest[j] = s[p + j]
    <3>1. j \in 1 .. k - m + 1 /\ m + j - 1 = p + j
      BY <1>6, <2>1
    <3> QED
      BY <1>7, <1>9, <3>1
  <2> QED
    BY <2>4, <2>5
<1>12. Rest \in Bytes /\ Len(Rest) <= handler.len
  BY <1>4, <1>7, <1>9, <1>10 DEF Bytes
<1> QED
  BY <1>2, <1>3, <1>4, <1>11, <1>12

(* The types hold. *)
LEMMA H4TypesInit == H4Init => H4Types
<1> SUFFICES ASSUME H4Init PROVE H4Types
  OBVIOUS
<1>1. <<>> \in Bytes /\ <<>> \in Seq(Bytes) /\ <<>> \in Seq(Packets) /\ Len(<<>>) = 0
  BY DEF Bytes
<1>2. EmptyBuf \in Buffers
  BY <1>1 DEF EmptyBuf, Buffers
<1>3. 0 \in Pointers
  BY H4ConstantsAre DEF Pointers
<1>4. dma \in Dmas
  BY <1>2, <1>3 DEF H4Init, Dmas, BufSlots
<1>5. hci \in Fifos
  BY <1>1, <1>3 DEF H4Init, Fifos, HciSlots
<1>6. handler \in Handlers /\ handler = NoBuffer
  BY DEF H4Init, Handlers, NoBuffer
<1>7. backup \in Backups /\ backup = NoBackup
  BY <1>1 DEF H4Init, Backups, NoBackup
<1>8. line \in Bytes /\ line = <<>>
  BY <1>1 DEF H4Init
<1>9. sent \in Seq(Packets) /\ delivered \in Seq(Bytes) /\ Len(sent) - Len(delivered) <= HostCredits
  BY <1>1, H4ConstantsAre DEF H4Init
<1>10. h4host \in [up : BOOLEAN, sessions : Int] /\ damaged \in BOOLEAN
  <2>1. h4host = [up |-> TRUE, sessions |-> 1] /\ damaged = FALSE
    BY DEF H4Init
  <2>2. h4host \in [up : BOOLEAN, sessions : Int]
    BY <2>1
  <2>3. damaged \in BOOLEAN
    BY <2>1
  <2> QED
    BY <2>2, <2>3
<1> QED
  BY <1>4, <1>5, <1>6, <1>7, <1>8, <1>9, <1>10 DEF H4Types

(* The packets of the host are well-formed, and counts hold the longest. *)
CountsPackets == \A shape \in Shapes : (IF shape[1] = ACL THEN 5 ELSE 4) + shape[2] < CntVals
LEMMA PacketIs ==
  ASSUME CountsPackets, NEW shape \in Shapes, NEW n \in Nat
  PROVE  Packet(n, shape) \in Packets
<1>1. shape[1] \in {1, 2} /\ shape[2] \in Nat /\ Payload \in Nat
  BY H4ConstantsAre
<1>2. PICK l \in Nat : l = shape[2]
  BY <1>1
<1> DEFINE body == [i \in 1 .. l |-> Payload]
<1>3. body \in Bytes /\ Len(body) = l
  BY <1>1 DEF Bytes
<1> HIDE DEF body
<1>4. CASE shape[1] = 1
  <2>1. Packet(n, shape) = (<<1, n, 0, l>> \o <<>>) \o body
    BY <1>2, <1>4 DEF Packet, ACL, body
  <2>2. <<1, n, 0, l>> \in Bytes /\ Len(<<1, n, 0, l>>) = 4
    BY DEF Bytes
  <2>3. <<1, n, 0, l>> \o <<>> = <<1, n, 0, l>>
    BY <2>2, ConcatEmptySeq DEF Bytes
  <2>4. PICK p \in Bytes : p = Packet(n, shape) /\ p = <<1, n, 0, l>> \o body
    <3>1. <<1, n, 0, l>> \o body \in Bytes
      BY <1>3, <2>2, Joined DEF Bytes
    <3> QED
      BY <2>1, <2>3, <3>1
  <2>5. Len(p) = 4 + l
    BY <1>3, <2>2, <2>4, Joined DEF Bytes
  <2>6. \A i \in 1 .. 4 : p[i] = <<1, n, 0, l>>[i]
    BY <1>3, <2>2, <2>4, Joined DEF Bytes
  <2>7. p[1] = 1 /\ p[4] = l
    BY <2>6
  <2>8. HasHead(p)
    BY <2>5, <2>7, HeadOf DEF CMD, ACL
  <2>9. PacketLen(p) = 4 + l
    BY <2>7, <2>8, HeadOf DEF CMD, ACL
  <2>10. 4 + l < CntVals
    BY <1>2, <1>4 DEF CountsPackets, ACL
  <2> QED
    BY <2>4, <2>5, <2>7, <2>8, <2>9, <2>10 DEF Packets, GoodPacket, CMD, ACL
<1>5. CASE shape[1] = 2
  <2>1. Packet(n, shape) = (<<2, n, 0, l>> \o <<0>>) \o body
    BY <1>2, <1>5 DEF Packet, ACL, body
  <2>2. <<2, n, 0, l>> \in Bytes /\ Len(<<2, n, 0, l>>) = 4 /\ <<0>> \in Bytes /\ Len(<<0>>) = 1
    BY DEF Bytes
  <2>3. PICK h \in Bytes : h = <<2, n, 0, l>> \o <<0>>
    BY <2>2, Joined DEF Bytes
  <2>4. Len(h) = 5
    BY <2>2, <2>3, Joined DEF Bytes
  <2>5. h[1] = 2 /\ h[4] = l /\ h[5] = 0
    <3>1. \A i \in 1 .. 4 : h[i] = <<2, n, 0, l>>[i]
      BY <2>2, <2>3, Joined DEF Bytes
    <3>2. \A i \in 1 .. 1 : h[4 + i] = <<0>>[i]
      BY <2>2, <2>3, Joined DEF Bytes
    <3>3. h[4 + 1] = 0
      BY <3>2
    <3> QED
      BY <3>1, <3>3
  <2>6. PICK p \in Bytes : p = Packet(n, shape) /\ p = h \o body
    BY <1>3, <2>1, <2>3, Joined DEF Bytes
  <2>p. h \in Seq(Nat) /\ body \in Seq(Nat)
    BY <1>3 DEF Bytes
  <2>j. Len(h \o body) = Len(h) + Len(body) /\ \A i \in 1 .. Len(h) : (h \o body)[i] = h[i]
    BY <2>p, Joined
  <2>7. Len(p) = 5 + l
    BY <1>3, <2>4, <2>6, <2>j
  <2>8. \A i \in 1 .. 5 : p[i] = h[i]
    BY <2>4, <2>6, <2>j
  <2>9. p[1] = 2 /\ p[4] = l /\ p[5] = 0
    BY <2>5, <2>8
  <2>10. HasHead(p)
    BY <2>7, <2>9, HeadOf DEF CMD, ACL
  <2>11. PacketLen(p) = 5 + (l + CntVals * 0)
    BY <2>9, <2>10, HeadOf DEF CMD, ACL
  <2>12. PacketLen(p) = 5 + l
    BY <2>11, H4ConstantsAre
  <2>13. 5 + l < CntVals
    BY <1>2, <1>5 DEF CountsPackets, ACL
  <2> QED
    BY <2>6, <2>7, <2>9, <2>10, <2>12, <2>13 DEF Packets, GoodPacket, CMD, ACL
<1> QED
  BY <1>1, <1>4, <1>5

-----------------------------------------------------------------------------
(* Every step keeps the types. *)
LEMMA HostTypes ==
  ASSUME CountsPackets, H4Types, HostSend \/ HostStops \/ HostStarts
  PROVE  H4Types'
<1>1. CASE HostSend
  <2>1. PICK shape \in Shapes : /\ sent' = Append(sent, Packet(Len(sent) + 3, shape))
                                /\ line' = line \o Packet(Len(sent) + 3, shape)
    BY <1>1 DEF HostSend
  <2>2. sent \in Seq(Packets) /\ line \in Bytes /\ delivered \in Seq(Bytes)
    BY DEF H4Types
  <2>3. PICK n \in Nat : n = Len(sent) + 3
    BY <2>2
  <2>4. PICK p \in Packets : p = Packet(n, shape)
    BY PacketIs
  <2>5. p \in Bytes
    BY DEF Packets
  <2>6. sent' \in Seq(Packets) /\ Len(sent') = Len(sent) + 1
    BY <2>1, <2>2, <2>3, <2>4, AppendProperties
  <2>7. line' \in Bytes
    BY <2>1, <2>2, <2>3, <2>4, <2>5, Joined DEF Bytes
  <2>8. Len(sent') - Len(delivered') <= HostCredits
    <3>1. PICK a \in Nat, b \in Nat : a = Len(sent) /\ b = Len(delivered)
      BY <2>2
    <3>2. a - b < HostCredits
      BY <1>1, <3>1 DEF HostSend
    <3>3. (a + 1) - b <= HostCredits
      BY <3>2, H4ConstantsAre
    <3> QED
      BY <1>1, <2>6, <3>1, <3>3 DEF HostSend
  <2>9. UNCHANGED <<dma, handler, backup, hci, delivered, h4host, damaged>> /\ h4host.up
    BY <1>1 DEF HostSend
  <2> QED
    BY <2>6, <2>7, <2>8, <2>9 DEF H4Types
<1>2. CASE HostStops
  <2>1. line' = <<>> /\ <<>> \in Bytes
    BY <1>2 DEF HostStops, Bytes
  <2>2. h4host' \in [up : BOOLEAN, sessions : Int]
    BY <1>2 DEF HostStops, H4Types
  <2>3. UNCHANGED <<dma, handler, backup, hci, sent, delivered, damaged>>
    BY <1>2 DEF HostStops
  <2> QED
    BY <2>1, <2>2, <2>3 DEF H4Types
<1>3. CASE HostStarts
  <2>1. sent' = <<>> /\ delivered' = <<>> /\ <<>> \in Seq(Packets) /\ <<>> \in Seq(Bytes) /\ Len(<<>>) = 0
    BY <1>3 DEF HostStarts
  <2>2. Len(sent') - Len(delivered') <= HostCredits
    BY <2>1, H4ConstantsAre
  <2>3. h4host' \in [up : BOOLEAN, sessions : Int] /\ h4host'.up /\ damaged' \in BOOLEAN
    <3>1. h4host' = [up |-> TRUE, sessions |-> h4host.sessions + 1] /\ damaged' = FALSE
      BY <1>3 DEF HostStarts
    <3>2. h4host.sessions + 1 \in Int
      BY DEF H4Types
    <3>3. h4host'.up /\ h4host' \in [up : BOOLEAN, sessions : Int]
      BY <3>1, <3>2
    <3> QED
      BY <3>1, <3>3
  <2>4. UNCHANGED <<line, dma, handler, backup, hci>>
    BY <1>3 DEF HostStarts
  <2> QED
    BY <2>1, <2>2, <2>3, <2>4 DEF H4Types
<1> QED
  BY <1>1, <1>2, <1>3

(* A transfer: the bytes that are left of the line, and the buffer *)
LEMMA TransferIs ==
  ASSUME H4Types, NEW k \in 1 .. Least(Len(line), H4BufSize), NEW l \in Nat, NEW w \in Pointers,
         Transfer(k, l, w)
  PROVE  /\ h4host.up /\ k <= Len(line) /\ k \in Nat
         /\ line' \in Bytes /\ dma' \in Dmas
         /\ Len(line') = Len(line) - k /\ \A j \in 1 .. Len(line) - k : line'[j] = line[k + j]
         /\ Landed(k) \in Bytes /\ Len(Landed(k)) >= k
         /\ \A j \in 1 .. k : Landed(k)[j] = line[j]
<1>1. PICK n \in Nat : n = Len(line)
  BY DEF H4Types, Bytes
<1>2. k <= n /\ k \in Nat /\ n >= 1
  BY <1>1, H4ConstantsAre DEF Least
<1>3. h4host.up
  BY <1>1, <1>2 DEF H4Types
<1>4. PICK old \in Bytes : old = dma.bufs[Armed].bytes
  <2>1. dma.wptr \in Pointers /\ dma.bufs \in [BufSlots -> Buffers]
    BY DEF H4Types, Dmas
  <2>2. Armed \in BufSlots
    BY <2>1, SlotsAre DEF Armed
  <2> QED
    BY <2>1, <2>2 DEF Buffers
<1>5. line \in Seq(Nat)
  BY DEF H4Types, Bytes
<1>6. /\ SubSeq(line, 1, k) \in Seq(Nat) /\ Len(SubSeq(line, 1, k)) = k
      /\ \A j \in 1 .. k : SubSeq(line, 1, k)[j] = line[j]
  <2>1. /\ SubSeq(line, 1, k) \in Seq(Nat) /\ Len(SubSeq(line, 1, k)) = IF 1 <= k THEN k - 1 + 1 ELSE 0
        /\ \A i \in 1 .. k - 1 + 1 : SubSeq(line, 1, k)[i] = line[1 + i - 1]
    BY <1>1, <1>2, <1>5, PartOf
  <2>2. k - 1 + 1 = k /\ \A i \in 1 .. k : 1 + i - 1 = i
    BY <1>2
  <2> QED
    BY <2>1, <2>2
<1>7. /\ SubSeq(line, k + 1, n) \in Seq(Nat) /\ Len(SubSeq(line, k + 1, n)) = n - k
      /\ \A j \in 1 .. n - k : SubSeq(line, k + 1, n)[j] = line[k + j]
  <2>1. PICK m \in Nat \ {0} : m = k + 1
    BY <1>2
  <2>2. /\ SubSeq(line, m, n) \in Seq(Nat) /\ Len(SubSeq(line, m, n)) = IF m <= n THEN n - m + 1 ELSE 0
        /\ \A i \in 1 .. n - m + 1 : SubSeq(line, m, n)[i] = line[m + i - 1]
    BY <1>1, <1>5, PartOf
  <2>3. n - m + 1 = n - k /\ \A i \in 1 .. n - k : m + i - 1 = k + i
    BY <1>2, <2>1
  <2>4. (IF m <= n THEN n - m + 1 ELSE 0) = n - k
    BY <1>2, <2>1
  <2> QED
    BY <2>1, <2>2, <2>3, <2>4
<1>8. /\ line' \in Bytes /\ Len(line') = Len(line) - k
      /\ \A j \in 1 .. Len(line) - k : line'[j] = line[k + j]
  BY <1>1, <1>7 DEF Transfer, Bytes
<1>9. PICK m \in Nat \ {0}, o \in Nat : m = k + 1 /\ o = Len(old)
  BY <1>2 DEF Bytes
<1>10. SubSeq(old, m, o) \in Seq(Nat)
  BY <1>9, PartOf DEF Bytes
<1>11. Landed(k) = SubSeq(line, 1, k) \o SubSeq(old, m, o)
  BY <1>4, <1>9 DEF Landed
<1>12. /\ Landed(k) \in Bytes /\ \A j \in 1 .. k : Landed(k)[j] = line[j]
       /\ Len(Landed(k)) = k + Len(SubSeq(old, m, o))
  BY <1>6, <1>10, <1>11, Joined DEF Bytes
<1>13. Len(Landed(k)) >= k
  <2>1. Len(SubSeq(old, m, o)) \in Nat
    BY <1>10
  <2> QED
    BY <1>2, <1>12, <2>1
<1>14. dma' \in Dmas
  <2>1. [len |-> l, bytes |-> Landed(k)] \in Buffers
    BY <1>12 DEF Buffers
  <2> QED
    BY <2>1 DEF Transfer, H4Types, Dmas
<1> QED
  BY <1>1, <1>2, <1>3, <1>8, <1>12, <1>13, <1>14

LEMMA UartTypes ==
  ASSUME H4Types, UartIRQHandler \/ UartRxErr
  PROVE  H4Types'
<1>1. dma.wptr \in Pointers /\ (dma.wptr + 1) % PtrVals \in Pointers
  BY SlotsAre DEF H4Types, Dmas
<1>2. dma.bufs[Armed].len \in Nat
  <2>1. dma.bufs \in [BufSlots -> Buffers] /\ Armed \in BufSlots
    BY <1>1, SlotsAre DEF H4Types, Dmas, Armed
  <2> QED
    BY <2>1 DEF Buffers
<1>3. PICK k \in 1 .. Least(Len(line), H4BufSize) : \E l \in Nat, w \in Pointers : Transfer(k, l, w)
  <2>1. PICK k \in 1 .. Least(Len(line), H4BufSize) :
          \/ Transfer(k, dma.bufs[Armed].len, dma.wptr)
          \/ Transfer(k, k, (dma.wptr + 1) % PtrVals)
    BY DEF UartIRQHandler, UartRxErr
  <2>2. k \in Nat
    OBVIOUS
  <2> QED
    BY <1>1, <1>2, <2>1, <2>2
<1>4. PICK l \in Nat, w \in Pointers : Transfer(k, l, w)
  BY <1>3
<1>5. h4host.up /\ line' \in Bytes /\ dma' \in Dmas
  BY <1>4, TransferIs
<1>6. UNCHANGED <<handler, backup, hci, sent, delivered, h4host>> /\ damaged' \in BOOLEAN
  BY DEF UartIRQHandler, UartRxErr, H4Types
<1> QED
  BY <1>5, <1>6 DEF H4Types

LEMMA HandlerTypes ==
  ASSUME H4Types, RxHandlerStart \/ RxHandlerResume \/ RxHandlerPacket
  PROVE  H4Types'
<1>0. /\ dma \in Dmas /\ handler \in Handlers /\ backup \in Backups /\ hci \in Fifos
      /\ (~backup.timer => backup = NoBackup)
  BY DEF H4Types
<1>1. BufferAt \in Buffers /\ Rest \in Bytes /\ Len(Rest) <= handler.len
  BY RestIs
<1>2. PICK r \in Nat, l \in Nat : r = Len(Rest) /\ l = handler.len /\ r <= l
  BY <1>0, <1>1 DEF Bytes, Handlers
<1>3. UNCHANGED <<line, sent, delivered, h4host, damaged>>
  BY DEF RxHandlerStart, RxHandlerResume, RxHandlerPacket, ParsePacket, SkipPacket, GoOn
<1>4. CASE RxHandlerStart
  <2>1. handler' = [pos |-> 0, len |-> BufferAt.len, resumed |-> FALSE] /\ UNCHANGED <<dma, backup, hci>>
    BY <1>4 DEF RxHandlerStart
  <2>2. BufferAt.len \in Nat
    BY <1>1 DEF Buffers
  <2>3. handler' \in Handlers /\ (handler'.len = 0 => handler' = NoBuffer)
    BY <2>1, <2>2 DEF Handlers, NoBuffer
  <2> QED
    BY <1>3, <2>1, <2>3 DEF H4Types
<1>5. CASE RxHandlerResume
  <2>1. backup.bytes \in Bytes
    BY <1>0 DEF Backups
  <2>2. PICK t \in Nat : t = Take(backup.bytes, Rest) /\ t <= r
    BY <1>1, <1>2, <2>1, TakeBounds
  <2>3. PICK n \in Nat : n = t % CntVals /\ n <= t
    <3>1. PICK n \in Int : n = t % CntVals
      BY H4ConstantsAre
    <3>2. n \in 0 .. CntVals - 1
      BY <3>1, H4ConstantsAre, RemainderOff
    <3>3. t < CntVals => n = t
      BY <3>1, H4ConstantsAre, SmallRemainder
    <3> QED
      BY <3>1, <3>2, <3>3, H4ConstantsAre
  <2>4. PICK rest \in Nat : rest = l - n
    BY <1>2, <2>2, <2>3
  <2>5. GoOn(n, rest, TRUE) /\ BackUpHandler(Rest)
    BY <1>2, <1>5, <2>2, <2>3, <2>4 DEF RxHandlerResume
  <2>6. dma' \in Dmas /\ handler' \in Handlers /\ (handler'.len = 0 => handler' = NoBuffer)
    BY <1>0, <2>5, GoOnTyped
  <2>7. backup' \in Backups /\ (~backup'.timer => backup' = NoBackup) /\ hci' \in Fifos
    BY <1>0, <1>1, <2>5, BackUpTyped
  <2> QED
    BY <1>3, <2>6, <2>7 DEF H4Types
<1>6. CASE RxHandlerPacket
  <2>1. CASE SkipPacket
    <3>1. GoOn(0, 0, FALSE) /\ UNCHANGED <<backup, hci>>
      BY <2>1 DEF SkipPacket
    <3>2. dma' \in Dmas /\ handler' \in Handlers /\ (handler'.len = 0 => handler' = NoBuffer)
      BY <1>0, <3>1, GoOnTyped
    <3> QED
      BY <1>3, <3>1, <3>2 DEF H4Types
  <2>2. CASE Rest[1] \in {CMD, ACL} /\ ParsePacket /\ WholePacket(Rest)
    <3>1. PICK p \in Nat : p = PacketLen(Rest) /\ p <= r
      BY <1>1, <1>2, <2>2, HeadOf DEF WholePacket
    <3>2. PICK rest \in Nat : rest = l - p
      BY <1>2, <3>1
    <3>3. /\ GoOn(p, rest, FALSE) /\ UNCHANGED backup
          /\ hci' = [hci EXCEPT !.slots[hci.wptr % HCI_RX_FIFO_NUM] = SubSeq(Rest, 1, p),
                                !.wptr = (@ + 1) % PtrVals]
      BY <1>2, <2>2, <3>1, <3>2 DEF ParsePacket
    <3>4. SubSeq(Rest, 1, p) \in Bytes
      BY <1>1, <1>2, <3>1, PartOf DEF Bytes
    <3>5. hci' \in Fifos
      BY <1>0, <3>3, <3>4, SlotTyped
    <3>6. dma' \in Dmas /\ handler' \in Handlers /\ (handler'.len = 0 => handler' = NoBuffer)
      BY <1>0, <3>3, GoOnTyped
    <3> QED
      BY <1>3, <3>3, <3>5, <3>6 DEF H4Types
  <2>3. CASE ParsePacket /\ ~WholePacket(Rest)
    <3>1. BackUpHandler(Rest) /\ GoOn(r, 0, FALSE)
      BY <1>2, <2>3 DEF ParsePacket
    <3>2. dma' \in Dmas /\ handler' \in Handlers /\ (handler'.len = 0 => handler' = NoBuffer)
      BY <1>0, <3>1, GoOnTyped
    <3>3. backup' \in Backups /\ (~backup'.timer => backup' = NoBackup) /\ hci' \in Fifos
      BY <1>0, <1>1, <3>1, BackUpTyped
    <3> QED
      BY <1>3, <3>2, <3>3 DEF H4Types
  <2> QED
    BY <1>6, <2>1, <2>2, <2>3 DEF RxHandlerPacket
<1> QED
  BY <1>4, <1>5, <1>6

LEMMA CbackTypes ==
  ASSUME H4Types, RxHandlerCback \/ TimerIRQHandler \/ UNCHANGED h4vars
  PROVE  H4Types'
<1>1. CASE RxHandlerCback
  <2>1. hci.rptr \in Pointers /\ hci.wptr \in Pointers /\ hci.slots \in [HciSlots -> Bytes]
    BY DEF H4Types, Fifos
  <2>2. hci.rptr % HCI_RX_FIFO_NUM \in HciSlots /\ (hci.rptr + 1) % PtrVals \in Pointers
    BY <2>1, SlotsAre
  <2>3. <<>> \in Bytes
    BY DEF Bytes
  <2>4. hci' \in Fifos
    BY <1>1, <2>1, <2>2, <2>3 DEF RxHandlerCback, Fifos, H4Types
  <2>5. delivered' \in Seq(Bytes) /\ Len(delivered') = Len(delivered) + 1
    <3>1. hci.slots[hci.rptr % HCI_RX_FIFO_NUM] \in Bytes /\ delivered \in Seq(Bytes)
      BY <2>1, <2>2 DEF H4Types
    <3> QED
      BY <1>1, <3>1, AppendProperties DEF RxHandlerCback
  <2>6. Len(sent) - Len(delivered') <= HostCredits
    <3>1. PICK a \in Nat, b \in Nat : a = Len(sent) /\ b = Len(delivered) /\ a - b <= HostCredits
      BY DEF H4Types
    <3>2. a - (b + 1) <= HostCredits
      BY <3>1, H4ConstantsAre
    <3> QED
      BY <2>5, <3>1, <3>2
  <2>7. UNCHANGED <<line, dma, handler, backup, sent, h4host, damaged>>
    BY <1>1 DEF RxHandlerCback
  <2> QED
    BY <2>4, <2>5, <2>6, <2>7 DEF H4Types
<1>2. CASE TimerIRQHandler
  <2>1. backup' = NoBackup
    BY <1>2 DEF TimerIRQHandler, TimerReset, NoBackup
  <2>2. backup' \in Backups
    <3>1. <<>> \in Bytes
      BY DEF Bytes
    <3> QED
      BY <2>1, <3>1 DEF NoBackup, Backups
  <2>3. UNCHANGED <<line, dma, handler, hci, sent, delivered, h4host, damaged>>
    BY <1>2 DEF TimerIRQHandler
  <2> QED
    BY <2>1, <2>2, <2>3 DEF H4Types
<1>3. CASE UNCHANGED h4vars
  BY <1>3 DEF h4vars, H4Types
<1> QED
  BY <1>1, <1>2, <1>3

LEMMA H4TypesStep == CountsPackets /\ H4Types /\ [H4Next]_h4vars => H4Types'
BY HostTypes, UartTypes, HandlerTypes, CbackTypes DEF H4Next

-----------------------------------------------------------------------------
(* The FIFO of the HCI layer holds the packets that follow the delivered ones. *)
FifoHolds(q, del, sq) ==
  /\ Len(del) + Between(q.wptr, q.rptr, PtrVals) <= Len(sq)
  /\ \A i \in 1 .. Len(del) : del[i] = sq[i]
  /\ \A i \in 0 .. Between(q.wptr, q.rptr, PtrVals) - 1 :
       q.slots[(q.rptr + i) % HCI_RX_FIFO_NUM] = sq[Len(del) + (i + 1)]

(* The bytes of a session: packet i + 1 lies behind start[i]. *)
Stream(sq, st, start) ==
  /\ st \in [Nat -> Nat] /\ start \in [Nat -> Nat]
  /\ \A i \in 0 .. Len(sq) - 1 :
       /\ start[i + 1] = start[i] + Len(sq[i + 1])
       /\ \A j \in 1 .. Len(sq[i + 1]) : st[start[i] + j] = sq[i + 1][j]
  /\ \A i \in 0 .. Len(sq) : start[i] <= start[Len(sq)]

(* The unread buffers, from byte `at' on; the first one has been read up to pos. *)
Holds(buf, from, st, at, next) ==
  /\ from < buf.len /\ buf.len <= Len(buf.bytes)
  /\ next = at + (buf.len - from)
  /\ \A j \in 1 .. buf.len - from : buf.bytes[from + j] = st[at + j]
ReadUpTo(k, pos) == IF k = 0 THEN pos ELSE 0
BufsHold(n, r, bufs, pos, st, off) ==
  \A k \in 0 .. n - 1 :
    Holds(bufs[(r + k) % HCI_H4_TR_RX_BUF_NUM], ReadUpTo(k, pos), st, off[k], off[k + 1])
Within(off, n, end) == off \in [Nat -> Nat] /\ \A k \in 0 .. n : off[k] <= end

(* What the backup keeps is the beginning of the packet that is next. *)
BackupHolds(b, m, sq, st, start, at) ==
  /\ (b.is <=> b.bytes # <<>>) /\ (b.timer <=> b.bytes # <<>>)
  /\ b.bytes # <<>> => m < Len(sq) /\ Len(b.bytes) < Len(sq[m + 1])
  /\ at = start[m] + Len(b.bytes)
  /\ \A j \in 1 .. Len(b.bytes) : b.bytes[j] = st[start[m] + j]

HandlerReads(h, b, n, buf) ==
  /\ h.resumed => ~b.is
  /\ h.len > 0 => n >= 1 /\ h.pos + h.len = buf.len

LineHolds(l, st, at, end, up) ==
  /\ at + Len(l) <= end /\ (up => at + Len(l) = end)
  /\ \A j \in 1 .. Len(l) : l[j] = st[at + j]

Unread == Between(dma.wptr, dma.rptr, PtrVals)
Given == Len(delivered) + Between(hci.wptr, hci.rptr, PtrVals)

(* Behind the packets given to the HCI layer come the bytes of the backup, of
   the unread buffers and of the line, in this order and without a gap.    *)
InStream(st, start, off) ==
  /\ Unread <= HCI_H4_TR_RX_BUF_NUM
  /\ Stream(sent, st, start)
  /\ Within(off, Unread, start[Len(sent)])
  /\ BackupHolds(backup, Given, sent, st, start, off[0])
  /\ HandlerReads(handler, backup, Unread, BufferAt)
  /\ BufsHold(Unread, dma.rptr, dma.bufs, handler.pos, st, off)
  /\ LineHolds(line, st, off[Unread], start[Len(sent)], h4host.up)
NoGap == \E st, start, off : InStream(st, start, off)

(* The host is up, or what it sent before it stopped is still being handled. *)
Live == ~damaged /\ (h4host.up \/ ~Quiet)

H4Inv ==
  /\ H4Types
  /\ ~damaged => FifoHolds(hci, delivered, sent)
  /\ Live => NoGap

LEMMA CountsAre ==
  ASSUME H4Types
  PROVE  /\ Unread \in 0 .. PtrVals - 1 /\ (Unread = 0 <=> dma.wptr = dma.rptr)
         /\ Between(hci.wptr, hci.rptr, PtrVals) \in 0 .. PtrVals - 1
         /\ (Between(hci.wptr, hci.rptr, PtrVals) = 0 <=> hci.wptr = hci.rptr)
         /\ Len(delivered) \in Nat /\ Len(sent) \in Nat /\ Given \in Nat
<1>1. /\ dma.wptr \in 0 .. PtrVals - 1 /\ dma.rptr \in 0 .. PtrVals - 1
      /\ hci.wptr \in 0 .. PtrVals - 1 /\ hci.rptr \in 0 .. PtrVals - 1
  BY DEF H4Types, Dmas, Fifos, Pointers
<1>a. PICK p \in Nat \ {0} : p = PtrVals
  BY H4ConstantsAre
<1>b. ASSUME NEW w \in 0 .. p - 1, NEW r \in 0 .. p - 1
      PROVE  /\ Between(w, r, p) \in 0 .. p - 1
             /\ (Between(w, r, p) = 0 => w = r) /\ (w = r => Between(w, r, p) = 0)
  <2>1. Between(w, r, p) \in 0 .. p - 1
    BY PointersApart
  <2>2. Between(w, r, p) = 0 <=> w = r
    BY PointersApart
  <2> QED
    BY <2>1, <2>2
<1>2. /\ Unread \in 0 .. PtrVals - 1 /\ (Unread = 0 <=> dma.wptr = dma.rptr)
      /\ Between(hci.wptr, hci.rptr, PtrVals) \in 0 .. PtrVals - 1
      /\ (Between(hci.wptr, hci.rptr, PtrVals) = 0 <=> hci.wptr = hci.rptr)
  <2>1. Unread \in 0 .. PtrVals - 1
    BY <1>1, <1>a, <1>b DEF Unread
  <2>2. (Unread = 0 => dma.wptr = dma.rptr) /\ (dma.wptr = dma.rptr => Unread = 0)
    BY <1>1, <1>a, <1>b DEF Unread
  <2>3. Between(hci.wptr, hci.rptr, PtrVals) \in 0 .. PtrVals - 1
    BY <1>1, <1>a, <1>b
  <2>4. /\ Between(hci.wptr, hci.rptr, PtrVals) = 0 => hci.wptr = hci.rptr
        /\ hci.wptr = hci.rptr => Between(hci.wptr, hci.rptr, PtrVals) = 0
    BY <1>1, <1>a, <1>b
  <2> QED
    BY <2>1, <2>2, <2>3, <2>4
<1>3. Len(delivered) \in Nat /\ Len(sent) \in Nat
  BY DEF H4Types
<1> QED
  BY <1>2, <1>3 DEF Given

(* A packet more *)
Grown(sq, p, st, start, st2, start2) ==
  /\ Stream(Append(sq, p), st2, start2)
  /\ \A i \in 0 .. Len(sq) : start2[i] = start[i]
  /\ start2[Len(sq) + 1] = start[Len(sq)] + Len(p)
  /\ \A i \in 0 .. start[Len(sq)] : st2[i] = st[i]
  /\ \A j \in 1 .. Len(p) : st2[start[Len(sq)] + j] = p[j]

LEMMA StreamGrows ==
  ASSUME NEW sq \in Seq(Packets), NEW p \in Packets, NEW st, NEW start, Stream(sq, st, start)
  PROVE  \E st2, start2 : Grown(sq, p, st, start, st2, start2)
<1>1. PICK n \in Nat, l \in Nat : n = Len(sq) /\ l = Len(p)
  BY DEF Packets, Bytes
<1>2. st \in [Nat -> Nat] /\ start \in [Nat -> Nat]
  BY DEF Stream
<1>3. PICK end \in Nat : end = start[n]
  BY <1>2
<1> DEFINE st2 == [i \in Nat |-> IF i <= end THEN st[i] ELSE IF i <= end + l THEN p[i - end] ELSE 0]
           start2 == [i \in Nat |-> IF i <= n THEN start[i] ELSE end + l]
           sq2 == Append(sq, p)
<1>4. p \in Bytes /\ \A j \in 1 .. l : p[j] \in Nat
  BY <1>1, ElementOfSeq DEF Packets, Bytes
<1>5. st2 \in [Nat -> Nat] /\ start2 \in [Nat -> Nat]
  <2>1. ASSUME NEW i \in Nat, end < i, i <= end + l PROVE p[i - end] \in Nat
    <3>1. i - end \in 1 .. l
      BY <2>1
    <3> QED
      BY <1>4, <3>1
  <2>2. ASSUME NEW i \in Nat
        PROVE  (IF i <= end THEN st[i] ELSE IF i <= end + l THEN p[i - end] ELSE 0) \in Nat
    <3>1. CASE i <= end
      BY <1>2, <3>1
    <3>2. CASE ~(i <= end)
      <4>1. end < i
        BY <3>2
      <4> QED
        BY <2>1, <3>2, <4>1
    <3> QED
      BY <3>1, <3>2
  <2>3. ASSUME NEW i \in Nat
        PROVE  (IF i <= n THEN start[i] ELSE end + l) \in Nat
    <3>1. start[i] \in Nat
      BY <1>2
    <3>2. end + l \in Nat
      OBVIOUS
    <3> QED
      BY <3>1, <3>2
  <2> QED
    BY <2>2, <2>3
<1>6. /\ Len(sq2) = n + 1 /\ sq2[n + 1] = p
      /\ \A i \in 1 .. n : sq2[i] = sq[i]
  BY <1>1, AppendProperties
<1>7. (\A i \in 0 .. n : start2[i] = start[i]) /\ start2[n + 1] = end + l /\ start2[n] = end
  BY <1>3
<1>8. \A i \in 0 .. end : st2[i] = st[i]
  OBVIOUS
<1>9. ASSUME NEW j \in 1 .. l PROVE st2[end + j] = p[j]
  <2>1. end + j \in Nat /\ ~(end + j <= end) /\ end + j <= end + l /\ (end + j) - end = j
    OBVIOUS
  <2> QED
    BY <2>1
<1> HIDE DEF st2, start2, sq2
<1>10. \A i \in 0 .. n : start[i] <= end /\ start[i] \in Nat
  BY <1>1, <1>2, <1>3 DEF Stream
<1>11. ASSUME NEW i \in 0 .. n
       PROVE  /\ start2[i + 1] = start2[i] + Len(sq2[i + 1])
              /\ \A j \in 1 .. Len(sq2[i + 1]) : st2[start2[i] + j] = sq2[i + 1][j]
  <2>1. CASE i = n
    <3>1. sq2[i + 1] = p /\ start2[i] = end /\ start2[i + 1] = end + l
      BY <1>6, <1>7, <2>1
    <3> QED
      BY <1>1, <1>9, <3>1
  <2>2. CASE i # n
    <3>1. i \in 0 .. n - 1 /\ i + 1 \in 1 .. n /\ i + 1 \in 0 .. n
      BY <2>2
    <3>2. sq2[i + 1] = sq[i + 1] /\ start2[i] = start[i] /\ start2[i + 1] = start[i + 1]
      BY <1>6, <1>7, <3>1
    <3>3. /\ start[i + 1] = start[i] + Len(sq[i + 1])
          /\ \A j \in 1 .. Len(sq[i + 1]) : st[start[i] + j] = sq[i + 1][j]
      BY <1>1, <3>1 DEF Stream
    <3>4. PICK a \in Nat, b \in Nat : a = start[i] /\ b = Len(sq[i + 1]) /\ a + b <= end
      <4>1. sq[i + 1] \in Packets
        BY <1>1, <3>1, ElementOfSeq
      <4>2. Len(sq[i + 1]) \in Nat
        BY <4>1 DEF Packets, Bytes
      <4> QED
        BY <1>10, <3>1, <3>3, <4>2
    <3>5. ASSUME NEW j \in 1 .. b PROVE st2[a + j] = sq[i + 1][j]
      <4>0. a + b <= end
        BY <3>4
      <4>1. a + j \in 0 .. end
        BY <4>0
      <4> QED
        BY <1>8, <3>3, <3>4, <4>1
    <3> QED
      BY <3>2, <3>3, <3>4, <3>5
  <2> QED
    BY <2>1, <2>2
<1>12. ASSUME NEW i \in 0 .. n + 1 PROVE start2[i] <= start2[n + 1]
  <2>1. CASE i = n + 1
    BY <1>7, <2>1
  <2>2. CASE i # n + 1
    <3>1. i \in 0 .. n
      BY <2>2
    <3>2. PICK a \in Nat : a = start[i] /\ a <= end
      BY <1>10, <3>1
    <3> QED
      BY <1>7, <3>1, <3>2
  <2> QED
    BY <2>1, <2>2
<1>13. Stream(sq2, st2, start2)
  <2>1. (n + 1) - 1 = n
    OBVIOUS
  <2> QED
    BY <1>5, <1>6, <1>11, <1>12, <2>1 DEF Stream
<1>14. Grown(sq, p, st, start, st2, start2)
  BY <1>1, <1>3, <1>7, <1>8, <1>9, <1>13 DEF Grown, sq2
<1> QED
  BY <1>14

(* The invariant holds at the start: nothing is under way. *)
LEMMA H4InvInit == H4Init => H4Inv
<1> SUFFICES ASSUME H4Init PROVE H4Inv
  OBVIOUS
<1>1. H4Types
  BY H4TypesInit
<1>2. Len(<<>>) = 0
  OBVIOUS
<1>3. Unread = 0 /\ Between(hci.wptr, hci.rptr, PtrVals) = 0
  BY <1>1, CountsAre DEF H4Init
<1>4. FifoHolds(hci, delivered, sent)
  <2>1. sent = <<>> /\ delivered = <<>>
    BY DEF H4Init
  <2> QED
    BY <1>2, <1>3, <2>1 DEF FifoHolds
<1> DEFINE z == [i \in Nat |-> 0]
<1>5. InStream(z, z, z)
  <2>1. z \in [Nat -> Nat] /\ z[0] = 0 /\ \A i \in 0 .. 0 : z[i] = 0
    OBVIOUS
  <2>2. sent = <<>> /\ Len(sent) = 0 /\ line = <<>> /\ backup = NoBackup /\ handler = NoBuffer
    BY <1>2 DEF H4Init, NoBuffer
  <2>3. Given = 0
    BY <1>2, <1>3 DEF H4Init, Given
  <2> HIDE DEF z
  <2>4. Stream(sent, z, z) /\ Within(z, Unread, z[Len(sent)])
    BY <1>3, <2>1, <2>2 DEF Stream, Within
  <2>5. BackupHolds(backup, Given, sent, z, z, z[0])
    BY <1>2, <2>1, <2>2, <2>3 DEF BackupHolds, NoBackup
  <2>6. HandlerReads(handler, backup, Unread, BufferAt)
    BY <2>2 DEF HandlerReads, NoBuffer
  <2>7. BufsHold(Unread, dma.rptr, dma.bufs, handler.pos, z, z)
    BY <1>3 DEF BufsHold
  <2>8. LineHolds(line, z, z[Unread], z[Len(sent)], h4host.up)
    BY <1>2, <1>3, <2>1, <2>2 DEF LineHolds
  <2>9. Unread <= HCI_H4_TR_RX_BUF_NUM
    BY <1>3, H4ConstantsAre
  <2> QED
    BY <2>4, <2>5, <2>6, <2>7, <2>8, <2>9 DEF InStream
<1>6. NoGap
  BY <1>5 DEF NoGap
<1> QED
  BY <1>1, <1>4, <1>6 DEF H4Inv

-----------------------------------------------------------------------------
(* The host sends a packet: the stream goes on behind the line. *)
LEMMA SendFifo ==
  ASSUME NEW q, NEW del \in Seq(Bytes), NEW sq \in Seq(Packets), NEW p \in Packets,
         Between(q.wptr, q.rptr, PtrVals) \in Nat, FifoHolds(q, del, sq)
  PROVE  FifoHolds(q, del, Append(sq, p))
<1>1. PICK c \in Nat, n \in Nat, d \in Nat :
        c = Between(q.wptr, q.rptr, PtrVals) /\ n = Len(sq) /\ d = Len(del)
  OBVIOUS
<1>2. PICK t : t = Append(sq, p)
  OBVIOUS
<1>3. Len(t) = n + 1 /\ \A i \in 1 .. n : t[i] = sq[i]
  BY <1>1, <1>2, AppendProperties
<1>4. /\ d + c <= n /\ \A i \in 1 .. d : del[i] = sq[i]
      /\ \A i \in 0 .. c - 1 : q.slots[(q.rptr + i) % HCI_RX_FIFO_NUM] = sq[d + (i + 1)]
  BY <1>1 DEF FifoHolds
<1>5. \A i \in 1 .. d : i \in 1 .. n
  BY <1>4
<1>6. \A i \in 0 .. c - 1 : d + (i + 1) \in 1 .. n
  BY <1>4
<1>7. d + c <= Len(t)
  BY <1>3, <1>4
<1>8. \A i \in 1 .. d : del[i] = t[i]
  BY <1>3, <1>4, <1>5
<1>9. \A i \in 0 .. c - 1 : q.slots[(q.rptr + i) % HCI_RX_FIFO_NUM] = t[d + (i + 1)]
  BY <1>3, <1>4, <1>6
<1> QED
  BY <1>1, <1>2, <1>7, <1>8, <1>9 DEF FifoHolds

LEMMA SendBackup ==
  ASSUME NEW sq \in Seq(Packets), NEW p \in Packets, NEW st, NEW start, NEW st2, NEW start2,
         Stream(sq, st, start), Grown(sq, p, st, start, st2, start2),
         NEW b, b.bytes \in Bytes, NEW m \in 0 .. Len(sq), NEW at \in Nat, at <= start[Len(sq)],
         BackupHolds(b, m, sq, st, start, at)
  PROVE  BackupHolds(b, m, Append(sq, p), st2, start2, at)
<1>0. Append(sq, p) \in Seq(Packets) /\ Len(sq) \in Nat
  BY AppendProperties
<1>1. PICK n \in Nat, t \in Seq(Packets) : n = Len(sq) /\ t = Append(sq, p)
  BY <1>0
<1>2. Len(t) = n + 1 /\ \A i \in 1 .. n : t[i] = sq[i]
  BY <1>1, AppendProperties
<1>3. PICK a \in Nat, l \in Nat, end \in Nat : a = start[m] /\ l = Len(b.bytes) /\ end = start[n]
  <2>0. m \in Nat
    BY <1>0
  <2>1. m \in Nat /\ start \in [Nat -> Nat]
    BY <2>0 DEF Stream
  <2>2. start[m] \in Nat /\ start[n] \in Nat
    BY <2>1
  <2>3. Len(b.bytes) \in Nat
    BY DEF Bytes
  <2> QED
    BY <2>2, <2>3
<1>4. start2[m] = a
  BY <1>3 DEF Grown
<1>5. a + l = at /\ at <= end
  BY <1>1, <1>3 DEF BackupHolds
<1>6. ASSUME NEW j \in 1 .. l PROVE b.bytes[j] = st2[a + j]
  <2>1. a + j \in 0 .. end
    BY <1>5
  <2>2. st2[a + j] = st[a + j]
    BY <1>1, <1>3, <2>1 DEF Grown
  <2> QED
    BY <1>3, <2>2 DEF BackupHolds
<1>7. ASSUME b.bytes # <<>> PROVE m < Len(t) /\ Len(b.bytes) < Len(t[m + 1])
  <2>1. m < n /\ Len(b.bytes) < Len(sq[m + 1])
    BY <1>1, <1>7 DEF BackupHolds
  <2>2. m + 1 \in 1 .. n /\ m < Len(t)
    BY <1>1, <1>2, <2>1
  <2>3. t[m + 1] = sq[m + 1]
    BY <1>2, <2>2
  <2> QED
    BY <2>1, <2>2, <2>3
<1>8. (b.is <=> b.bytes # <<>>) /\ (b.timer <=> b.bytes # <<>>)
  BY DEF BackupHolds
<1>9. at = start2[m] + Len(b.bytes)
  BY <1>3, <1>4, <1>5
<1>10. \A j \in 1 .. Len(b.bytes) : b.bytes[j] = st2[start2[m] + j]
  BY <1>3, <1>4, <1>6
<1> QED
  BY <1>1, <1>7, <1>8, <1>9, <1>10 DEF BackupHolds

(* Buffers hold the same bytes of a longer stream. *)
LEMMA SendBufs ==
  ASSUME NEW n \in Nat, NEW r \in Nat, NEW bufs, NEW pos \in Nat, NEW st, NEW off, NEW st2, NEW end \in Nat,
         \A k \in 0 .. n - 1 : bufs[(r + k) % HCI_H4_TR_RX_BUF_NUM] \in Buffers,
         Within(off, n, end), \A i \in 0 .. end : st2[i] = st[i],
         BufsHold(n, r, bufs, pos, st, off)
  PROVE  BufsHold(n, r, bufs, pos, st2, off)
<1> SUFFICES ASSUME NEW k \in 0 .. n - 1
             PROVE  Holds(bufs[(r + k) % HCI_H4_TR_RX_BUF_NUM], ReadUpTo(k, pos), st2, off[k], off[k + 1])
  BY DEF BufsHold
<1>1. PICK buf \in Buffers : buf = bufs[(r + k) % HCI_H4_TR_RX_BUF_NUM]
  OBVIOUS
<1>2. PICK from \in Nat : from = ReadUpTo(k, pos)
  BY DEF ReadUpTo
<1>3. PICK a \in Nat, c \in Nat : a = off[k] /\ c = off[k + 1] /\ c <= end
  <2>1. k \in Nat /\ k + 1 \in Nat /\ k + 1 \in 0 .. n
    OBVIOUS
  <2> QED
    BY <2>1 DEF Within
<1>4. Holds(buf, from, st, a, c)
  BY <1>1, <1>2, <1>3 DEF BufsHold
<1>5. PICK l \in Nat : l = buf.len
  BY DEF Buffers
<1>6. c = a + (l - from) /\ \A j \in 1 .. l - from : buf.bytes[from + j] = st[a + j]
  BY <1>4, <1>5 DEF Holds
<1>7. ASSUME NEW j \in 1 .. l - from PROVE buf.bytes[from + j] = st2[a + j]
  <2>1. a + j \in 0 .. end
    BY <1>3, <1>6
  <2> QED
    BY <1>6, <2>1
<1> QED
  BY <1>1, <1>2, <1>3, <1>4, <1>5, <1>7 DEF Holds

LEMMA SendLine ==
  ASSUME NEW l \in Bytes, NEW p \in Bytes, NEW st, NEW st2, NEW at \in Nat, NEW end \in Nat,
         LineHolds(l, st, at, end, TRUE), \A i \in 0 .. end : st2[i] = st[i],
         \A j \in 1 .. Len(p) : st2[end + j] = p[j]
  PROVE  LineHolds(l \o p, st2, at, end + Len(p), TRUE)
<1>1. PICK n \in Nat, m \in Nat : n = Len(l) /\ m = Len(p)
  BY DEF Bytes
<1>2. at + n = end /\ \A j \in 1 .. n : l[j] = st[at + j]
  BY <1>1 DEF LineHolds
<1>3. /\ Len(l \o p) = n + m /\ \A i \in 1 .. n : (l \o p)[i] = l[i]
      /\ \A i \in 1 .. m : (l \o p)[n + i] = p[i]
  BY <1>1, Joined DEF Bytes
<1>4. ASSUME NEW j \in 1 .. n + m PROVE (l \o p)[j] = st2[at + j]
  <2>1. CASE j <= n
    <3>1. j \in 1 .. n /\ at + j \in 0 .. end
      BY <1>2, <2>1
    <3> QED
      BY <1>2, <1>3, <3>1
  <2>2. CASE ~(j <= n)
    <3>1. PICK i \in 1 .. m : i = j - n
      BY <2>2
    <3>2. j = n + i /\ at + j = end + i
      BY <1>2, <3>1
    <3> QED
      BY <1>1, <1>3, <3>2
  <2> QED
    BY <2>1, <2>2
<1>5. at + (n + m) = end + m
  BY <1>2
<1> QED
  BY <1>1, <1>3, <1>4, <1>5 DEF LineHolds

LEMMA SendInv ==
  ASSUME CountsPackets, H4Inv, HostSend
  PROVE  H4Inv'
<1>1. H4Types /\ H4Types'
  BY HostTypes DEF H4Inv
<1>2. ~damaged /\ h4host.up /\ Live /\ FifoHolds(hci, delivered, sent)
  BY DEF HostSend, H4Inv, Live
<1>3. PICK shape \in Shapes : /\ sent' = Append(sent, Packet(Len(sent) + 3, shape))
                              /\ line' = line \o Packet(Len(sent) + 3, shape)
  BY DEF HostSend
<1>4. sent \in Seq(Packets) /\ line \in Bytes /\ delivered \in Seq(Bytes)
  BY <1>1 DEF H4Types
<1>5. PICK p \in Packets : p = Packet(Len(sent) + 3, shape)
  <2>1. Len(sent) + 3 \in Nat
    BY <1>4
  <2> QED
    BY <2>1, PacketIs
<1>6. sent' = Append(sent, p) /\ line' = line \o p
  BY <1>3, <1>5
<1>7. UNCHANGED <<dma, handler, backup, hci, delivered, h4host, damaged>>
  BY DEF HostSend
<1>8. Unread' = Unread /\ Given' = Given /\ BufferAt' = BufferAt
  BY <1>7 DEF Unread, Given, BufferAt
<1>9. FifoHolds(hci', delivered', sent')
  <2>1. Between(hci.wptr, hci.rptr, PtrVals) \in Nat
    BY <1>1, CountsAre
  <2> QED
    BY <1>2, <1>4, <1>6, <1>7, <2>1, SendFifo
<1>10. PICK st, start, off : InStream(st, start, off)
  BY <1>2 DEF H4Inv, NoGap
<1>11. Stream(sent, st, start) /\ Within(off, Unread, start[Len(sent)])
  BY <1>10 DEF InStream
<1>12. PICK st2, start2 : Grown(sent, p, st, start, st2, start2)
  BY <1>4, <1>11, StreamGrows
<1>13. PICK n \in Nat, u \in Nat : n = Len(sent) /\ u = Unread
  BY <1>1, <1>4, CountsAre
<1>14. PICK end \in Nat, l \in Nat : end = start[n] /\ l = Len(p)
  BY <1>11, <1>13 DEF Stream, Packets, Bytes
<1>15. Len(sent') = n + 1 /\ start2[n + 1] = end + l
  <2>1. Len(sent') = n + 1
    BY <1>4, <1>6, <1>13, AppendProperties
  <2> QED
    BY <1>12, <1>13, <1>14, <2>1 DEF Grown
<1>16. Stream(sent', st2, start2)
  BY <1>6, <1>12 DEF Grown
<1>17. off \in [Nat -> Nat] /\ \A k \in 0 .. u : off[k] \in Nat /\ off[k] <= end
  <2>1. off \in [Nat -> Nat] /\ \A k \in 0 .. u : off[k] <= end
    BY <1>11, <1>13, <1>14 DEF Within
  <2>2. \A k \in 0 .. u : off[k] \in Nat
    BY <2>1
  <2> QED
    BY <2>1, <2>2
<1>18. Within(off, u, end + l)
  <2>1. ASSUME NEW k \in 0 .. u PROVE off[k] <= end + l
    <3>1. PICK x \in Nat : x = off[k] /\ x <= end
      BY <1>17
    <3> QED
      BY <3>1
  <2> QED
    BY <1>17, <2>1 DEF Within
<1>19. BackupHolds(backup, Given, sent', st2, start2, off[0])
  <2>1. Given \in 0 .. Len(sent)
    BY <1>1, <1>2, CountsAre DEF FifoHolds, Given
  <2>2. off[0] \in Nat /\ off[0] <= start[Len(sent)]
    BY <1>13, <1>14, <1>17
  <2>3. backup.bytes \in Bytes
    BY <1>1 DEF H4Types, Backups
  <2>4. BackupHolds(backup, Given, sent, st, start, off[0])
    BY <1>10 DEF InStream
  <2> QED
    BY <1>4, <1>6, <1>11, <1>12, <2>1, <2>2, <2>3, <2>4, SendBackup
<1>20. \A i \in 0 .. end : st2[i] = st[i]
  BY <1>12, <1>13, <1>14 DEF Grown
<1>21. BufsHold(u, dma.rptr, dma.bufs, handler.pos, st2, off)
  <2>1. dma.rptr \in Pointers /\ dma.bufs \in [BufSlots -> Buffers] /\ handler.pos \in Nat
    BY <1>1 DEF H4Types, Dmas, Handlers
  <2>2. dma.rptr \in Nat
    BY <2>1, SlotsAre
  <2>3. ASSUME NEW k \in 0 .. u - 1 PROVE dma.bufs[(dma.rptr + k) % HCI_H4_TR_RX_BUF_NUM] \in Buffers
    <3>0. k \in Nat
      OBVIOUS
    <3>1. (dma.rptr + k) % HCI_H4_TR_RX_BUF_NUM \in BufSlots
      BY <2>1, <3>0, SlotsAre
    <3> QED
      BY <2>1, <3>1
  <2>4. Within(off, u, end) /\ BufsHold(u, dma.rptr, dma.bufs, handler.pos, st, off)
    BY <1>10, <1>13, <1>14 DEF InStream
  <2> QED
    BY <1>20, <2>1, <2>2, <2>3, <2>4, SendBufs
<1>22. LineHolds(line', st2, off[u], end + l, TRUE)
  <2>1. LineHolds(line, st, off[u], end, TRUE)
    BY <1>2, <1>10, <1>13, <1>14 DEF InStream, LineHolds
  <2>2. off[u] \in Nat /\ p \in Bytes
    BY <1>17 DEF Packets
  <2>3. \A j \in 1 .. l : st2[end + j] = p[j]
    BY <1>12, <1>13, <1>14 DEF Grown
  <2>4. LineHolds(line \o p, st2, off[u], end + Len(p), TRUE)
    BY <1>4, <1>14, <1>20, <2>1, <2>2, <2>3, SendLine
  <2> QED
    BY <1>6, <1>14, <2>4
<1>23. InStream(st2, start2, off)'
  <2>1. LineHolds(line', st2, off[u], end + l, h4host.up)
    BY <1>2, <1>22 DEF LineHolds
  <2>2. HandlerReads(handler, backup, Unread, BufferAt) /\ u <= HCI_H4_TR_RX_BUF_NUM
    BY <1>10, <1>13 DEF InStream
  <2> QED
    BY <1>7, <1>8, <1>13, <1>15, <1>16, <1>18, <1>19, <1>21, <2>1, <2>2 DEF InStream
<1>24. NoGap'
  BY <1>23 DEF NoGap
<1> QED
  BY <1>1, <1>9, <1>24 DEF H4Inv

(* The host stops: the stream ends with the last byte that got into a buffer. *)
LEMMA StopInv ==
  ASSUME CountsPackets, H4Inv, HostStops
  PROVE  H4Inv'
<1>1. H4Types /\ H4Types'
  BY HostTypes DEF H4Inv
<1>2. /\ UNCHANGED <<dma, handler, backup, hci, sent, delivered, damaged>>
      /\ line' = <<>> /\ h4host.up /\ ~h4host'.up
  BY <1>1 DEF HostStops, H4Types
<1>3. ~damaged' => FifoHolds(hci', delivered', sent')
  BY <1>2 DEF H4Inv
<1>4. ASSUME Live' PROVE NoGap'
  <2>1. Live
    BY <1>2, <1>4 DEF Live
  <2>2. PICK st, start, off : InStream(st, start, off)
    BY <2>1 DEF H4Inv, NoGap
  <2>3. Unread' = Unread /\ Given' = Given /\ BufferAt' = BufferAt
    BY <1>2 DEF Unread, Given, BufferAt
  <2>4. PICK a \in Nat, end \in Nat : a = off[Unread] /\ end = start[Len(sent)] /\ a <= end
    <3>1. Unread \in Nat /\ Len(sent) \in Nat /\ Unread \in 0 .. Unread
      BY <1>1, CountsAre
    <3>2. off \in [Nat -> Nat] /\ start \in [Nat -> Nat] /\ off[Unread] <= start[Len(sent)]
      BY <2>2, <3>1 DEF InStream, Within, Stream
    <3> QED
      BY <3>1, <3>2
  <2>5. LineHolds(<<>>, st, a, end, h4host'.up)
    <3>1. Len(<<>>) = 0
      OBVIOUS
    <3> QED
      BY <1>2, <2>4, <3>1 DEF LineHolds
  <2>6. InStream(st, start, off)'
    BY <1>2, <2>2, <2>3, <2>4, <2>5 DEF InStream
  <2> QED
    BY <2>6 DEF NoGap
<1> QED
  BY <1>1, <1>3, <1>4 DEF H4Inv

(* A new session starts with nothing that is left of the one before. *)
LEMMA StartInv ==
  ASSUME CountsPackets, H4Inv, HostStarts
  PROVE  H4Inv'
<1>1. H4Types /\ H4Types'
  BY HostTypes DEF H4Inv
<1>2. /\ UNCHANGED <<line, dma, handler, backup, hci>> /\ sent' = <<>> /\ delivered' = <<>>
      /\ line = <<>> /\ backup = NoBackup /\ handler = NoBuffer /\ Len(<<>>) = 0
      /\ Unread = 0 /\ Between(hci.wptr, hci.rptr, PtrVals) = 0
  <2>1. UNCHANGED <<line, dma, handler, backup, hci>> /\ sent' = <<>> /\ delivered' = <<>> /\ Len(<<>>) = 0
    BY DEF HostStarts
  <2>2. line = <<>> /\ dma.wptr = dma.rptr /\ handler.len = 0 /\ ~backup.timer /\ hci.wptr = hci.rptr
    BY DEF HostStarts, Quiet
  <2>3. backup = NoBackup /\ handler = NoBuffer
    BY <1>1, <2>2 DEF H4Types
  <2>4. Unread = 0 /\ Between(hci.wptr, hci.rptr, PtrVals) = 0
    BY <1>1, <2>2, CountsAre
  <2> QED
    BY <2>1, <2>2, <2>3, <2>4
<1>3. Unread' = 0 /\ Given' = 0 /\ Between(hci'.wptr, hci'.rptr, PtrVals) = 0
  BY <1>2 DEF Unread, Given
<1>4. FifoHolds(hci', delivered', sent')
  BY <1>2, <1>3 DEF FifoHolds
<1> DEFINE z == [i \in Nat |-> 0]
<1>5. z \in [Nat -> Nat] /\ z[0] = 0 /\ \A i \in 0 .. 0 : z[i] = 0
  OBVIOUS
<1> HIDE DEF z
<1>6. Len(sent') = 0 /\ Len(line') = 0 /\ Len(backup'.bytes) = 0 /\ backup' = NoBackup /\ handler' = NoBuffer
  BY <1>2 DEF NoBackup
<1>7. Stream(sent', z, z) /\ Within(z, 0, z[Len(sent')])
  BY <1>5, <1>6 DEF Stream, Within
<1>8. BackupHolds(backup', 0, sent', z, z, z[0])
  BY <1>2, <1>5, <1>6 DEF BackupHolds, NoBackup
<1>9. HandlerReads(handler', backup', 0, BufferAt')
  BY <1>6 DEF HandlerReads, NoBuffer
<1>10. BufsHold(0, dma'.rptr, dma'.bufs, handler'.pos, z, z)
  BY DEF BufsHold
<1>11. LineHolds(line', z, z[0], z[Len(sent')], h4host'.up)
  BY <1>5, <1>6 DEF LineHolds
<1>12. InStream(z, z, z)'
  BY <1>3, <1>7, <1>8, <1>9, <1>10, <1>11, H4ConstantsAre DEF InStream
<1>13. NoGap'
  BY <1>12 DEF NoGap
<1> QED
  BY <1>1, <1>4, <1>13 DEF H4Inv

-----------------------------------------------------------------------------
(* A transfer into a free buffer: the bytes go from the line behind the unread ones. *)
LEMMA FullIsUnread ==
  ASSUME H4Types, Full
  PROVE  ArmedIsUnread
<1>0. PICK p \in Nat \ {0}, n \in Nat \ {0} : p = PtrVals /\ n = HCI_H4_TR_RX_BUF_NUM
  BY H4ConstantsAre
<1>a. dma.wptr \in 0 .. p - 1 /\ dma.rptr \in 0 .. p - 1
  BY <1>0 DEF H4Types, Dmas, Pointers
<1>1. PICK w \in 0 .. p - 1, r \in 0 .. p - 1 : w = dma.wptr /\ r = dma.rptr
  BY <1>a
<1>2. w - r >= n
  BY <1>0, <1>1 DEF Full
<1>3. w - r \in 0 .. p - 1
  BY <1>2
<1>4. (w - r) % p = w - r
  BY <1>3, SmallRemainder
<1> QED
  BY <1>0, <1>1, <1>2, <1>4 DEF ArmedIsUnread

LEMMA UartInv ==
  ASSUME CountsPackets, H4Inv, UartIRQHandler
  PROVE  H4Inv'
<1>1. H4Types /\ H4Types'
  BY UartTypes DEF H4Inv
<1> SUFFICES ASSUME ~damaged' PROVE H4Inv'
  BY <1>1 DEF H4Inv, Live
<1>2. ~damaged /\ ~ArmedIsUnread /\ ~Full
  BY <1>1, FullIsUnread DEF UartIRQHandler
<1>3. UNCHANGED <<handler, backup, hci, sent, delivered, h4host>>
  BY DEF UartIRQHandler
<1>4. PICK k \in 1 .. Least(Len(line), H4BufSize) : Transfer(k, k, (dma.wptr + 1) % PtrVals)
  BY <1>2 DEF UartIRQHandler
<1>5. dma.wptr \in Pointers /\ dma.rptr \in Pointers /\ dma.bufs \in [BufSlots -> Buffers]
  BY <1>1 DEF H4Types, Dmas
<1>6. (dma.wptr + 1) % PtrVals \in Pointers /\ dma.rptr \in Nat
  BY <1>5, SlotsAre
<1>7. /\ h4host.up /\ k <= Len(line) /\ k \in Nat /\ k >= 1
      /\ Len(line') = Len(line) - k /\ \A j \in 1 .. Len(line) - k : line'[j] = line[k + j]
      /\ Landed(k) \in Bytes /\ Len(Landed(k)) >= k
      /\ \A j \in 1 .. k : Landed(k)[j] = line[j]
  <2>1. k \in Nat /\ k >= 1
    OBVIOUS
  <2> QED
    BY <1>1, <1>4, <1>6, <2>1, TransferIs
<1>8. FifoHolds(hci', delivered', sent')
  BY <1>2, <1>3 DEF H4Inv
<1>9. PICK st, start, off : InStream(st, start, off)
  BY <1>2, <1>7 DEF H4Inv, NoGap, Live
<1>10. PICK u \in Nat, n \in Nat \ {0}, l \in Nat, x \in Bytes :
         u = Unread /\ n = HCI_H4_TR_RX_BUF_NUM /\ l = Len(line) /\ x = Landed(k)
  <2>1. Unread \in Nat
    BY <1>1, CountsAre
  <2>2. Len(line) \in Nat
    BY <1>1 DEF H4Types, Bytes
  <2> QED
    BY <1>7, <2>1, <2>2, H4ConstantsAre
<1>11. u < n
  BY <1>2, <1>10 DEF ArmedIsUnread, Unread, Between
<1>12. Unread' = u + 1
  <2>1. PICK p \in Nat \ {0} : p = PtrVals /\ n < p
    BY <1>10, H4ConstantsAre
  <2>2. dma.wptr \in 0 .. p - 1 /\ dma.rptr \in 0 .. p - 1
    BY <1>5, <2>1 DEF Pointers
  <2>3. Between(dma.wptr, dma.rptr, p) = u /\ u + 1 < p
    BY <1>10, <1>11, <2>1 DEF Unread
  <2>4. Between((dma.wptr + 1) % p, dma.rptr, p) = u + 1
    BY <2>2, <2>3, WriteMoves
  <2>5. dma'.wptr = (dma.wptr + 1) % p /\ dma'.rptr = dma.rptr
    BY <1>1, <1>4, <2>1 DEF Transfer, H4Types, Dmas
  <2> QED
    BY <2>1, <2>4, <2>5 DEF Unread
<1>13. /\ dma'.rptr = dma.rptr
       /\ dma'.bufs = [dma.bufs EXCEPT ![Armed] = [len |-> k, bytes |-> x]]
  BY <1>1, <1>4, <1>10 DEF Transfer, H4Types, Dmas
<1>14. Armed = (dma.rptr + u) % n /\ Armed \in BufSlots
  <2>1. PICK p \in Nat \ {0} : p = PtrVals /\ IsMultiple(p, n)
    BY <1>10, H4ConstantsAre, Divides
  <2>2. dma.wptr \in 0 .. p - 1 /\ dma.rptr \in 0 .. p - 1
    BY <1>5, <2>1 DEF Pointers
  <2>a. PICK w \in 0 .. p - 1, r \in 0 .. p - 1 : w = dma.wptr /\ r = dma.rptr
    BY <2>2
  <2>b. w % n = (r + Between(w, r, p)) % n
    BY <2>1, WriteSlot
  <2>3. dma.wptr % n = (dma.rptr + Between(dma.wptr, dma.rptr, p)) % n
    BY <2>a, <2>b
  <2> QED
    BY <1>5, <1>10, <2>1, <2>3, SlotsAre DEF Armed, Unread
<1>15. ASSUME NEW i \in 0 .. u - 1
       PROVE  /\ dma'.bufs[(dma.rptr + i) % n] = dma.bufs[(dma.rptr + i) % n]
              /\ (dma.rptr + i) % n \in BufSlots
  <2>1. i \in Nat /\ i \in 0 .. n - 1 /\ u \in 0 .. n - 1 /\ i # u /\ dma.rptr \in Int
    BY <1>6, <1>11
  <2>2. (dma.rptr + i) % n # (dma.rptr + u) % n
    BY <2>1, SlotsDiffer
  <2>3. (dma.rptr + i) % n \in BufSlots
    BY <1>5, <1>10, <2>1, SlotsAre
  <2> QED
    BY <1>5, <1>13, <1>14, <2>2, <2>3
<1>16. BufferAt' = BufferAt \/ u = 0
  <2> SUFFICES ASSUME u # 0 PROVE BufferAt' = BufferAt
    OBVIOUS
  <2>1. 0 \in 0 .. u - 1 /\ dma.rptr + 0 = dma.rptr
    BY <1>6
  <2>2. dma'.bufs[dma.rptr % n] = dma.bufs[dma.rptr % n]
    BY <1>15, <2>1
  <2> QED
    BY <1>10, <1>13, <2>2 DEF BufferAt
<1>17. off \in [Nat -> Nat] /\ \A i \in 0 .. u : off[i] \in Nat /\ off[i] <= start[Len(sent)]
  <2>1. off \in [Nat -> Nat] /\ \A i \in 0 .. u : off[i] <= start[Len(sent)]
    BY <1>9, <1>10 DEF InStream, Within
  <2>2. \A i \in 0 .. u : i \in Nat
    OBVIOUS
  <2> QED
    BY <2>1, <2>2
<1>18. PICK a \in Nat, end \in Nat : a = off[u] /\ end = start[Len(sent)]
  <2>1. Len(sent) \in Nat /\ start \in [Nat -> Nat]
    BY <1>1, <1>9, CountsAre DEF InStream, Stream
  <2> QED
    BY <1>17, <2>1
<1>19. a + l = end /\ \A j \in 1 .. l : line[j] = st[a + j]
  BY <1>7, <1>9, <1>10, <1>18 DEF InStream, LineHolds
<1> DEFINE off2 == [i \in Nat |-> IF i <= u THEN off[i] ELSE a + k]
<1>20. off2 \in [Nat -> Nat] /\ (\A i \in 0 .. u : off2[i] = off[i]) /\ off2[u + 1] = a + k
  <2>1. \A i \in Nat : off[i] \in Nat
    BY <1>17
  <2>2. a + k \in Nat
    BY <1>7
  <2>3. off2 \in [Nat -> Nat]
    BY <2>1, <2>2
  <2>4. \A i \in 0 .. u : i \in Nat /\ i <= u
    OBVIOUS
  <2>5. u + 1 \in Nat /\ ~(u + 1 <= u)
    OBVIOUS
  <2> QED
    BY <2>3, <2>4, <2>5
<1> HIDE DEF off2
<1>21. Within(off2, u + 1, end)
  <2>1. ASSUME NEW i \in 0 .. u + 1 PROVE off2[i] <= end
    <3>1. CASE i = u + 1
      BY <1>7, <1>10, <1>19, <1>20, <3>1
    <3>2. CASE i # u + 1
      <4>1. i \in 0 .. u
        BY <3>2
      <4> QED
        BY <1>17, <1>18, <1>20, <4>1
    <3> QED
      BY <3>1, <3>2
  <2> QED
    BY <1>20, <2>1 DEF Within
<1>22. BufsHold(u + 1, dma.rptr, dma'.bufs, handler.pos, st, off2)
  <2> SUFFICES ASSUME NEW i \in 0 .. (u + 1) - 1
               PROVE  Holds(dma'.bufs[(dma.rptr + i) % n], ReadUpTo(i, handler.pos), st, off2[i], off2[i + 1])
    BY <1>10 DEF BufsHold
  <2>1. CASE i = u
    <3>1. dma'.bufs[(dma.rptr + i) % n] = [len |-> k, bytes |-> x]
      BY <1>5, <1>13, <1>14, <2>1
    <3>2. off2[i] = a /\ off2[i + 1] = a + k
      BY <1>18, <1>20, <2>1
    <3>3. ReadUpTo(i, handler.pos) = 0
      <4>1. CASE i = 0
        <5>1. handler.len = 0
          <6>1. HandlerReads(handler, backup, Unread, BufferAt)
            BY <1>9 DEF InStream
          <6>2. handler.len \in Nat
            BY <1>1 DEF H4Types, Handlers
          <6>3. ~(Unread >= 1)
            BY <1>10, <2>1, <4>1
          <6> QED
            BY <6>1, <6>2, <6>3 DEF HandlerReads
        <5> QED
          BY <1>1, <5>1 DEF H4Types, NoBuffer, ReadUpTo
      <4> QED
        BY <4>1 DEF ReadUpTo
    <3>4. k <= Len(x) /\ \A j \in 1 .. k : x[j] = st[a + j]
      <4>1. \A j \in 1 .. k : j \in 1 .. l
        BY <1>7, <1>10
      <4> QED
        BY <1>7, <1>10, <1>19, <4>1
    <3>5. Holds([len |-> k, bytes |-> x], 0, st, a, a + k)
      <4>1. k - 0 = k /\ \A j \in 1 .. k : 0 + j = j
        BY <1>7
      <4> QED
        BY <1>7, <3>4, <4>1 DEF Holds
    <3> QED
      BY <3>1, <3>2, <3>3, <3>5
  <2>2. CASE i # u
    <3>1. i \in 0 .. u - 1 /\ i \in 0 .. u /\ i + 1 \in 0 .. u
      BY <2>2
    <3>2. off2[i] = off[i] /\ off2[i + 1] = off[i + 1]
      BY <1>20, <3>1
    <3>3. Holds(dma.bufs[(dma.rptr + i) % n], ReadUpTo(i, handler.pos), st, off[i], off[i + 1])
      BY <1>9, <1>10, <3>1 DEF InStream, BufsHold
    <3> QED
      BY <1>15, <3>1, <3>2, <3>3
  <2> QED
    BY <2>1, <2>2
<1>23. LineHolds(line', st, a + k, end, h4host.up)
  <2>a. k \in Nat /\ k <= l /\ Len(line') = l - k
    BY <1>7, <1>10
  <2>1. PICK r \in Nat : r = l - k
    BY <2>a
  <2>2. Len(line') = r /\ (a + k) + r = end
    BY <1>19, <2>a, <2>1
  <2>3. ASSUME NEW j \in 1 .. r PROVE line'[j] = st[(a + k) + j]
    <3>1. k + j \in 1 .. l /\ a + (k + j) = (a + k) + j
      BY <1>7, <2>1
    <3> QED
      BY <1>7, <1>10, <1>19, <2>1, <3>1
  <2> QED
    BY <2>2, <2>3 DEF LineHolds
<1>24. BackupHolds(backup, Given, sent, st, start, off2[0])
  <2>1. off2[0] = off[0]
    BY <1>20
  <2> QED
    BY <1>9, <2>1 DEF InStream
<1>25. HandlerReads(handler, backup, u + 1, BufferAt')
  <2>1. HandlerReads(handler, backup, u, BufferAt)
    BY <1>9, <1>10 DEF InStream
  <2> QED
    BY <1>16, <2>1 DEF HandlerReads
<1>26. Given' = Given /\ u + 1 <= n
  BY <1>3, <1>11 DEF Given
<1>27. InStream(st, start, off2)'
  <2>1. Stream(sent, st, start)
    BY <1>9 DEF InStream
  <2> QED
    BY <1>3, <1>10, <1>12, <1>13, <1>18, <1>20, <1>21, <1>22, <1>23, <1>24, <1>25, <1>26, <2>1 DEF InStream
<1>28. NoGap'
  BY <1>27 DEF NoGap
<1> QED
  BY <1>1, <1>8, <1>28 DEF H4Inv

(* What is known of a packet *)
LEMMA PacketFacts ==
  ASSUME NEW p \in Packets
  PROVE  /\ p \in Bytes /\ Len(p) \in Nat /\ Len(p) >= 4 /\ Len(p) < CntVals
         /\ p[1] \in {CMD, ACL} /\ HasHead(p) /\ PacketLen(p) = Len(p)
<1>1. /\ p \in Bytes /\ p[1] \in {CMD, ACL} /\ HasHead(p)
      /\ PacketLen(p) = Len(p) /\ Len(p) < CntVals
  BY DEF Packets, GoodPacket
<1>2. Len(p) \in Nat /\ PacketLen(p) >= 4
  BY <1>1, HeadOf
<1> QED
  BY <1>1, <1>2

(* When all is quiet while the host is up, all it has sent has been given to
   the HCI layer, and nothing is kept.                                     *)
LEMMA QuietMeansGiven ==
  ASSUME H4Inv, ~damaged, h4host.up, Quiet
  PROVE  Given = Len(sent) /\ ~backup.timer
<1>1. H4Types /\ FifoHolds(hci, delivered, sent)
  BY DEF H4Inv
<1>2. PICK st, start, off : InStream(st, start, off)
  BY DEF H4Inv, NoGap, Live
<1>3. Unread = 0 /\ line = <<>>
  BY <1>1, CountsAre DEF Quiet
<1>4. PICK m \in Nat, n \in Nat, l \in Nat : m = Given /\ n = Len(sent) /\ l = Len(backup.bytes)
  <2>1. Len(backup.bytes) \in Nat
    BY <1>1 DEF H4Types, Backups, Bytes
  <2> QED
    BY <1>1, <2>1, CountsAre
<1>5. m <= n
  BY <1>1, <1>4 DEF FifoHolds, Given
<1>6. PICK a \in Nat, end \in Nat : a = start[m] /\ end = start[n]
  BY <1>2 DEF InStream, Stream
<1>7. a + l = end
  <2>1. Len(<<>>) = 0 /\ off[0] \in Nat
    BY <1>2 DEF InStream, Within
  <2>2. off[0] + 0 = end
    BY <1>2, <1>3, <1>4, <1>6, <2>1 DEF InStream, LineHolds
  <2>3. off[0] = a + l
    BY <1>2, <1>4, <1>6 DEF InStream, BackupHolds
  <2> QED
    BY <2>1, <2>2, <2>3
<1>8. ASSUME m < n
      PROVE  \E p \in Nat \ {0} : p = Len(sent[m + 1]) /\ start[m + 1] = a + p /\ a + p <= end
  <2>1. m \in 0 .. n - 1 /\ m + 1 \in 1 .. n /\ m + 1 \in 0 .. n
    BY <1>8
  <2>2. sent[m + 1] \in Packets
    BY <1>1, <1>4, <2>1, ElementOfSeq DEF H4Types
  <2>3. PICK p \in Nat : p = Len(sent[m + 1])
    BY <2>2 DEF Packets, Bytes
  <2>4. p # 0
    BY <2>2, <2>3, PacketFacts
  <2>5. start[m + 1] = a + p
    BY <1>2, <1>4, <1>6, <2>1, <2>3 DEF InStream, Stream
  <2>6. start[m + 1] <= end
    BY <1>2, <1>4, <1>6, <2>1 DEF InStream, Stream
  <2> QED
    BY <2>3, <2>4, <2>5, <2>6
<1>9. backup.bytes = <<>>
  <2> SUFFICES ASSUME backup.bytes # <<>> PROVE FALSE
    OBVIOUS
  <2>1. m < n /\ l < Len(sent[m + 1])
    BY <1>2, <1>4 DEF InStream, BackupHolds
  <2>2. PICK p \in Nat \ {0} : p = Len(sent[m + 1]) /\ a + p <= end
    BY <1>8, <2>1
  <2> QED
    BY <1>7, <2>1, <2>2
<1>10. l = 0
  BY <1>4, <1>9
<1>11. ~(m < n)
  BY <1>7, <1>8, <1>10
<1>12. ~backup.timer
  BY <1>2, <1>9 DEF InStream, BackupHolds
<1> QED
  BY <1>4, <1>5, <1>11, <1>12

(* A loss is noted. *)
LEMMA LossInv ==
  ASSUME H4Inv, UartRxErr
  PROVE  H4Inv'
<1>1. H4Types'
  BY UartTypes DEF H4Inv
<1>2. damaged'
  BY DEF UartRxErr
<1> QED
  BY <1>1, <1>2 DEF H4Inv, Live

(* The timer ends only when the host has stopped, so that what it drops will
   not go on.                                                              *)
LEMMA TimerInv ==
  ASSUME H4Inv, TimerIRQHandler
  PROVE  H4Inv'
<1>1. H4Types'
  BY CbackTypes DEF H4Inv
<1>2. UNCHANGED <<line, dma, handler, hci, sent, delivered, h4host, damaged>> /\ backup.timer /\ Quiet
  BY DEF TimerIRQHandler
<1>3. ~damaged' => FifoHolds(hci', delivered', sent')
  BY <1>2 DEF H4Inv
<1>4. ~Live
  BY <1>2, QuietMeansGiven DEF Live
<1>5. ~Live'
  BY <1>2, <1>4 DEF Live, Quiet
<1> QED
  BY <1>1, <1>3, <1>5 DEF H4Inv

(* The handler takes up the oldest buffer. *)
LEMMA ReadInv ==
  ASSUME H4Inv, RxHandlerStart
  PROVE  H4Inv'
<1>1. H4Types /\ H4Types'
  BY HandlerTypes DEF H4Inv
<1>2. /\ UNCHANGED <<line, dma, backup, hci, sent, delivered, h4host, damaged>>
      /\ handler' = [pos |-> 0, len |-> BufferAt.len, resumed |-> FALSE]
      /\ ~Reading /\ dma.wptr # dma.rptr
  BY DEF RxHandlerStart
<1>3. ~damaged' => FifoHolds(hci', delivered', sent')
  BY <1>2 DEF H4Inv
<1>4. ASSUME Live' PROVE NoGap'
  <2>1. Live
    BY <1>2, <1>4 DEF Live, Quiet
  <2>2. PICK st, start, off : InStream(st, start, off)
    BY <2>1 DEF H4Inv, NoGap
  <2>3. Unread' = Unread /\ Given' = Given /\ BufferAt' = BufferAt
    BY <1>2 DEF Unread, Given, BufferAt
  <2>4. handler.pos = 0
    <3>1. handler.len = 0
      BY <1>1, <1>2 DEF Reading, H4Types, Handlers
    <3> QED
      BY <1>1, <3>1 DEF H4Types, NoBuffer
  <2>5. HandlerReads(handler', backup, Unread, BufferAt)
    <3>1. Unread >= 1
      BY <1>1, <1>2, CountsAre
    <3>2. BufferAt.len \in Nat
      BY <1>1, RestIs DEF Buffers
    <3>3. handler'.pos = 0 /\ handler'.len = BufferAt.len /\ ~handler'.resumed
      BY <1>2
    <3>4. handler'.pos + handler'.len = BufferAt.len
      BY <3>2, <3>3
    <3> QED
      BY <3>1, <3>3, <3>4 DEF HandlerReads
  <2>6. handler'.pos = handler.pos
    BY <1>2, <2>4
  <2>7. InStream(st, start, off)'
    BY <1>2, <2>2, <2>3, <2>5, <2>6 DEF InStream
  <2> QED
    BY <2>7 DEF NoGap
<1> QED
  BY <1>1, <1>3, <1>4 DEF H4Inv

-----------------------------------------------------------------------------
(* A packet is handled: it is the one that was sent next. *)
FlowControlled == HostCredits <= HCI_RX_FIFO_NUM

LEMMA FifoFits ==
  ASSUME FlowControlled, H4Types, FifoHolds(hci, delivered, sent)
  PROVE  Between(hci.wptr, hci.rptr, PtrVals) <= HCI_RX_FIFO_NUM
<1>1. PICK d \in Nat, n \in Nat, c \in Nat :
        d = Len(delivered) /\ n = Len(sent) /\ c = Between(hci.wptr, hci.rptr, PtrVals)
  BY CountsAre
<1>2. d + c <= n
  BY <1>1 DEF FifoHolds
<1>3. n - d <= HostCredits
  BY <1>1 DEF H4Types
<1>4. c <= HostCredits
  BY <1>2, <1>3, H4ConstantsAre
<1> QED
  BY <1>1, <1>4, H4ConstantsAre DEF FlowControlled

LEMMA CbackInv ==
  ASSUME FlowControlled, H4Inv, RxHandlerCback
  PROVE  H4Inv'
<1>1. H4Types /\ H4Types'
  BY CbackTypes DEF H4Inv
<1>2. UNCHANGED <<line, dma, handler, backup, sent, h4host, damaged>>
  BY DEF RxHandlerCback
<1> SUFFICES ASSUME ~damaged PROVE H4Inv'
  BY <1>1, <1>2 DEF H4Inv, Live
<1>3. FifoHolds(hci, delivered, sent)
  BY DEF H4Inv
<1>4. PICK d \in Nat, n \in Nat, c \in Nat, s \in Nat \ {0}, p \in Nat \ {0} :
        /\ d = Len(delivered) /\ n = Len(sent) /\ c = Between(hci.wptr, hci.rptr, PtrVals)
        /\ s = HCI_RX_FIFO_NUM /\ p = PtrVals
  BY <1>1, CountsAre, H4ConstantsAre
<1>5. IsMultiple(p, s) /\ c <= s
  <2>1. p % s = 0
    BY <1>4, H4ConstantsAre
  <2> QED
    BY <1>1, <1>3, <1>4, <2>1, Divides, FifoFits
<1>a. hci.wptr \in 0 .. p - 1 /\ hci.rptr \in 0 .. p - 1 /\ hci.slots \in [HciSlots -> Bytes]
  BY <1>1, <1>4 DEF H4Types, Fifos, Pointers
<1>6. PICK w \in 0 .. p - 1, r \in 0 .. p - 1 : w = hci.wptr /\ r = hci.rptr
  BY <1>a
<1>7. c >= 1
  BY <1>1, <1>4, CountsAre DEF RxHandlerCback
<1>8. /\ hci'.wptr = w /\ hci'.rptr = (r + 1) % p
      /\ hci'.slots = [hci.slots EXCEPT ![r % s] = <<>>]
      /\ delivered' = Append(delivered, hci.slots[r % s])
  BY <1>1, <1>4, <1>6 DEF RxHandlerCback, H4Types, Fifos
<1>9. Between(hci'.wptr, hci'.rptr, p) = c - 1
  <2>1. Between(w, r, p) = c /\ c > 0
    BY <1>4, <1>6, <1>7
  <2> QED
    BY <1>8, <2>1, ReadMoves
<1>10. /\ d + c <= n /\ \A i \in 1 .. d : delivered[i] = sent[i]
       /\ \A i \in 0 .. c - 1 : hci.slots[(r + i) % s] = sent[d + (i + 1)]
  BY <1>3, <1>4, <1>6 DEF FifoHolds
<1>11. hci.slots[r % s] = sent[d + 1] /\ hci.slots[r % s] \in Bytes
  <2>1. 0 \in 0 .. c - 1 /\ r + 0 = r /\ 0 + 1 = 1
    BY <1>7
  <2>2. hci.slots[r % s] = sent[d + 1]
    BY <1>10, <2>1
  <2>3. r % s \in HciSlots
    BY <1>4, <1>6, SlotsAre DEF Pointers
  <2> QED
    BY <1>a, <2>2, <2>3
<1>12. /\ Len(delivered') = d + 1 /\ delivered'[d + 1] = sent[d + 1]
       /\ \A i \in 1 .. d : delivered'[i] = delivered[i]
  <2>1. delivered \in Seq(Bytes)
    BY <1>1 DEF H4Types
  <2> QED
    BY <1>4, <1>8, <1>11, <2>1, AppendProperties
<1>13. \A i \in 1 .. d + 1 : delivered'[i] = sent[i]
  <2> SUFFICES ASSUME NEW i \in 1 .. d + 1 PROVE delivered'[i] = sent[i]
    OBVIOUS
  <2>1. i = d + 1 \/ i \in 1 .. d
    OBVIOUS
  <2> QED
    BY <1>10, <1>12, <2>1
<1>14. ASSUME NEW i \in 0 .. (c - 1) - 1
       PROVE  hci'.slots[(((r + 1) % p) + i) % s] = sent[(d + 1) + (i + 1)]
  <2>0. i \in Int /\ i + 1 \in 0 .. c - 1
    OBVIOUS
  <2>1. PICK j \in 0 .. c - 1 : j = i + 1 /\ j \in Nat
    BY <2>0
  <2>2. (((r + 1) % p) + i) % s = (r + j) % s
    <3>1. PICK v \in 0 .. p - 1 : v = (r + 1) % p
      <4>1. PICK x \in Int : x = r + 1
        OBVIOUS
      <4>2. x % p \in 0 .. p - 1
        BY RemainderOff
      <4> QED
        BY <4>1, <4>2
    <3>2. (v + i) % s = (r + j) % s
      BY <1>5, <2>0, <2>1, <3>1, ReadSlot DEF Following
    <3> QED
      BY <3>1, <3>2
  <2>3. (r + j) % s # r % s
    <3>1. j \in 0 .. s - 1 /\ 0 \in 0 .. s - 1 /\ j # 0 /\ r \in Int /\ r + 0 = r
      BY <1>5, <2>1
    <3>2. (r + j) % s # (r + 0) % s
      BY <3>1, SlotsDiffer
    <3> QED
      BY <3>1, <3>2
  <2>4. (r + j) % s \in HciSlots
    BY <1>4, <1>6, <2>1, SlotsAre DEF Pointers
  <2>5. hci'.slots[(r + j) % s] = hci.slots[(r + j) % s]
    BY <1>8, <1>a, <2>3, <2>4
  <2>6. hci.slots[(r + j) % s] = sent[d + (j + 1)]
    BY <1>10, <2>1
  <2>7. d + (j + 1) = (d + 1) + (i + 1)
    BY <2>0, <2>1
  <2> QED
    BY <2>2, <2>5, <2>6, <2>7
<1>15. FifoHolds(hci', delivered', sent')
  <2>1. (d + 1) + (c - 1) <= n
    BY <1>10
  <2> QED
    BY <1>2, <1>4, <1>8, <1>9, <1>12, <1>13, <1>14, <2>1 DEF FifoHolds
<1>16. Given' = Given
  <2>1. Given = d + c /\ Given' = (d + 1) + (c - 1)
    BY <1>4, <1>9, <1>12 DEF Given
  <2> QED
    BY <2>1
<1>17. ASSUME Live' PROVE NoGap'
  <2>1. Live
    BY <1>2, <1>17 DEF Live, Quiet
  <2>2. PICK st, start, off : InStream(st, start, off)
    BY <2>1 DEF H4Inv, NoGap
  <2>3. Unread' = Unread /\ BufferAt' = BufferAt
    BY <1>2 DEF Unread, BufferAt
  <2>4. InStream(st, start, off)'
    BY <1>2, <1>16, <2>2, <2>3 DEF InStream
  <2> QED
    BY <2>4 DEF NoGap
<1> QED
  BY <1>1, <1>15, <1>17 DEF H4Inv

-----------------------------------------------------------------------------
(* The beginning of a packet, or more than the packet: its header tells. *)
LEMMA HeaderTells ==
  ASSUME NEW p \in Packets, NEW x \in Bytes, Len(x) >= 1,
         \A j \in 1 .. Len(x) : j <= Len(p) => x[j] = p[j]
  PROVE  /\ x[1] \in {CMD, ACL}
         /\ HasHead(x) => PacketLen(x) = Len(p)
         /\ Len(p) <= Len(x) => HasHead(x)
<1>1. /\ p \in Bytes /\ p[1] \in {CMD, ACL} /\ HasHead(p) /\ PacketLen(p) = Len(p)
  BY PacketFacts
<1>2. PICK n \in Nat, l \in Nat : n = Len(p) /\ l = Len(x) /\ n >= 4 /\ l >= 1
  <2>1. Len(x) \in Nat
    BY DEF Bytes
  <2> QED
    BY <2>1, PacketFacts
<1>3. \A j \in 1 .. l : j <= n => x[j] = p[j]
  BY <1>2
<1>4. x[1] = p[1]
  <2>1. 1 \in 1 .. l /\ 1 <= n
    BY <1>2
  <2> QED
    BY <1>3, <2>1
<1>5. PICK h \in {4, 5} : h = IF p[1] = ACL THEN 5 ELSE 4
  OBVIOUS
<1>6. n >= h
  BY <1>1, <1>2, <1>5, HeadOf
<1>7. HasHead(x) <=> l >= h
  BY <1>1, <1>2, <1>4, <1>5, HeadOf
<1>8. ASSUME HasHead(x) PROVE PacketLen(x) = n
  <2>1. l >= h
    BY <1>7, <1>8
  <2>2. 4 \in 1 .. l /\ 4 <= n /\ (h = 5 => 5 \in 1 .. l /\ 5 <= n)
    BY <1>6, <2>1
  <2>3. x[4] = p[4] /\ (h = 5 => x[5] = p[5])
    BY <1>3, <2>2
  <2>4. PacketLen(x) = IF x[1] = ACL THEN 5 + (x[4] + CntVals * x[5]) ELSE 4 + x[4]
    BY <1>1, <1>4, <1>8, HeadOf
  <2>5. PacketLen(p) = IF p[1] = ACL THEN 5 + (p[4] + CntVals * p[5]) ELSE 4 + p[4]
    BY <1>1, HeadOf
  <2>6. PacketLen(x) = PacketLen(p)
    <3>1. CASE p[1] = ACL
      <4>1. x[4] = p[4] /\ x[5] = p[5] /\ x[1] = ACL
        BY <1>4, <1>5, <2>3, <3>1
      <4> QED
        BY <2>4, <2>5, <3>1, <4>1
    <3>2. CASE p[1] # ACL
      BY <1>4, <2>3, <2>4, <2>5, <3>2
    <3> QED
      BY <3>1, <3>2
  <2> QED
    BY <1>1, <1>2, <2>6
<1>9. n <= l => HasHead(x)
  BY <1>6, <1>7
<1> QED
  BY <1>1, <1>2, <1>4, <1>8, <1>9

(* What the handler reads: the bytes behind those of the backup, of the packet
   that is next.                                                           *)
Reads(st, start, off, p) ==
  /\ Given < Len(sent) /\ p = sent[Given + 1] /\ Len(backup.bytes) < Len(p)
  /\ Len(Rest) = handler.len /\ Len(Rest) >= 1
  /\ off[0] = start[Given] + Len(backup.bytes)
  /\ \A j \in 1 .. Len(Rest) : Rest[j] = st[off[0] + j]
  /\ \A j \in 1 .. Len(backup.bytes) : backup.bytes[j] = p[j]
  /\ \A j \in 1 .. Len(Rest) : Len(backup.bytes) + j <= Len(p) => Rest[j] = p[Len(backup.bytes) + j]

LEMMA ReadsNext ==
  ASSUME H4Types, FifoHolds(hci, delivered, sent), Reading,
         NEW st, NEW start, NEW off, InStream(st, start, off)
  PROVE  \E p \in Packets : Reads(st, start, off, p)
<1>0. st \in [Nat -> Nat] /\ start \in [Nat -> Nat] /\ off \in [Nat -> Nat]
  BY DEF InStream, Stream, Within
<1>1. PICK m \in Nat, n \in Nat, u \in Nat, l \in Nat, q \in Nat, h \in Nat :
        /\ m = Given /\ n = Len(sent) /\ u = Unread /\ l = Len(backup.bytes)
        /\ q = handler.pos /\ h = handler.len /\ h >= 1
  <2>1. Len(backup.bytes) \in Nat
    BY DEF H4Types, Backups, Bytes
  <2>2. handler.pos \in Nat /\ handler.len \in Nat /\ handler.len >= 1
    BY DEF H4Types, Handlers, Reading
  <2>3. Given \in Nat /\ Len(sent) \in Nat /\ Unread \in Nat
    BY CountsAre
  <2> QED
    BY <2>1, <2>2, <2>3
<1>2. m <= n
  BY <1>1 DEF FifoHolds, Given
<1>3. u >= 1 /\ q + h = BufferAt.len
  BY <1>1 DEF InStream, HandlerReads
<1>4. PICK a \in Nat, c \in Nat, end \in Nat, s \in Nat :
        a = off[0] /\ c = off[1] /\ end = start[n] /\ s = start[m]
  BY <1>0
<1>5. a <= end /\ c <= end
  <2>1. 0 \in 0 .. u /\ 1 \in 0 .. u
    BY <1>3
  <2> QED
    BY <1>1, <1>4, <2>1 DEF InStream, Within
<1>6. Holds(BufferAt, q, st, a, c)
  <2>1. 0 \in 0 .. u - 1 /\ 0 + 1 = 1
    BY <1>3
  <2>2. dma.rptr + 0 = dma.rptr
    BY DEF H4Types, Dmas, Pointers
  <2>3. Holds(dma.bufs[(dma.rptr + 0) % HCI_H4_TR_RX_BUF_NUM], ReadUpTo(0, q), st, off[0], off[0 + 1])
    BY <1>1, <2>1 DEF InStream, BufsHold
  <2>4. ReadUpTo(0, q) = q
    BY DEF ReadUpTo
  <2> QED
    BY <1>4, <2>1, <2>2, <2>3, <2>4 DEF BufferAt
<1>7. PICK x : x = BufferAt.bytes
  OBVIOUS
<1>8. q + h <= Len(x) /\ c = a + h /\ \A j \in 1 .. h : x[q + j] = st[a + j]
  <2>1. BufferAt.len - q = h
    BY <1>1, <1>3
  <2> QED
    BY <1>3, <1>6, <1>7, <2>1 DEF Holds
<1>9. Len(Rest) = h /\ \A j \in 1 .. h : Rest[j] = st[a + j]
  <2>1. Len(Rest) = h /\ \A j \in 1 .. h : Rest[j] = x[q + j]
    BY <1>1, <1>7, <1>8, RestIs
  <2> QED
    BY <1>8, <2>1
<1>10. a = s + l /\ \A j \in 1 .. l : backup.bytes[j] = st[s + j]
  BY <1>1, <1>4 DEF InStream, BackupHolds
<1>11. m < n
  <2> SUFFICES ASSUME m = n PROVE FALSE
    BY <1>2
  <2>1. s = end
    BY <1>4
  <2> QED
    BY <1>1, <1>5, <1>8, <1>10, <2>1
<1>12. m \in 0 .. n - 1 /\ m + 1 \in 1 .. n
  BY <1>11
<1>13. PICK p \in Packets : p = sent[m + 1]
  BY <1>1, <1>12, ElementOfSeq DEF H4Types
<1>14. PICK k \in Nat : k = Len(p) /\ k >= 4
  BY PacketFacts
<1>15. \A j \in 1 .. k : st[s + j] = p[j]
  BY <1>1, <1>4, <1>12, <1>13, <1>14 DEF InStream, Stream
<1>16. l < k
  <2>1. CASE backup.bytes = <<>>
    BY <1>1, <1>14, <2>1
  <2>2. CASE backup.bytes # <<>>
    BY <1>1, <1>13, <1>14, <2>2 DEF InStream, BackupHolds
  <2> QED
    BY <2>1, <2>2
<1>17. ASSUME NEW j \in 1 .. l PROVE backup.bytes[j] = p[j]
  <2>1. j \in 1 .. k
    BY <1>16
  <2> QED
    BY <1>10, <1>15, <2>1
<1>18. ASSUME NEW j \in 1 .. h, l + j <= k PROVE Rest[j] = p[l + j]
  <2>1. l + j \in 1 .. k /\ a + j = s + (l + j)
    BY <1>10, <1>18
  <2> QED
    BY <1>9, <1>15, <2>1
<1>19. Reads(st, start, off, p)
  BY <1>1, <1>4, <1>9, <1>10, <1>11, <1>13, <1>14, <1>16, <1>17, <1>18 DEF Reads
<1> QED
  BY <1>19

(* The handler takes t bytes: the rest of the packet, or all there are. *)
Advanced(p, t, r) ==
  /\ GoOn(t, handler.len - t, r)
  /\ \/ /\ t = Len(p) - Len(backup.bytes)
        /\ backup' = NoBackup
        /\ hci' = [hci EXCEPT !.slots[hci.wptr % HCI_RX_FIFO_NUM] = p,
                              !.wptr = (@ + 1) % PtrVals]
     \/ /\ t = handler.len /\ Len(backup.bytes) + t < Len(p)
        /\ backup' = [is |-> TRUE, bytes |-> backup.bytes \o Rest, timer |-> TRUE]
        /\ hci' = hci
Advances(p) == \E t \in 1 .. handler.len, r \in BOOLEAN : Advanced(p, t, r)

LEMMA FirstPart ==
  ASSUME NEW d \in Bytes, NEW t \in 0 .. Len(d)
  PROVE  /\ SubSeq(d, 1, t) \in Bytes /\ Len(SubSeq(d, 1, t)) = t
         /\ \A j \in 1 .. t : SubSeq(d, 1, t)[j] = d[j]
         /\ t = Len(d) => SubSeq(d, 1, t) = d
<1>1. t \in Nat /\ t <= Len(d)
  BY DEF Bytes
<1>2. /\ SubSeq(d, 1, t) \in Bytes
      /\ Len(SubSeq(d, 1, t)) = IF 1 <= t THEN t - 1 + 1 ELSE 0
      /\ \A i \in 1 .. t - 1 + 1 : SubSeq(d, 1, t)[i] = d[1 + i - 1]
  BY <1>1, PartOf DEF Bytes
<1>3. t - 1 + 1 = t /\ \A i \in 1 .. t : 1 + i - 1 = i
  BY <1>1
<1>4. (IF 1 <= t THEN t - 1 + 1 ELSE 0) = t
  BY <1>1
<1>5. t = Len(d) => SubSeq(d, 1, t) = d
  BY SubSeqFull DEF Bytes
<1> QED
  BY <1>2, <1>3, <1>4, <1>5

LEMMA ResumeAdvances ==
  ASSUME H4Types, NEW st, NEW start, NEW off, InStream(st, start, off),
         NEW p \in Packets, Reads(st, start, off, p), RxHandlerResume
  PROVE  Advances(p)
<1> DEFINE b == backup.bytes
           d == Rest
<1>1. b \in Bytes /\ d \in Bytes /\ p \in Bytes
  BY RestIs, PacketFacts DEF H4Types, Backups
<1>2. PICK l \in Nat, h \in Nat, k \in Nat :
        l = Len(b) /\ h = handler.len /\ k = Len(p) /\ h = Len(d) /\ h >= 1 /\ l < k /\ k < CntVals
  BY <1>1, PacketFacts DEF Reads, Bytes
<1>3. (\A j \in 1 .. l : b[j] = p[j]) /\ \A j \in 1 .. h : l + j <= k => d[j] = p[l + j]
  BY <1>2 DEF Reads
<1>4. backup.is /\ b # <<>> /\ l # 0
  <2>1. backup.is /\ b # <<>>
    BY DEF RxHandlerResume, InStream, BackupHolds
  <2> QED
    BY <1>1, <1>2, <2>1, EmptyOrNot DEF Bytes
<1> HIDE DEF b, d
(* a beginning of the packet *)
<1>5. ASSUME NEW t \in 0 .. h, l + t <= k, NEW y, y = b \o SubSeq(d, 1, t)
      PROVE  /\ y \in Bytes /\ Len(y) = l + t /\ Counted8(y) = y
             /\ \A j \in 1 .. l + t : y[j] = p[j]
  <2>1. /\ SubSeq(d, 1, t) \in Bytes /\ Len(SubSeq(d, 1, t)) = t
        /\ \A j \in 1 .. t : SubSeq(d, 1, t)[j] = d[j]
    BY <1>1, <1>2, FirstPart
  <2>2. /\ y \in Bytes /\ Len(y) = l + t /\ \A i \in 1 .. l : y[i] = b[i]
        /\ \A i \in 1 .. t : y[l + i] = SubSeq(d, 1, t)[i]
    BY <1>1, <1>2, <1>5, <2>1, Joined DEF Bytes
  <2>3. Counted8(y) = y
    <3>1. l + t < CntVals
      BY <1>2, <1>5, H4ConstantsAre
    <3> QED
      BY <2>2, <3>1, Counted
  <2>4. ASSUME NEW j \in 1 .. l + t PROVE y[j] = p[j]
    <3>1. CASE j <= l
      <4>1. j \in 1 .. l
        BY <3>1
      <4> QED
        BY <1>3, <2>2, <4>1
    <3>2. CASE ~(j <= l)
      <4>1. PICK i \in 1 .. t : i = j - l
        BY <3>2
      <4>2. i \in 1 .. h /\ j = l + i /\ l + i <= k
        BY <1>5, <4>1
      <4> QED
        BY <1>3, <2>1, <2>2, <4>1, <4>2
    <3> QED
      BY <3>1, <3>2
  <2> QED
    BY <2>2, <2>3, <2>4
<1>6. PICK x \in Bytes : x = b \o d /\ Len(x) = l + h /\ \A j \in 1 .. l + h : j <= k => x[j] = p[j]
  <2>1. /\ b \o d \in Bytes /\ Len(b \o d) = l + h
        /\ (\A i \in 1 .. l : (b \o d)[i] = b[i]) /\ \A i \in 1 .. h : (b \o d)[l + i] = d[i]
    BY <1>1, <1>2, Joined DEF Bytes
  <2>2. ASSUME NEW j \in 1 .. l + h, j <= k PROVE (b \o d)[j] = p[j]
    <3>1. CASE j <= l
      <4>1. j \in 1 .. l
        BY <3>1
      <4> QED
        BY <1>3, <2>1, <4>1
    <3>2. CASE ~(j <= l)
      <4>1. PICK i \in 1 .. h : i = j - l
        BY <3>2
      <4>2. j = l + i /\ l + i <= k
        BY <2>2, <4>1
      <4> QED
        BY <1>3, <2>1, <4>1, <4>2
    <3> QED
      BY <3>1, <3>2
  <2> QED
    BY <2>1, <2>2
<1>7. (HasHead(x) => PacketLen(x) = k) /\ (k <= l + h => HasHead(x))
  <2>1. Len(x) >= 1 /\ \A j \in 1 .. Len(x) : j <= Len(p) => x[j] = p[j]
    BY <1>2, <1>6
  <2> QED
    BY <1>2, <1>6, <2>1, HeaderTells
<1>8. b[1] \in {CMD, ACL}
  <2>1. 1 \in 1 .. l
    BY <1>4
  <2> QED
    BY <1>3, <2>1, PacketFacts
<1>9. PICK t \in 0 .. h : t = IF l + h < k THEN h ELSE k - l
  <2>1. h \in 0 .. h /\ (~(l + h < k) => k - l \in 0 .. h)
    BY <1>2
  <2> QED
    BY <2>1
<1>10. Take(b, d) = t
  <2>1. CASE ~HasHead(x)
    <3>1. Take(b, d) = h
      BY <1>2, <1>6, <2>1 DEF Take
    <3>2. l + h < k
      BY <1>7, <2>1
    <3> QED
      BY <1>9, <3>1, <3>2
  <2>2. CASE HasHead(x)
    <3>1. PICK rest \in Nat : rest = k - l
      BY <1>2
    <3>2. PacketLen(x) = k
      BY <1>7, <2>2
    <3>3. Take(b, d) = IF rest < 0 THEN h ELSE Least(rest, h)
      BY <1>2, <1>4, <1>6, <1>8, <2>2, <3>1, <3>2 DEF Take
    <3>4. Take(b, d) = IF rest < h THEN rest ELSE h
      BY <3>1, <3>3 DEF Least
    <3> QED
      BY <1>9, <3>1, <3>4
  <2> QED
    BY <2>1, <2>2
<1>11. l + t <= k /\ t \in 1 .. h /\ t < CntVals
  BY <1>2, <1>9, H4ConstantsAre
<1>12. PICK y : y = b \o SubSeq(d, 1, t)
  OBVIOUS
<1>13. /\ y \in Bytes /\ Len(y) = l + t /\ Counted8(y) = y
       /\ \A j \in 1 .. l + t : y[j] = p[j]
  BY <1>5, <1>11, <1>12
<1>14. GoOn(t, handler.len - t, TRUE)
  <2>1. t % CntVals = t
    <3>1. PICK c \in Nat \ {0} : c = CntVals /\ t \in 0 .. c - 1
      BY <1>11, H4ConstantsAre
    <3> QED
      BY <3>1, SmallRemainder
  <2>2. GoOn(Take(b, d) % CntVals, handler.len - (Take(b, d) % CntVals), TRUE)
    BY DEF RxHandlerResume, b, d
  <2> QED
    BY <1>10, <2>1, <2>2
<1>15. BackUpHandler(d)
  BY DEF RxHandlerResume, d
<1>16. IF y # <<>> /\ HasHead(y) /\ Len(y) = PacketLen(y)
       THEN /\ backup' = NoBackup
            /\ hci' = [hci EXCEPT !.slots[hci.wptr % HCI_RX_FIFO_NUM] = y,
                                  !.wptr = (@ + 1) % PtrVals]
       ELSE backup' = [backup EXCEPT !.bytes = y, !.timer = TRUE] /\ UNCHANGED hci
  <2>1. Counted8(b \o SubSeq(d, 1, Take(b, d))) = y
    BY <1>10, <1>12, <1>13
  <2> QED
    BY <1>4, <1>8, <1>15, <2>1 DEF BackUpHandler, b
<1>17. CASE l + h < k
  <2>1. t = h
    BY <1>9, <1>17
  <2>2. SubSeq(d, 1, t) = d
    BY <1>1, <1>2, <2>1, FirstPart
  <2>3. y = x
    BY <1>6, <1>12, <2>2
  <2>4. ~(HasHead(y) /\ Len(y) = PacketLen(y))
    BY <1>7, <1>13, <1>17, <2>1, <2>3
  <2>5. backup' = [backup EXCEPT !.bytes = y, !.timer = TRUE] /\ hci' = hci
    BY <1>16, <2>4
  <2>6. backup' = [is |-> TRUE, bytes |-> b \o d, timer |-> TRUE]
    BY <1>4, <1>6, <2>3, <2>5 DEF H4Types, Backups
  <2>7. Advanced(p, t, TRUE)
    BY <1>2, <1>14, <1>17, <2>1, <2>5, <2>6 DEF Advanced, b, d
  <2> QED
    BY <1>2, <1>11, <2>7 DEF Advances
<1>18. CASE ~(l + h < k)
  <2>1. t = k - l /\ l + t = k
    BY <1>2, <1>9, <1>18
  <2>2. y = p
    <3>1. Len(y) = Len(p) /\ \A j \in 1 .. Len(y) : y[j] = p[j]
      BY <1>2, <1>13, <2>1
    <3> QED
      BY <1>1, <1>13, <3>1, SeqEqual DEF Bytes
  <2>3. y # <<>> /\ HasHead(y) /\ Len(y) = PacketLen(y)
    <3>1. HasHead(p) /\ PacketLen(p) = Len(p) /\ Len(p) >= 4
      BY PacketFacts
    <3>2. Len(<<>>) = 0
      OBVIOUS
    <3> QED
      BY <1>2, <2>2, <3>1, <3>2
  <2>4. /\ backup' = NoBackup
        /\ hci' = [hci EXCEPT !.slots[hci.wptr % HCI_RX_FIFO_NUM] = p,
                              !.wptr = (@ + 1) % PtrVals]
    BY <1>16, <2>2, <2>3
  <2>5. t = Len(p) - Len(backup.bytes)
    BY <1>2, <2>1 DEF b
  <2>6. Advanced(p, t, TRUE)
    BY <1>14, <2>4, <2>5 DEF Advanced
  <2> QED
    BY <1>2, <1>11, <2>6 DEF Advances
<1> QED
  BY <1>17, <1>18

LEMMA PacketAdvances ==
  ASSUME H4Types, NEW st, NEW start, NEW off, InStream(st, start, off),
         NEW p \in Packets, Reads(st, start, off, p), RxHandlerPacket
  PROVE  Advances(p)
<1> DEFINE d == Rest
<1>1. backup = NoBackup /\ backup.bytes = <<>> /\ Len(backup.bytes) = 0
  <2>1. ~backup.is
    BY DEF RxHandlerPacket, InStream, HandlerReads
  <2>2. backup.bytes = <<>> /\ ~backup.timer
    BY <2>1 DEF InStream, BackupHolds
  <2>3. Len(<<>>) = 0
    OBVIOUS
  <2> QED
    BY <2>2, <2>3 DEF H4Types
<1>2. d \in Bytes /\ p \in Bytes
  BY RestIs, PacketFacts
<1>3. PICK h \in Nat, k \in Nat :
        h = handler.len /\ k = Len(p) /\ h = Len(d) /\ h >= 1 /\ k < CntVals /\ k >= 4
  BY <1>2, PacketFacts DEF Reads, Bytes
<1>4. \A j \in 1 .. h : j <= k => d[j] = p[j]
  <2>1. \A j \in 1 .. h : 0 + j <= k => d[j] = p[0 + j]
    BY <1>1, <1>3 DEF Reads
  <2>2. \A j \in 1 .. h : 0 + j = j
    OBVIOUS
  <2> QED
    BY <2>1, <2>2
<1> HIDE DEF d
<1>5. /\ d[1] \in {CMD, ACL} /\ (HasHead(d) => PacketLen(d) = k) /\ (k <= h => HasHead(d))
  <2>1. Len(d) >= 1 /\ \A j \in 1 .. Len(d) : j <= Len(p) => d[j] = p[j]
    BY <1>3, <1>4
  <2> QED
    BY <1>2, <1>3, <2>1, HeaderTells
<1>6. ParsePacket
  BY <1>5 DEF RxHandlerPacket, d
<1>7. CASE k <= h
  <2>1. WholePacket(d) /\ PacketLen(d) = k
    BY <1>3, <1>5, <1>7 DEF WholePacket
  <2>2. SubSeq(d, 1, k) = p
    <3>1. k \in 0 .. Len(d)
      BY <1>3, <1>7
    <3>2. /\ SubSeq(d, 1, k) \in Bytes /\ Len(SubSeq(d, 1, k)) = k
          /\ \A j \in 1 .. k : SubSeq(d, 1, k)[j] = d[j]
      BY <1>2, <3>1, FirstPart
    <3>3. \A j \in 1 .. k : j \in 1 .. h /\ j <= k
      BY <1>7
    <3>4. \A j \in 1 .. k : SubSeq(d, 1, k)[j] = p[j]
      BY <1>4, <3>2, <3>3
    <3> QED
      BY <1>2, <1>3, <3>2, <3>4, SeqEqual DEF Bytes
  <2>3. /\ hci' = [hci EXCEPT !.slots[hci.wptr % HCI_RX_FIFO_NUM] = p,
                              !.wptr = (@ + 1) % PtrVals]
        /\ GoOn(k, handler.len - k, FALSE) /\ backup' = NoBackup
    BY <1>1, <1>6, <2>1, <2>2 DEF ParsePacket, d
  <2>4. k = Len(p) - Len(backup.bytes)
    BY <1>1, <1>3
  <2>5. Advanced(p, k, FALSE)
    BY <2>3, <2>4 DEF Advanced
  <2>6. k \in 1 .. handler.len /\ FALSE \in BOOLEAN
    BY <1>3, <1>7
  <2> QED
    BY <2>5, <2>6 DEF Advances
<1>8. CASE ~(k <= h)
  <2>1. ~WholePacket(d)
    BY <1>3, <1>5, <1>8 DEF WholePacket
  <2>2. BackUpHandler(d) /\ GoOn(h, 0, FALSE)
    BY <1>3, <1>6, <2>1 DEF ParsePacket, d
  <2>3. backup' = Stored(d) /\ hci' = hci
    BY <1>1, <2>2 DEF BackUpHandler
  <2>4. Counted8(d) = d
    <3>1. h < CntVals
      BY <1>3, <1>8, H4ConstantsAre
    <3> QED
      BY <1>2, <1>3, <3>1, Counted
  <2>5. backup.bytes \o d = d
    BY <1>1, <1>2, ConcatEmptySeq DEF Bytes
  <2>6. backup' = [is |-> TRUE, bytes |-> backup.bytes \o d, timer |-> TRUE]
    BY <2>3, <2>4, <2>5 DEF Stored
  <2>7. h = handler.len /\ Len(backup.bytes) + h < Len(p)
    BY <1>1, <1>3, <1>8
  <2>8. handler.len - h = 0
    BY <1>3
  <2>9. Advanced(p, h, FALSE)
    BY <2>2, <2>3, <2>6, <2>7, <2>8 DEF Advanced, d
  <2>10. h \in 1 .. handler.len /\ FALSE \in BOOLEAN
    BY <1>3
  <2> QED
    BY <2>9, <2>10 DEF Advances
<1> QED
  BY <1>7, <1>8

(* What was taken is in the backup or in the FIFO; what follows, or the next
   buffer, is read on.                                                     *)
LEMMA AdvanceFifo ==
  ASSUME FlowControlled, H4Types, FifoHolds(hci, delivered, sent),
         Given < Len(sent), NEW p \in Packets, p = sent[Given + 1],
         hci' = [hci EXCEPT !.slots[hci.wptr % HCI_RX_FIFO_NUM] = p, !.wptr = (@ + 1) % PtrVals]
  PROVE  /\ FifoHolds(hci', delivered, sent)
         /\ Between(hci'.wptr, hci'.rptr, PtrVals) = Between(hci.wptr, hci.rptr, PtrVals) + 1
<1>0. /\ Len(delivered) \in Nat /\ Len(sent) \in Nat /\ Between(hci.wptr, hci.rptr, PtrVals) \in Nat
      /\ HCI_RX_FIFO_NUM \in Nat \ {0} /\ PtrVals \in Nat \ {0}
  <2>1. Between(hci.wptr, hci.rptr, PtrVals) \in 0 .. PtrVals - 1
    BY CountsAre
  <2>2. Between(hci.wptr, hci.rptr, PtrVals) \in Nat
    BY <2>1, H4ConstantsAre
  <2> QED
    BY <2>2, CountsAre, H4ConstantsAre
<1>4. PICK d \in Nat, n \in Nat, c \in Nat, s \in Nat \ {0}, v \in Nat \ {0} :
        /\ d = Len(delivered) /\ n = Len(sent) /\ c = Between(hci.wptr, hci.rptr, PtrVals)
        /\ s = HCI_RX_FIFO_NUM /\ v = PtrVals
  BY <1>0
<1>5. IsMultiple(v, s) /\ s < v
  BY <1>4, Divides, H4ConstantsAre
<1>a. hci.wptr \in 0 .. v - 1 /\ hci.rptr \in 0 .. v - 1 /\ hci.slots \in [HciSlots -> Bytes]
  BY <1>4 DEF H4Types, Fifos, Pointers
<1>6. PICK w \in 0 .. v - 1, r \in 0 .. v - 1 : w = hci.wptr /\ r = hci.rptr
  BY <1>a
<1>7. d + c < n /\ p = sent[d + (c + 1)]
  <2>1. Given = d + c /\ (d + c) + 1 = d + (c + 1)
    BY <1>4 DEF Given
  <2> QED
    BY <1>4, <2>1
<1>8. c < s
  <2>1. PICK g \in Nat : g = HostCredits /\ g <= s
    BY <1>4, H4ConstantsAre DEF FlowControlled
  <2>2. n - d <= g
    BY <1>4, <2>1 DEF H4Types
  <2>3. d + c < n
    BY <1>7
  <2>4. c < g
    BY <2>2, <2>3
  <2> QED
    BY <2>1, <2>4
<1>9. /\ hci'.wptr = (w + 1) % v /\ hci'.rptr = r
      /\ hci'.slots = [hci.slots EXCEPT ![w % s] = p]
  BY <1>4, <1>6 DEF H4Types, Fifos
<1>10. Between(hci'.wptr, hci'.rptr, v) = c + 1
  <2>1. Between(w, r, v) = c /\ c + 1 < v
    BY <1>4, <1>5, <1>6, <1>8
  <2> QED
    BY <1>9, <2>1, WriteMoves
<1>11. w % s = (r + c) % s
  <2>1. w % s = (r + Between(w, r, v)) % s
    BY <1>5, WriteSlot
  <2> QED
    BY <1>4, <1>6, <2>1
<1>12. /\ \A i \in 1 .. d : delivered[i] = sent[i]
       /\ \A i \in 0 .. c - 1 : hci.slots[(r + i) % s] = sent[d + (i + 1)]
  BY <1>4, <1>6 DEF FifoHolds
<1>13. ASSUME NEW i \in 0 .. (c + 1) - 1 PROVE hci'.slots[(r + i) % s] = sent[d + (i + 1)]
  <2>0. i \in Nat /\ i \in 0 .. s - 1 /\ c \in 0 .. s - 1 /\ r \in Int
    BY <1>8
  <2>1. (r + i) % s \in HciSlots
    BY <1>4, <1>6, <2>0, SlotsAre DEF Pointers
  <2>2. CASE i = c
    <3>1. w % s = (r + i) % s
      BY <1>11, <2>2
    <3>2. hci'.slots[w % s] = p
      BY <1>a, <1>9, <2>1, <3>1
    <3> QED
      BY <1>7, <2>2, <3>1, <3>2
  <2>3. CASE i # c
    <3>1. (r + i) % s # (r + c) % s
      BY <2>0, <2>3, SlotsDiffer
    <3>2. i \in 0 .. c - 1
      BY <2>3
    <3> QED
      BY <1>a, <1>9, <1>11, <1>12, <2>1, <3>1, <3>2
  <2> QED
    BY <2>2, <2>3
<1>14. d + (c + 1) <= n
  BY <1>7
<1> QED
  BY <1>4, <1>9, <1>10, <1>12, <1>13, <1>14 DEF FifoHolds

Completes(p, t, m2) ==
  m2 = Given + 1 /\ t = Len(p) - Len(backup.bytes) /\ backup' = NoBackup
Prolongs(p, t, m2) ==
  /\ m2 = Given /\ t = handler.len /\ Len(backup.bytes) + t < Len(p)
  /\ backup' = [is |-> TRUE, bytes |-> backup.bytes \o Rest, timer |-> TRUE]

LEMMA AdvanceBackup ==
  ASSUME H4Types, NEW st, NEW start, NEW off, InStream(st, start, off),
         NEW p \in Packets, Reads(st, start, off, p),
         NEW t \in Nat, NEW m2 \in Nat, Completes(p, t, m2) \/ Prolongs(p, t, m2)
  PROVE  BackupHolds(backup', m2, sent, st, start, off[0] + t)
<1> DEFINE b == backup.bytes
           d == Rest
<1>0. b \in Bytes /\ d \in Bytes
  BY RestIs DEF H4Types, Backups
<1>1. PICK m \in Nat, n \in Nat, l \in Nat, k \in Nat, h \in Nat :
        /\ m = Given /\ n = Len(sent) /\ l = Len(b) /\ k = Len(p)
        /\ h = handler.len /\ h = Len(d) /\ l < k /\ h >= 1
  <2>1. Len(backup.bytes) \in Nat /\ handler.len \in Nat
    BY DEF H4Types, Backups, Bytes, Handlers
  <2> QED
    BY <2>1, CountsAre, PacketFacts DEF Reads
<1> HIDE DEF b, d
<1>2. m < n /\ p = sent[m + 1]
  BY <1>1 DEF Reads
<1>3. PICK s \in Nat, a \in Nat : s = start[m] /\ a = off[0] /\ a = s + l
  <2>1. start[m] \in Nat /\ off[0] \in Nat
    BY DEF InStream, Stream, Within
  <2> QED
    BY <1>1, <2>1 DEF Reads, b
<1>4. start[m + 1] = s + k
  <2>1. m \in 0 .. n - 1
    BY <1>2
  <2> QED
    BY <1>1, <1>2, <1>3, <2>1 DEF InStream, Stream
<1>5. ASSUME Completes(p, t, m2)
      PROVE  BackupHolds(backup', m2, sent, st, start, off[0] + t)
  <2>1. backup'.bytes = <<>> /\ ~backup'.is /\ ~backup'.timer /\ Len(backup'.bytes) = 0
    BY <1>5 DEF Completes, NoBackup
  <2>2. t = k - l /\ m2 = m + 1
    BY <1>1, <1>5 DEF Completes, b
  <2>3. a + t = (s + k) + 0
    BY <1>3, <2>2
  <2>4. off[0] + t = start[m2] + 0
    BY <1>3, <1>4, <2>2, <2>3
  <2> QED
    BY <2>1, <2>4 DEF BackupHolds
<1>6. ASSUME Prolongs(p, t, m2)
      PROVE  BackupHolds(backup', m2, sent, st, start, off[0] + t)
  <2>0. /\ m2 = m /\ t = h /\ l + t < k
        /\ backup' = [is |-> TRUE, bytes |-> b \o d, timer |-> TRUE]
    BY <1>1, <1>6 DEF Prolongs, b, d
  <2>a. /\ b \o d \in Bytes /\ Len(b \o d) = l + h
        /\ (\A i \in 1 .. l : (b \o d)[i] = b[i]) /\ \A i \in 1 .. h : (b \o d)[l + i] = d[i]
    BY <1>0, <1>1, Joined DEF Bytes
  <2>1. PICK x \in Bytes : x = b \o d
    BY <2>a
  <2>2. /\ Len(x) = l + h
        /\ (\A i \in 1 .. l : x[i] = b[i]) /\ \A i \in 1 .. h : x[l + i] = d[i]
    BY <2>a, <2>1
  <2>3. x # <<>>
    <3>1. l + h # 0
      BY <1>1
    <3> QED
      BY <2>2, <3>1, EmptyOrNot DEF Bytes
  <2>4. /\ \A j \in 1 .. l : b[j] = st[s + j]
        /\ \A j \in 1 .. h : d[j] = st[a + j]
    BY <1>1, <1>3 DEF InStream, BackupHolds, Reads, b, d
  <2>5. ASSUME NEW j \in 1 .. l + h PROVE x[j] = st[s + j]
    <3>1. CASE j <= l
      <4>1. j \in 1 .. l
        BY <3>1
      <4> QED
        BY <2>2, <2>4, <4>1
    <3>2. CASE ~(j <= l)
      <4>1. PICK i \in 1 .. h : i = j - l
        BY <3>2
      <4>2. j = l + i /\ a + i = s + j
        BY <1>3, <4>1
      <4>3. x[l + i] = d[i] /\ d[i] = st[a + i]
        BY <2>2, <2>4
      <4> QED
        BY <4>2, <4>3
    <3> QED
      BY <3>1, <3>2
  <2>6. backup'.bytes = x /\ backup'.is /\ backup'.timer
    BY <2>0, <2>1
  <2>7. m2 < Len(sent) /\ Len(x) < Len(sent[m2 + 1])
    BY <1>1, <1>2, <2>0, <2>2
  <2>8. off[0] + t = start[m2] + (l + h)
    <3>1. a + h = s + (l + h)
      BY <1>3
    <3> QED
      BY <1>3, <2>0, <3>1
  <2>9. start[m2] = s
    BY <1>3, <2>0
  <2>10. /\ \A j \in 1 .. Len(x) : x[j] = st[start[m2] + j]
         /\ off[0] + t = start[m2] + Len(x)
    BY <2>2, <2>5, <2>8, <2>9
  <2> QED
    BY <2>3, <2>6, <2>7, <2>10 DEF BackupHolds
<1> QED
  BY <1>5, <1>6

(* The same buffer, read further, or the buffers that follow *)
MovedOn(st, off, off2, t, end) ==
  /\ Within(off2, Unread', end) /\ off2[0] = off[0] + t /\ off2[Unread'] = off[Unread]
  /\ BufsHold(Unread', dma'.rptr, dma'.bufs, handler'.pos, st, off2)
  /\ Unread' <= HCI_H4_TR_RX_BUF_NUM
  /\ handler'.len > 0 => Unread' >= 1 /\ handler'.pos + handler'.len = BufferAt'.len

LEMMA ReadsOn ==
  ASSUME H4Types, Reading, NEW st, NEW start, NEW off, InStream(st, start, off),
         NEW t \in Nat, t >= 1, t < handler.len, NEW r \in BOOLEAN, GoOn(t, handler.len - t, r)
  PROVE  \E off2 : MovedOn(st, off, off2, t, start[Len(sent)])
<1>1. PICK u \in Nat, q \in Nat, h \in Nat, rp \in Nat :
        u = Unread /\ q = handler.pos /\ h = handler.len /\ rp = dma.rptr
  BY CountsAre DEF H4Types, Handlers, Dmas, Pointers
<1>t. t \in Nat /\ t >= 1 /\ t < h
  BY <1>1
<1>2. dma' = dma /\ handler' = [pos |-> q + t, len |-> h - t, resumed |-> r] /\ h - t # 0
  BY <1>1 DEF GoOn
<1>3. Unread' = u /\ BufferAt' = BufferAt
  BY <1>1, <1>2 DEF Unread, BufferAt
<1>4. u >= 1 /\ q + h = BufferAt.len /\ u <= HCI_H4_TR_RX_BUF_NUM
  BY <1>1 DEF InStream, HandlerReads
<1>5. off \in [Nat -> Nat] /\ \A i \in 0 .. u : off[i] <= start[Len(sent)]
  BY <1>1 DEF InStream, Within
<1>6. PICK a \in Nat, c \in Nat : a = off[0] /\ c = off[1]
  BY <1>5
<1>7. BufferAt = dma.bufs[(rp + 0) % HCI_H4_TR_RX_BUF_NUM]
  <2>1. rp + 0 = rp
    OBVIOUS
  <2> QED
    BY <1>1, <2>1 DEF BufferAt
<1>8. Holds(BufferAt, q, st, a, c)
  <2>1. 0 \in 0 .. u - 1 /\ 0 + 1 = 1
    BY <1>4
  <2>2. Holds(dma.bufs[(rp + 0) % HCI_H4_TR_RX_BUF_NUM], ReadUpTo(0, q), st, off[0], off[0 + 1])
    BY <1>1, <2>1 DEF InStream, BufsHold
  <2>3. ReadUpTo(0, q) = q
    BY DEF ReadUpTo
  <2> QED
    BY <1>6, <1>7, <2>1, <2>2, <2>3
<1>9. PICK x : x = BufferAt.bytes
  OBVIOUS
<1>10. PICK e \in Nat : e = BufferAt.len /\ e = q + h
  BY <1>4
<1>11. e <= Len(x) /\ c = a + (e - q) /\ \A j \in 1 .. e - q : x[q + j] = st[a + j]
  BY <1>8, <1>9, <1>10 DEF Holds
<1>12. Holds(BufferAt, q + t, st, a + t, c)
  <2>1. q + t < e /\ c = (a + t) + (e - (q + t))
    BY <1>t, <1>10, <1>11
  <2>2. ASSUME NEW j \in 1 .. e - (q + t) PROVE x[(q + t) + j] = st[(a + t) + j]
    <3>1. t + j \in 1 .. e - q /\ q + (t + j) = (q + t) + j /\ a + (t + j) = (a + t) + j
      BY <1>t
    <3> QED
      BY <1>11, <3>1
  <2> QED
    BY <1>9, <1>10, <1>11, <2>1, <2>2 DEF Holds
<1>13. PICK off2 : off2 = [i \in Nat |-> IF i = 0 THEN a + t ELSE off[i]]
  OBVIOUS
<1>14. off2 \in [Nat -> Nat] /\ off2[0] = a + t /\ \A i \in Nat \ {0} : off2[i] = off[i]
  <2>1. a + t \in Nat
    OBVIOUS
  <2>2. \A i \in Nat : off[i] \in Nat
    BY <1>5
  <2> QED
    BY <1>13, <2>1, <2>2
<1>15. Within(off2, u, start[Len(sent)])
  <2>1. ASSUME NEW i \in 0 .. u PROVE off2[i] <= start[Len(sent)]
    <3>1. CASE i = 0
      <4>1. PICK end \in Nat : end = start[Len(sent)]
        BY CountsAre DEF InStream, Stream
      <4>2. c <= end
        <5>1. 1 \in 0 .. u
          BY <1>4
        <5> QED
          BY <1>5, <1>6, <4>1, <5>1
      <4>3. a + t <= c
        BY <1>t, <1>10, <1>11
      <4>4. a + t <= end
        BY <4>2, <4>3
      <4>5. off2[i] = a + t
        BY <1>14, <3>1
      <4> QED
        BY <4>1, <4>4, <4>5
    <3>2. CASE i # 0
      <4>1. i \in Nat \ {0}
        BY <3>2
      <4>2. off2[i] = off[i]
        BY <1>14, <4>1
      <4>3. off[i] <= start[Len(sent)]
        BY <1>5
      <4> QED
        BY <4>2, <4>3
    <3> QED
      BY <3>1, <3>2
  <2> QED
    BY <1>14, <2>1 DEF Within
<1>16. off2[u] = off[u]
  BY <1>4, <1>14
<1>17. BufsHold(u, rp, dma.bufs, q + t, st, off2)
  <2> SUFFICES ASSUME NEW i \in 0 .. u - 1
               PROVE  Holds(dma.bufs[(rp + i) % HCI_H4_TR_RX_BUF_NUM], ReadUpTo(i, q + t), st, off2[i], off2[i + 1])
    BY DEF BufsHold
  <2>0. i + 1 \in Nat \ {0}
    OBVIOUS
  <2>1. CASE i = 0
    <3>1. off2[i] = a + t /\ off2[i + 1] = c /\ ReadUpTo(i, q + t) = q + t
      <4>1. i + 1 = 1
        BY <2>1
      <4> QED
        BY <1>6, <1>14, <2>0, <2>1, <4>1 DEF ReadUpTo
    <3> QED
      BY <1>7, <1>12, <2>1, <3>1
  <2>2. CASE i # 0
    <3>1. i \in Nat \ {0}
      BY <2>2
    <3>2. off2[i] = off[i] /\ off2[i + 1] = off[i + 1] /\ ReadUpTo(i, q + t) = ReadUpTo(i, q)
      BY <1>14, <2>0, <2>2, <3>1 DEF ReadUpTo
    <3>3. Holds(dma.bufs[(rp + i) % HCI_H4_TR_RX_BUF_NUM], ReadUpTo(i, q), st, off[i], off[i + 1])
      BY <1>1 DEF InStream, BufsHold
    <3> QED
      BY <3>2, <3>3
  <2> QED
    BY <2>1, <2>2
<1>18. handler'.pos = q + t /\ handler'.len = h - t /\ (q + t) + (h - t) = BufferAt.len
  BY <1>2, <1>10
<1>19. MovedOn(st, off, off2, t, start[Len(sent)])
  BY <1>1, <1>2, <1>3, <1>4, <1>6, <1>14, <1>15, <1>16, <1>17, <1>18 DEF MovedOn
<1> QED
  BY <1>19

LEMMA Releases ==
  ASSUME H4Types, Reading, NEW st, NEW start, NEW off, InStream(st, start, off),
         NEW r \in BOOLEAN, GoOn(handler.len, handler.len - handler.len, r)
  PROVE  \E off2 : MovedOn(st, off, off2, handler.len, start[Len(sent)])
<1>1. PICK u \in Nat, q \in Nat, h \in Nat, v \in Nat \ {0}, s \in Nat \ {0} :
        /\ u = Unread /\ q = handler.pos /\ h = handler.len
        /\ v = PtrVals /\ s = HCI_H4_TR_RX_BUF_NUM
  BY CountsAre, H4ConstantsAre DEF H4Types, Handlers
<1>a. dma.wptr \in 0 .. v - 1 /\ dma.rptr \in 0 .. v - 1 /\ dma.bufs \in [BufSlots -> Buffers]
  BY <1>1 DEF H4Types, Dmas, Pointers
<1>b. PICK w \in 0 .. v - 1, rp \in 0 .. v - 1 : w = dma.wptr /\ rp = dma.rptr
  BY <1>a
<1>2. /\ handler' = NoBuffer /\ dma'.wptr = w /\ dma'.rptr = (rp + 1) % v
      /\ dma'.bufs = [dma.bufs EXCEPT ![rp % s] = EmptyBuf]
  <2>1. handler.len - handler.len = 0
    BY <1>1
  <2> QED
    BY <1>1, <1>b, <2>1 DEF GoOn, NoBuffer, H4Types, Dmas
<1>3. u >= 1 /\ q + h = BufferAt.len /\ u <= s
  BY <1>1 DEF InStream, HandlerReads, Reading
<1>4. PICK u2 \in Nat : u2 = u - 1
  BY <1>3
<1>5. Unread' = u2
  <2>1. Between(w, rp, v) = u /\ u > 0
    BY <1>1, <1>3, <1>b DEF Unread
  <2>2. Between(w, (rp + 1) % v, v) = u - 1
    BY <2>1, ReadMoves
  <2> QED
    BY <1>1, <1>2, <1>4, <2>2 DEF Unread
<1>6. off \in [Nat -> Nat] /\ \A i \in 0 .. u : off[i] <= start[Len(sent)]
  BY <1>1 DEF InStream, Within
<1>7. off[1] = off[0] + h
  <2>1. 0 \in 0 .. u - 1 /\ 0 + 1 = 1 /\ rp + 0 = rp
    BY <1>3
  <2>2. Holds(dma.bufs[(rp + 0) % s], ReadUpTo(0, q), st, off[0], off[0 + 1])
    BY <1>1, <1>b, <2>1 DEF InStream, BufsHold
  <2>3. ReadUpTo(0, q) = q
    BY DEF ReadUpTo
  <2>4. Holds(BufferAt, q, st, off[0], off[1])
    BY <1>1, <1>b, <2>1, <2>2, <2>3 DEF BufferAt
  <2>5. off[1] = off[0] + (BufferAt.len - q)
    BY <2>4 DEF Holds
  <2>6. BufferAt.len - q = h
    BY <1>3
  <2> QED
    BY <2>5, <2>6
<1>8. PICK off2 : off2 = [i \in Nat |-> off[i + 1]]
  OBVIOUS
<1>9. off2 \in [Nat -> Nat] /\ \A i \in Nat : off2[i] = off[i + 1]
  <2>1. \A i \in Nat : off[i + 1] \in Nat
    BY <1>6
  <2> QED
    BY <1>8, <2>1
<1>10. Within(off2, u2, start[Len(sent)])
  <2>1. ASSUME NEW i \in 0 .. u2 PROVE off2[i] <= start[Len(sent)]
    <3>1. i \in Nat /\ i + 1 \in 0 .. u
      BY <1>4
    <3> QED
      BY <1>6, <1>9, <3>1
  <2> QED
    BY <1>9, <2>1 DEF Within
<1>11. off2[0] = off[0] + h /\ off2[u2] = off[u]
  <2>1. 0 + 1 = 1 /\ u2 + 1 = u /\ off2[0] = off[0 + 1] /\ off2[u2] = off[u2 + 1]
    BY <1>4, <1>9
  <2> QED
    BY <1>7, <2>1
<1>12. PICK rp2 \in 0 .. v - 1 : rp2 = (rp + 1) % v
  <2>1. PICK x \in Int : x = rp + 1
    OBVIOUS
  <2>2. x % v \in 0 .. v - 1
    BY RemainderOff
  <2> QED
    BY <2>1, <2>2
<1>13. BufsHold(u2, rp2, dma'.bufs, 0, st, off2)
  <2> SUFFICES ASSUME NEW i \in 0 .. u2 - 1
               PROVE  Holds(dma'.bufs[(rp2 + i) % s], ReadUpTo(i, 0), st, off2[i], off2[i + 1])
    BY <1>1 DEF BufsHold
  <2>0. i \in Nat /\ i \in Int /\ i + 1 \in 1 .. u - 1
    BY <1>4
  <2>1. PICK j \in 1 .. u - 1 : j = i + 1 /\ j \in Nat /\ j \in Int
    BY <2>0
  <2>2. (rp2 + i) % s = (rp + j) % s
    <3>1. IsMultiple(v, s)
      BY <1>1, Divides, H4ConstantsAre
    <3> QED
      BY <1>12, <2>0, <2>1, <3>1, ReadSlot DEF Following
  <2>3. (rp + j) % s # rp % s
    <3>1. j \in 0 .. s - 1 /\ 0 \in 0 .. s - 1 /\ j # 0 /\ rp \in Int /\ rp + 0 = rp
      BY <1>3, <2>1
    <3>2. (rp + j) % s # (rp + 0) % s
      BY <3>1, SlotsDiffer
    <3> QED
      BY <3>1, <3>2
  <2>4. (rp + j) % s \in BufSlots
    BY <1>1, <1>b, <2>1, SlotsAre DEF Pointers
  <2>5. dma'.bufs[(rp2 + i) % s] = dma.bufs[(rp + j) % s]
    BY <1>2, <1>a, <2>2, <2>3, <2>4
  <2>6. off2[i] = off[j] /\ off2[i + 1] = off[j + 1] /\ ReadUpTo(i, 0) = ReadUpTo(j, q)
    <3>1. off2[i] = off[j] /\ off2[i + 1] = off[j + 1]
      BY <1>9, <2>0, <2>1
    <3>2. j # 0
      OBVIOUS
    <3> QED
      BY <3>1, <3>2 DEF ReadUpTo
  <2>7. Holds(dma.bufs[(rp + j) % s], ReadUpTo(j, q), st, off[j], off[j + 1])
    <3>1. j \in 0 .. u - 1
      BY <2>1
    <3> QED
      BY <1>1, <1>b, <3>1 DEF InStream, BufsHold
  <2> QED
    BY <2>5, <2>6, <2>7
<1>14. handler'.pos = 0 /\ ~(handler'.len > 0)
  BY <1>2 DEF NoBuffer
<1>15. u2 <= s
  BY <1>3, <1>4
<1>16. MovedOn(st, off, off2, h, start[Len(sent)])
  BY <1>1, <1>2, <1>5, <1>10, <1>11, <1>12, <1>13, <1>14, <1>15 DEF MovedOn
<1> QED
  BY <1>1, <1>16

(* Both together: the FIFO goes on, or the backup does. *)
LEMMA Advancing ==
  ASSUME FlowControlled, H4Types, FifoHolds(hci, delivered, sent), UNCHANGED <<sent, delivered>>,
         NEW st, NEW start, NEW off, NEW p \in Packets, Reads(st, start, off, p),
         NEW t \in Nat, NEW r, Advanced(p, t, r)
  PROVE  /\ FifoHolds(hci', delivered', sent') /\ Given' \in Nat
         /\ Completes(p, t, Given') \/ Prolongs(p, t, Given')
<1>0. Given < Len(sent) /\ p = sent[Given + 1] /\ Given \in Nat
  BY CountsAre DEF Reads
<1>1. CASE /\ t = Len(p) - Len(backup.bytes)
           /\ backup' = NoBackup
           /\ hci' = [hci EXCEPT !.slots[hci.wptr % HCI_RX_FIFO_NUM] = p,
                                 !.wptr = (@ + 1) % PtrVals]
  <2>1. /\ FifoHolds(hci', delivered, sent)
        /\ Between(hci'.wptr, hci'.rptr, PtrVals) = Between(hci.wptr, hci.rptr, PtrVals) + 1
    BY <1>0, <1>1, AdvanceFifo
  <2>2. PICK d \in Nat, c \in Nat : d = Len(delivered) /\ c = Between(hci.wptr, hci.rptr, PtrVals)
    BY CountsAre
  <2>3. Given = d + c /\ Given' = d + (c + 1)
    BY <2>1, <2>2 DEF Given
  <2>4. Given' = Given + 1 /\ Given' \in Nat
    BY <2>3
  <2>5. Completes(p, t, Given')
    BY <1>1, <2>4 DEF Completes
  <2> QED
    BY <2>1, <2>4, <2>5
<1>2. CASE /\ t = handler.len /\ Len(backup.bytes) + t < Len(p)
           /\ backup' = [is |-> TRUE, bytes |-> backup.bytes \o Rest, timer |-> TRUE]
           /\ hci' = hci
  <2>1. Given' = Given
    BY <1>2 DEF Given
  <2>2. Prolongs(p, t, Given')
    BY <1>2, <2>1 DEF Prolongs
  <2> QED
    BY <1>0, <1>2, <2>1, <2>2
<1> QED
  BY <1>1, <1>2 DEF Advanced

(* The handler reads on in its buffer, or releases it. *)
LEMMA ReaderInv ==
  ASSUME FlowControlled, H4Inv, RxHandlerResume \/ RxHandlerPacket
  PROVE  H4Inv'
<1>1. H4Types /\ H4Types'
  BY HandlerTypes DEF H4Inv
<1>2. Reading /\ UNCHANGED <<line, sent, delivered, h4host, damaged>>
  BY DEF RxHandlerResume, RxHandlerPacket, ParsePacket, SkipPacket, GoOn
<1> SUFFICES ASSUME ~damaged PROVE H4Inv'
  BY <1>1, <1>2 DEF H4Inv, Live
<1>3. FifoHolds(hci, delivered, sent)
  BY DEF H4Inv
<1>4. Live
  <2>1. handler.len # 0
    BY <1>1, <1>2 DEF Reading, H4Types, Handlers
  <2> QED
    BY <2>1 DEF Live, Quiet
<1>5. PICK st, start, off : InStream(st, start, off)
  BY <1>4 DEF H4Inv, NoGap
<1>6. PICK p \in Packets : Reads(st, start, off, p)
  BY <1>1, <1>2, <1>3, <1>5, ReadsNext
<1>7. Advances(p)
  BY <1>1, <1>5, <1>6, ResumeAdvances, PacketAdvances
<1>8. PICK h \in Nat : h = handler.len
  BY <1>1 DEF H4Types, Handlers
<1>9. PICK t \in 1 .. h, r \in BOOLEAN : Advanced(p, t, r)
  BY <1>7, <1>8 DEF Advances
<1>10. t \in Nat /\ t >= 1 /\ t <= h
  OBVIOUS
<1>11. /\ FifoHolds(hci', delivered', sent') /\ Given' \in Nat
       /\ Completes(p, t, Given') \/ Prolongs(p, t, Given')
  BY <1>1, <1>2, <1>3, <1>6, <1>9, <1>10, Advancing
<1>12. BackupHolds(backup', Given', sent, st, start, off[0] + t)
  BY <1>1, <1>5, <1>6, <1>10, <1>11, AdvanceBackup
<1>13. GoOn(t, handler.len - t, r)
  BY <1>9 DEF Advanced
<1>14. PICK off2 : MovedOn(st, off, off2, t, start[Len(sent)])
  <2>1. CASE t = handler.len
    <3>1. GoOn(handler.len, handler.len - handler.len, r)
      BY <1>13, <2>1
    <3> QED
      BY <1>1, <1>2, <1>5, <2>1, <3>1, Releases
  <2>2. CASE t # handler.len
    <3>1. t < handler.len
      BY <1>8, <1>10, <2>2
    <3> QED
      BY <1>1, <1>2, <1>5, <1>10, <1>13, <3>1, ReadsOn
  <2> QED
    BY <2>1, <2>2
<1>15. HandlerReads(handler', backup', Unread', BufferAt')
  <2>1. CASE Completes(p, t, Given')
    <3>1. ~backup'.is
      BY <2>1 DEF Completes, NoBackup
    <3> QED
      BY <1>14, <3>1 DEF MovedOn, HandlerReads
  <2>2. CASE Prolongs(p, t, Given')
    <3>1. handler.len - t = 0
      BY <1>8, <1>10, <2>2 DEF Prolongs
    <3>2. ~handler'.resumed
      BY <1>13, <3>1 DEF GoOn
    <3> QED
      BY <1>14, <3>2 DEF MovedOn, HandlerReads
  <2> QED
    BY <1>11, <2>1, <2>2
<1>16. LineHolds(line', st, off2[Unread'], start[Len(sent')], h4host'.up)
  BY <1>2, <1>5, <1>14 DEF InStream, MovedOn
<1>17. BackupHolds(backup', Given', sent', st, start, off2[0])
  BY <1>2, <1>12, <1>14 DEF MovedOn
<1>18. Stream(sent', st, start)
  BY <1>2, <1>5 DEF InStream
<1>19. InStream(st, start, off2)'
  BY <1>2, <1>14, <1>15, <1>16, <1>17, <1>18 DEF InStream, MovedOn
<1>20. NoGap'
  BY <1>19 DEF NoGap
<1> QED
  BY <1>1, <1>11, <1>20 DEF H4Inv

(* Every step keeps the invariant. *)
LEMMA H4InvStep ==
  ASSUME CountsPackets, FlowControlled, H4Inv, [H4Next]_h4vars
  PROVE  H4Inv'
<1>1. CASE UNCHANGED h4vars
  <2>1. H4Types'
    BY <1>1, CbackTypes DEF H4Inv
  <2>2. UNCHANGED <<line, dma, handler, backup, hci, sent, delivered, h4host, damaged>>
    BY <1>1 DEF h4vars
  <2>3. Unread' = Unread /\ Given' = Given /\ BufferAt' = BufferAt /\ Live' = Live
    BY <2>2 DEF Unread, Given, BufferAt, Live, Quiet
  <2>4. ASSUME Live' PROVE NoGap'
    <3>1. PICK st, start, off : InStream(st, start, off)
      BY <2>3, <2>4 DEF H4Inv, NoGap
    <3>2. InStream(st, start, off)'
      BY <2>2, <2>3, <3>1 DEF InStream
    <3> QED
      BY <3>2 DEF NoGap
  <2> QED
    BY <2>1, <2>2, <2>4 DEF H4Inv
<1>2. CASE HostSend
  BY <1>2, SendInv
<1>3. CASE HostStops
  BY <1>3, StopInv
<1>4. CASE HostStarts
  BY <1>4, StartInv
<1>5. CASE UartIRQHandler
  BY <1>5, UartInv
<1>6. CASE UartRxErr
  BY <1>6, LossInv
<1>7. CASE TimerIRQHandler
  BY <1>7, TimerInv
<1>8. CASE RxHandlerStart
  BY <1>8, ReadInv
<1>9. CASE RxHandlerResume \/ RxHandlerPacket
  BY <1>9, ReaderInv
<1>10. CASE RxHandlerCback
  BY <1>10, CbackInv
<1> QED
  BY <1>1, <1>2, <1>3, <1>4, <1>5, <1>6, <1>7, <1>8, <1>9, <1>10 DEF H4Next

-----------------------------------------------------------------------------
(* What the invariant implies *)
LEMMA InvAsSent ==
  ASSUME FlowControlled, H4Inv
  PROVE  PacketsAsSent
<1> SUFFICES ASSUME ~damaged PROVE IsPrefix(delivered \o QueuedPackets, sent)
  BY DEF PacketsAsSent
<1>1. H4Types /\ FifoHolds(hci, delivered, sent)
  BY DEF H4Inv
<1>2. PICK d \in Nat, n \in Nat, c \in Nat, s \in Nat \ {0} :
        /\ d = Len(delivered) /\ n = Len(sent) /\ c = Between(hci.wptr, hci.rptr, PtrVals)
        /\ s = HCI_RX_FIFO_NUM
  BY <1>1, CountsAre, H4ConstantsAre
<1>3. PICK r \in Pointers : r = hci.rptr
  BY <1>1 DEF H4Types, Fifos
<1>a. r \in Nat
  BY SlotsAre
<1>4. /\ d + c <= n /\ \A i \in 1 .. d : delivered[i] = sent[i]
      /\ \A i \in 0 .. c - 1 : hci.slots[(r + i) % s] = sent[d + (i + 1)]
  BY <1>1, <1>2, <1>3 DEF FifoHolds
<1>5. PICK q : q = QueuedPackets
  OBVIOUS
<1>6. q = [i \in 1 .. c |-> hci.slots[(r + i - 1) % s]]
  BY <1>2, <1>3, <1>5 DEF QueuedPackets, Between
<1>7. ASSUME NEW i \in 1 .. c
      PROVE  hci.slots[(r + i - 1) % s] = sent[d + i] /\ sent[d + i] \in Bytes
  <2>1. PICK j \in 0 .. c - 1 : j = i - 1
    OBVIOUS
  <2>2. r + i - 1 = r + j /\ d + i = d + (j + 1)
    BY <1>a, <2>1
  <2>3. d + i \in 1 .. n
    BY <1>4
  <2>4. sent[d + i] \in Packets
    BY <1>1, <1>2, <2>3, ElementOfSeq DEF H4Types
  <2> QED
    BY <1>4, <2>2, <2>4 DEF Packets
<1>8. q \in Seq(Bytes) /\ Len(q) = c /\ \A i \in 1 .. c : q[i] = sent[d + i]
  <2>1. \A i \in 1 .. c : q[i] = sent[d + i] /\ sent[d + i] \in Bytes
    BY <1>6, <1>7
  <2>2. q \in [1 .. c -> Bytes]
    BY <1>6, <2>1
  <2>3. q \in Seq(Bytes) /\ Len(q) = c
    BY <2>2
  <2> QED
    BY <2>1, <2>3
<1>9. PICK x : x = delivered \o q
  OBVIOUS
<1>10. /\ x \in Seq(Bytes) /\ Len(x) = d + c /\ (\A i \in 1 .. d : x[i] = delivered[i])
       /\ \A i \in 1 .. c : x[d + i] = q[i]
  <2>1. delivered \in Seq(Bytes)
    BY <1>1 DEF H4Types
  <2> QED
    BY <1>2, <1>8, <1>9, <2>1, Joined
<1>11. ASSUME NEW i \in 1 .. d + c PROVE x[i] = sent[i]
  <2>1. CASE i <= d
    <3>1. i \in 1 .. d
      BY <2>1
    <3> QED
      BY <1>4, <1>10, <3>1
  <2>2. CASE ~(i <= d)
    <3>1. PICK j \in 1 .. c : j = i - d
      BY <2>2
    <3>2. i = d + j
      BY <3>1
    <3>3. x[d + j] = q[j] /\ q[j] = sent[d + j]
      BY <1>8, <1>10
    <3> QED
      BY <3>2, <3>3
  <2> QED
    BY <2>1, <2>2
<1>12. sent \in Seq(Bytes)
  <2>1. Packets \subseteq Bytes
    BY DEF Packets
  <2>2. sent \in Seq(Packets)
    BY <1>1 DEF H4Types
  <2>3. \A i \in 1 .. n : sent[i] \in Bytes
    BY <1>2, <2>1, <2>2, ElementOfSeq
  <2>4. sent \in [1 .. n -> Bytes]
    BY <1>2, <2>2, <2>3
  <2> QED
    BY <2>4
<1>13. PICK y : y = SubSeq(sent, 1, d + c)
  OBVIOUS
<1>14. y \in Seq(Bytes) /\ Len(y) = d + c /\ \A i \in 1 .. d + c : y[i] = sent[i]
  <2>1. 1 \in Nat \ {0} /\ d + c \in Int /\ d + c <= Len(sent)
    BY <1>2, <1>4
  <2>2. /\ y \in Seq(Bytes) /\ Len(y) = IF 1 <= d + c THEN d + c - 1 + 1 ELSE 0
        /\ \A i \in 1 .. d + c - 1 + 1 : y[i] = sent[1 + i - 1]
    BY <1>12, <1>13, <2>1, PartOf
  <2>3. d + c - 1 + 1 = d + c /\ \A i \in 1 .. d + c : 1 + i - 1 = i
    OBVIOUS
  <2>4. Len(y) = d + c
    BY <2>2
  <2> QED
    BY <2>2, <2>3, <2>4
<1>15. x = y
  <2>1. Len(x) = Len(y) /\ \A i \in 1 .. Len(x) : x[i] = y[i]
    BY <1>10, <1>11, <1>14
  <2> QED
    BY <1>10, <1>14, <2>1, SeqEqual
<1>16. Len(x) <= Len(sent) /\ SubSeq(x, 1, Len(x)) = SubSeq(sent, 1, Len(x))
  <2>1. SubSeq(x, 1, Len(x)) = x
    BY <1>10, SubSeqFull
  <2>2. SubSeq(sent, 1, Len(x)) = y
    BY <1>10, <1>13
  <2> QED
    BY <1>2, <1>4, <1>10, <1>15, <2>1, <2>2
<1> QED
  BY <1>5, <1>9, <1>16 DEF IsPrefix

LEMMA InvNothingLeft ==
  ASSUME H4Inv
  PROVE  NothingLeftBehind
<1> SUFFICES ASSUME Quiet, hci.wptr = hci.rptr, h4host.up, ~damaged PROVE delivered = sent
  BY DEF NothingLeftBehind
<1>1. H4Types /\ FifoHolds(hci, delivered, sent)
  BY DEF H4Inv
<1>2. Given = Len(sent)
  BY QuietMeansGiven
<1>3. PICK d \in Nat : d = Len(delivered)
  BY <1>1, CountsAre
<1>4. Len(sent) = d
  <2>1. Between(hci.wptr, hci.rptr, PtrVals) = 0
    BY <1>1, CountsAre
  <2>2. Given = d + 0
    BY <1>3, <2>1 DEF Given
  <2> QED
    BY <1>2, <2>2
<1>5. \A i \in 1 .. d : delivered[i] = sent[i]
  BY <1>1, <1>3 DEF FifoHolds
<1>6. delivered = [i \in 1 .. d |-> delivered[i]] /\ sent = [i \in 1 .. d |-> sent[i]]
  <2>1. delivered \in [1 .. d -> Bytes]
    BY <1>1, <1>3 DEF H4Types
  <2>2. sent \in [1 .. d -> Packets]
    BY <1>1, <1>4 DEF H4Types
  <2> QED
    BY <2>1, <2>2
<1> QED
  BY <1>5, <1>6

(* However the UART cuts the bytes of a session, the stack is given its packets
   whole, in order and each once, and nothing that a stopped host left behind
   gets into one (HCI_Tr_H4RxHandler, HCI_Tr_H4BackUpHandler).             *)
THEOREM H4PacketsAsSent ==
  ASSUME CountsPackets, FlowControlled
  PROVE  H4Spec => []PacketsAsSent
<1>1. H4Init => H4Inv
  BY H4InvInit
<1>2. H4Inv /\ [H4Next]_h4vars => H4Inv'
  BY H4InvStep
<1>3. H4Inv => PacketsAsSent
  BY InvAsSent
<1> QED
  BY <1>1, <1>2, <1>3, PTL DEF H4Spec

(* When all bytes have been read and all packets handled, every packet sent has
   been given to the stack: none waits in the backup buffer.               *)
THEOREM H4NothingLeftBehind ==
  ASSUME CountsPackets, FlowControlled
  PROVE  H4Spec => []NothingLeftBehind
<1>1. H4Init => H4Inv
  BY H4InvInit
<1>2. H4Inv /\ [H4Next]_h4vars => H4Inv'
  BY H4InvStep
<1>3. H4Inv => NothingLeftBehind
  BY InvNothingLeft
<1> QED
  BY <1>1, <1>2, <1>3, PTL DEF H4Spec
===============================================================================
