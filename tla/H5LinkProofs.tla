---------------------------- MODULE H5LinkProofs ----------------------------
(***************************************************************************)
(* Theorems about H5Link, for every number of sequence numbers and FIFO    *)
(* slots, every window and every length of the channels, whether frames    *)
(* are prompt or not:                                                      *)
(*                                                                         *)
(*   TypesHold       the numbers of the link stay in their ranges;         *)
(*   LinkNotTorn     no SYNC is under way once both sides are in the link; *)
(*   PacketsInOrder  the packets of a session arrive in order, once each;  *)
(*   AckedArrived    what the host was told has arrived was taken.         *)
(*                                                                         *)
(* The inductive invariant has three parts.  H5Types: the types.  LinkInv: *)
(* which kinds of frames may be on their way between sides in which        *)
(* states, and behind which others; it is the same seen from either side.  *)
(* PacketInv: how far the numbers of the host, the acknowledgement number  *)
(* of the device and those in the frames under way may lag behind what was *)
(* taken: by no more than a window, which is less than the sequence        *)
(* numbers, so that a number modulo SEQ_NUM says which packet is meant.    *)
(***************************************************************************)
EXTENDS H5Link, SequenceTheorems, FiniteSetTheorems, TLAPS

-----------------------------------------------------------------------------
(* Numbers modulo m *)
(* Division with remainder *)
LEMMA Quotient ==
  ASSUME NEW x \in Int, NEW m \in Nat \ {0}
  PROVE  /\ x = (m * (x \div m)) + (x % m)
         /\ x % m \in 0 .. m - 1 /\ x \div m \in Int
  OBVIOUS

(* A multiple is at least as far from 0 as the number. *)
LEMMA Mult ==
  ASSUME NEW k \in Int, NEW m \in Nat \ {0}, k > 0
  PROVE  m * k >= m
  OBVIOUS

(* The same on the other side *)
LEMMA MultDown ==
  ASSUME NEW k \in Int, NEW m \in Nat \ {0}, k < 0
  PROVE  m * k <= -m
<1>1. -k \in Int /\ -k > 0
  OBVIOUS
<1>2. m * (-k) >= m
  BY <1>1, Mult
<1>3. m * (-k) = -(m * k)
  OBVIOUS
<1> QED
  BY <1>2, <1>3

(* Numbers that agree modulo m and are less than m apart are the same. *)
LEMMA SameMod ==
  ASSUME NEW x \in Int, NEW y \in Int, NEW m \in Nat \ {0},
         x % m = y % m, x - y < m, y - x < m
  PROVE  x = y
<1> DEFINE p == x \div m
           q == y \div m
<1>1. x = (m * p) + (x % m) /\ y = (m * q) + (y % m) /\ p \in Int /\ q \in Int
  BY Quotient
<1>2. x % m \in Int
  BY Quotient
<1> HIDE DEF p, q
<1>3. x - y = m * (p - q) /\ y - x = m * (q - p)
  BY <1>1, <1>2
<1>4. ~(p - q > 0) /\ ~(q - p > 0)
  BY <1>1, <1>3, Mult
<1> QED
  BY <1>1, <1>4

(* Counting up modulo m *)
LEMMA NextMod ==
  ASSUME NEW x \in Int, NEW m \in Nat \ {0}
  PROVE  ((x % m) + 1) % m = (x + 1) % m
<1> DEFINE p == x \div m
           r == (x % m) + 1
           q == r \div m
           s == (x + 1) \div m
<1>1. x = (m * p) + (x % m) /\ p \in Int /\ x % m \in Int
  BY Quotient
<1>2. r \in Int /\ r = (m * q) + (r % m) /\ r % m \in 0 .. m - 1 /\ q \in Int
  BY <1>1, Quotient
<1>3. x + 1 = (m * s) + ((x + 1) % m) /\ (x + 1) % m \in 0 .. m - 1 /\ s \in Int
  BY Quotient
<1>4. x + 1 = (m * p) + r
  BY <1>1
<1> HIDE DEF p, q, r, s
<1>5. x + 1 = (m * (p + q)) + (r % m)
  BY <1>1, <1>2, <1>4
<1>6. m * (p + q - s) = ((x + 1) % m) - (r % m)
  BY <1>1, <1>2, <1>3, <1>5
<1>7. p + q = s
  <2>1. ~(p + q - s > 0)
    BY <1>1, <1>2, <1>3, <1>6, Mult
  <2>2. ~(p + q - s < 0)
    BY <1>1, <1>2, <1>3, <1>6, MultDown
  <2> QED
    BY <1>1, <1>2, <1>3, <2>1, <2>2
<1> QED
  BY <1>2, <1>3, <1>5, <1>7 DEF r

-----------------------------------------------------------------------------
(* Types *)
Packets == {"DATA", "ACK"}
FrameKinds == LinkMessages \cup Packets
Bodies == {<<>>} \cup (0 .. MaxEvents) \cup (Nat \X Nat)
Frames == [kind : FrameKinds, seq : Seqs, ack : Seqs, reliable : {0, 1}, body : Bodies]
DeviceStates == [linkState : LinkStates, rxSlidWinSize : 0 .. Window - 1,
                 txSlidWinSize : 0 .. U8 - 1, txSeq : Seqs, txAck : Seqs, rxAck : Seqs]
HostStates == [state : LinkStates, session : Nat, sent : Nat, acked : Nat, expected : Seqs]

DeviceTypes == cb \in DeviceStates /\ received \in Seq(Bodies)
FifoTypes == /\ rptr \in 0 .. U8 - 1 /\ wptr \in 0 .. MaxEvents
             /\ slots \in [0 .. HCI_TX_FIFO_NUM - 1 -> 0 .. MaxEvents]
LineTypes == /\ toDevice \in Seq(Frames) /\ Len(toDevice) <= ChannelSize
             /\ toHost \in Seq(Frames) /\ Len(toHost) <= ChannelSize
             /\ uart \in Seq(Frames) /\ Len(uart) <= 1
H5Types == DeviceTypes /\ FifoTypes /\ LineTypes /\ host \in HostStates

(* The constants *)
LEMMA ConstantsAre ==
  /\ SEQ_NUM \in Nat \ {0} /\ U8 \in Nat \ {0} /\ HCI_TX_FIFO_NUM \in Nat \ {0}
  /\ HostWindow \in Nat \ {0} /\ slidWinSize \in Nat \ {0} /\ HostWindow < SEQ_NUM
  /\ MaxEvents \in Nat /\ ChannelSize \in Nat /\ MaxPackets \in Nat
  /\ Window \in Nat \ {0}
<1>1. /\ SEQ_NUM \in Nat \ {0} /\ U8 \in Nat \ {0} /\ HCI_TX_FIFO_NUM \in Nat \ {0}
      /\ HostWindow \in Nat \ {0} /\ slidWinSize \in Nat \ {0} /\ HostWindow < SEQ_NUM
      /\ MaxEvents \in Nat /\ ChannelSize \in Nat /\ MaxPackets \in Nat
  BY H5Assumption
<1>2. Window \in Nat \ {0}
  BY <1>1 DEF Window
<1> QED
  BY <1>1, <1>2

(* Numbers modulo the constants *)
LEMMA ModTyped ==
  /\ \A x \in Int : x % SEQ_NUM \in Seqs /\ x % U8 \in 0 .. U8 - 1
                    /\ x % HCI_TX_FIFO_NUM \in 0 .. HCI_TX_FIFO_NUM - 1
  /\ 0 \in Seqs /\ Seqs \subseteq Nat
<1>1. ASSUME NEW x \in Int
      PROVE  x % SEQ_NUM \in Seqs /\ x % U8 \in 0 .. U8 - 1
             /\ x % HCI_TX_FIFO_NUM \in 0 .. HCI_TX_FIFO_NUM - 1
  <2>1. x % SEQ_NUM \in 0 .. SEQ_NUM - 1
    BY ConstantsAre, Quotient
  <2>2. x % U8 \in 0 .. U8 - 1
    BY ConstantsAre, Quotient
  <2>3. x % HCI_TX_FIFO_NUM \in 0 .. HCI_TX_FIFO_NUM - 1
    BY ConstantsAre, Quotient
  <2> QED
    BY <2>1, <2>2, <2>3 DEF Seqs
<1>2. 0 \in Seqs /\ Seqs \subseteq Nat
  BY ConstantsAre DEF Seqs
<1> QED
  BY <1>1, <1>2

(* What may be in a frame *)
LEMMA BodiesAre ==
  <<>> \in Bodies /\ (0 .. MaxEvents) \subseteq Bodies /\ (Nat \X Nat) \subseteq Bodies
  BY DEF Bodies

(* The frames the two sides make *)
LEMMA FramesMade ==
  /\ \A m \in LinkMessages : LinkFrame(m) \in Frames /\ LinkFrame(m).kind = m
  /\ \A a \in Seqs : /\ PureAck(a) \in Frames /\ PureAck(a).kind = "ACK"
                     /\ PureAck(a).ack = a
  /\ \A s, a \in Seqs : \A b \in Bodies :
       /\ Data(s, a, b) \in Frames /\ Data(s, a, b).kind = "DATA" /\ Data(s, a, b).seq = s
       /\ Data(s, a, b).ack = a /\ Data(s, a, b).reliable = 1 /\ Data(s, a, b).body = b
<1>1. <<>> \in Bodies /\ 0 \in Seqs
  BY BodiesAre, ModTyped
<1>2. ASSUME NEW m \in FrameKinds PROVE LinkFrame(m) \in Frames /\ LinkFrame(m).kind = m
  BY <1>1 DEF LinkFrame, Frames
<1>3. ASSUME NEW a \in Seqs
      PROVE  PureAck(a) \in Frames /\ PureAck(a).kind = "ACK" /\ PureAck(a).ack = a
  BY <1>1 DEF LinkFrame, PureAck, Frames, FrameKinds, Packets
<1>4. ASSUME NEW s \in Seqs, NEW a \in Seqs, NEW b \in Bodies
      PROVE  /\ Data(s, a, b) \in Frames /\ Data(s, a, b).kind = "DATA" /\ Data(s, a, b).seq = s
             /\ Data(s, a, b).ack = a /\ Data(s, a, b).reliable = 1 /\ Data(s, a, b).body = b
  BY DEF Data, Frames, FrameKinds, Packets
<1> QED
  BY <1>2, <1>3, <1>4 DEF FrameKinds

-----------------------------------------------------------------------------
(* Queues *)
LEMMA TailIs ==
  ASSUME NEW S, NEW q \in Seq(S), q # <<>>
  PROVE  /\ Tail(q) \in Seq(S) /\ Len(q) \in Nat /\ Len(q) >= 1 /\ Len(Tail(q)) = Len(q) - 1
         /\ Head(q) = q[1] /\ Head(q) \in S /\ DOMAIN Tail(q) = 1 .. Len(q) - 1
         /\ \A i \in 1 .. Len(q) - 1 : Tail(q)[i] = q[i + 1]
<1>1. Len(q) \in Nat /\ Len(q) >= 1
  BY EmptySeq, LenProperties
<1>2. Tail(q) \in Seq(S) /\ Len(Tail(q)) = Len(q) - 1 /\ Head(q) = q[1] /\ Head(q) \in S
  BY <1>1
<1>3. \A i \in 1 .. Len(q) - 1 : Tail(q)[i] = q[i + 1]
  BY <1>1
<1>4. DOMAIN Tail(q) = 1 .. Len(q) - 1
  BY <1>2, LenProperties
<1> QED
  BY <1>1, <1>2, <1>3, <1>4

(* A queue with one more frame *)
LEMMA AppendIs ==
  ASSUME NEW S, NEW q \in Seq(S), NEW e \in S, NEW r, r = Append(q, e)
  PROVE  /\ r \in Seq(S) /\ Len(q) \in Nat /\ Len(r) = Len(q) + 1
         /\ DOMAIN q = 1 .. Len(q) /\ DOMAIN r = 1 .. Len(q) + 1
         /\ r[Len(q) + 1] = e /\ \A i \in 1 .. Len(q) : r[i] = q[i]
<1>1. Len(q) \in Nat /\ DOMAIN q = 1 .. Len(q)
  BY LenProperties
<1>2. r \in Seq(S) /\ Len(r) = Len(q) + 1
  BY AppendProperties
<1>3. r[Len(q) + 1] = e /\ \A i \in 1 .. Len(q) : r[i] = q[i]
  BY <1>1
<1>4. DOMAIN r = 1 .. Len(q) + 1
  BY <1>2, LenProperties
<1> QED
  BY <1>1, <1>2, <1>3, <1>4

(* A send of the device, whether the UART takes the frame or not *)
LEMMA SendTyped ==
  ASSUME uart \in Seq(Frames), Len(uart) <= 1, NEW f \in Frames, Send(f)
  PROVE  uart' \in Seq(Frames) /\ Len(uart') <= 1
<1>1. <<f>> \in Seq(Frames) /\ Len(<<f>>) = 1
  OBVIOUS
<1> QED
  BY <1>1 DEF Send

(* HCI_H5_Reset and the states of the establishment *)
LEMMA ResetTyped ==
  /\ \A c \in DeviceStates : ResetOf(c) \in DeviceStates /\ ResetOf(c).linkState = c.linkState
                             /\ ResetOf(c).txAck = 0
  /\ \A s \in LinkStates : InState(s) \in DeviceStates /\ InState(s).linkState = s
                           /\ InState(s).txAck = 0
  /\ \A c \in DeviceStates : \A s \in LinkStates :
       [c EXCEPT !.linkState = s] \in DeviceStates /\ [c EXCEPT !.linkState = s].linkState = s
       /\ [c EXCEPT !.linkState = s].txAck = c.txAck
<1>1. 0 \in Seqs /\ 0 \in 0 .. Window - 1 /\ 0 \in 0 .. U8 - 1
  BY ConstantsAre, ModTyped
<1> QED
  BY <1>1 DEF ResetOf, InState, DeviceStates

(* Sequence numbers are integers, and so are the fields of the device. *)
LEMMA SeqsAre ==
  /\ \A a \in Seqs : a \in Int
  /\ \A c \in DeviceStates : /\ c.txSeq \in Seqs /\ c.txAck \in Seqs /\ c.rxAck \in Seqs
                             /\ c.txSlidWinSize \in Int /\ c.txSlidWinSize \in 0 .. U8 - 1
<1>1. \A a \in Seqs : a \in Int
  BY ModTyped
<1>2. \A x \in 0 .. U8 - 1 : x \in Int
  BY ConstantsAre
<1>3. \A c \in DeviceStates : /\ c.txSeq \in Seqs /\ c.txAck \in Seqs /\ c.rxAck \in Seqs
                             /\ c.txSlidWinSize \in 0 .. U8 - 1
  BY DEF DeviceStates
<1> QED
  BY <1>1, <1>2, <1>3

(* HCI_H5_ReSendCheck *)
LEMMA ReSendTyped ==
  ASSUME NEW c \in DeviceStates, NEW a \in Seqs, rptr \in 0 .. U8 - 1, ReSendCheck(c, a)
  PROVE  /\ cb' \in DeviceStates /\ cb'.linkState = c.linkState /\ cb'.txAck = c.txAck
         /\ rptr' \in 0 .. U8 - 1
<1>1. c.txSlidWinSize \in Int /\ c.txSeq \in Int /\ rptr \in Int /\ a \in Int
  BY ConstantsAre, SeqsAre
<1>2. c.txSeq - a \in Int
  BY <1>1
<1>3. NotTaken(c, a) \in Int
  <2>1. (c.txSeq - a) % SEQ_NUM \in Seqs
    BY <1>2, ModTyped
  <2> QED
    BY <2>1, SeqsAre DEF NotTaken
<1>4. rptr' \in 0 .. U8 - 1
  <2>1. rptr + c.txSlidWinSize - NotTaken(c, a) \in Int
    BY <1>1, <1>3
  <2> QED
    BY <2>1, ModTyped DEF ReSendCheck
<1>5. 0 \in 0 .. U8 - 1
  BY ConstantsAre
<1>6. cb' \in DeviceStates /\ cb'.linkState = c.linkState /\ cb'.txAck = c.txAck
  BY <1>5 DEF ReSendCheck, DeviceStates
<1> QED
  BY <1>4, <1>6

(* A packet that is taken *)
LEMMA TakenTyped ==
  ASSUME NEW c \in DeviceStates
  PROVE  /\ Counted(c) \in DeviceStates /\ Counted(c).linkState = c.linkState
         /\ Counted(c).txAck = (c.txAck + 1) % SEQ_NUM
         /\ Taken(c) \in DeviceStates /\ Taken(c).linkState = c.linkState
         /\ Taken(c).txAck = (c.txAck + 1) % SEQ_NUM
<1>1. (c.txAck + 1) % SEQ_NUM \in Seqs
  <2>1. c.txAck + 1 \in Int
    BY SeqsAre
  <2> QED
    BY <2>1, ModTyped
<1>2. /\ Counted(c) \in DeviceStates /\ Counted(c).linkState = c.linkState
      /\ Counted(c).txAck = (c.txAck + 1) % SEQ_NUM
      /\ Counted(c).rxSlidWinSize = c.rxSlidWinSize
  BY <1>1 DEF Counted, DeviceStates
<1>3. (IF WindowFull(c) THEN 0 ELSE c.rxSlidWinSize + 1) \in 0 .. Window - 1
  BY ConstantsAre DEF WindowFull, DeviceStates
<1>4. Taken(c) = [Counted(c) EXCEPT !.rxSlidWinSize =
                    IF WindowFull(c) THEN 0 ELSE c.rxSlidWinSize + 1]
  BY <1>2 DEF Taken
<1>5. /\ Taken(c) \in DeviceStates /\ Taken(c).linkState = c.linkState
      /\ Taken(c).txAck = (c.txAck + 1) % SEQ_NUM
  BY <1>2, <1>3, <1>4 DEF DeviceStates
<1> QED
  BY <1>2, <1>5

(* The initial state *)
LEMMA TypesInit == Init => H5Types
<1> SUFFICES ASSUME Init PROVE H5Types
  OBVIOUS
<1>1. 0 \in 0 .. U8 - 1 /\ 0 \in 0 .. MaxEvents /\ 0 \in Seqs /\ 0 <= ChannelSize
  BY ConstantsAre, ModTyped
<1>2. DeviceTypes
  BY ResetTyped DEF Init, DeviceTypes, LinkStates
<1>3. FifoTypes
  BY <1>1 DEF Init, FifoTypes
<1>4. LineTypes
  BY <1>1 DEF Init, LineTypes
<1>5. host \in HostStates
  BY <1>1 DEF Init, HostStates, LinkStates
<1> QED
  BY <1>2, <1>3, <1>4, <1>5 DEF H5Types

(* The first frame of a queue is taken. *)
LEMMA TakeTyped ==
  ASSUME NEW q \in Seq(Frames), Len(q) <= ChannelSize, q # <<>>
  PROVE  Tail(q) \in Seq(Frames) /\ Len(Tail(q)) <= ChannelSize /\ Head(q) \in Frames
<1>1. Tail(q) \in Seq(Frames) /\ Len(q) \in Nat /\ Len(Tail(q)) = Len(q) - 1 /\ Head(q) \in Frames
  BY TailIs
<1> QED
  BY <1>1, ConstantsAre

(* The host sends. *)
LEMMA HostSendTyped ==
  ASSUME toDevice \in Seq(Frames), NEW f \in Frames, HostSends(f)
  PROVE  toDevice' \in Seq(Frames) /\ Len(toDevice') <= ChannelSize
<1>1. /\ toDevice' \in Seq(Frames) /\ Len(toDevice) \in Nat
      /\ Len(toDevice') = Len(toDevice) + 1
  BY AppendIs DEF HostSends
<1>2. Len(toDevice) < ChannelSize
  BY DEF HostSends, HostHasRoom
<1> QED
  BY <1>1, <1>2, ConstantsAre

(* The states of the host *)
LEMMA HostTyped ==
  ASSUME host \in HostStates
  PROVE  /\ \A s \in LinkStates :
              HostIn(s) \in HostStates /\ HostIn(s).state = s /\ HostIn(s).session = host.session
         /\ \A a \in Seqs : HostAcked(a) \in Nat
<1>1. \A s \in LinkStates :
        HostIn(s) \in HostStates /\ HostIn(s).state = s /\ HostIn(s).session = host.session
  BY ModTyped DEF HostStates, HostIn
<1>2. ASSUME NEW a \in Seqs PROVE HostAcked(a) \in Nat
  <2> DEFINE confirmed == {n \in host.acked .. host.sent : n % SEQ_NUM = a}
  <2>1. host.acked \in Nat /\ host.sent \in Nat
    BY DEF HostStates
  <2>2. \A n \in confirmed : n \in Nat
    BY <2>1
  <2>3. HostAcked(a) = IF confirmed = {} THEN host.acked ELSE CHOOSE n \in confirmed : TRUE
    BY DEF HostAcked
  <2>4. confirmed # {} => (CHOOSE n \in confirmed : TRUE) \in confirmed
    OBVIOUS
  <2> HIDE DEF confirmed
  <2> QED
    BY <2>1, <2>2, <2>3, <2>4
<1> QED
  BY <1>1, <1>2

(* The steps of the device that send *)
LEMMA TypesSend ==
  ASSUME H5Types
  PROVE  SendData \/ PollLink \/ QueueEvent \/ DeviceRestart => H5Types'
<1> USE DEF H5Types
<1>1. CASE SendData
  <2>1. /\ SlotToSend \in 0 .. HCI_TX_FIFO_NUM - 1
        /\ cb.txSeq \in Seqs /\ cb.txAck \in Seqs
    <3>1. rptr + cb.txSlidWinSize \in Int
      BY ConstantsAre, SeqsAre DEF DeviceTypes, FifoTypes
    <3>2. (rptr + cb.txSlidWinSize) % U8 \in 0 .. U8 - 1
      BY <3>1, ModTyped
    <3>3. (rptr + cb.txSlidWinSize) % U8 \in Int
      BY <3>2, ConstantsAre
    <3> QED
      BY <3>3, ModTyped, SeqsAre DEF SlotToSend, DeviceTypes
  <2>2. slots[SlotToSend] \in Bodies
    BY <2>1, BodiesAre DEF FifoTypes
  <2>3. Data(cb.txSeq, cb.txAck, slots[SlotToSend]) \in Frames
    BY <2>1, <2>2, FramesMade
  <2>4. uart' \in Seq(Frames) /\ Len(uart') <= 1
    BY <1>1, <2>3, SendTyped DEF SendData, LineTypes
  <2>5. cb' \in DeviceStates
    <3>0. cb.txSeq + 1 \in Int /\ cb.txSlidWinSize + 1 \in Int
      BY <2>1, SeqsAre DEF DeviceTypes
    <3>1. (cb.txSeq + 1) % SEQ_NUM \in Seqs
      BY <3>0, ModTyped
    <3>2. (cb.txSlidWinSize + 1) % U8 \in 0 .. U8 - 1
      BY <3>0, ModTyped
    <3>3. 0 \in 0 .. Window - 1
      BY ConstantsAre
    <3>4. cb' = [cb EXCEPT !.txSeq = (cb.txSeq + 1) % SEQ_NUM,
                           !.txSlidWinSize = (cb.txSlidWinSize + 1) % U8,
                           !.rxSlidWinSize = 0]
      BY <1>1 DEF SendData
    <3> QED
      BY <3>1, <3>2, <3>3, <3>4 DEF DeviceTypes, DeviceStates
  <2>6. UNCHANGED <<fifo, received, toHost, toDevice, host>>
    BY <1>1 DEF SendData
  <2> QED
    BY <2>4, <2>5, <2>6 DEF DeviceTypes, FifoTypes, LineTypes, fifo
<1>2. CASE PollLink
  <2>1. uart' \in Seq(Frames) /\ Len(uart') <= 1
    BY <1>2, SendTyped, FramesMade DEF PollLink, Repeat, LineTypes, LinkMessages
  <2> QED
    BY <1>2, <2>1 DEF PollLink, DeviceTypes, FifoTypes, LineTypes, fifo
<1>3. CASE QueueEvent
  <2>1. wptr \in Nat /\ wptr < MaxEvents
    BY <1>3, ConstantsAre DEF QueueEvent, FifoTypes
  <2>2. wptr % HCI_TX_FIFO_NUM \in 0 .. HCI_TX_FIFO_NUM - 1
    BY <2>1, ModTyped
  <2>3. wptr + 1 \in 0 .. MaxEvents
    BY <2>1, ConstantsAre
  <2>4. FifoTypes'
    BY <1>3, <2>2, <2>3 DEF QueueEvent, FifoTypes
  <2> QED
    BY <1>3, <2>4 DEF QueueEvent, DeviceTypes, LineTypes
<1>4. CASE DeviceRestart
  <2>1. 0 \in 0 .. U8 - 1 /\ 0 \in 0 .. MaxEvents /\ 0 <= ChannelSize
    BY ConstantsAre
  <2>2. FifoTypes'
    BY <1>4, <2>1 DEF DeviceRestart, FifoTypes
  <2>3. DeviceTypes'
    BY <1>4, ResetTyped DEF DeviceRestart, DeviceTypes, LinkStates
  <2>4. LineTypes'
    BY <1>4, <2>1 DEF DeviceRestart, LineTypes
  <2> QED
    BY <1>4, <2>2, <2>3, <2>4 DEF DeviceRestart
<1> QED
  BY <1>1, <1>2, <1>3, <1>4

(* The steps of the device that receive *)
LEMMA TypesReceive ==
  ASSUME H5Types
  PROVE  Receive => H5Types'
<1> USE DEF H5Types
<1>a. ASSUME NEW k, Arrives(k)
      PROVE  /\ toDevice' \in Seq(Frames) /\ Len(toDevice') <= ChannelSize
             /\ Head(toDevice) \in Frames /\ UNCHANGED <<toHost, host>>
  BY <1>a, TakeTyped DEF Arrives, LineTypes
<1>b. ASSUME NEW m \in LinkMessages, Send(LinkFrame(m))
      PROVE  uart' \in Seq(Frames) /\ Len(uart') <= 1
  BY <1>b, SendTyped, FramesMade DEF LineTypes
<1>1. CASE RecvSync
  <2>1. cb' \in DeviceStates
    <3>1. cb \in DeviceStates /\ ResetOf(cb) \in DeviceStates
      BY ResetTyped DEF DeviceTypes
    <3>2. [ResetOf(cb) EXCEPT !.linkState = "IDLE"] \in DeviceStates
      BY <3>1, ResetTyped DEF LinkStates
    <3> QED
      BY <1>1, <3>1, <3>2 DEF RecvSync
  <2>2. uart' \in Seq(Frames) /\ Len(uart') <= 1
    BY <1>1, <1>b DEF RecvSync, LinkMessages
  <2> QED
    BY <1>1, <1>a, <2>1, <2>2 DEF RecvSync, LinkOnly, DeviceTypes, FifoTypes, LineTypes, fifo
<1>2. CASE RecvSyncRsp
  <2>1. cb' \in DeviceStates
    <3>1. [cb EXCEPT !.linkState = "INIT"] \in DeviceStates
      BY ResetTyped DEF DeviceTypes, LinkStates
    <3> QED
      BY <1>2, <3>1 DEF RecvSyncRsp, LateAnswer, DeviceTypes
  <2>2. uart' \in Seq(Frames) /\ Len(uart') <= 1
    <3>1. CASE cb.linkState = "IDLE"
      BY <1>2, <1>b, <3>1 DEF RecvSyncRsp, LinkMessages
    <3>2. CASE cb.linkState # "IDLE"
      BY <1>2, <3>2 DEF RecvSyncRsp, LateAnswer, LineTypes
    <3> QED
      BY <3>1, <3>2
  <2> QED
    BY <1>2, <1>a, <2>1, <2>2 DEF RecvSyncRsp, LinkOnly, DeviceTypes, FifoTypes, LineTypes, fifo
<1>3. CASE RecvConfig
  <2>1. uart' \in Seq(Frames) /\ Len(uart') <= 1
    BY <1>3, <1>b DEF RecvConfig, LinkMessages
  <2> QED
    BY <1>3, <1>a, <2>1 DEF RecvConfig, LinkOnly, DeviceTypes, FifoTypes, LineTypes, fifo
<1>4. CASE RecvConfigRsp
  <2>1. cb' \in DeviceStates
    <3>1. cb \in DeviceStates /\ ResetOf(cb) \in DeviceStates
      BY ResetTyped DEF DeviceTypes
    <3>2. ActiveOf(cb) \in DeviceStates
      BY <3>1, ResetTyped DEF ActiveOf, LinkStates
    <3> QED
      BY <1>4, <3>1, <3>2 DEF RecvConfigRsp
  <2>2. uart' \in Seq(Frames) /\ Len(uart') <= 1
    BY <1>4, <1>b DEF RecvConfigRsp, LinkMessages, LineTypes
  <2> QED
    BY <1>4, <1>a, <2>1, <2>2 DEF RecvConfigRsp, LinkOnly, DeviceTypes, FifoTypes, LineTypes, fifo
<1>5. CASE RecvAck
  <2>1. Head(toDevice).ack \in Seqs
    BY <1>5, <1>a DEF RecvAck, Frames
  <2>2. cb' \in DeviceStates /\ rptr' \in 0 .. U8 - 1
    BY <1>5, <2>1, ReSendTyped DEF RecvAck, DeviceTypes, FifoTypes
  <2> QED
    BY <1>5, <1>a, <2>2 DEF RecvAck, DeviceTypes, FifoTypes, LineTypes
<1>6. CASE RecvData
  <2> DEFINE f == Head(toDevice)
  <2>1. f \in Frames /\ f.ack \in Seqs /\ f.body \in Bodies
    BY <1>6, <1>a DEF RecvData, Frames
  <2>2. Append(received, f.body) \in Seq(Bodies)
    BY <2>1, AppendProperties DEF DeviceTypes
  <2>3. cb \in DeviceStates /\ rptr \in 0 .. U8 - 1 /\ uart \in Seq(Frames) /\ Len(uart) <= 1
    BY DEF DeviceTypes, FifoTypes, LineTypes
  <2> HIDE DEF f
  <2>4. RecvReliable(f) => /\ DeviceTypes' /\ rptr' \in 0 .. U8 - 1
                           /\ uart' \in Seq(Frames) /\ Len(uart') <= 1
    <3> SUFFICES ASSUME RecvReliable(f)
                 PROVE  /\ DeviceTypes' /\ rptr' \in 0 .. U8 - 1
                        /\ uart' \in Seq(Frames) /\ Len(uart') <= 1
      OBVIOUS
    <3>1. CASE Expected(cb, f)
      <4>1. Taken(cb) \in DeviceStates /\ Taken(cb).txAck \in Seqs
        BY <2>3, TakenTyped, SeqsAre
      <4>2. cb' \in DeviceStates /\ rptr' \in 0 .. U8 - 1
        BY <2>1, <2>3, <3>1, <4>1, ReSendTyped DEF RecvReliable
      <4>3. uart' \in Seq(Frames) /\ Len(uart') <= 1
        <5>1. PureAck(Taken(cb).txAck) \in Frames
          BY <4>1, FramesMade
        <5> QED
          BY <2>3, <3>1, <5>1, SendTyped DEF RecvReliable
      <4>4. received' = Append(received, f.body)
        BY <3>1 DEF RecvReliable
      <4> QED
        BY <2>2, <4>2, <4>3, <4>4 DEF DeviceTypes, f
    <3>2. CASE ~Expected(cb, f)
      <4>1. cb' \in DeviceStates /\ rptr' \in 0 .. U8 - 1
        BY <2>1, <2>3, <3>2, ReSendTyped DEF RecvReliable
      <4> QED
        BY <2>3, <3>2, <4>1 DEF RecvReliable, DeviceTypes
    <3> QED
      BY <3>1, <3>2
  <2>5. RecvUnreliable(f) => /\ DeviceTypes' /\ rptr' \in 0 .. U8 - 1
                             /\ uart' \in Seq(Frames) /\ Len(uart') <= 1
    BY <2>2, <2>3, TakenTyped DEF RecvUnreliable, DeviceTypes, f
  <2>6. /\ DeviceTypes' /\ rptr' \in 0 .. U8 - 1 /\ uart' \in Seq(Frames) /\ Len(uart') <= 1
    <3>1. CASE cb.linkState # "ACTIVE"
      BY <1>6, <2>3, <3>1 DEF RecvData, DeviceTypes
    <3>2. CASE cb.linkState = "ACTIVE"
      <4>1. RecvReliable(f) \/ RecvUnreliable(f)
        BY <1>6, <3>2 DEF RecvData, f
      <4> QED
        BY <4>1, <2>4, <2>5
    <3> QED
      BY <3>1, <3>2
  <2>7. UNCHANGED <<wptr, slots>>
    BY <1>6 DEF RecvData
  <2>8. Arrives("DATA")
    BY <1>6 DEF RecvData
  <2> QED
    BY <1>a, <2>6, <2>7, <2>8 DEF FifoTypes, LineTypes
<1> QED
  BY <1>1, <1>2, <1>3, <1>4, <1>5, <1>6 DEF Receive

(* The line *)
LEMMA TypesLine ==
  ASSUME H5Types
  PROVE  UartDone \/ LoseToHost \/ LoseToDevice => H5Types'
<1> USE DEF H5Types
<1>1. CASE UartDone
  <2>1. toHost' \in Seq(Frames) /\ Len(toHost') = Len(toHost) + Len(uart)
    BY <1>1, ConcatProperties DEF UartDone, LineTypes
  <2>2. Len(toHost) \in Nat /\ Len(uart) \in Nat /\ Len(toHost) < ChannelSize /\ Len(uart) <= 1
    BY <1>1, LenProperties DEF UartDone, LineTypes
  <2>3. Len(toHost') <= ChannelSize
    BY <2>1, <2>2, ConstantsAre
  <2>4. uart' \in Seq(Frames) /\ Len(uart') <= 1
    BY <1>1 DEF UartDone
  <2> QED
    BY <1>1, <2>1, <2>3, <2>4 DEF UartDone, DeviceTypes, FifoTypes, LineTypes, fifo
<1>2. CASE LoseToHost
  <2>1. toHost' \in Seq(Frames) /\ Len(toHost') <= ChannelSize
    BY <1>2, TakeTyped DEF LoseToHost, LineTypes
  <2> QED
    BY <1>2, <2>1 DEF LoseToHost, DeviceTypes, FifoTypes, LineTypes, fifo, device
<1>3. CASE LoseToDevice
  <2>1. toDevice' \in Seq(Frames) /\ Len(toDevice') <= ChannelSize
    BY <1>3, TakeTyped DEF LoseToDevice, LineTypes
  <2> QED
    BY <1>3, <2>1 DEF LoseToDevice, DeviceTypes, FifoTypes, LineTypes, fifo, device
<1> QED
  BY <1>1, <1>2, <1>3

(* The host *)
LEMMA TypesHost ==
  ASSUME H5Types
  PROVE  HostTimer \/ HostSendData \/ HostReceive \/ HostRestart => H5Types'
<1> USE DEF H5Types
<1>a. ASSUME NEW m \in LinkMessages, HostSends(LinkFrame(m))
      PROVE  toDevice' \in Seq(Frames) /\ Len(toDevice') <= ChannelSize
  BY <1>a, HostSendTyped, FramesMade DEF LineTypes
<1>b. /\ toDevice \in Seq(Frames) /\ Len(toDevice) <= ChannelSize
      /\ host.acked \in Nat /\ host.sent \in Nat /\ host.session \in Nat /\ host.expected \in Seqs
  BY DEF LineTypes, HostStates
<1>1. CASE HostTimer
  <2>1. toDevice' \in Seq(Frames) /\ Len(toDevice') <= ChannelSize
    BY <1>1, <1>a DEF HostTimer, LinkMessages
  <2> QED
    BY <1>1, <2>1 DEF HostTimer, DeviceTypes, FifoTypes, LineTypes, fifo, device
<1>2. CASE HostSendData
  <2>1. PICK n \in host.acked + 1 .. host.acked + HostWindow :
          /\ HostSends(Data(SeqNumOf(n), host.expected, <<host.session, n>>))
          /\ host' = [host EXCEPT !.sent = IF n > host.sent THEN n ELSE host.sent]
    BY <1>2 DEF HostSendData
  <2>2. n \in Nat /\ n - 1 \in Int
    BY <1>b, ConstantsAre
  <2>3. Data(SeqNumOf(n), host.expected, <<host.session, n>>) \in Frames
    <3>1. SeqNumOf(n) \in Seqs
      BY <2>2, ModTyped DEF SeqNumOf
    <3>2. <<host.session, n>> \in Bodies
      BY <1>b, <2>2, BodiesAre
    <3> QED
      BY <1>b, <3>1, <3>2, FramesMade
  <2>4. toDevice' \in Seq(Frames) /\ Len(toDevice') <= ChannelSize
    BY <1>b, <2>1, <2>3, HostSendTyped
  <2>5. host' \in HostStates
    BY <2>1, <2>2 DEF HostStates
  <2> QED
    BY <1>2, <2>4, <2>5 DEF HostSendData, DeviceTypes, FifoTypes, LineTypes, fifo, device
<1>3. CASE HostReceive
  <2> DEFINE f == Head(toHost)
  <2>1. f \in Frames /\ toHost' \in Seq(Frames) /\ Len(toHost') <= ChannelSize
    BY <1>3, TakeTyped DEF HostReceive, LineTypes
  <2>2. f.kind \in FrameKinds /\ f.ack \in Seqs
    BY <2>1 DEF Frames
  <2>3. UNCHANGED device
    BY <1>3 DEF HostReceive
  <2> HIDE DEF f
  <2>4. /\ toDevice' \in Seq(Frames) /\ Len(toDevice') <= ChannelSize /\ host' \in HostStates
    <3>1. ASSUME NEW m \in LinkMessages, HostReceiveLink(m)
          PROVE  /\ toDevice' \in Seq(Frames) /\ Len(toDevice') <= ChannelSize
                 /\ host' \in HostStates
      <4>1. \A s \in LinkStates : HostIn(s) \in HostStates /\ HostIn(s).session = host.session
        BY HostTyped
      <4>2. [HostIn("ACTIVE") EXCEPT !.session = HostIn("ACTIVE").session + 1] \in HostStates
        <5>1. HostIn("ACTIVE") \in HostStates /\ HostIn("ACTIVE").session + 1 \in Nat
          BY <1>b, <4>1 DEF LinkStates
        <5> QED
          BY <5>1 DEF HostStates
      <4>3. host' \in HostStates
        BY <3>1, <4>1, <4>2 DEF HostReceiveLink, LinkStates
      <4>4. toDevice' \in Seq(Frames) /\ Len(toDevice') <= ChannelSize
        BY <1>a, <1>b, <3>1 DEF HostReceiveLink, LinkMessages
      <4> QED
        BY <4>3, <4>4
    <3>2. ASSUME HostReceivePacket(f)
          PROVE  /\ toDevice' \in Seq(Frames) /\ Len(toDevice') <= ChannelSize
                 /\ host' \in HostStates
      <4> DEFINE h == [host EXCEPT !.acked = HostAcked(f.ack)]
                 next == (h.expected + 1) % SEQ_NUM
      <4>1. h \in HostStates /\ h.expected = host.expected
        BY <2>2, HostTyped DEF HostStates
      <4>2. next \in Seqs
        <5>1. h.expected + 1 \in Int
          BY <1>b, <4>1, SeqsAre
        <5> QED
          BY <5>1, ModTyped
      <4>3. [h EXCEPT !.expected = next] \in HostStates
        BY <4>1, <4>2 DEF HostStates
      <4>4. PureAck(h.expected) \in Frames /\ PureAck(next) \in Frames
        BY <1>b, <4>1, <4>2, FramesMade
      <4>5. \/ UNCHANGED <<host, toDevice>>
            \/ host' = h /\ UNCHANGED toDevice
            \/ host' = h /\ HostSends(PureAck(h.expected))
            \/ host' = [h EXCEPT !.expected = next] /\ HostSends(PureAck(next))
        BY <3>2 DEF HostReceivePacket
      <4> HIDE DEF h, next
      <4> QED
        BY <1>b, <4>1, <4>3, <4>4, <4>5, HostSendTyped
    <3>3. (f.kind \in LinkMessages /\ HostReceiveLink(f.kind)) \/ HostReceivePacket(f)
      BY <1>3 DEF HostReceive, f
    <3> QED
      BY <3>1, <3>2, <3>3
  <2> QED
    BY <2>1, <2>3, <2>4 DEF DeviceTypes, FifoTypes, LineTypes, fifo, device
<1>4. CASE HostRestart
  <2>1. HostIn("IDLE") \in HostStates
    BY HostTyped DEF LinkStates
  <2>2. 0 <= ChannelSize
    BY ConstantsAre
  <2> QED
    BY <1>4, <2>1, <2>2 DEF HostRestart, DeviceTypes, FifoTypes, LineTypes, fifo
<1> QED
  BY <1>1, <1>2, <1>3, <1>4

(* Every step keeps the types. *)
LEMMA TypesStep == H5Types /\ [Next]_vars => H5Types'
<1> SUFFICES ASSUME H5Types, [Next]_vars PROVE H5Types'
  OBVIOUS
<1>1. CASE Next
  BY <1>1, TypesSend, TypesReceive, TypesLine, TypesHost DEF Next
<1>2. CASE UNCHANGED vars
  BY <1>2 DEF H5Types, DeviceTypes, FifoTypes, LineTypes, vars, device, fifo
<1> QED
  BY <1>1, <1>2

(* Every number of the link stays in its range: the windows, the sequence and
   acknowledgement numbers, the pointers of the sending FIFO (hciH5Cb and the
   assignments to it in hci_h5.c), and no channel holds more than its size.  *)
THEOREM TypesHold == Spec => []TypeOK
<1>1. H5Types => TypeOK
  BY DEF H5Types, DeviceTypes, FifoTypes, LineTypes, TypeOK, DeviceStates, HostStates
<1> QED
  BY <1>1, TypesInit, TypesStep, PTL DEF Spec

-----------------------------------------------------------------------------
(* The kinds of the frames in a queue, and which are behind which *)
Kinds(q) == {q[i].kind : i \in DOMAIN q}
Behind(q) == {p \in FrameKinds \X FrameKinds :
               \E i, j \in DOMAIN q : i < j /\ p[1] = q[i].kind /\ p[2] = q[j].kind}

(* What may be on its way from a side in state s to one in state r *)
May(k, s, r) ==
  /\ k = "SYNC" => s = "IDLE" \/ (s = "INIT" /\ r # "ACTIVE")
  /\ k = "SYNC_RSP" => s = r \/ "INIT" \in {s, r}
  /\ k = "CONFIG" => s = "INIT" \/ (s = "ACTIVE" /\ r # "IDLE")
  /\ k = "CONFIG_RSP" => s # "IDLE" /\ r # "IDLE"
  /\ k \in Packets => s = "ACTIVE" \/ (s = "IDLE" /\ r = "IDLE")

OneWay(k, b, s, r) ==
  /\ \A x \in k : May(x, s, r)
  /\ \A p \in b : p[2] = "SYNC" => p[1] \notin {"CONFIG", "CONFIG_RSP"}
Across(k, l) == "CONFIG_RSP" \in k => "SYNC" \notin l
BothIdle(k, b, l) ==
  /\ \A p \in b : p[2] \in Packets => p[1] \notin {"SYNC", "SYNC_RSP"}
  /\ "SYNC_RSP" \in l => \A x \in k : x \notin Packets
LinkOK(s, r, k, b, l, c) ==
  /\ OneWay(k, b, s, r) /\ OneWay(l, c, r, s) /\ Across(k, l) /\ Across(l, k)
  /\ s = "IDLE" /\ r = "IDLE" => BothIdle(k, b, l) /\ BothIdle(l, c, k)
QueuesOK(s, r, out, in) == LinkOK(s, r, Kinds(out), Behind(out), Kinds(in), Behind(in))

(* What a side does with its state when it receives a frame of kind h; what a
   side in state s sends; what one in state s answers to h                  *)
Goes(s, h) ==
  IF h = "SYNC" /\ s = "ACTIVE" THEN "IDLE"
  ELSE IF h = "SYNC_RSP" /\ s = "IDLE" THEN "INIT"
  ELSE IF h = "CONFIG_RSP" /\ s = "INIT" THEN "ACTIVE" ELSE s
Sends(s, k) ==
  \/ s = "IDLE" /\ k = "SYNC"
  \/ s = "INIT" /\ k = "CONFIG"
  \/ s = "ACTIVE" /\ k \in Packets
Answers(s, h, k) ==
  \/ h = "SYNC" /\ k = "SYNC_RSP"
  \/ h = "CONFIG" /\ s # "IDLE" /\ k = "CONFIG_RSP"

(* An empty queue *)
LEMMA KindsEmpty == Kinds(<<>>) = {} /\ Behind(<<>>) = {}
  BY DEF Kinds, Behind

(* The frames of a queue have their types. *)
LEMMA InQueue ==
  ASSUME NEW q \in Seq(Frames)
  PROVE  \A i \in DOMAIN q :
           /\ q[i] \in Frames /\ q[i].kind \in FrameKinds
           /\ q[i].ack \in Seqs /\ q[i].body \in Bodies
<1>1. DOMAIN q = 1 .. Len(q)
  BY LenProperties
<1>2. \A i \in 1 .. Len(q) : q[i] \in Frames
  BY ElementOfSeq
<1> QED
  BY <1>1, <1>2 DEF Frames

(* Both are sets of kinds and of pairs of them. *)
LEMMA KindsTyped ==
  ASSUME NEW q \in Seq(Frames)
  PROVE  /\ Kinds(q) \in SUBSET FrameKinds /\ Behind(q) \in SUBSET (FrameKinds \X FrameKinds)
         /\ Behind(q) \in SUBSET (Kinds(q) \X Kinds(q))
  BY InQueue DEF Kinds, Behind

(* Taking the first frame *)
LEMMA KindsTail ==
  ASSUME NEW q \in Seq(Frames), q # <<>>
  PROVE  /\ Kinds(q) = Kinds(Tail(q)) \cup {Head(q).kind}
         /\ Behind(q) = Behind(Tail(q)) \cup ({Head(q).kind} \X Kinds(Tail(q)))
<1> DEFINE t == Tail(q)
<1>1. /\ t \in Seq(Frames) /\ Len(q) \in Nat /\ Len(q) >= 1
      /\ Head(q) = q[1] /\ DOMAIN t = 1 .. Len(q) - 1
      /\ \A i \in 1 .. Len(q) - 1 : t[i] = q[i + 1]
  BY TailIs
<1>2. DOMAIN q = 1 .. Len(q)
  BY LenProperties
<1>3. \A i \in DOMAIN q : q[i].kind \in FrameKinds
  BY InQueue
<1> DEFINE h == Head(q).kind
           back(i) == i - 1
<1>4. \A i \in DOMAIN q : i # 1 => i - 1 \in DOMAIN t /\ q[i] = t[i - 1]
  BY <1>1, <1>2
<1>5. \A i \in DOMAIN t : i + 1 \in DOMAIN q /\ t[i] = q[i + 1]
  BY <1>1, <1>2
<1>6. 1 \in DOMAIN q /\ q[1].kind = h /\ DOMAIN q \subseteq Nat /\ DOMAIN t \subseteq Nat
      /\ \A i \in DOMAIN t : i >= 1
  BY <1>1, <1>2
<1> HIDE DEF t, h
<1>7. Kinds(q) = Kinds(t) \cup {h}
  <2>1. ASSUME NEW i \in DOMAIN q PROVE q[i].kind \in Kinds(t) \cup {h}
    BY <1>4, <1>6 DEF Kinds
  <2>2. ASSUME NEW i \in DOMAIN t PROVE t[i].kind \in Kinds(q)
    BY <1>5 DEF Kinds
  <2>3. h \in Kinds(q)
    BY <1>6 DEF Kinds
  <2> QED
    BY <2>1, <2>2, <2>3 DEF Kinds
<1>8. ASSUME NEW p \in Behind(q) PROVE p \in Behind(t) \cup ({h} \X Kinds(t))
  <2>1. p \in FrameKinds \X FrameKinds /\ p = <<p[1], p[2]>>
    BY DEF Behind
  <2>2. PICK i \in DOMAIN q : \E j \in DOMAIN q : i < j /\ p[1] = q[i].kind /\ p[2] = q[j].kind
    BY DEF Behind
  <2>3. PICK j \in DOMAIN q : i < j /\ p[1] = q[i].kind /\ p[2] = q[j].kind
    BY <2>2
  <2>4. j # 1 /\ j - 1 \in DOMAIN t /\ p[2] = t[j - 1].kind
    BY <1>2, <1>4, <2>3
  <2>5. CASE i = 1
    <3>1. p[1] = h /\ p[2] \in Kinds(t)
      BY <1>6, <2>3, <2>4, <2>5 DEF Kinds
    <3> QED
      BY <2>1, <3>1
  <2>6. CASE i # 1
    <3>1. i - 1 \in DOMAIN t /\ p[1] = t[i - 1].kind
      BY <1>4, <2>3, <2>6
    <3>2. i - 1 < j - 1
      BY <1>2, <2>3
    <3> QED
      BY <2>1, <2>4, <3>1, <3>2 DEF Behind
  <2> QED
    BY <2>5, <2>6
<1>9. ASSUME NEW p \in Behind(t) PROVE p \in Behind(q)
  <2>1. p \in FrameKinds \X FrameKinds
    BY DEF Behind
  <2>2. PICK i \in DOMAIN t : \E j \in DOMAIN t : i < j /\ p[1] = t[i].kind /\ p[2] = t[j].kind
    BY DEF Behind
  <2>3. PICK j \in DOMAIN t : i < j /\ p[1] = t[i].kind /\ p[2] = t[j].kind
    BY <2>2
  <2>4. i + 1 \in DOMAIN q /\ j + 1 \in DOMAIN q /\ i + 1 < j + 1
        /\ p[1] = q[i + 1].kind /\ p[2] = q[j + 1].kind
    BY <1>1, <1>5, <2>3
  <2> QED
    BY <2>1, <2>4 DEF Behind
<1>10. ASSUME NEW x \in Kinds(t) PROVE <<h, x>> \in Behind(q)
  <2>1. PICK j \in DOMAIN t : x = t[j].kind
    BY DEF Kinds
  <2>2. j + 1 \in DOMAIN q /\ x = q[j + 1].kind /\ 1 < j + 1
    BY <1>1, <1>5, <2>1
  <2>3. h \in FrameKinds /\ x \in FrameKinds
    BY <1>3, <1>6, <2>2
  <2> QED
    BY <1>6, <2>2, <2>3 DEF Behind
<1> QED
  BY <1>7, <1>8, <1>9, <1>10 DEF t, h

(* Sending a frame *)
LEMMA KindsAppend ==
  ASSUME NEW q \in Seq(Frames), NEW f \in Frames
  PROVE  /\ Kinds(Append(q, f)) = Kinds(q) \cup {f.kind}
         /\ Behind(Append(q, f)) = Behind(q) \cup (Kinds(q) \X {f.kind})
<1> DEFINE r == Append(q, f)
<1>1. /\ r \in Seq(Frames) /\ Len(q) \in Nat
      /\ DOMAIN q = 1 .. Len(q) /\ DOMAIN r = 1 .. Len(q) + 1
      /\ r[Len(q) + 1] = f /\ \A i \in 1 .. Len(q) : r[i] = q[i]
  BY AppendIs
<1> DEFINE n == Len(q) + 1
<1>2. /\ n \in DOMAIN r /\ n \notin DOMAIN q /\ r[n] = f
      /\ \A i \in DOMAIN r : i = n \/ i \in DOMAIN q
      /\ \A i \in DOMAIN q : i \in DOMAIN r /\ i < n /\ r[i] = q[i] /\ ~(n < i)
      /\ ~(n < n)
  BY <1>1
<1>3. \A i \in DOMAIN r : r[i].kind \in FrameKinds
  BY <1>1, InQueue
<1> HIDE DEF n, r
<1>4. Kinds(r) = Kinds(q) \cup {f.kind}
  <2>1. ASSUME NEW i \in DOMAIN r PROVE r[i].kind \in Kinds(q) \cup {f.kind}
    BY <1>2 DEF Kinds
  <2>2. ASSUME NEW i \in DOMAIN q PROVE q[i].kind \in Kinds(r)
    BY <1>2 DEF Kinds
  <2>3. f.kind \in Kinds(r)
    BY <1>2 DEF Kinds
  <2> QED
    BY <2>1, <2>2, <2>3 DEF Kinds
<1>5. ASSUME NEW p \in Behind(r) PROVE p \in Behind(q) \cup (Kinds(q) \X {f.kind})
  <2>1. p \in FrameKinds \X FrameKinds /\ p = <<p[1], p[2]>>
    BY DEF Behind
  <2>2. PICK i \in DOMAIN r : \E j \in DOMAIN r : i < j /\ p[1] = r[i].kind /\ p[2] = r[j].kind
    BY DEF Behind
  <2>3. PICK j \in DOMAIN r : i < j /\ p[1] = r[i].kind /\ p[2] = r[j].kind
    BY <2>2
  <2>4. i \in DOMAIN q /\ p[1] = q[i].kind
    BY <1>2, <2>3
  <2>5. CASE j = n
    <3>1. p[1] \in Kinds(q) /\ p[2] = f.kind
      BY <1>2, <2>3, <2>4, <2>5 DEF Kinds
    <3> QED
      BY <2>1, <3>1
  <2>6. CASE j # n
    BY <1>2, <2>1, <2>3, <2>4, <2>6 DEF Behind
  <2> QED
    BY <2>5, <2>6
<1>6. ASSUME NEW p \in Behind(q) PROVE p \in Behind(r)
  <2>1. p \in FrameKinds \X FrameKinds
    BY DEF Behind
  <2>2. PICK i \in DOMAIN q : \E j \in DOMAIN q : i < j /\ p[1] = q[i].kind /\ p[2] = q[j].kind
    BY DEF Behind
  <2>3. PICK j \in DOMAIN q : i < j /\ p[1] = q[i].kind /\ p[2] = q[j].kind
    BY <2>2
  <2> QED
    BY <1>2, <2>1, <2>3 DEF Behind
<1>7. ASSUME NEW x \in Kinds(q) PROVE <<x, f.kind>> \in Behind(r)
  <2>1. PICK i \in DOMAIN q : x = q[i].kind
    BY DEF Kinds
  <2>2. i \in DOMAIN r /\ i < n /\ x = r[i].kind /\ n \in DOMAIN r /\ r[n].kind = f.kind
    BY <1>2, <2>1
  <2>3. f.kind \in FrameKinds /\ x \in FrameKinds
    BY <1>3, <2>2
  <2> QED
    BY <2>2, <2>3 DEF Behind
<1> QED
  BY <1>4, <1>5, <1>6, <1>7 DEF r

(* The condition is the same seen from either side. *)
LEMMA OtherSide ==
  ASSUME NEW s, NEW r, NEW out, NEW in, QueuesOK(s, r, out, in)
  PROVE  QueuesOK(r, s, in, out)
  BY DEF QueuesOK, LinkOK

(* A frame that is lost *)
LEMMA LinkLess ==
  ASSUME NEW s, NEW r, NEW k, NEW b, NEW l, NEW c, LinkOK(s, r, k, b, l, c),
         NEW k2, NEW b2, k2 \subseteq k, b2 \subseteq b
  PROVE  LinkOK(s, r, k2, b2, l, c)
<1>1. OneWay(k2, b2, s, r) /\ Across(k2, l) /\ Across(l, k2)
  BY DEF LinkOK, OneWay, Across
<1>2. s = "IDLE" /\ r = "IDLE" => BothIdle(k2, b2, l) /\ BothIdle(l, c, k2)
  BY DEF LinkOK, BothIdle
<1> QED
  BY <1>1, <1>2 DEF LinkOK

(* A frame that a side sends on its own account *)
LEMMA LinkSends ==
  ASSUME NEW s \in LinkStates, NEW r \in LinkStates,
         NEW k \in SUBSET FrameKinds, NEW b \in SUBSET (FrameKinds \X FrameKinds),
         NEW l \in SUBSET FrameKinds, NEW c \in SUBSET (FrameKinds \X FrameKinds),
         LinkOK(s, r, k, b, l, c), NEW e \in FrameKinds, Sends(s, e)
  PROVE  LinkOK(s, r, k \cup {e}, b \cup (k \X {e}), l, c)
<1> DEFINE b2 == b \cup (k \X {e})
<1>1. \A p \in b2 : p \in b \/ (p[1] \in k /\ p[2] = e)
  OBVIOUS
<1> HIDE DEF b2
<1>2. \A x \in k \cup {e} : May(x, s, r)
  BY DEF LinkOK, OneWay, May, Sends, LinkStates, Packets
<1>3. e = "SYNC" => /\ s = "IDLE" /\ "CONFIG" \notin k
                    /\ "CONFIG_RSP" \notin k /\ "CONFIG_RSP" \notin l
  BY DEF LinkOK, OneWay, May, Sends, LinkStates, Packets
<1>4. OneWay(k \cup {e}, b2, s, r)
  BY <1>1, <1>2, <1>3 DEF LinkOK, OneWay
<1>5. Across(k \cup {e}, l) /\ Across(l, k \cup {e})
  BY <1>3 DEF LinkOK, Across, Sends, Packets
<1>6. s = "IDLE" /\ r = "IDLE" => BothIdle(k \cup {e}, b2, l) /\ BothIdle(l, c, k \cup {e})
  BY <1>1 DEF LinkOK, BothIdle, Sends, Packets
<1> QED
  BY <1>4, <1>5, <1>6 DEF LinkOK, b2

(* A frame that is received *)
LEMMA LinkTakes ==
  ASSUME NEW s \in LinkStates, NEW r \in LinkStates,
         NEW k \in SUBSET FrameKinds, NEW b \in SUBSET (k \X k),
         NEW l \in SUBSET FrameKinds, NEW c \in SUBSET (l \X l),
         NEW h \in FrameKinds,
         LinkOK(s, r, k, b, l \cup {h}, c \cup ({h} \X l))
  PROVE  LinkOK(Goes(s, h), r, k, b, l, c)
<1> DEFINE c2 == c \cup ({h} \X l)
<1>1. /\ \A p \in c : p \in c2
      /\ \A x \in l : <<h, x>> \in c2
  OBVIOUS
<1>2. LinkOK(s, r, k, b, l \cup {h}, c2)
  OBVIOUS
<1> HIDE DEF c2
<1>3. LinkOK(s, r, k, b, l, c)
  <2>1. OneWay(l, c, r, s) /\ Across(k, l) /\ Across(l, k)
    BY <1>1, <1>2 DEF LinkOK, OneWay, Across
  <2>2. s = "IDLE" /\ r = "IDLE" => BothIdle(k, b, l) /\ BothIdle(l, c, k)
    BY <1>1, <1>2 DEF LinkOK, BothIdle
  <2> QED
    BY <1>2, <2>1, <2>2 DEF LinkOK
<1>4. May(h, r, s) /\ \A x \in k : May(x, s, r)
  BY <1>2 DEF LinkOK, OneWay
<1>5. \A x \in l : May(x, r, s) /\ (x = "SYNC" => h \notin {"CONFIG", "CONFIG_RSP"})
  <2>1. ASSUME NEW x \in l PROVE May(x, r, s) /\ (x = "SYNC" => h \notin {"CONFIG", "CONFIG_RSP"})
    <3>1. <<h, x>> \in c2
      BY <1>1
    <3>2. May(x, r, s)
      BY <1>2 DEF LinkOK, OneWay
    <3>3. <<h, x>>[2] = "SYNC" => <<h, x>>[1] \notin {"CONFIG", "CONFIG_RSP"}
      BY <1>2, <3>1 DEF LinkOK, OneWay
    <3> QED
      BY <3>2, <3>3
  <2> QED
    BY <2>1
<1>6. h = "CONFIG_RSP" => "SYNC" \notin k
  BY <1>2 DEF LinkOK, Across
<1>7. CASE h = "SYNC" /\ s = "ACTIVE"
  <2>1. r = "IDLE" /\ \A x \in l : x = "SYNC"
    BY <1>4, <1>5, <1>7 DEF May, FrameKinds, LinkMessages, Packets
  <2>2. \A x \in k : x \in Packets
    BY <1>4, <1>7, <2>1 DEF May, FrameKinds, LinkMessages, Packets
  <2>3. \A p \in b : p[1] \in Packets /\ p[2] \in Packets
    BY <2>2
  <2>4. \A p \in c : p[2] = "SYNC"
    BY <2>1
  <2>5. OneWay(k, b, "IDLE", r) /\ OneWay(l, c, r, "IDLE")
    BY <2>1, <2>2, <2>3, <1>3 DEF LinkOK, OneWay, May, Packets
  <2>6. Across(k, l) /\ Across(l, k) /\ BothIdle(k, b, l) /\ BothIdle(l, c, k)
    BY <2>1, <2>2, <2>3, <2>4 DEF Across, BothIdle, Packets
  <2>7. LinkOK("IDLE", r, k, b, l, c)
    BY <2>5, <2>6 DEF LinkOK
  <2> QED
    BY <1>7, <2>7 DEF Goes
<1>8. CASE h = "SYNC_RSP" /\ s = "IDLE"
  <2>1. r # "ACTIVE"
    BY <1>4, <1>8 DEF May
  <2>2. \A x \in k : x \notin Packets
    BY <1>2, <1>4, <1>8, <2>1 DEF LinkOK, BothIdle, May, LinkStates
  <2>3. \A x \in l : x \notin Packets
    <3>1. CASE r = "IDLE"
      <4>1. \A p \in c2 : p[2] \in Packets => p[1] \notin {"SYNC", "SYNC_RSP"}
        BY <1>2, <1>8, <3>1 DEF LinkOK, BothIdle
      <4>2. ASSUME NEW x \in l PROVE x \notin Packets
        <5>1. <<h, x>> \in c2
          BY <1>1
        <5>2. <<h, x>>[2] \in Packets => <<h, x>>[1] \notin {"SYNC", "SYNC_RSP"}
          BY <4>1, <5>1
        <5> QED
          BY <1>8, <5>2
      <4> QED
        BY <4>2
    <3>2. CASE r # "IDLE"
      BY <1>5, <2>1, <3>2 DEF May, LinkStates
    <3> QED
      BY <3>1, <3>2
  <2>4. OneWay(k, b, "INIT", r) /\ OneWay(l, c, r, "INIT")
    BY <1>3, <1>4, <1>5, <1>8, <2>1, <2>2, <2>3 DEF LinkOK, OneWay, May
  <2>5. LinkOK("INIT", r, k, b, l, c)
    BY <1>3, <2>4 DEF LinkOK
  <2> QED
    BY <1>8, <2>5 DEF Goes
<1>9. CASE h = "CONFIG_RSP" /\ s = "INIT"
  <2>1. r # "IDLE"
    BY <1>4, <1>9 DEF May
  <2>2. "SYNC" \notin k /\ "SYNC" \notin l
    BY <1>5, <1>6, <1>9
  <2>3. OneWay(k, b, "ACTIVE", r) /\ OneWay(l, c, r, "ACTIVE")
    BY <1>3, <1>4, <1>5, <1>9, <2>1, <2>2 DEF LinkOK, OneWay, May, LinkStates
  <2>4. LinkOK("ACTIVE", r, k, b, l, c)
    BY <1>3, <2>3 DEF LinkOK
  <2> QED
    BY <1>9, <2>4 DEF Goes
<1> QED
  BY <1>3, <1>7, <1>8, <1>9 DEF Goes

(* The answer to a frame that is received *)
LEMMA LinkAnswers ==
  ASSUME NEW s \in LinkStates, NEW r \in LinkStates,
         NEW k \in SUBSET FrameKinds, NEW b \in SUBSET (k \X k),
         NEW l \in SUBSET FrameKinds, NEW c \in SUBSET (l \X l),
         NEW h \in FrameKinds,
         LinkOK(s, r, k, b, l \cup {h}, c \cup ({h} \X l)),
         NEW e, Answers(s, h, e)
  PROVE  LinkOK(Goes(s, h), r, k \cup {e}, b \cup (k \X {e}), l, c)
<1> DEFINE c2 == c \cup ({h} \X l)
           b2 == b \cup (k \X {e})
           s2 == Goes(s, h)
<1>1. /\ \A p \in c : p \in c2
      /\ \A x \in l : <<h, x>> \in c2
      /\ \A p \in b2 : p \in b \/ (p[1] \in k /\ p[2] = e)
  OBVIOUS
<1>2. LinkOK(s, r, k, b, l \cup {h}, c2)
  OBVIOUS
<1>3. LinkOK(s2, r, k, b, l, c)
  BY LinkTakes
<1>4. s2 \in LinkStates
  BY DEF Goes, LinkStates
<1> HIDE DEF c2, b2
<1>5. May(h, r, s)
  BY <1>2 DEF LinkOK, OneWay
<1>6. CASE h = "SYNC" /\ e = "SYNC_RSP"
  <2>1. (s = "ACTIVE" => s2 = "IDLE") /\ (s # "ACTIVE" => s2 = s) /\ r # "ACTIVE"
        /\ (r = "INIT" => s # "ACTIVE")
    BY <1>5, <1>6 DEF Goes, May
  <2>2. May(e, s2, r)
    BY <1>6, <2>1 DEF May, LinkStates, Packets
  <2> HIDE DEF s2
  <2>3. OneWay(k \cup {e}, b2, s2, r) /\ Across(k \cup {e}, l) /\ Across(l, k \cup {e})
    BY <1>1, <1>3, <1>6, <2>2 DEF LinkOK, OneWay, Across
  <2>4. s2 = "IDLE" /\ r = "IDLE" => \A x \in l : x \notin Packets
    <3> SUFFICES ASSUME s2 = "IDLE", r = "IDLE", NEW x \in l PROVE x \notin Packets
      OBVIOUS
    <3>1. <<h, x>> \in c2 /\ May(x, r, s)
      BY <1>1, <1>2 DEF LinkOK, OneWay
    <3>2. CASE s = "IDLE"
      <4>1. <<h, x>>[2] \in Packets => <<h, x>>[1] \notin {"SYNC", "SYNC_RSP"}
        BY <1>2, <3>1, <3>2 DEF LinkOK, BothIdle
      <4> QED
        BY <1>6, <4>1
    <3>3. CASE s # "IDLE"
      BY <3>1, <3>3 DEF May
    <3> QED
      BY <3>2, <3>3
  <2>5. s2 = "IDLE" /\ r = "IDLE" => BothIdle(k \cup {e}, b2, l) /\ BothIdle(l, c, k \cup {e})
    BY <1>1, <1>3, <1>6, <2>4 DEF LinkOK, BothIdle, Packets
  <2> QED
    BY <1>3, <2>3, <2>5 DEF LinkOK, b2, s2
<1>7. CASE h = "CONFIG" /\ s # "IDLE" /\ e = "CONFIG_RSP"
  <2>1. s2 = s /\ r # "IDLE"
    BY <1>5, <1>7 DEF Goes, May
  <2>2. "SYNC" \notin l
    <3> SUFFICES ASSUME "SYNC" \in l PROVE FALSE
      OBVIOUS
    <3>1. <<h, "SYNC">> \in c2
      BY <1>1
    <3>2. <<h, "SYNC">>[2] = "SYNC" => <<h, "SYNC">>[1] \notin {"CONFIG", "CONFIG_RSP"}
      BY <1>2, <3>1 DEF LinkOK, OneWay
    <3> QED
      BY <1>7, <3>2
  <2>3. May(e, s2, r)
    BY <1>7, <2>1 DEF May, Packets
  <2> HIDE DEF s2
  <2>4. OneWay(k \cup {e}, b2, s2, r) /\ Across(k \cup {e}, l) /\ Across(l, k \cup {e})
    BY <1>1, <1>3, <1>7, <2>2, <2>3 DEF LinkOK, OneWay, Across
  <2> QED
    BY <1>3, <1>7, <2>1, <2>4 DEF LinkOK, b2, s2
<1> QED
  BY <1>6, <1>7 DEF Answers

(* The same of the queues: a side sends, its frame or the one it would have
   received is lost, it receives, and it answers                            *)
LEMMA SideSends ==
  ASSUME NEW s \in LinkStates, NEW r \in LinkStates, NEW out \in Seq(Frames),
         NEW in \in Seq(Frames), QueuesOK(s, r, out, in), NEW f \in Frames, Sends(s, f.kind),
         NEW o, o = Append(out, f)
  PROVE  QueuesOK(s, r, o, in)
<1>1. f.kind \in FrameKinds
  BY DEF Frames
<1>2. /\ Kinds(out) \in SUBSET FrameKinds /\ Behind(out) \in SUBSET (FrameKinds \X FrameKinds)
      /\ Kinds(in) \in SUBSET FrameKinds /\ Behind(in) \in SUBSET (FrameKinds \X FrameKinds)
  <2>1. Kinds(out) \in SUBSET FrameKinds /\ Behind(out) \in SUBSET (FrameKinds \X FrameKinds)
    BY KindsTyped
  <2>2. Kinds(in) \in SUBSET FrameKinds /\ Behind(in) \in SUBSET (FrameKinds \X FrameKinds)
    BY KindsTyped
  <2> QED
    BY <2>1, <2>2
<1>3. /\ Kinds(o) = Kinds(out) \cup {f.kind}
      /\ Behind(o) = Behind(out) \cup (Kinds(out) \X {f.kind})
  <2>1. /\ Kinds(Append(out, f)) = Kinds(out) \cup {f.kind}
        /\ Behind(Append(out, f)) = Behind(out) \cup (Kinds(out) \X {f.kind})
    BY KindsAppend
  <2> QED
    BY <2>1
<1>4. LinkOK(s, r, Kinds(out), Behind(out), Kinds(in), Behind(in))
  BY DEF QueuesOK
<1>5. LinkOK(s, r, Kinds(out) \cup {f.kind}, Behind(out) \cup (Kinds(out) \X {f.kind}),
             Kinds(in), Behind(in))
  BY <1>1, <1>2, <1>4, LinkSends
<1> QED
  BY <1>3, <1>5 DEF QueuesOK

(* The first frame of a queue is lost. *)
LEMMA SideLoses ==
  ASSUME NEW s \in LinkStates, NEW r \in LinkStates, NEW out \in Seq(Frames),
         NEW in \in Seq(Frames), QueuesOK(s, r, out, in), out # <<>>
  PROVE  QueuesOK(s, r, Tail(out), in)
<1>1. Kinds(Tail(out)) \subseteq Kinds(out) /\ Behind(Tail(out)) \subseteq Behind(out)
  BY KindsTail
<1> QED
  BY <1>1, LinkLess DEF QueuesOK

(* The other side takes the first frame, and may answer. *)
LEMMA SideTakes ==
  ASSUME NEW s \in LinkStates, NEW r \in LinkStates, NEW out \in Seq(Frames),
         NEW in \in Seq(Frames), QueuesOK(s, r, out, in), in # <<>>,
         NEW h, h = Head(in).kind
  PROVE  /\ Goes(s, h) \in LinkStates
         /\ QueuesOK(Goes(s, h), r, out, Tail(in))
         /\ \A f \in Frames : Answers(s, h, f.kind) \/ Sends(Goes(s, h), f.kind) =>
              QueuesOK(Goes(s, h), r, Append(out, f), Tail(in))
<1> DEFINE k == Kinds(out)
           b == Behind(out)
           l == Kinds(Tail(in))
           c == Behind(Tail(in))
<1>1. Tail(in) \in Seq(Frames) /\ Head(in) \in Frames /\ h \in FrameKinds
  <2>1. Tail(in) \in Seq(Frames) /\ Head(in) \in Frames
    BY TailIs
  <2>2. \A f \in Frames : f.kind \in FrameKinds
    BY DEF Frames
  <2> QED
    BY <2>1, <2>2
<1>2. /\ k \in SUBSET FrameKinds /\ b \in SUBSET (k \X k)
      /\ l \in SUBSET FrameKinds /\ c \in SUBSET (l \X l)
  BY <1>1, KindsTyped
<1>3. LinkOK(s, r, k, b, l \cup {h}, c \cup ({h} \X l))
  BY KindsTail DEF QueuesOK
<1>4. Goes(s, h) \in LinkStates
  BY DEF Goes, LinkStates
<1> HIDE DEF k, b, l, c
<1>5. LinkOK(Goes(s, h), r, k, b, l, c)
  BY <1>1, <1>2, <1>3, LinkTakes
<1>6. QueuesOK(Goes(s, h), r, out, Tail(in))
  BY <1>5 DEF QueuesOK, k, b, l, c
<1>e. ASSUME NEW e, Answers(s, h, e)
      PROVE  LinkOK(Goes(s, h), r, k \cup {e}, b \cup (k \X {e}), l, c)
  <2>1. h \in FrameKinds
    BY <1>1
  <2> QED
    BY <1>2, <1>3, <1>e, <2>1, LinkAnswers, SMTT(30)
<1>7. ASSUME NEW f \in Frames, Answers(s, h, f.kind)
      PROVE  QueuesOK(Goes(s, h), r, Append(out, f), Tail(in))
  <2>1. LinkOK(Goes(s, h), r, k \cup {f.kind}, b \cup (k \X {f.kind}), l, c)
    BY <1>7, <1>e
  <2>2. Kinds(Append(out, f)) = k \cup {f.kind} /\ Behind(Append(out, f)) = b \cup (k \X {f.kind})
    BY KindsAppend DEF k, b
  <2> QED
    BY <2>1, <2>2 DEF QueuesOK, l, c
<1>8. ASSUME NEW f \in Frames, Sends(Goes(s, h), f.kind)
      PROVE  QueuesOK(Goes(s, h), r, Append(out, f), Tail(in))
  BY <1>1, <1>4, <1>6, <1>8, SideSends
<1> QED
  BY <1>4, <1>6, <1>7, <1>8

(* With nothing under way the sides may be in any states. *)
LEMMA NothingOnTheLine ==
  ASSUME NEW s, NEW r
  PROVE  QueuesOK(s, r, <<>>, <<>>)
  BY KindsEmpty DEF QueuesOK, LinkOK, OneWay, Across, BothIdle

-----------------------------------------------------------------------------
(* The frames on their way from the device to the host *)
up == toHost \o uart

(* The type of both queues *)
LEMMA UpTyped == LineTypes => up \in Seq(Frames) /\ toDevice \in Seq(Frames)
  BY ConcatProperties DEF LineTypes, up

(* A send of the device, with the UART free or busy *)
LEMMA UpSend ==
  ASSUME LineTypes, NEW f \in Frames, Send(f), UNCHANGED toHost
  PROVE  up' = up \/ up' = Append(up, f)
<1>1. CASE uart = <<>>
  <2>1. uart' = <<f>> /\ toHost \in Seq(Frames)
    BY <1>1 DEF Send, UartBusy, LineTypes
  <2>2. up = toHost
    BY <1>1, <2>1 DEF up
  <2>3. up' = toHost \o <<f>>
    BY <2>1 DEF up
  <2> QED
    BY <2>1, <2>2, <2>3
<1>2. CASE uart # <<>>
  BY <1>2 DEF Send, UartBusy, up
<1> QED
  BY <1>1, <1>2

(* The first frame is lost, or read by the host. *)
LEMMA UpTake ==
  ASSUME LineTypes, toHost # <<>>, toHost' = Tail(toHost), UNCHANGED uart
  PROVE  up # <<>> /\ up' = Tail(up) /\ Head(up) = Head(toHost)
<1>1. toHost \in Seq(Frames) /\ uart \in Seq(Frames) /\ Len(toHost) \in Nat /\ Len(toHost) >= 1
      /\ Head(toHost) = toHost[1] /\ Len(uart) \in Nat
      /\ Tail(toHost) \in Seq(Frames) /\ Len(Tail(toHost)) = Len(toHost) - 1
      /\ \A i \in 1 .. Len(toHost) - 1 : Tail(toHost)[i] = toHost[i + 1]
  BY TailIs, LenProperties DEF LineTypes
<1>2. /\ up \in Seq(Frames) /\ Len(up) = Len(toHost) + Len(uart)
      /\ \A i \in 1 .. Len(toHost) + Len(uart) :
           up[i] = IF i <= Len(toHost) THEN toHost[i] ELSE uart[i - Len(toHost)]
  BY <1>1, ConcatProperties DEF up
<1>3. up # <<>> /\ Len(up) \in Nat /\ Len(up) >= 1
  BY <1>1, <1>2
<1>4. /\ Tail(up) \in Seq(Frames) /\ Len(Tail(up)) = Len(up) - 1 /\ Head(up) = up[1]
      /\ \A i \in 1 .. Len(up) - 1 : Tail(up)[i] = up[i + 1]
  BY <1>2, <1>3, TailIs
<1>5. Head(up) = Head(toHost)
  BY <1>1, <1>2, <1>4
<1>6. up' = Tail(toHost) \o uart
  BY DEF up
<1>7. /\ up' \in Seq(Frames) /\ Len(up') = Len(Tail(toHost)) + Len(uart)
      /\ \A i \in 1 .. Len(Tail(toHost)) + Len(uart) :
           up'[i] = IF i <= Len(Tail(toHost)) THEN Tail(toHost)[i] ELSE uart[i - Len(Tail(toHost))]
  BY <1>1, <1>6, ConcatProperties
<1>8. Len(up') = Len(Tail(up))
  BY <1>1, <1>2, <1>4, <1>7
<1>9. ASSUME NEW i \in 1 .. Len(up') PROVE up'[i] = Tail(up)[i]
  <2>1. i \in 1 .. Len(up) - 1 /\ Tail(up)[i] = up[i + 1] /\ i + 1 \in 1 .. Len(toHost) + Len(uart)
    BY <1>1, <1>2, <1>4, <1>7, <1>9
  <2>2. CASE i <= Len(toHost) - 1
    BY <1>1, <1>2, <1>7, <2>1, <2>2
  <2>3. CASE ~(i <= Len(toHost) - 1)
    <3>1. up'[i] = uart[i - (Len(toHost) - 1)]
      BY <1>1, <1>7, <2>1, <2>3
    <3>2. up[i + 1] = uart[(i + 1) - Len(toHost)]
      BY <1>1, <1>2, <2>1, <2>3
    <3>3. i - (Len(toHost) - 1) = (i + 1) - Len(toHost)
      BY <1>1, <2>1
    <3> QED
      BY <2>1, <3>1, <3>2, <3>3
  <2> QED
    BY <2>2, <2>3
<1>10. up' = Tail(up)
  BY <1>4, <1>7, <1>8, <1>9, SeqEqual
<1> QED
  BY <1>3, <1>5, <1>10

(* The UART hands its frame on; a start of the host clears the queue. *)
LEMMA UpMoves ==
  ASSUME LineTypes
  PROVE  /\ UartDone => up' = up
         /\ toHost' = <<>> /\ uart' = <<>> => up' = <<>>
         /\ UNCHANGED <<toHost, uart>> => up' = up
         /\ toHost = <<>> /\ uart = <<>> => up = <<>>
<1>1. UartDone => up' = up
  <2> SUFFICES ASSUME UartDone PROVE up' = up
    OBVIOUS
  <2>1. toHost \o uart \in Seq(Frames)
    BY ConcatProperties DEF LineTypes
  <2>2. (toHost \o uart) \o <<>> = toHost \o uart
    BY <2>1
  <2> QED
    BY <2>2 DEF UartDone, up
<1> QED
  BY <1>1 DEF up

-----------------------------------------------------------------------------
(* The two sides and what is between them *)
LinkInv == QueuesOK(host.state, cb.linkState, toDevice, up)

(* The initial state *)
LEMMA LinkInit == Init => LinkInv
<1> SUFFICES ASSUME Init PROVE LinkInv
  OBVIOUS
<1>1. up = <<>> /\ toDevice = <<>>
  BY DEF Init, up
<1> QED
  BY <1>1, NothingOnTheLine DEF LinkInv

(* The types of the two sides and of what is between them *)
LEMMA StatesAre ==
  H5Types => /\ cb.linkState \in LinkStates /\ host.state \in LinkStates
             /\ cb \in DeviceStates /\ host \in HostStates
             /\ LineTypes /\ up \in Seq(Frames) /\ toDevice \in Seq(Frames)
<1> SUFFICES ASSUME H5Types
    PROVE  /\ cb.linkState \in LinkStates /\ host.state \in LinkStates
           /\ cb \in DeviceStates /\ host \in HostStates
           /\ LineTypes /\ up \in Seq(Frames) /\ toDevice \in Seq(Frames)
  OBVIOUS
<1>1. cb \in DeviceStates /\ host \in HostStates /\ LineTypes
  BY DEF H5Types, DeviceTypes
<1>2. cb.linkState \in LinkStates /\ host.state \in LinkStates
  BY <1>1 DEF DeviceStates, HostStates
<1> QED
  BY <1>1, <1>2, UpTyped

(* The device receives. *)
LEMMA DeviceTakes ==
  ASSUME H5Types, LinkInv, NEW h, Arrives(h), cb'.linkState = Goes(cb.linkState, h),
         \/ UNCHANGED uart
         \/ \E f \in Frames : Send(f) /\ (\/ Answers(cb.linkState, h, f.kind)
                                          \/ Sends(Goes(cb.linkState, h), f.kind))
  PROVE  LinkInv'
<1> DEFINE s == cb.linkState
           r == host.state
<1>1. /\ toDevice # <<>> /\ h = Head(toDevice).kind /\ toDevice' = Tail(toDevice)
      /\ toHost' = toHost /\ host' = host
  BY DEF Arrives
<1>2. s \in LinkStates /\ r \in LinkStates /\ up \in Seq(Frames) /\ toDevice \in Seq(Frames)
      /\ LineTypes
  BY StatesAre
<1>3. QueuesOK(s, r, up, toDevice)
  BY OtherSide DEF LinkInv
<1> HIDE DEF s, r
<1>4. /\ QueuesOK(Goes(s, h), r, up, Tail(toDevice))
      /\ \A f \in Frames : Answers(s, h, f.kind) \/ Sends(Goes(s, h), f.kind) =>
           QueuesOK(Goes(s, h), r, Append(up, f), Tail(toDevice))
  BY <1>1, <1>2, <1>3, SideTakes
<1>5. QueuesOK(Goes(s, h), r, up', toDevice')
  <2>1. CASE UNCHANGED uart
    BY <1>1, <1>4, <2>1 DEF up
  <2>2. ASSUME NEW f \in Frames, Send(f), Answers(s, h, f.kind) \/ Sends(Goes(s, h), f.kind)
        PROVE  QueuesOK(Goes(s, h), r, up', toDevice')
    <3>1. up' = up \/ up' = Append(up, f)
      BY <1>1, <1>2, <2>2, UpSend
    <3> QED
      BY <1>1, <1>4, <2>2, <3>1
  <2> QED
    BY <2>1, <2>2 DEF s
<1>6. QueuesOK(r, Goes(s, h), toDevice', up')
  BY <1>5, OtherSide
<1> QED
  BY <1>1, <1>6 DEF LinkInv, s, r

(* The steps of the device, by the states they pass through *)
LEMMA LinkDevice ==
  ASSUME H5Types, LinkInv
  PROVE  /\ SendData \/ PollLink \/ QueueEvent \/ DeviceRestart => LinkInv'
         /\ Receive => LinkInv'
<1>0. /\ cb.linkState \in LinkStates /\ host.state \in LinkStates /\ cb \in DeviceStates
      /\ up \in Seq(Frames) /\ toDevice \in Seq(Frames) /\ LineTypes
  BY StatesAre
<1>f. \A m \in LinkMessages : LinkFrame(m) \in Frames /\ LinkFrame(m).kind = m
  BY FramesMade
<1>a. ASSUME NEW f \in Frames, Send(f), Sends(cb.linkState, f.kind),
             UNCHANGED <<toHost, toDevice, host>>, cb'.linkState = cb.linkState
      PROVE  LinkInv'
  <2>1. QueuesOK(cb.linkState, host.state, up, toDevice)
    BY OtherSide DEF LinkInv
  <2>2. up' = up \/ up' = Append(up, f)
    BY <1>0, <1>a, UpSend
  <2>3. QueuesOK(cb.linkState, host.state, up', toDevice)
    BY <1>0, <1>a, <2>1, <2>2, SideSends
  <2>4. QueuesOK(host.state, cb.linkState, toDevice, up')
    BY <2>3, OtherSide
  <2> QED
    BY <1>a, <2>4 DEF LinkInv
<1>1. CASE SendData
  <2> DEFINE f == Data(cb.txSeq, cb.txAck, slots[SlotToSend])
  <2>1. Send(f) /\ cb.linkState = "ACTIVE" /\ UNCHANGED <<toHost, toDevice, host>> /\ ~UartBusy
    BY <1>1 DEF SendData
  <2>2. cb'.linkState = cb.linkState
    BY <1>0, <1>1 DEF SendData, DeviceStates
  <2>3. f.kind = "DATA"
    BY DEF Data
  <2>4. f \in Frames
    <3>1. H5Types'
      BY <1>1, TypesSend
    <3>2. uart' = <<f>> /\ uart' \in Seq(Frames)
      BY <2>1, <3>1 DEF Send, H5Types, LineTypes
    <3>3. Len(<<f>>) = 1 /\ <<f>>[1] = f
      OBVIOUS
    <3> QED
      BY <3>2, <3>3, ElementOfSeq
  <2>5. Sends(cb.linkState, f.kind)
    BY <2>1, <2>3 DEF Sends, Packets
  <2> QED
    BY <1>a, <2>1, <2>2, <2>4, <2>5
<1>2. CASE PollLink
  <2>1. PICK m \in LinkMessages : Send(LinkFrame(m)) /\ Sends(cb.linkState, m)
    BY <1>2 DEF PollLink, Repeat, Sends, LinkMessages
  <2>2. UNCHANGED <<cb, toHost, toDevice, host>>
    BY <1>2 DEF PollLink
  <2> QED
    BY <1>a, <1>f, <2>1, <2>2
<1>3. CASE QueueEvent
  BY <1>3 DEF QueueEvent, LinkInv, up
<1>4. CASE DeviceRestart
  <2>1. up' = <<>> /\ toDevice' = <<>>
    BY <1>4 DEF DeviceRestart, up
  <2> QED
    BY <2>1, NothingOnTheLine DEF LinkInv
<1>5. CASE RecvSync
  <2>1. Arrives("SYNC") /\ Send(LinkFrame("SYNC_RSP"))
    BY <1>5 DEF RecvSync
  <2>2. cb'.linkState = Goes(cb.linkState, "SYNC")
    <3>1. [ResetOf(cb) EXCEPT !.linkState = "IDLE"].linkState = "IDLE"
      BY <1>0, ResetTyped DEF LinkStates
    <3> QED
      BY <1>5, <3>1 DEF RecvSync, Goes
  <2>3. /\ LinkFrame("SYNC_RSP") \in Frames
        /\ Answers(cb.linkState, "SYNC", LinkFrame("SYNC_RSP").kind)
    BY <1>f DEF LinkMessages, Answers
  <2> QED
    BY <2>1, <2>2, <2>3, DeviceTakes
<1>6. CASE RecvSyncRsp
  <2>1. Arrives("SYNC_RSP")
    BY <1>6 DEF RecvSyncRsp
  <2>2. CASE cb.linkState = "IDLE"
    <3>1. cb'.linkState = Goes(cb.linkState, "SYNC_RSP") /\ Goes(cb.linkState, "SYNC_RSP") = "INIT"
      BY <1>0, <1>6, <2>2 DEF RecvSyncRsp, Goes, DeviceStates
    <3>2. Send(LinkFrame("CONFIG")) /\ LinkFrame("CONFIG") \in Frames
          /\ Sends("INIT", LinkFrame("CONFIG").kind)
      BY <1>6, <1>f, <2>2 DEF RecvSyncRsp, LinkMessages, Sends
    <3> QED
      BY <2>1, <3>1, <3>2, DeviceTakes
  <2>3. CASE cb.linkState # "IDLE"
    <3>1. UNCHANGED <<cb, uart>> /\ Goes(cb.linkState, "SYNC_RSP") = cb.linkState
      BY <1>6, <2>3 DEF RecvSyncRsp, LateAnswer, Goes
    <3> QED
      BY <2>1, <3>1, DeviceTakes
  <2> QED
    BY <2>2, <2>3
<1>7. CASE RecvConfig
  <2>1. Arrives("CONFIG") /\ cb'.linkState = Goes(cb.linkState, "CONFIG")
        /\ Goes(cb.linkState, "CONFIG") = cb.linkState
    BY <1>7 DEF RecvConfig, Goes
  <2>2. CASE cb.linkState = "IDLE"
    <3>1. Send(LinkFrame("SYNC")) /\ LinkFrame("SYNC") \in Frames
          /\ Sends(cb.linkState, LinkFrame("SYNC").kind)
      BY <1>7, <1>f, <2>2 DEF RecvConfig, LinkMessages, Sends
    <3> QED
      BY <2>1, <3>1, DeviceTakes
  <2>3. CASE cb.linkState # "IDLE"
    <3>1. Send(LinkFrame("CONFIG_RSP")) /\ LinkFrame("CONFIG_RSP") \in Frames
          /\ Answers(cb.linkState, "CONFIG", LinkFrame("CONFIG_RSP").kind)
      BY <1>7, <1>f, <2>3 DEF RecvConfig, LinkMessages, Answers
    <3> QED
      BY <2>1, <3>1, DeviceTakes
  <2> QED
    BY <2>2, <2>3
<1>8. CASE RecvConfigRsp
  <2>1. Arrives("CONFIG_RSP")
    BY <1>8 DEF RecvConfigRsp
  <2>2. CASE cb.linkState = "IDLE"
    <3>1. UNCHANGED cb /\ Goes(cb.linkState, "CONFIG_RSP") = cb.linkState
      BY <1>8, <2>2 DEF RecvConfigRsp, Goes
    <3>2. Send(LinkFrame("SYNC")) /\ LinkFrame("SYNC") \in Frames
          /\ Sends(cb.linkState, LinkFrame("SYNC").kind)
      BY <1>8, <1>f, <2>2 DEF RecvConfigRsp, LinkMessages, Sends
    <3> QED
      BY <2>1, <3>1, <3>2, DeviceTakes
  <2>3. CASE cb.linkState = "INIT"
    <3>1. cb' = ActiveOf(cb) /\ UNCHANGED uart
      BY <1>8, <2>3 DEF RecvConfigRsp
    <3>2. ActiveOf(cb).linkState = "ACTIVE"
      BY <1>0, ResetTyped DEF ActiveOf, LinkStates
    <3>3. cb'.linkState = Goes(cb.linkState, "CONFIG_RSP")
      BY <2>3, <3>1, <3>2 DEF Goes
    <3> QED
      BY <2>1, <3>1, <3>3, DeviceTakes
  <2>4. CASE cb.linkState = "ACTIVE"
    <3>1. UNCHANGED <<cb, uart>> /\ Goes(cb.linkState, "CONFIG_RSP") = cb.linkState
      BY <1>8, <2>4 DEF RecvConfigRsp, Goes
    <3> QED
      BY <2>1, <3>1, DeviceTakes
  <2> QED
    BY <1>0, <2>2, <2>3, <2>4 DEF LinkStates
<1>9. CASE RecvAck
  <2>1. Arrives("ACK") /\ UNCHANGED uart /\ ReSendCheck(cb, Head(toDevice).ack)
    BY <1>9 DEF RecvAck
  <2>2. cb'.linkState = Goes(cb.linkState, "ACK")
    BY <1>0, <2>1 DEF ReSendCheck, Goes, DeviceStates
  <2> QED
    BY <2>1, <2>2, DeviceTakes
<1>10. CASE RecvData
  <2> DEFINE f == Head(toDevice)
  <2>1. Arrives("DATA") /\ Goes(cb.linkState, "DATA") = cb.linkState
    BY <1>10 DEF RecvData, Goes
  <2>2. CASE cb.linkState # "ACTIVE"
    <3>1. UNCHANGED <<cb, uart>>
      BY <1>10, <2>2 DEF RecvData
    <3> QED
      BY <2>1, <3>1, DeviceTakes
  <2>3. CASE cb.linkState = "ACTIVE"
    <3>1. RecvReliable(f) \/ RecvUnreliable(f)
      BY <1>10, <2>3 DEF RecvData
    <3>2. /\ Taken(cb) \in DeviceStates /\ Taken(cb).linkState = cb.linkState
          /\ Counted(cb).linkState = cb.linkState
      BY <1>0, TakenTyped
    <3>3. cb'.linkState = cb.linkState
      BY <1>0, <3>1, <3>2 DEF RecvReliable, RecvUnreliable, ReSendCheck, DeviceStates
    <3>4. PureAck(Taken(cb).txAck) \in Frames /\ PureAck(Taken(cb).txAck).kind = "ACK"
      BY <3>2, SeqsAre, FramesMade
    <3>5. UNCHANGED uart \/ Send(PureAck(Taken(cb).txAck))
      BY <3>1 DEF RecvReliable, RecvUnreliable
    <3>6. Sends(cb.linkState, "ACK")
      BY <2>3 DEF Sends, Packets
    <3> QED
      BY <2>1, <3>3, <3>4, <3>5, <3>6, DeviceTakes
  <2> QED
    BY <2>2, <2>3
<1> QED
  BY <1>1, <1>2, <1>3, <1>4, <1>5, <1>6, <1>7, <1>8, <1>9, <1>10 DEF Receive

(* What is lost on the line *)
LEMMA LinkLine ==
  ASSUME H5Types, LinkInv
  PROVE  UartDone \/ LoseToHost \/ LoseToDevice => LinkInv'
<1>0. /\ cb.linkState \in LinkStates /\ host.state \in LinkStates
      /\ up \in Seq(Frames) /\ toDevice \in Seq(Frames) /\ LineTypes
  BY StatesAre
<1>1. CASE UartDone
  BY <1>0, <1>1, UpMoves DEF UartDone, LinkInv
<1>2. CASE LoseToHost
  <2>1. up # <<>> /\ up' = Tail(up)
    BY <1>0, <1>2, UpTake DEF LoseToHost, device
  <2>2. QueuesOK(cb.linkState, host.state, up', toDevice)
    BY <1>0, <2>1, OtherSide, SideLoses DEF LinkInv
  <2>3. QueuesOK(host.state, cb.linkState, toDevice, up')
    BY <2>2, OtherSide
  <2> QED
    BY <1>2, <2>3 DEF LoseToHost, device, LinkInv
<1>3. CASE LoseToDevice
  <2>1. toDevice # <<>> /\ toDevice' = Tail(toDevice) /\ up' = up /\ UNCHANGED <<cb, host>>
    BY <1>3 DEF LoseToDevice, device, up
  <2>2. QueuesOK(host.state, cb.linkState, Tail(toDevice), up)
    BY <1>0, <2>1, SideLoses DEF LinkInv
  <2> QED
    BY <2>1, <2>2 DEF LinkInv
<1> QED
  BY <1>1, <1>2, <1>3

(* The host sends on its own account. *)
LEMMA HostSendsLink ==
  ASSUME H5Types, LinkInv, NEW f \in Frames, HostSends(f), Sends(host.state, f.kind),
         UNCHANGED <<device, toHost>>, host'.state = host.state
  PROVE  LinkInv'
<1>1. /\ cb.linkState \in LinkStates /\ host.state \in LinkStates
      /\ up \in Seq(Frames) /\ toDevice \in Seq(Frames)
  BY StatesAre
<1>2. toDevice' = Append(toDevice, f) /\ up' = up /\ cb' = cb
  BY DEF HostSends, up, device
<1>3. QueuesOK(host.state, cb.linkState, toDevice', up)
  BY <1>1, <1>2, SideSends DEF LinkInv
<1> QED
  BY <1>2, <1>3 DEF LinkInv

(* The host receives. *)
LEMMA HostTakes ==
  ASSUME H5Types, LinkInv, toHost # <<>>, toHost' = Tail(toHost), UNCHANGED device,
         NEW h, h = Head(toHost).kind, host'.state = Goes(host.state, h),
         \/ UNCHANGED toDevice
         \/ \E f \in Frames : HostSends(f) /\ (\/ Answers(host.state, h, f.kind)
                                               \/ Sends(Goes(host.state, h), f.kind))
  PROVE  LinkInv'
<1> DEFINE s == host.state
           r == cb.linkState
<1>1. UNCHANGED <<uart, cb>>
  BY DEF device
<1>2. /\ s \in LinkStates /\ r \in LinkStates /\ up \in Seq(Frames) /\ toDevice \in Seq(Frames)
      /\ LineTypes
  BY StatesAre
<1>3. up # <<>> /\ up' = Tail(up) /\ h = Head(up).kind
  BY <1>1, <1>2, UpTake
<1>4. QueuesOK(s, r, toDevice, up)
  BY DEF LinkInv
<1> HIDE DEF s, r
<1>5. /\ QueuesOK(Goes(s, h), r, toDevice, Tail(up))
      /\ \A f \in Frames : Answers(s, h, f.kind) \/ Sends(Goes(s, h), f.kind) =>
           QueuesOK(Goes(s, h), r, Append(toDevice, f), Tail(up))
  BY <1>2, <1>3, <1>4, SideTakes
<1>6. QueuesOK(Goes(s, h), r, toDevice', up')
  <2>1. CASE UNCHANGED toDevice
    BY <1>3, <1>5, <2>1
  <2>2. ASSUME NEW f \in Frames, HostSends(f), Answers(s, h, f.kind) \/ Sends(Goes(s, h), f.kind)
        PROVE  QueuesOK(Goes(s, h), r, toDevice', up')
    <3>1. toDevice' = Append(toDevice, f)
      BY <2>2 DEF HostSends
    <3> QED
      BY <1>3, <1>5, <2>2, <3>1
  <2> QED
    BY <2>1, <2>2 DEF s
<1> QED
  BY <1>1, <1>6 DEF LinkInv, s, r

(* The steps of the host *)
LEMMA LinkHost ==
  ASSUME H5Types, LinkInv
  PROVE  HostTimer \/ HostSendData \/ HostReceive \/ HostRestart => LinkInv'
<1>0. /\ host.state \in LinkStates /\ host \in HostStates /\ LineTypes
  BY StatesAre
<1>f. \A m \in LinkMessages : LinkFrame(m) \in Frames /\ LinkFrame(m).kind = m
  BY FramesMade
<1>1. CASE HostTimer
  <2>1. PICK m \in LinkMessages : HostSends(LinkFrame(m)) /\ Sends(host.state, m)
    BY <1>1 DEF HostTimer, Sends, LinkMessages
  <2>2. UNCHANGED <<device, toHost, host>>
    BY <1>1 DEF HostTimer
  <2> QED
    BY <1>f, <2>1, <2>2, HostSendsLink
<1>2. CASE HostSendData
  <2>1. PICK n \in host.acked + 1 .. host.acked + HostWindow :
          /\ HostSends(Data(SeqNumOf(n), host.expected, <<host.session, n>>))
          /\ host' = [host EXCEPT !.sent = IF n > host.sent THEN n ELSE host.sent]
    BY <1>2 DEF HostSendData
  <2>2. UNCHANGED <<device, toHost>> /\ host.state = "ACTIVE"
    BY <1>2 DEF HostSendData
  <2>3. host'.state = host.state
    BY <1>0, <2>1 DEF HostStates
  <2> DEFINE f == Data(SeqNumOf(n), host.expected, <<host.session, n>>)
  <2>4. f.kind = "DATA" /\ Sends(host.state, f.kind)
    BY <2>2 DEF Data, Sends, Packets
  <2>5. f \in Frames
    <3>1. n - 1 \in Int /\ n \in Nat /\ host.session \in Nat /\ host.expected \in Seqs
      BY <1>0, ConstantsAre DEF HostStates
    <3>2. SeqNumOf(n) \in Seqs
      BY <3>1, ModTyped DEF SeqNumOf
    <3>3. <<host.session, n>> \in Bodies
      BY <3>1, BodiesAre
    <3> QED
      BY <3>1, <3>2, <3>3, FramesMade
  <2> HIDE DEF f
  <2>6. HostSends(f)
    BY <2>1 DEF f
  <2> QED
    BY <2>2, <2>3, <2>4, <2>5, <2>6, HostSendsLink
<1>3. CASE HostReceive
  <2> DEFINE h == Head(toHost).kind
  <2>1. toHost # <<>> /\ toHost' = Tail(toHost) /\ UNCHANGED device
    BY <1>3 DEF HostReceive
  <2>2. /\ Head(toHost) \in Frames /\ h \in FrameKinds
    <3>1. Head(toHost) \in Frames
      BY <1>0, <2>1, TailIs DEF LineTypes
    <3> QED
      BY <3>1 DEF Frames
  <2>3. \A s \in LinkStates : HostIn(s).state = s /\ HostIn(s) \in HostStates
    BY <1>0, HostTyped
  <2>4. CASE h = "SYNC"
    <3>1. HostReceiveLink("SYNC")
      BY <1>3, <2>4 DEF HostReceive, LinkMessages
    <3>2. host'.state = Goes(host.state, h)
      BY <2>3, <2>4, <3>1 DEF HostReceiveLink, Goes, LinkStates
    <3>3. HostSends(LinkFrame("SYNC_RSP"))
      BY <3>1 DEF HostReceiveLink
    <3>4. LinkFrame("SYNC_RSP") \in Frames /\ Answers(host.state, h, LinkFrame("SYNC_RSP").kind)
      BY <1>f, <2>4 DEF LinkMessages, Answers
    <3> HIDE DEF h
    <3> QED
      BY <2>1, <3>2, <3>3, <3>4, HostTakes DEF h
  <2>5. CASE h = "SYNC_RSP"
    <3>1. HostReceiveLink("SYNC_RSP")
      BY <1>3, <2>5 DEF HostReceive, LinkMessages
    <3>2. host'.state = Goes(host.state, h) /\ UNCHANGED toDevice
      BY <2>3, <2>5, <3>1 DEF HostReceiveLink, Goes, LinkStates
    <3> QED
      BY <2>1, <3>2, HostTakes
  <2>6. CASE h = "CONFIG"
    <3>1. HostReceiveLink("CONFIG")
      BY <1>3, <2>6 DEF HostReceive, LinkMessages
    <3>2. host'.state = Goes(host.state, h)
      BY <2>6, <3>1 DEF HostReceiveLink, Goes
    <3>3. \/ UNCHANGED toDevice
          \/ host.state # "IDLE" /\ HostSends(LinkFrame("CONFIG_RSP"))
      BY <3>1 DEF HostReceiveLink
    <3>4. LinkFrame("CONFIG_RSP") \in Frames
          /\ (host.state # "IDLE" => Answers(host.state, h, LinkFrame("CONFIG_RSP").kind))
      BY <1>f, <2>6 DEF LinkMessages, Answers
    <3> HIDE DEF h
    <3> QED
      BY <2>1, <3>2, <3>3, <3>4, HostTakes DEF h
  <2>7. CASE h = "CONFIG_RSP"
    <3>1. HostReceiveLink("CONFIG_RSP")
      BY <1>3, <2>7 DEF HostReceive, LinkMessages
    <3>2. [HostIn("ACTIVE") EXCEPT !.session = HostIn("ACTIVE").session + 1].state = "ACTIVE"
      BY DEF HostIn
    <3>3. host'.state = Goes(host.state, h) /\ UNCHANGED toDevice
      BY <2>7, <3>1, <3>2 DEF HostReceiveLink, Goes
    <3> QED
      BY <2>1, <3>3, HostTakes
  <2>8. CASE h \in Packets
    <3>1. HostReceivePacket(Head(toHost)) /\ Goes(host.state, h) = host.state
      BY <1>3, <2>8 DEF HostReceive, LinkMessages, Packets, Goes
    <3>2. CASE host.state # "ACTIVE"
      <4>1. UNCHANGED <<host, toDevice>>
        BY <3>1, <3>2 DEF HostReceivePacket
      <4> QED
        BY <2>1, <3>1, <4>1, HostTakes
    <3>3. CASE host.state = "ACTIVE"
      <4> DEFINE g == [host EXCEPT !.acked = HostAcked(Head(toHost).ack)]
                 next == (g.expected + 1) % SEQ_NUM
      <4>1. g.state = host.state /\ g.expected = host.expected /\ g.expected \in Seqs
            /\ [g EXCEPT !.expected = next].state = host.state
        BY <1>0 DEF HostStates
      <4>2. next \in Seqs
        <5>1. g.expected + 1 \in Int
          BY <4>1, SeqsAre
        <5> QED
          BY <5>1, ModTyped
      <4>3. /\ host' \in {g, [g EXCEPT !.expected = next]}
            /\ \/ UNCHANGED toDevice
               \/ \E a \in {g.expected, next} : HostSends(PureAck(a))
        BY <3>1, <3>3 DEF HostReceivePacket
      <4>4. host'.state = host.state
        BY <4>1, <4>3
      <4>5. \A a \in Seqs : PureAck(a) \in Frames /\ Sends(host.state, PureAck(a).kind)
        BY <3>3, FramesMade DEF Sends, Packets
      <4> HIDE DEF g, next
      <4>6. \/ UNCHANGED toDevice
            \/ \E f \in Frames : HostSends(f) /\ Sends(host.state, f.kind)
        BY <4>1, <4>2, <4>3, <4>5
      <4> HIDE DEF h
      <4> QED
        BY <2>1, <3>1, <4>4, <4>6, HostTakes DEF h
    <3> QED
      BY <3>2, <3>3
  <2> QED
    BY <2>2, <2>4, <2>5, <2>6, <2>7, <2>8 DEF FrameKinds, LinkMessages
<1>4. CASE HostRestart
  <2>1. up' = <<>> /\ toDevice' = <<>>
    BY <1>4 DEF HostRestart, up
  <2> QED
    BY <2>1, NothingOnTheLine DEF LinkInv
<1> QED
  BY <1>1, <1>2, <1>3, <1>4

(* Every step keeps LinkInv. *)
LEMMA LinkStep == H5Types /\ LinkInv /\ [Next]_vars => LinkInv'
<1> SUFFICES ASSUME H5Types, LinkInv, [Next]_vars PROVE LinkInv'
  OBVIOUS
<1>1. CASE Next
  BY <1>1, LinkDevice, LinkLine, LinkHost DEF Next
<1>2. CASE UNCHANGED vars
  BY <1>2 DEF LinkInv, up, vars, device
<1> QED
  BY <1>1, <1>2

(* No SYNC to either side of an established link *)
LEMMA LinkIsSafe == H5Types /\ LinkInv => NoLateSync
<1> SUFFICES ASSUME H5Types, LinkInv, cb.linkState = "ACTIVE", host.state = "ACTIVE"
             PROVE  Syncs(toDevice) \cup Syncs(toHost) \cup Syncs(uart) = {}
  BY DEF NoLateSync
<1>1. "SYNC" \notin Kinds(toDevice) /\ "SYNC" \notin Kinds(up)
  BY DEF LinkInv, QueuesOK, LinkOK, OneWay, May
<1>2. /\ toHost \in Seq(Frames) /\ uart \in Seq(Frames)
      /\ Len(toHost) \in Nat /\ DOMAIN toHost = 1 .. Len(toHost)
      /\ Len(uart) \in Nat /\ DOMAIN uart = 1 .. Len(uart)
  BY StatesAre, LenProperties DEF LineTypes
<1>3. /\ up \in Seq(Frames) /\ Len(up) = Len(toHost) + Len(uart)
      /\ \A i \in 1 .. Len(toHost) + Len(uart) :
           up[i] = IF i <= Len(toHost) THEN toHost[i] ELSE uart[i - Len(toHost)]
  BY <1>2, ConcatProperties DEF up
<1>4. DOMAIN up = 1 .. Len(toHost) + Len(uart)
  BY <1>3, LenProperties
<1>5. Syncs(toDevice) = {}
  BY <1>1 DEF Kinds, Syncs
<1>6. ASSUME NEW i \in DOMAIN toHost PROVE toHost[i].kind # "SYNC"
  <2>1. i \in DOMAIN up /\ up[i] = toHost[i]
    BY <1>2, <1>3, <1>4
  <2> QED
    BY <1>1, <2>1 DEF Kinds
<1>7. ASSUME NEW i \in DOMAIN uart PROVE uart[i].kind # "SYNC"
  <2>1. i + Len(toHost) \in DOMAIN up /\ ~(i + Len(toHost) <= Len(toHost))
        /\ (i + Len(toHost)) - Len(toHost) = i
    BY <1>2, <1>4
  <2>2. up[i + Len(toHost)] = uart[i]
    BY <1>3, <1>4, <2>1
  <2> QED
    BY <1>1, <2>1, <2>2 DEF Kinds
<1> QED
  BY <1>5, <1>6, <1>7 DEF Syncs

(* Late messages never take an established link down: once both sides are in
   it no SYNC is under way, although frames are lost, sent again and answered
   late, and either side starts anew (hci_h5.c:506-512).                     *)
THEOREM LinkNotTorn == Spec => []NoLateSync
<1>1. Init => H5Types /\ LinkInv
  BY TypesInit, LinkInit
<1>2. H5Types /\ LinkInv /\ [Next]_vars => H5Types' /\ LinkInv'
  BY TypesStep, LinkStep
<1> QED
  BY <1>1, <1>2, LinkIsSafe, PTL DEF Spec

-----------------------------------------------------------------------------
(* The packets w given to the HCI layer, up to session s *)
Of(w, s) == {i \in DOMAIN w : w[i][1] = s}
Count(w, s) == Cardinality(Of(w, s))
Earlier(w, i) == {j \in 1 .. i - 1 : w[j][1] = w[i][1]}
History(w, s) ==
  /\ \A i \in DOMAIN w : w[i] \in Nat \X Nat /\ w[i][1] <= s
  /\ \A i \in DOMAIN w : w[i][2] = Cardinality(Earlier(w, i)) + 1
  /\ \A n \in 1 .. Count(w, s) : \E i \in DOMAIN w : w[i] = <<s, n>>

(* The packets of a session are finitely many. *)
LEMMA CountTyped ==
  ASSUME NEW w \in Seq(Bodies), NEW s
  PROVE  IsFiniteSet(Of(w, s)) /\ Count(w, s) \in Nat
<1>1. Len(w) \in Nat /\ DOMAIN w = 1 .. Len(w)
  BY LenProperties
<1>2. IsFiniteSet(1 .. Len(w))
  BY <1>1, FS_Interval
<1>3. Of(w, s) \subseteq 1 .. Len(w)
  BY <1>1 DEF Of
<1>4. IsFiniteSet(Of(w, s))
  BY <1>2, <1>3, FS_Subset
<1> QED
  BY <1>4, FS_CardinalityType DEF Count

(* The next packet of the session *)
LEMMA HistoryAppend ==
  ASSUME NEW w \in Seq(Bodies), NEW s \in Nat, History(w, s),
         NEW v, v = Append(w, <<s, Count(w, s) + 1>>)
  PROVE  History(v, s) /\ Count(v, s) = Count(w, s) + 1 /\ v \in Seq(Bodies)
<1> DEFINE c == Count(w, s)
           e == <<s, c + 1>>
           n == Len(w) + 1
<1>1. c \in Nat /\ IsFiniteSet(Of(w, s))
  BY CountTyped
<1>2. e \in Bodies /\ e \in Nat \X Nat /\ e[1] = s /\ e[2] = c + 1
  BY <1>1, BodiesAre
<1>3. /\ v \in Seq(Bodies) /\ Len(w) \in Nat
      /\ DOMAIN w = 1 .. Len(w) /\ DOMAIN v = 1 .. Len(w) + 1
      /\ v[Len(w) + 1] = e /\ \A i \in 1 .. Len(w) : v[i] = w[i]
  BY <1>2, AppendIs
<1>4. /\ n \in DOMAIN v /\ n \notin DOMAIN w /\ v[n] = e
      /\ \A i \in DOMAIN v : i = n \/ i \in DOMAIN w
      /\ \A i \in DOMAIN w : i \in DOMAIN v /\ v[i] = w[i]
      /\ DOMAIN w = 1 .. n - 1 /\ DOMAIN w \subseteq Nat
  BY <1>3
<1>5. \A i \in DOMAIN w : \A j \in 1 .. i - 1 : j \in DOMAIN w
  BY <1>3
<1> HIDE DEF n, e, c
<1>6. Of(v, s) = Of(w, s) \cup {n} /\ n \notin Of(w, s)
  BY <1>2, <1>4 DEF Of
<1>7. Count(v, s) = c + 1
  BY <1>1, <1>6, FS_AddElement DEF Count, c
<1>8. ASSUME NEW i \in DOMAIN v PROVE v[i] \in Nat \X Nat /\ v[i][1] <= s
  BY <1>2, <1>4 DEF History
<1>9. ASSUME NEW i \in DOMAIN v PROVE v[i][2] = Cardinality(Earlier(v, i)) + 1
  <2>1. CASE i = n
    <3>1. Earlier(v, n) = Of(w, s)
      BY <1>2, <1>4 DEF Earlier, Of
    <3>2. Cardinality(Earlier(v, n)) = c
      BY <3>1 DEF Count, c
    <3> QED
      BY <1>2, <1>4, <2>1, <3>2
  <2>2. CASE i # n
    <3>1. i \in DOMAIN w /\ v[i] = w[i]
      BY <1>4, <2>2
    <3>2. Earlier(v, i) = Earlier(w, i)
      BY <1>4, <1>5, <3>1 DEF Earlier
    <3> QED
      BY <3>1, <3>2 DEF History
  <2> QED
    BY <2>1, <2>2
<1>10. ASSUME NEW m \in 1 .. c + 1 PROVE \E i \in DOMAIN v : v[i] = <<s, m>>
  <2>1. CASE m = c + 1
    BY <1>4, <2>1 DEF e
  <2>2. CASE m # c + 1
    <3>1. m \in 1 .. c
      BY <1>1, <2>2
    <3>2. PICK i \in DOMAIN w : w[i] = <<s, m>>
      BY <3>1 DEF History, c
    <3> QED
      BY <1>4, <3>2
  <2> QED
    BY <2>1, <2>2
<1> QED
  BY <1>3, <1>7, <1>8, <1>9, <1>10 DEF History, c

(* A new session *)
LEMMA HistoryNew ==
  ASSUME NEW w \in Seq(Bodies), NEW s \in Nat, History(w, s)
  PROVE  History(w, s + 1) /\ Count(w, s + 1) = 0
<1>1. \A i \in DOMAIN w : w[i] \in Nat \X Nat /\ w[i][1] <= s + 1 /\ w[i][1] # s + 1
  BY DEF History
<1>2. Of(w, s + 1) = {}
  BY <1>1 DEF Of
<1>3. Count(w, s + 1) = 0
  BY <1>2, FS_EmptySet DEF Count
<1>4. \A n \in 1 .. Count(w, s + 1) : \E i \in DOMAIN w : w[i] = <<s + 1, n>>
  BY <1>3
<1> QED
  BY <1>1, <1>3, <1>4 DEF History

-----------------------------------------------------------------------------
(* The packets on their way to the device: of session s, none beyond the last
   one sent, and none as far back as a window                               *)
IsData(q, i) == q[i].kind = "DATA"
AllSent(q, s) ==
  \A i \in DOMAIN q : IsData(q, i) =>
    /\ q[i].body \in Nat \X (Nat \ {0}) /\ q[i].body[1] = s
    /\ q[i].seq = SeqNumOf(q[i].body[2]) /\ q[i].reliable = 1
InWindow(q, r, sent) ==
  /\ \A i \in DOMAIN q : IsData(q, i) => q[i].body[2] <= sent /\ r < q[i].body[2] + HostWindow
  /\ \A i, j \in DOMAIN q : IsData(q, i) /\ IsData(q, j) /\ i < j =>
       q[i].body[2] < q[j].body[2] + HostWindow
NoPackets(q) == \A x \in Kinds(q) : x \notin Packets

(* A queue without packets *)
LEMMA SentNone ==
  ASSUME NEW q \in Seq(Frames), NoPackets(q), NEW s, NEW r, NEW sent
  PROVE  AllSent(q, s) /\ InWindow(q, r, sent)
<1>1. \A i \in DOMAIN q : ~IsData(q, i)
  BY DEF NoPackets, Kinds, IsData, Packets
<1> QED
  BY <1>1 DEF AllSent, InWindow

(* The first frame is taken; what is behind a packet is within a window of it. *)
LEMMA SentTail ==
  ASSUME NEW q \in Seq(Frames), q # <<>>, NEW s, AllSent(q, s)
  PROVE  /\ AllSent(Tail(q), s)
         /\ \A r, sent \in Nat : InWindow(q, r, sent) => InWindow(Tail(q), r, sent)
         /\ Head(q).kind = "DATA" =>
              /\ Head(q).body \in Nat \X (Nat \ {0}) /\ Head(q).body[1] = s
              /\ Head(q).seq = SeqNumOf(Head(q).body[2]) /\ Head(q).reliable = 1
              /\ \A r, sent \in Nat : InWindow(q, r, sent) =>
                   /\ Head(q).body[2] <= sent /\ r < Head(q).body[2] + HostWindow
                   /\ InWindow(Tail(q), Head(q).body[2], sent)
<1> DEFINE t == Tail(q)
           h == Head(q)
<1>1. /\ t \in Seq(Frames) /\ Len(q) \in Nat /\ Len(q) >= 1
      /\ h = q[1] /\ DOMAIN t = 1 .. Len(q) - 1
      /\ \A i \in 1 .. Len(q) - 1 : t[i] = q[i + 1]
  BY TailIs
<1>2. DOMAIN q = 1 .. Len(q)
  BY LenProperties
<1>3. /\ 1 \in DOMAIN q /\ h = q[1]
      /\ \A i \in DOMAIN t : i + 1 \in DOMAIN q /\ t[i] = q[i + 1] /\ 1 < i + 1
      /\ \A i, j \in DOMAIN t : i < j => i + 1 < j + 1
  BY <1>1, <1>2
<1> HIDE DEF t, h
<1>4. AllSent(t, s)
  BY <1>3 DEF AllSent, IsData
<1>5. ASSUME NEW r \in Nat, NEW sent \in Nat, InWindow(q, r, sent)
      PROVE  InWindow(t, r, sent)
  BY <1>3, <1>5 DEF InWindow, IsData
<1>6. h.kind = "DATA" => /\ h.body \in Nat \X (Nat \ {0}) /\ h.body[1] = s
                         /\ h.seq = SeqNumOf(h.body[2]) /\ h.reliable = 1
  BY <1>3 DEF AllSent, IsData
<1>7. ASSUME NEW r \in Nat, NEW sent \in Nat, InWindow(q, r, sent), h.kind = "DATA"
      PROVE  /\ h.body[2] <= sent /\ r < h.body[2] + HostWindow
             /\ InWindow(t, h.body[2], sent)
  BY <1>3, <1>7 DEF InWindow, IsData
<1> QED
  BY <1>4, <1>5, <1>6, <1>7 DEF t, h

(* A frame that is not a packet is sent. *)
LEMMA SentOther ==
  ASSUME NEW q \in Seq(Frames), NEW s, AllSent(q, s), NEW f \in Frames, f.kind # "DATA",
         NEW p, p = Append(q, f)
  PROVE  AllSent(p, s) /\ \A r, m \in Nat : InWindow(q, r, m) => InWindow(p, r, m)
<1>1. /\ p \in Seq(Frames) /\ Len(q) \in Nat
      /\ DOMAIN q = 1 .. Len(q) /\ DOMAIN p = 1 .. Len(q) + 1
      /\ p[Len(q) + 1] = f /\ \A i \in 1 .. Len(q) : p[i] = q[i]
  BY AppendIs
<1>2. \A i \in DOMAIN p : IsData(p, i) => i \in DOMAIN q /\ IsData(q, i) /\ p[i] = q[i]
  BY <1>1 DEF IsData
<1>3. AllSent(p, s)
  BY <1>2 DEF AllSent
<1>4. ASSUME NEW r \in Nat, NEW m \in Nat, InWindow(q, r, m) PROVE InWindow(p, r, m)
  BY <1>2, <1>4 DEF InWindow
<1> QED
  BY <1>3, <1>4

(* The packet n is sent. *)
LEMMA SentPacket ==
  ASSUME NEW q \in Seq(Frames), NEW s \in Nat, AllSent(q, s), NEW f \in Frames,
         NEW p, p = Append(q, f),
         NEW r \in Nat, NEW m \in Nat, NEW m2 \in Nat, NEW n \in Nat,
         f.kind = "DATA", n # 0, f.body = <<s, n>>, f.seq = SeqNumOf(n), f.reliable = 1,
         InWindow(q, r, m), m <= m2, n <= m2, r < n + HostWindow, m < n + HostWindow
  PROVE  AllSent(p, s) /\ InWindow(p, r, m2)
<1> DEFINE z == Len(q) + 1
<1>1. /\ p \in Seq(Frames) /\ Len(q) \in Nat
      /\ DOMAIN q = 1 .. Len(q) /\ DOMAIN p = 1 .. Len(q) + 1
      /\ p[Len(q) + 1] = f /\ \A i \in 1 .. Len(q) : p[i] = q[i]
  BY AppendIs
<1>2. /\ z \in DOMAIN p /\ p[z] = f
      /\ \A i \in DOMAIN p : i = z \/ i \in DOMAIN q
      /\ \A i \in DOMAIN q : p[i] = q[i] /\ ~(z < i)
      /\ ~(z < z)
  BY <1>1
<1> HIDE DEF z
<1>3. \A i \in DOMAIN q : IsData(p, i) <=> IsData(q, i)
  BY <1>2 DEF IsData
<1>4. f.body \in Nat \X (Nat \ {0}) /\ f.body[1] = s /\ f.body[2] = n
  OBVIOUS
<1>5. ASSUME NEW i \in DOMAIN p, IsData(p, i)
      PROVE  /\ p[i].body \in Nat \X (Nat \ {0}) /\ p[i].body[1] = s
             /\ p[i].seq = SeqNumOf(p[i].body[2]) /\ p[i].reliable = 1
  <2>1. CASE i = z
    BY <1>2, <1>4, <2>1
  <2>2. CASE i \in DOMAIN q
    BY <1>2, <1>3, <1>5, <2>2 DEF AllSent
  <2> QED
    BY <1>2, <2>1, <2>2
<1>6. HostWindow \in Nat
  BY ConstantsAre
<1>7. ASSUME NEW i \in DOMAIN p, IsData(p, i)
      PROVE  p[i].body[2] <= m2 /\ r < p[i].body[2] + HostWindow
  <2>1. CASE i = z
    BY <1>2, <1>4, <2>1
  <2>2. CASE i \in DOMAIN q
    <3>1. q[i].body[2] <= m /\ r < q[i].body[2] + HostWindow /\ p[i] = q[i]
      BY <1>2, <1>3, <1>7, <2>2 DEF InWindow
    <3>2. p[i].body[2] \in Nat
      BY <1>5, <1>7
    <3> QED
      BY <3>1, <3>2
  <2> QED
    BY <1>2, <2>1, <2>2
<1>8. ASSUME NEW i \in DOMAIN p, NEW j \in DOMAIN p, IsData(p, i), IsData(p, j), i < j
      PROVE  p[i].body[2] < p[j].body[2] + HostWindow
  <2>1. i \in DOMAIN q /\ p[i] = q[i] /\ IsData(q, i)
    BY <1>2, <1>3, <1>8
  <2>2. CASE j = z
    <3>1. q[i].body[2] <= m
      BY <2>1 DEF InWindow
    <3>2. p[i].body[2] \in Nat
      BY <1>5, <1>8
    <3> QED
      <4>1. p[j].body[2] = n /\ p[i].body[2] <= m
        BY <1>2, <1>4, <2>1, <2>2, <3>1
      <4> DEFINE x == p[i].body[2]
      <4>2. x \in Nat /\ x <= m
        BY <3>2, <4>1
      <4> HIDE DEF x
      <4>3. x < n + HostWindow
        BY <1>6, <4>2
      <4> QED
        BY <4>1, <4>3 DEF x
  <2>3. CASE j \in DOMAIN q
    BY <1>2, <1>3, <1>8, <2>1, <2>3 DEF InWindow
  <2> QED
    BY <1>2, <2>2, <2>3
<1> QED
  BY <1>5, <1>7, <1>8 DEF AllSent, InWindow

(* The acknowledgements on their way to the host: each stands for a number of
   packets between lo and hi, and none for fewer than the one before it      *)
IsPacket(q, i) == q[i].kind \in Packets
Stands(g, q) ==
  \A i \in DOMAIN q : IsPacket(q, i) =>
    /\ q[i].ack = (g[i] % SEQ_NUM)
    /\ \A j \in DOMAIN q : i <= j => g[i] <= g[j]
AcksFrom(q, lo, hi) == \E g \in [DOMAIN q -> lo .. hi] : Stands(g, q)
NoAcksYet(q) == \A i \in DOMAIN q : IsPacket(q, i) => q[i].ack = 0

(* A queue without packets *)
LEMMA AcksNone ==
  ASSUME NEW q \in Seq(Frames), NoPackets(q), NEW lo \in Nat, NEW hi \in Nat, lo <= hi
  PROVE  AcksFrom(q, lo, hi) /\ NoAcksYet(q)
<1>1. \A i \in DOMAIN q : ~IsPacket(q, i)
  BY DEF NoPackets, Kinds, IsPacket
<1> DEFINE g == [i \in DOMAIN q |-> lo]
<1>2. g \in [DOMAIN q -> lo .. hi]
  OBVIOUS
<1>3. Stands(g, q)
  BY <1>1 DEF Stands
<1> HIDE DEF g
<1> QED
  BY <1>1, <1>2, <1>3 DEF AcksFrom, NoAcksYet

(* A new session *)
LEMMA AcksStart ==
  ASSUME NEW q \in Seq(Frames), NoAcksYet(q)
  PROVE  AcksFrom(q, 0, 0)
<1> DEFINE g == [i \in DOMAIN q |-> 0]
<1>1. g \in [DOMAIN q -> 0 .. 0]
  OBVIOUS
<1>2. 0 % SEQ_NUM = 0
  BY ConstantsAre
<1>3. Stands(g, q)
  BY <1>2 DEF Stands, NoAcksYet
<1> HIDE DEF g
<1> QED
  BY <1>1, <1>3 DEF AcksFrom

(* More packets have arrived. *)
LEMMA AcksWider ==
  ASSUME NEW q, NEW lo \in Nat, NEW hi \in Nat, NEW hi2 \in Nat, hi <= hi2,
         AcksFrom(q, lo, hi)
  PROVE  AcksFrom(q, lo, hi2)
<1>1. PICK g \in [DOMAIN q -> lo .. hi] : Stands(g, q)
  BY DEF AcksFrom
<1>2. g \in [DOMAIN q -> lo .. hi2]
  <2>1. lo .. hi \subseteq lo .. hi2
    OBVIOUS
  <2> QED
    BY <2>1
<1> QED
  BY <1>1, <1>2 DEF AcksFrom

(* A frame that is not a packet, or one that acknowledges all *)
LEMMA AcksAppend ==
  ASSUME NEW q \in Seq(Frames), NEW lo \in Nat, NEW hi \in Nat, lo <= hi,
         NEW f \in Frames, f.kind \in Packets => f.ack = (hi % SEQ_NUM),
         NEW p, p = Append(q, f), AcksFrom(q, lo, hi)
  PROVE  AcksFrom(p, lo, hi)
<1> DEFINE z == Len(q) + 1
<1>1. /\ p \in Seq(Frames) /\ Len(q) \in Nat
      /\ DOMAIN q = 1 .. Len(q) /\ DOMAIN p = 1 .. Len(q) + 1
      /\ p[Len(q) + 1] = f /\ \A i \in 1 .. Len(q) : p[i] = q[i]
  BY AppendIs
<1>2. /\ z \in DOMAIN p /\ z \notin DOMAIN q /\ p[z] = f
      /\ \A i \in DOMAIN p : i = z \/ i \in DOMAIN q
      /\ \A i \in DOMAIN q : i \in DOMAIN p /\ p[i] = q[i] /\ ~(z <= i)
  BY <1>1
<1>3. PICK g \in [DOMAIN q -> lo .. hi] : Stands(g, q)
  BY DEF AcksFrom
<1> HIDE DEF z
<1> DEFINE k == [i \in DOMAIN p |-> IF i = z THEN hi ELSE g[i]]
<1>4. \A i \in DOMAIN p : k[i] = IF i = z THEN hi ELSE g[i]
  OBVIOUS
<1>5. \A i \in DOMAIN q : g[i] \in lo .. hi
  BY <1>3
<1>6. k \in [DOMAIN p -> lo .. hi]
  BY <1>2, <1>5
<1> HIDE DEF k
<1>7. ASSUME NEW i \in DOMAIN p, IsPacket(p, i)
      PROVE  p[i].ack = (k[i] % SEQ_NUM) /\ \A j \in DOMAIN p : i <= j => k[i] <= k[j]
  <2>1. CASE i = z
    <3>1. p[i].ack = (k[i] % SEQ_NUM)
      BY <1>2, <1>4, <1>7, <2>1 DEF IsPacket
    <3>2. \A j \in DOMAIN p : i <= j => j = z
      BY <1>2, <2>1
    <3> QED
      BY <1>4, <2>1, <3>1, <3>2
  <2>2. CASE i # z
    <3>1. i \in DOMAIN q /\ IsPacket(q, i) /\ k[i] = g[i] /\ p[i] = q[i]
      BY <1>2, <1>4, <1>7, <2>2 DEF IsPacket
    <3>2. p[i].ack = (k[i] % SEQ_NUM)
      BY <1>3, <3>1 DEF Stands
    <3>3. ASSUME NEW j \in DOMAIN p, i <= j PROVE k[i] <= k[j]
      <4>1. CASE j = z
        BY <1>4, <1>5, <3>1, <4>1
      <4>2. CASE j # z
        BY <1>2, <1>3, <1>4, <3>1, <3>3, <4>2 DEF Stands
      <4> QED
        BY <4>1, <4>2
    <3> QED
      BY <3>2, <3>3
  <2> QED
    BY <2>1, <2>2
<1> QED
  BY <1>6, <1>7 DEF AcksFrom, Stands

(* The first frame is received or lost. *)
LEMMA AcksTail ==
  ASSUME NEW q \in Seq(Frames), q # <<>>, NEW lo \in Nat, NEW hi \in Nat, AcksFrom(q, lo, hi)
  PROVE  /\ AcksFrom(Tail(q), lo, hi)
         /\ Head(q).kind \in Packets =>
              \E a \in lo .. hi : Head(q).ack = (a % SEQ_NUM) /\ AcksFrom(Tail(q), a, hi)
<1> DEFINE t == Tail(q)
<1>1. /\ t \in Seq(Frames) /\ Len(q) \in Nat /\ Len(q) >= 1
      /\ Head(q) = q[1] /\ DOMAIN t = 1 .. Len(q) - 1
      /\ \A i \in 1 .. Len(q) - 1 : t[i] = q[i + 1]
  BY TailIs
<1>2. DOMAIN q = 1 .. Len(q)
  BY LenProperties
<1>3. /\ 1 \in DOMAIN q /\ DOMAIN t \subseteq Nat
      /\ \A i \in DOMAIN t : i + 1 \in DOMAIN q /\ t[i] = q[i + 1] /\ 1 <= i + 1
      /\ \A i, j \in DOMAIN t : i <= j => i + 1 <= j + 1
  BY <1>1, <1>2
<1>4. PICK g \in [DOMAIN q -> lo .. hi] : Stands(g, q)
  BY DEF AcksFrom
<1> HIDE DEF t
<1> DEFINE k == [i \in DOMAIN t |-> g[i + 1]]
<1>5. \A i \in DOMAIN t : k[i] = g[i + 1]
  OBVIOUS
<1>6. k \in [DOMAIN t -> lo .. hi]
  BY <1>3, <1>4
<1>7. g[1] \in lo .. hi
  BY <1>3, <1>4
<1>8. Head(q).kind \in Packets => /\ q[1].ack = (g[1] % SEQ_NUM)
                                  /\ \A j \in DOMAIN t : g[1] <= k[j]
  BY <1>1, <1>3, <1>4, <1>5 DEF Stands, IsPacket
<1>9. k = [i \in DOMAIN t |-> k[i]]
  BY <1>5
<1> HIDE DEF k
<1>10. Stands(k, t)
  <2>1. ASSUME NEW i \in DOMAIN t, IsPacket(t, i)
        PROVE  t[i].ack = (k[i] % SEQ_NUM) /\ \A j \in DOMAIN t : i <= j => k[i] <= k[j]
    <3>1. i + 1 \in DOMAIN q /\ IsPacket(q, i + 1) /\ t[i] = q[i + 1] /\ k[i] = g[i + 1]
      BY <1>3, <1>5, <2>1 DEF IsPacket
    <3>2. \A j \in DOMAIN t : i <= j => g[i + 1] <= g[j + 1]
      BY <1>3, <1>4, <3>1 DEF Stands
    <3> QED
      BY <1>4, <1>5, <3>1, <3>2 DEF Stands
  <2> QED
    BY <2>1 DEF Stands
<1>11. AcksFrom(t, lo, hi)
  BY <1>6, <1>10 DEF AcksFrom
<1>12. ASSUME Head(q).kind \in Packets
       PROVE  \E a \in lo .. hi : Head(q).ack = (a % SEQ_NUM) /\ AcksFrom(t, a, hi)
  <2>1. \A j \in DOMAIN t : k[j] \in lo .. hi /\ g[1] <= k[j]
    BY <1>6, <1>8, <1>12
  <2>2. \A j \in DOMAIN t : k[j] \in g[1] .. hi
    BY <1>7, <2>1
  <2>3. k \in [DOMAIN t -> g[1] .. hi]
    BY <1>9, <2>2
  <2>4. AcksFrom(t, g[1], hi)
    BY <1>10, <2>3 DEF AcksFrom
  <2> QED
    BY <1>1, <1>7, <1>8, <1>12, <2>4
<1> QED
  BY <1>11, <1>12 DEF t

(* The first frame is taken. *)
LEMMA NoAcksTail ==
  ASSUME NEW q \in Seq(Frames), q # <<>>, NoAcksYet(q)
  PROVE  NoAcksYet(Tail(q))
<1>1. /\ Len(q) \in Nat /\ DOMAIN Tail(q) = 1 .. Len(q) - 1
      /\ \A i \in 1 .. Len(q) - 1 : Tail(q)[i] = q[i + 1]
  BY TailIs
<1>2. \A i \in DOMAIN Tail(q) : i + 1 \in DOMAIN q
  BY <1>1, LenProperties
<1> QED
  BY <1>1, <1>2 DEF NoAcksYet, IsPacket

(* A frame is sent before the first packet of a session. *)
LEMMA NoAcksAppend ==
  ASSUME NEW q \in Seq(Frames), NEW f \in Frames, f.kind \in Packets => f.ack = 0,
         NEW p, p = Append(q, f), NoAcksYet(q)
  PROVE  NoAcksYet(p)
<1>1. /\ Len(q) \in Nat /\ DOMAIN q = 1 .. Len(q) /\ DOMAIN p = 1 .. Len(q) + 1
      /\ p[Len(q) + 1] = f /\ \A i \in 1 .. Len(q) : p[i] = q[i]
  BY AppendIs
<1>2. \A i \in DOMAIN p : (i = Len(q) + 1 /\ p[i] = f) \/ (i \in DOMAIN q /\ p[i] = q[i])
  BY <1>1
<1> QED
  BY <1>2 DEF NoAcksYet, IsPacket

(* The number of the packet that has the expected sequence number *)
LEMMA ExpectedIsNext ==
  ASSUME NEW n \in Nat, NEW r \in Nat, SeqNumOf(n) = (r % SEQ_NUM),
         r < n + HostWindow, n <= r + HostWindow
  PROVE  n = r + 1
<1>1. SEQ_NUM \in Nat \ {0} /\ HostWindow \in Nat \ {0} /\ HostWindow < SEQ_NUM
  BY ConstantsAre
<1> DEFINE x == n - 1
<1>2. x \in Int /\ r \in Int /\ (x % SEQ_NUM) = (r % SEQ_NUM)
  BY DEF SeqNumOf
<1>3. x - r < SEQ_NUM /\ r - x < SEQ_NUM
  BY <1>1
<1>4. n = x + 1
  OBVIOUS
<1> HIDE DEF x
<1>5. x = r
  BY <1>1, <1>2, <1>3, SameMod
<1> QED
  BY <1>4, <1>5

(* The acknowledgement is read as the number it stands for. *)
LEMMA AckIsRead ==
  ASSUME host \in HostStates, NEW a \in host.acked .. host.sent,
         host.sent <= host.acked + HostWindow
  PROVE  HostAcked(a % SEQ_NUM) = a
<1> DEFINE confirmed == {n \in host.acked .. host.sent : n % SEQ_NUM = (a % SEQ_NUM)}
<1>1. host.acked \in Nat /\ host.sent \in Nat
  BY DEF HostStates
<1>2. SEQ_NUM \in Nat \ {0} /\ HostWindow \in Nat \ {0} /\ HostWindow < SEQ_NUM
  BY ConstantsAre
<1>3. a \in confirmed
  OBVIOUS
<1>4. ASSUME NEW n \in confirmed PROVE n = a
  <2>1. n \in Int /\ a \in Int /\ n % SEQ_NUM = (a % SEQ_NUM) /\ n - a < SEQ_NUM /\ a - n < SEQ_NUM
    BY <1>1, <1>2
  <2> QED
    BY <1>2, <2>1, SameMod
<1>5. HostAcked(a % SEQ_NUM) = IF confirmed = {} THEN host.acked ELSE CHOOSE n \in confirmed : TRUE
  BY DEF HostAcked
<1>6. confirmed # {} => (CHOOSE n \in confirmed : TRUE) \in confirmed
  OBVIOUS
<1> HIDE DEF confirmed
<1> QED
  BY <1>3, <1>4, <1>5, <1>6

-----------------------------------------------------------------------------
(* The packets and their numbers *)
R == Count(received, host.session)
Linked == host.state = "ACTIVE" /\ cb.linkState = "ACTIVE"

NumberInv == cb.linkState # "ACTIVE" \/ host.state = "INIT" => cb.txAck = 0
HistoryInv == History(received, host.session)
SentInv == AllSent(toDevice, host.session)
WindowInv == host.state = "ACTIVE" => /\ host.acked <= R /\ R <= host.sent
                                      /\ host.sent <= host.acked + HostWindow
                                      /\ InWindow(toDevice, R, host.sent)
AckInv == Linked => cb.txAck = (R % SEQ_NUM) /\ AcksFrom(up, host.acked, R)
FreshInv == host.state = "ACTIVE" /\ cb.linkState = "INIT" => R = 0
QuietInv == host.state = "INIT" /\ cb.linkState = "ACTIVE" => NoAcksYet(up)
PacketInv == /\ NumberInv /\ HistoryInv /\ SentInv /\ WindowInv
             /\ AckInv /\ FreshInv /\ QuietInv

(* The initial state *)
LEMMA PacketInit == Init => PacketInv
<1> SUFFICES ASSUME Init PROVE PacketInv
  OBVIOUS
<1>1. /\ cb.linkState = "IDLE" /\ cb.txAck = 0 /\ host.state = "IDLE"
      /\ received = <<>> /\ toDevice = <<>>
  BY DEF Init, InState
<1>2. HistoryInv
  <2>1. Of(received, host.session) = {}
    BY <1>1 DEF Of
  <2>2. Count(received, host.session) = 0
    BY <2>1, FS_EmptySet DEF Count
  <2> QED
    BY <1>1, <2>2 DEF HistoryInv, History
<1>3. SentInv
  BY <1>1 DEF SentInv, AllSent
<1> QED
  BY <1>1, <1>2, <1>3 DEF PacketInv, NumberInv, WindowInv, AckInv, Linked, FreshInv, QuietInv

(* The types of the numbers *)
LEMMA NumbersAre ==
  H5Types => R \in Nat /\ host.acked \in Nat /\ host.sent \in Nat /\ host.session \in Nat
  BY CountTyped DEF H5Types, DeviceTypes, HostStates, R

(* What the kinds of the frames under way say about the packets *)
LEMMA LinkSays ==
  ASSUME H5Types, LinkInv
  PROVE  /\ host.state # "ACTIVE" /\ (host.state = "INIT" \/ cb.linkState # "IDLE")
              => NoPackets(toDevice)
         /\ cb.linkState # "ACTIVE" /\ (cb.linkState = "INIT" \/ host.state # "IDLE")
              => NoPackets(up)
         /\ toDevice # <<>> /\ Head(toDevice).kind = "SYNC_RSP" /\ cb.linkState = "IDLE"
              => host.state # "ACTIVE"
         /\ up # <<>> /\ Head(up).kind = "SYNC_RSP" /\ host.state = "IDLE"
              => cb.linkState # "ACTIVE"
         /\ up # <<>> /\ Head(up).kind \in Packets /\ host.state = "ACTIVE"
              => cb.linkState = "ACTIVE"
         /\ toDevice # <<>> /\ Head(toDevice).kind \in Packets /\ cb.linkState = "ACTIVE"
              => host.state = "ACTIVE"
<1>1. /\ \A x \in Kinds(toDevice) : May(x, host.state, cb.linkState)
      /\ \A x \in Kinds(up) : May(x, cb.linkState, host.state)
  BY DEF LinkInv, QueuesOK, LinkOK, OneWay
<1>2. /\ toDevice # <<>> => Head(toDevice).kind \in Kinds(toDevice)
      /\ up # <<>> => Head(up).kind \in Kinds(up)
  BY StatesAre, KindsTail
<1>3. \A x \in Packets : x # "SYNC" /\ x # "SYNC_RSP" /\ x # "CONFIG" /\ x # "CONFIG_RSP"
  BY DEF Packets
<1>4. host.state # "ACTIVE" /\ (host.state = "INIT" \/ cb.linkState # "IDLE") => NoPackets(toDevice)
  BY <1>1 DEF NoPackets, May
<1>5. cb.linkState # "ACTIVE" /\ (cb.linkState = "INIT" \/ host.state # "IDLE") => NoPackets(up)
  BY <1>1 DEF NoPackets, May
<1>6. toDevice # <<>> /\ Head(toDevice).kind = "SYNC_RSP" /\ cb.linkState = "IDLE"
              => host.state # "ACTIVE"
  BY <1>1, <1>2 DEF May
<1>7. up # <<>> /\ Head(up).kind = "SYNC_RSP" /\ host.state = "IDLE"
              => cb.linkState # "ACTIVE"
  BY <1>1, <1>2 DEF May
<1>8. up # <<>> /\ Head(up).kind \in Packets /\ host.state = "ACTIVE"
              => cb.linkState = "ACTIVE"
  BY <1>1, <1>2 DEF May
<1>9. toDevice # <<>> /\ Head(toDevice).kind \in Packets /\ cb.linkState = "ACTIVE"
              => host.state = "ACTIVE"
  BY <1>1, <1>2 DEF May
<1> QED
  BY <1>4, <1>5, <1>6, <1>7, <1>8, <1>9

(* The queue from the device grows by a frame with its number, or gets shorter. *)
UpGrows ==
  \/ up' = up
  \/ up # <<>> /\ up' = Tail(up)
  \/ \E f \in Frames : up' = Append(up, f) /\ (f.kind \in Packets => f.ack = cb.txAck)
DownLess == toDevice' = toDevice \/ (toDevice # <<>> /\ toDevice' = Tail(toDevice))

(* The device sends, a frame is lost, or one is received that carries no new
   packet.                                                                  *)
LEMMA DeviceQuiet ==
  ASSUME H5Types, LinkInv, PacketInv, UNCHANGED <<received, host>>, DownLess,
         \/ cb'.linkState = cb.linkState /\ cb'.txAck = cb.txAck /\ UpGrows
         \/ cb'.linkState = "IDLE" /\ cb'.txAck = 0
         \/ cb'.linkState = "INIT" /\ cb'.txAck = 0 /\ host.state # "ACTIVE"
         \/ cb.linkState = "INIT" /\ cb'.linkState = "ACTIVE" /\ cb'.txAck = 0 /\ up' = up
  PROVE  PacketInv'
<1> USE DEF PacketInv
<1>0. /\ up \in Seq(Frames) /\ toDevice \in Seq(Frames) /\ R \in Nat
      /\ host.acked \in Nat /\ host.sent \in Nat /\ host.session \in Nat
  BY StatesAre, NumbersAre
<1>1. R' = R
  BY DEF R
<1>2. HistoryInv'
  BY DEF HistoryInv
<1>3. SentInv'
  BY <1>0, SentTail DEF SentInv, DownLess
<1>4. WindowInv'
  <2>1. ASSUME host.state = "ACTIVE" PROVE InWindow(toDevice', R, host.sent)
    BY <1>0, <2>1, SentTail DEF WindowInv, SentInv, DownLess
  <2> QED
    BY <1>1, <2>1 DEF WindowInv
<1>5. CASE cb'.linkState = cb.linkState /\ cb'.txAck = cb.txAck /\ UpGrows
  <2>1. NumberInv' /\ FreshInv'
    BY <1>1, <1>5 DEF NumberInv, FreshInv
  <2>2. AckInv'
    <3> SUFFICES ASSUME Linked' PROVE cb'.txAck = (R' % SEQ_NUM) /\ AcksFrom(up', host'.acked, R')
      BY DEF AckInv
    <3>1. Linked /\ cb.txAck = (R % SEQ_NUM) /\ AcksFrom(up, host.acked, R) /\ host.acked <= R
      BY <1>5 DEF Linked, AckInv, WindowInv
    <3>2. AcksFrom(up', host.acked, R)
      <4>1. CASE up # <<>> /\ up' = Tail(up)
        BY <1>0, <3>1, <4>1, AcksTail
      <4>2. ASSUME NEW f \in Frames, up' = Append(up, f), f.kind \in Packets => f.ack = cb.txAck
            PROVE  AcksFrom(up', host.acked, R)
        BY <1>0, <3>1, <4>2, AcksAppend
      <4> QED
        BY <1>5, <3>1, <4>1, <4>2 DEF UpGrows
    <3> QED
      BY <1>1, <1>5, <3>1, <3>2
  <2>3. QuietInv'
    <3> SUFFICES ASSUME host.state = "INIT", cb.linkState = "ACTIVE" PROVE NoAcksYet(up')
      BY <1>5 DEF QuietInv
    <3>1. cb.txAck = 0 /\ NoAcksYet(up)
      BY DEF NumberInv, QuietInv
    <3>2. CASE up # <<>> /\ up' = Tail(up)
      BY <1>0, <3>1, <3>2, NoAcksTail
    <3>3. ASSUME NEW f \in Frames, up' = Append(up, f), f.kind \in Packets => f.ack = cb.txAck
          PROVE  NoAcksYet(up')
      BY <1>0, <3>1, <3>3, NoAcksAppend
    <3> QED
      BY <1>5, <3>1, <3>2, <3>3 DEF UpGrows
  <2> QED
    BY <1>2, <1>3, <1>4, <2>1, <2>2, <2>3
<1>6. CASE cb'.linkState = "IDLE" /\ cb'.txAck = 0
  <2>1. NumberInv' /\ FreshInv' /\ AckInv' /\ QuietInv'
    BY <1>6 DEF NumberInv, FreshInv, AckInv, QuietInv, Linked
  <2> QED
    BY <1>2, <1>3, <1>4, <2>1
<1>7. CASE cb'.linkState = "INIT" /\ cb'.txAck = 0 /\ host.state # "ACTIVE"
  <2>1. NumberInv' /\ FreshInv' /\ AckInv' /\ QuietInv'
    BY <1>7 DEF NumberInv, FreshInv, AckInv, QuietInv, Linked
  <2> QED
    BY <1>2, <1>3, <1>4, <2>1
<1>8. CASE cb.linkState = "INIT" /\ cb'.linkState = "ACTIVE" /\ cb'.txAck = 0 /\ up' = up
  <2>1. NoPackets(up)
    BY <1>8, LinkSays
  <2>2. NumberInv' /\ FreshInv'
    BY <1>8 DEF NumberInv, FreshInv
  <2>3. QuietInv'
    <3>1. NoAcksYet(up)
      BY <1>0, <2>1, AcksNone
    <3> QED
      BY <1>8, <3>1 DEF QuietInv
  <2>4. AckInv'
    <3> SUFFICES ASSUME host.state = "ACTIVE"
                 PROVE  cb'.txAck = (R' % SEQ_NUM) /\ AcksFrom(up', host'.acked, R')
      BY DEF AckInv, Linked
    <3>1. R = 0 /\ host.acked <= R
      BY <1>8 DEF FreshInv, WindowInv
    <3>2. AcksFrom(up, host.acked, R)
      BY <1>0, <2>1, <3>1, AcksNone
    <3>3. R % SEQ_NUM = 0
      BY <3>1, ConstantsAre
    <3> QED
      BY <1>1, <1>8, <3>2, <3>3
  <2> QED
    BY <1>2, <1>3, <1>4, <2>2, <2>3, <2>4
<1> QED
  BY <1>5, <1>6, <1>7, <1>8

(* The device takes the packet it expects. *)
LEMMA DeviceTakesData ==
  ASSUME H5Types, LinkInv, PacketInv, toDevice # <<>>, toDevice' = Tail(toDevice),
         NEW f, f = Head(toDevice), f.kind = "DATA", f.seq = cb.txAck,
         cb.linkState = "ACTIVE", cb'.linkState = "ACTIVE",
         cb'.txAck = (cb.txAck + 1) % SEQ_NUM,
         received' = Append(received, f.body), UNCHANGED host,
         \/ up' = up
         \/ \E g \in Frames : up' = Append(up, g) /\ g.ack = cb'.txAck
  PROVE  PacketInv'
<1> DEFINE s == host.session
           n == f.body[2]
<1>0. /\ up \in Seq(Frames) /\ toDevice \in Seq(Frames) /\ R \in Nat
      /\ host.acked \in Nat /\ host.sent \in Nat /\ s \in Nat /\ received \in Seq(Bodies)
  BY StatesAre, NumbersAre DEF H5Types, DeviceTypes
<1>1. host.state = "ACTIVE"
  BY LinkSays DEF Packets
<1>2. /\ host.acked <= R /\ R <= host.sent /\ host.sent <= host.acked + HostWindow
      /\ InWindow(toDevice, R, host.sent)
      /\ cb.txAck = (R % SEQ_NUM) /\ AcksFrom(up, host.acked, R) /\ AllSent(toDevice, s)
  BY <1>1 DEF PacketInv, WindowInv, AckInv, Linked, SentInv
<1>3. f.body \in Nat \X (Nat \ {0}) /\ f.body[1] = s /\ f.seq = SeqNumOf(n)
      /\ n <= host.sent /\ R < n + HostWindow
      /\ AllSent(Tail(toDevice), s) /\ InWindow(Tail(toDevice), n, host.sent)
  BY <1>0, <1>2, SentTail
<1>4. n \in Nat /\ f.body = <<s, n>>
  BY <1>3
<1>h. HostWindow \in Nat
  BY ConstantsAre
<1> HIDE DEF n
<1>5. n = R + 1
  <2>1. n <= R + HostWindow
    <3>1. n <= host.sent
      BY <1>3
    <3>2. host.sent <= host.acked + HostWindow /\ host.acked <= R
      BY <1>2
    <3>3. host.sent \in Nat /\ host.acked \in Nat /\ R \in Nat
      BY <1>0
    <3> QED
      BY <1>4, <1>h, <3>1, <3>2, <3>3
  <2>2. SeqNumOf(n) = (R % SEQ_NUM)
    BY <1>2, <1>3
  <2> QED
    BY <1>0, <1>3, <1>4, <2>1, <2>2, ExpectedIsNext
<1>6. received' = Append(received, <<s, Count(received, s) + 1>>)
  BY <1>4, <1>5 DEF R
<1>7. History(received', s) /\ Count(received', s) = R + 1
  BY <1>0, <1>6, HistoryAppend DEF PacketInv, HistoryInv, R
<1>8. R' = R + 1
  BY <1>7 DEF R
<1>9. NumberInv' /\ FreshInv' /\ QuietInv'
  BY <1>1 DEF NumberInv, FreshInv, QuietInv
<1>10. HistoryInv' /\ SentInv'
  BY <1>3, <1>7 DEF HistoryInv, SentInv
<1>11. WindowInv'
  BY <1>0, <1>2, <1>3, <1>5, <1>8 DEF WindowInv
<1>12. AckInv'
  <2>1. cb'.txAck = (R' % SEQ_NUM)
    <3>1. ((R % SEQ_NUM) + 1) % SEQ_NUM = ((R + 1) % SEQ_NUM)
      <4>1. R \in Int /\ SEQ_NUM \in Nat \ {0}
        BY <1>0, ConstantsAre
      <4> QED
        BY <4>1, NextMod
    <3>2. cb'.txAck = (((R % SEQ_NUM) + 1) % SEQ_NUM)
      BY <1>2
    <3> QED
      BY <1>8, <3>1, <3>2
  <2>2. AcksFrom(up, host.acked, R')
    BY <1>0, <1>2, <1>8, AcksWider
  <2>3. host.acked <= R' /\ R' \in Nat
    BY <1>0, <1>2, <1>8
  <2>4. AcksFrom(up', host.acked, R')
    BY <1>0, <2>1, <2>2, <2>3, AcksAppend
  <2> QED
    BY <2>1, <2>4 DEF AckInv
<1> QED
  BY <1>9, <1>10, <1>11, <1>12 DEF PacketInv

(* What a send of the device does to the queue *)
LEMMA SendGrows ==
  ASSUME LineTypes, NEW f \in Frames, Send(f), UNCHANGED toHost,
         f.kind \in Packets => f.ack = cb.txAck
  PROVE  UpGrows
  BY UpSend DEF UpGrows

(* The steps of the device *)
LEMMA PacketDevice ==
  ASSUME H5Types, LinkInv, PacketInv
  PROVE  /\ SendData \/ PollLink \/ QueueEvent \/ DeviceRestart => PacketInv'
         /\ Receive => PacketInv'
<1>0. /\ cb.linkState \in LinkStates /\ host.state \in LinkStates /\ cb \in DeviceStates
      /\ up \in Seq(Frames) /\ toDevice \in Seq(Frames) /\ LineTypes
  BY StatesAre
<1>f. \A m \in LinkMessages : LinkFrame(m) \in Frames /\ LinkFrame(m).kind \notin Packets
  BY FramesMade DEF LinkMessages, Packets
<1>s. ASSUME NEW m \in LinkMessages, Send(LinkFrame(m)), UNCHANGED toHost
      PROVE  UpGrows
  BY <1>0, <1>f, <1>s, SendGrows
<1>k. ASSUME UNCHANGED <<toHost, uart>>
      PROVE  UpGrows /\ up' = up
  BY <1>k DEF UpGrows, up
<1>a. ASSUME NEW k, Arrives(k)
      PROVE  /\ DownLess /\ UNCHANGED <<toHost, host>>
             /\ toDevice # <<>> /\ Head(toDevice).kind = k
             /\ toDevice' = Tail(toDevice) /\ Head(toDevice) \in Frames
  BY <1>0, <1>a, TailIs DEF Arrives, DownLess
<1>1. CASE SendData
  <2> DEFINE f == Data(cb.txSeq, cb.txAck, slots[SlotToSend])
  <2>1. Send(f) /\ UNCHANGED <<toHost, toDevice, host, received>> /\ ~UartBusy
    BY <1>1 DEF SendData
  <2>2. cb'.linkState = cb.linkState /\ cb'.txAck = cb.txAck
    BY <1>0, <1>1 DEF SendData, DeviceStates
  <2>3. f.ack = cb.txAck
    BY DEF Data
  <2>4. f \in Frames
    <3>1. H5Types'
      BY <1>1, TypesSend
    <3>2. uart' = <<f>> /\ uart' \in Seq(Frames)
      BY <2>1, <3>1 DEF Send, H5Types, LineTypes
    <3>3. Len(<<f>>) = 1 /\ <<f>>[1] = f
      OBVIOUS
    <3> QED
      BY <3>2, <3>3, ElementOfSeq
  <2>5. UpGrows
    BY <1>0, <2>1, <2>3, <2>4, SendGrows
  <2>6. DownLess
    BY <2>1 DEF DownLess
  <2> QED
    BY <2>1, <2>2, <2>5, <2>6, DeviceQuiet
<1>2. CASE PollLink
  <2>1. PICK m \in LinkMessages : Send(LinkFrame(m))
    BY <1>2 DEF PollLink, Repeat, LinkMessages
  <2>2. UNCHANGED <<cb, toHost, toDevice, host, received>> /\ DownLess
    BY <1>2 DEF PollLink, DownLess
  <2>3. UpGrows
    BY <1>s, <2>1, <2>2
  <2> QED
    BY <2>2, <2>3, DeviceQuiet
<1>3. CASE QueueEvent
  <2>1. UNCHANGED <<cb, toHost, uart, toDevice, host, received>> /\ DownLess
    BY <1>3 DEF QueueEvent, DownLess
  <2> QED
    BY <1>k, <2>1, DeviceQuiet
<1>4. CASE DeviceRestart
  <2>1. cb'.linkState = "IDLE" /\ cb'.txAck = 0 /\ UNCHANGED <<host, received>>
        /\ toDevice' = <<>>
    BY <1>4 DEF DeviceRestart, InState
  <2>2. NumberInv' /\ FreshInv' /\ AckInv' /\ QuietInv'
    BY <2>1 DEF NumberInv, FreshInv, AckInv, QuietInv, Linked
  <2>3. R' = R
    BY <2>1 DEF R
  <2>4. HistoryInv' /\ SentInv'
    BY <2>1 DEF HistoryInv, SentInv, PacketInv, AllSent
  <2>5. WindowInv'
    BY <2>1, <2>3 DEF PacketInv, WindowInv, InWindow
  <2> QED
    BY <2>2, <2>4, <2>5 DEF PacketInv
<1>5. CASE RecvSync
  <2>1. DownLess /\ Send(LinkFrame("SYNC_RSP")) /\ UNCHANGED <<toHost, host, received>>
    BY <1>5, <1>a DEF RecvSync, LinkOnly
  <2>2. UpGrows
    BY <1>s, <2>1 DEF LinkMessages
  <2>3. CASE cb.linkState = "ACTIVE"
    <3>1. /\ [ResetOf(cb) EXCEPT !.linkState = "IDLE"].linkState = "IDLE"
          /\ [ResetOf(cb) EXCEPT !.linkState = "IDLE"].txAck = 0
      BY <1>0, ResetTyped DEF LinkStates
    <3>2. cb'.linkState = "IDLE" /\ cb'.txAck = 0
      BY <1>5, <2>3, <3>1 DEF RecvSync
    <3> QED
      BY <2>1, <3>2, DeviceQuiet
  <2>4. CASE cb.linkState # "ACTIVE"
    <3>1. cb' = cb
      BY <1>5, <2>4 DEF RecvSync
    <3> QED
      BY <2>1, <2>2, <3>1, DeviceQuiet
  <2> QED
    BY <2>3, <2>4
<1>6. CASE RecvSyncRsp
  <2>1. /\ DownLess /\ UNCHANGED <<toHost, host, received>>
        /\ toDevice # <<>> /\ Head(toDevice).kind = "SYNC_RSP"
    BY <1>6, <1>a DEF RecvSyncRsp, LinkOnly
  <2>2. CASE cb.linkState = "IDLE"
    <3>1. cb' = [cb EXCEPT !.linkState = "INIT"]
      BY <1>6, <2>2 DEF RecvSyncRsp
    <3>2. cb.txAck = 0
      BY <2>2 DEF PacketInv, NumberInv
    <3>3. cb'.linkState = "INIT" /\ cb'.txAck = 0
      BY <1>0, <3>1, <3>2 DEF DeviceStates
    <3>4. host.state # "ACTIVE"
      BY <2>1, <2>2, LinkSays
    <3> QED
      BY <2>1, <3>3, <3>4, DeviceQuiet
  <2>3. CASE cb.linkState # "IDLE"
    <3>1. UNCHANGED <<cb, uart>>
      BY <1>6, <2>3 DEF RecvSyncRsp, LateAnswer
    <3> QED
      BY <1>k, <2>1, <3>1, DeviceQuiet
  <2> QED
    BY <2>2, <2>3
<1>7. CASE RecvConfig
  <2>1. DownLess /\ UNCHANGED <<toHost, host, received, cb>>
    BY <1>7, <1>a DEF RecvConfig, LinkOnly
  <2>2. PICK m \in LinkMessages : Send(LinkFrame(m))
    BY <1>7 DEF RecvConfig, LinkMessages
  <2>3. UpGrows
    BY <1>s, <2>1, <2>2
  <2> QED
    BY <2>1, <2>3, DeviceQuiet
<1>8. CASE RecvConfigRsp
  <2>1. DownLess /\ UNCHANGED <<toHost, host, received>>
    BY <1>8, <1>a DEF RecvConfigRsp, LinkOnly
  <2>2. CASE cb.linkState = "IDLE"
    <3>1. UNCHANGED cb /\ Send(LinkFrame("SYNC"))
      BY <1>8, <2>2 DEF RecvConfigRsp
    <3>2. UpGrows
      BY <1>s, <2>1, <3>1 DEF LinkMessages
    <3> QED
      BY <2>1, <3>1, <3>2, DeviceQuiet
  <2>3. CASE cb.linkState = "INIT"
    <3>1. cb' = ActiveOf(cb) /\ UNCHANGED uart
      BY <1>8, <2>3 DEF RecvConfigRsp
    <3>2. cb'.linkState = "ACTIVE" /\ cb'.txAck = 0
      BY <1>0, <3>1, ResetTyped DEF ActiveOf, LinkStates
    <3>3. up' = up
      BY <1>k, <2>1, <3>1
    <3> QED
      BY <2>1, <2>3, <3>2, <3>3, DeviceQuiet
  <2>4. CASE cb.linkState = "ACTIVE"
    <3>1. UNCHANGED <<cb, uart>>
      BY <1>8, <2>4 DEF RecvConfigRsp
    <3> QED
      BY <1>k, <2>1, <3>1, DeviceQuiet
  <2> QED
    BY <1>0, <2>2, <2>3, <2>4 DEF LinkStates
<1>c. ASSUME NEW a, NEW c \in DeviceStates, ReSendCheck(c, a)
      PROVE  cb'.linkState = c.linkState /\ cb'.txAck = c.txAck
  BY <1>c DEF ReSendCheck, DeviceStates
<1>9. CASE RecvAck
  <2>1. DownLess /\ UNCHANGED <<toHost, host, received, uart>>
    BY <1>9, <1>a DEF RecvAck
  <2>2. cb'.linkState = cb.linkState /\ cb'.txAck = cb.txAck
    BY <1>0, <1>9, <1>c DEF RecvAck
  <2> QED
    BY <1>k, <2>1, <2>2, DeviceQuiet
<1>10. CASE RecvData
  <2> DEFINE f == Head(toDevice)
  <2>1. /\ DownLess /\ UNCHANGED <<toHost, host>> /\ toDevice # <<>> /\ f.kind = "DATA"
        /\ toDevice' = Tail(toDevice)
    BY <1>10, <1>a DEF RecvData
  <2>2. CASE cb.linkState # "ACTIVE"
    <3>1. UNCHANGED <<cb, uart, received>>
      BY <1>10, <2>2 DEF RecvData
    <3> QED
      BY <1>k, <2>1, <3>1, DeviceQuiet
  <2>3. CASE cb.linkState = "ACTIVE"
    <3>1. f.reliable = 1
      BY <1>0, <2>1, SentTail DEF PacketInv, SentInv
    <3>2. RecvReliable(f)
      BY <1>10, <2>3, <3>1 DEF RecvData
    <3> HIDE DEF f
    <3>3. CASE Expected(cb, f)
      <4>1. /\ Taken(cb) \in DeviceStates /\ Taken(cb).linkState = cb.linkState
            /\ Taken(cb).txAck = (cb.txAck + 1) % SEQ_NUM
        BY <1>0, TakenTyped
      <4>2. cb'.linkState = "ACTIVE" /\ cb'.txAck = Taken(cb).txAck
        BY <1>c, <2>3, <3>2, <3>3, <4>1 DEF RecvReliable
      <4>3. received' = Append(received, f.body) /\ f.seq = cb.txAck
        BY <3>2, <3>3 DEF RecvReliable, Expected
      <4>4. \/ up' = up
            \/ \E g \in Frames : up' = Append(up, g) /\ g.ack = cb'.txAck
        <5>1. PureAck(Taken(cb).txAck) \in Frames /\ PureAck(Taken(cb).txAck).ack = cb'.txAck
          BY <4>1, <4>2, SeqsAre, FramesMade
        <5>2. UNCHANGED uart \/ Send(PureAck(Taken(cb).txAck))
          BY <3>2, <3>3 DEF RecvReliable
        <5>3. CASE UNCHANGED uart
          BY <1>k, <2>1, <5>3
        <5>4. CASE Send(PureAck(Taken(cb).txAck))
          BY <1>0, <2>1, <5>1, <5>4, UpSend
        <5> QED
          BY <5>2, <5>3, <5>4
      <4> QED
        BY <2>1, <2>3, <4>1, <4>2, <4>3, <4>4, DeviceTakesData DEF f
    <3>4. CASE ~Expected(cb, f)
      <4>1. ReSendCheck(cb, f.ack) /\ UNCHANGED <<received, uart>>
        BY <3>2, <3>4 DEF RecvReliable
      <4>2. cb'.linkState = cb.linkState /\ cb'.txAck = cb.txAck
        BY <1>0, <1>c, <4>1
      <4> QED
        BY <1>k, <2>1, <4>1, <4>2, DeviceQuiet
    <3> QED
      BY <3>3, <3>4
  <2> QED
    BY <2>2, <2>3
<1> QED
  BY <1>1, <1>2, <1>3, <1>4, <1>5, <1>6, <1>7, <1>8, <1>9, <1>10 DEF Receive

(* The line *)
LEMMA PacketLine ==
  ASSUME H5Types, LinkInv, PacketInv
  PROVE  UartDone \/ LoseToHost \/ LoseToDevice => PacketInv'
<1>0. LineTypes
  BY StatesAre
<1>1. CASE UartDone
  <2>1. UNCHANGED <<cb, toDevice, host, received>> /\ up' = up
    BY <1>0, <1>1, UpMoves DEF UartDone
  <2> QED
    BY <2>1, DeviceQuiet DEF UpGrows, DownLess
<1>2. CASE LoseToHost
  <2>1. UNCHANGED <<cb, toDevice, host, received, uart>> /\ toHost # <<>> /\ toHost' = Tail(toHost)
    BY <1>2 DEF LoseToHost, device
  <2>2. up # <<>> /\ up' = Tail(up)
    BY <1>0, <2>1, UpTake
  <2> QED
    BY <2>1, <2>2, DeviceQuiet DEF UpGrows, DownLess
<1>3. CASE LoseToDevice
  <2>1. UNCHANGED <<cb, host, received>> /\ up' = up /\ DownLess
    BY <1>3 DEF LoseToDevice, device, up, DownLess
  <2> QED
    BY <2>1, DeviceQuiet DEF UpGrows
<1> QED
  BY <1>1, <1>2, <1>3

(* The host sends no packet, and reads none that acknowledges packets; or it
   begins anew.                                                             *)
LEMMA HostQuiet ==
  ASSUME H5Types, LinkInv, PacketInv, UNCHANGED <<cb, received>>,
         host'.session = host.session,
         \/ toDevice' = toDevice
         \/ \E f \in Frames : f.kind # "DATA" /\ toDevice' = Append(toDevice, f),
         \/ /\ host'.state = host.state /\ host'.sent = host.sent /\ host'.acked = host.acked
            /\ up' = up \/ (up # <<>> /\ up' = Tail(up))
         \/ host'.state = "IDLE"
         \/ host'.state = "INIT" /\ cb.linkState # "ACTIVE"
  PROVE  PacketInv'
<1>0. /\ up \in Seq(Frames) /\ toDevice \in Seq(Frames) /\ R \in Nat
      /\ host.acked \in Nat /\ host.sent \in Nat /\ host.session \in Nat
  BY StatesAre, NumbersAre
<1>1. R' = R
  BY DEF R
<1>2. HistoryInv'
  BY DEF HistoryInv, PacketInv
<1>3. SentInv'
  BY <1>0, SentOther DEF SentInv, PacketInv
<1>4. CASE /\ host'.state = host.state /\ host'.sent = host.sent /\ host'.acked = host.acked
           /\ up' = up \/ (up # <<>> /\ up' = Tail(up))
  <2>1. NumberInv' /\ FreshInv'
    BY <1>1, <1>4 DEF NumberInv, FreshInv, PacketInv
  <2>2. WindowInv'
    <3>1. ASSUME host.state = "ACTIVE" PROVE InWindow(toDevice', R, host.sent)
      <4>1. AllSent(toDevice, host.session) /\ InWindow(toDevice, R, host.sent)
        BY <3>1 DEF PacketInv, WindowInv, SentInv
      <4> QED
        BY <1>0, <4>1, SentOther
    <3> QED
      BY <1>1, <1>4, <3>1 DEF WindowInv, PacketInv
  <2>3. AckInv'
    <3> SUFFICES ASSUME Linked' PROVE cb'.txAck = (R' % SEQ_NUM) /\ AcksFrom(up', host'.acked, R')
      BY DEF AckInv
    <3>1. cb.txAck = (R % SEQ_NUM) /\ AcksFrom(up, host.acked, R)
      BY <1>4 DEF AckInv, Linked, PacketInv
    <3>2. AcksFrom(up', host.acked, R)
      BY <1>0, <1>4, <3>1, AcksTail
    <3> QED
      BY <1>1, <1>4, <3>1, <3>2
  <2>4. QuietInv'
    BY <1>0, <1>4, NoAcksTail DEF QuietInv, PacketInv
  <2> QED
    BY <1>2, <1>3, <2>1, <2>2, <2>3, <2>4 DEF PacketInv
<1>5. CASE host'.state = "IDLE"
  <2>1. NumberInv'
    BY <1>5 DEF NumberInv, PacketInv
  <2>2. WindowInv' /\ AckInv' /\ FreshInv' /\ QuietInv'
    BY <1>5 DEF WindowInv, AckInv, Linked, FreshInv, QuietInv
  <2> QED
    BY <1>2, <1>3, <2>1, <2>2 DEF PacketInv
<1>6. CASE host'.state = "INIT" /\ cb.linkState # "ACTIVE"
  <2>1. NumberInv'
    BY <1>6 DEF NumberInv, PacketInv
  <2>2. WindowInv' /\ AckInv' /\ FreshInv' /\ QuietInv'
    BY <1>6 DEF WindowInv, AckInv, Linked, FreshInv, QuietInv
  <2> QED
    BY <1>2, <1>3, <2>1, <2>2 DEF PacketInv
<1> QED
  BY <1>4, <1>5, <1>6

(* A session begins. *)
LEMMA HostOpens ==
  ASSUME H5Types, LinkInv, PacketInv, UNCHANGED <<cb, received, toDevice>>,
         host.state = "INIT", host'.state = "ACTIVE", host'.session = host.session + 1,
         host'.sent = 0, host'.acked = 0, up # <<>>, up' = Tail(up)
  PROVE  PacketInv'
<1>0. /\ up \in Seq(Frames) /\ toDevice \in Seq(Frames) /\ host.session \in Nat
      /\ Tail(up) \in Seq(Frames) /\ received \in Seq(Bodies)
  BY StatesAre, NumbersAre, TailIs DEF H5Types, DeviceTypes
<1>1. NoPackets(toDevice) /\ cb.txAck = 0
  BY LinkSays DEF PacketInv, NumberInv
<1>2. History(received, host.session + 1) /\ Count(received, host.session + 1) = 0
  BY <1>0, HistoryNew DEF PacketInv, HistoryInv
<1>3. R' = 0
  BY <1>2 DEF R
<1>4. HistoryInv'
  BY <1>2 DEF HistoryInv
<1>5. AllSent(toDevice, host.session + 1) /\ InWindow(toDevice, 0, 0)
  BY <1>0, <1>1, SentNone
<1>6. SentInv'
  BY <1>5 DEF SentInv
<1>7. WindowInv'
  BY <1>3, <1>5, ConstantsAre DEF WindowInv
<1>8. NumberInv' /\ FreshInv' /\ QuietInv'
  BY <1>1, <1>3 DEF NumberInv, FreshInv, QuietInv
<1>9. AckInv'
  <2> SUFFICES ASSUME cb.linkState = "ACTIVE"
               PROVE  cb'.txAck = (R' % SEQ_NUM) /\ AcksFrom(up', host'.acked, R')
    BY DEF AckInv, Linked
  <2>1. NoAcksYet(Tail(up))
    BY <1>0, NoAcksTail DEF PacketInv, QuietInv
  <2>2. AcksFrom(Tail(up), 0, 0)
    BY <1>0, <2>1, AcksStart
  <2>3. 0 % SEQ_NUM = 0
    BY ConstantsAre
  <2> QED
    BY <1>1, <1>3, <2>2, <2>3
<1> QED
  BY <1>4, <1>6, <1>7, <1>8, <1>9 DEF PacketInv

(* The frame of packet n *)
LEMMA PacketMade ==
  ASSUME NEW s \in Nat, NEW n \in Nat, n # 0, NEW a \in Seqs,
         NEW f, f = Data(SeqNumOf(n), a, <<s, n>>)
  PROVE  f \in Frames /\ f.kind = "DATA" /\ f.seq = SeqNumOf(n) /\ f.body = <<s, n>>
         /\ f.reliable = 1
<1>1. n - 1 \in Int
  OBVIOUS
<1>2. SeqNumOf(n) \in Seqs
  BY <1>1, ModTyped DEF SeqNumOf
<1>3. <<s, n>> \in Bodies
  BY BodiesAre
<1> QED
  BY <1>2, <1>3 DEF Data, Frames, FrameKinds, Packets

(* The host sends a packet. *)
LEMMA PacketIsSent ==
  ASSUME H5Types, LinkInv, PacketInv, HostSendData
  PROVE  PacketInv'
<1>0. /\ up \in Seq(Frames) /\ toDevice \in Seq(Frames) /\ R \in Nat /\ host \in HostStates
      /\ host.acked \in Nat /\ host.sent \in Nat /\ host.session \in Nat
      /\ host.expected \in Seqs /\ HostWindow \in Nat
  BY StatesAre, NumbersAre, ConstantsAre DEF HostStates
<1>1. PICK n \in host.acked + 1 .. host.acked + HostWindow :
        /\ HostSends(Data(SeqNumOf(n), host.expected, <<host.session, n>>))
        /\ host' = [host EXCEPT !.sent = IF n > host.sent THEN n ELSE host.sent]
  BY DEF HostSendData
<1>2. UNCHANGED <<cb, received, toHost, uart>> /\ host.state = "ACTIVE"
  BY DEF HostSendData, device
<1> DEFINE f == Data(SeqNumOf(n), host.expected, <<host.session, n>>)
           m == host'.sent
<1>3. /\ host'.state = host.state /\ host'.session = host.session /\ host'.acked = host.acked
      /\ host'.sent = IF n > host.sent THEN n ELSE host.sent
  <2> DEFINE k == IF n > host.sent THEN n ELSE host.sent
  <2>1. host' = [host EXCEPT !.sent = k] /\ host \in HostStates
    BY <1>0, <1>1
  <2> HIDE DEF k
  <2>2. /\ host'.state = host.state /\ host'.session = host.session
        /\ host'.acked = host.acked /\ host'.sent = k
    BY <2>1 DEF HostStates
  <2> QED
    BY <2>2 DEF k
<1>4. n \in Nat /\ n # 0 /\ m \in Nat /\ host.sent <= m /\ n <= m
  <2>1. n \in Nat /\ n # 0
    BY <1>0, <1>1
  <2>2. m = IF n > host.sent THEN n ELSE host.sent
    BY <1>3
  <2> HIDE DEF m
  <2> QED
    BY <1>0, <2>1, <2>2
<1>5. /\ host.acked <= R /\ R <= host.sent /\ host.sent <= host.acked + HostWindow
      /\ InWindow(toDevice, R, host.sent) /\ AllSent(toDevice, host.session)
  BY <1>2 DEF PacketInv, WindowInv, SentInv
<1>6. R < n + HostWindow /\ host.sent < n + HostWindow /\ m <= host.acked + HostWindow
      /\ R <= m
  <2>1. host.acked + 1 <= n /\ n <= host.acked + HostWindow
    <3>1. n \in host.acked + 1 .. host.acked + HostWindow
      BY <1>1
    <3>2. host.acked \in Int /\ HostWindow \in Int
      BY <1>0
    <3> QED
      BY <3>1, <3>2
  <2>2. m = n \/ m = host.sent
    BY <1>3
  <2>3. /\ host.acked <= R /\ R <= host.sent /\ host.sent <= host.acked + HostWindow
        /\ n \in Nat /\ m \in Nat /\ host.sent <= m
    BY <1>4, <1>5
  <2>4. R \in Nat /\ host.acked \in Nat /\ host.sent \in Nat /\ HostWindow \in Nat
    BY <1>0
  <2> HIDE DEF m
  <2> QED
    BY <2>1, <2>2, <2>3, <2>4
<1>7. f \in Frames /\ f.kind = "DATA" /\ f.seq = SeqNumOf(n) /\ f.body = <<host.session, n>>
      /\ f.reliable = 1
  BY <1>0, <1>4, PacketMade
<1>8. toDevice' = Append(toDevice, f)
  BY <1>1 DEF HostSends
<1> HIDE DEF f, m
<1>9. AllSent(toDevice', host.session) /\ InWindow(toDevice', R, m)
  <2>1. PICK s \in Nat, sent \in Nat, r \in Nat, m2 \in Nat :
          s = host.session /\ sent = host.sent /\ r = R /\ m2 = m
    BY <1>0, <1>4
  <2>2. /\ toDevice \in Seq(Frames) /\ AllSent(toDevice, s) /\ InWindow(toDevice, r, sent)
        /\ sent <= m2 /\ n <= m2 /\ r < n + HostWindow /\ sent < n + HostWindow
        /\ f \in Frames /\ f.kind = "DATA" /\ f.seq = SeqNumOf(n) /\ f.body = <<s, n>>
        /\ f.reliable = 1 /\ n \in Nat /\ n # 0
    BY <1>0, <1>4, <1>5, <1>6, <1>7, <2>1
  <2>3. AllSent(toDevice', s) /\ InWindow(toDevice', r, m2)
    BY <1>8, <2>2, SentPacket
  <2> QED
    BY <2>1, <2>3
<1>10. R' = R /\ up' = up
  BY <1>2, <1>3 DEF R, up
<1>11. HistoryInv' /\ SentInv'
  BY <1>2, <1>3, <1>9 DEF HistoryInv, SentInv, PacketInv
<1>12. WindowInv'
  BY <1>3, <1>5, <1>6, <1>9, <1>10 DEF WindowInv, m
<1>13. NumberInv' /\ FreshInv' /\ QuietInv' /\ AckInv'
  BY <1>2, <1>3, <1>10 DEF NumberInv, FreshInv, QuietInv, AckInv, Linked, PacketInv
<1> QED
  BY <1>11, <1>12, <1>13 DEF PacketInv

(* The host reads an acknowledgement. *)
LEMMA HostReads ==
  ASSUME H5Types, LinkInv, PacketInv, UNCHANGED <<cb, received>>,
         host.state = "ACTIVE", up # <<>>, up' = Tail(up), Head(up).kind \in Packets,
         host'.state = "ACTIVE", host'.session = host.session, host'.sent = host.sent,
         host'.acked = HostAcked(Head(up).ack),
         \/ toDevice' = toDevice
         \/ \E f \in Frames : f.kind # "DATA" /\ toDevice' = Append(toDevice, f)
  PROVE  PacketInv'
<1>0. /\ up \in Seq(Frames) /\ toDevice \in Seq(Frames) /\ R \in Nat /\ host \in HostStates
      /\ host.acked \in Nat /\ host.sent \in Nat /\ host.session \in Nat
      /\ HostWindow \in Nat
  BY StatesAre, NumbersAre, ConstantsAre
<1>1. Linked
  BY LinkSays DEF Linked
<1>2. /\ host.acked <= R /\ R <= host.sent /\ host.sent <= host.acked + HostWindow
      /\ InWindow(toDevice, R, host.sent) /\ AllSent(toDevice, host.session)
      /\ cb.txAck = (R % SEQ_NUM) /\ AcksFrom(up, host.acked, R)
  BY <1>1 DEF PacketInv, WindowInv, SentInv, AckInv, Linked
<1>3. PICK a \in host.acked .. R : Head(up).ack = (a % SEQ_NUM) /\ AcksFrom(Tail(up), a, R)
  BY <1>0, <1>2, AcksTail
<1>4. a \in host.acked .. host.sent
  BY <1>0, <1>2, <1>3
<1>5. host'.acked = a
  BY <1>0, <1>2, <1>3, <1>4, AckIsRead
<1>6. R' = R
  BY DEF R
<1>7. HistoryInv'
  BY DEF HistoryInv, PacketInv
<1>8. AllSent(toDevice', host.session) /\ InWindow(toDevice', R, host.sent)
  BY <1>0, <1>2, SentOther
<1>9. SentInv'
  BY <1>8 DEF SentInv
<1>10. a <= R /\ host.sent <= a + HostWindow
  BY <1>0, <1>2, <1>3
<1>11. WindowInv'
  BY <1>2, <1>5, <1>6, <1>8, <1>10 DEF WindowInv
<1>12. AckInv'
  BY <1>2, <1>3, <1>5, <1>6 DEF AckInv
<1>13. NumberInv' /\ FreshInv' /\ QuietInv'
  BY <1>1, <1>6 DEF NumberInv, FreshInv, QuietInv, Linked, PacketInv
<1> QED
  BY <1>7, <1>9, <1>11, <1>12, <1>13 DEF PacketInv

(* The steps of the host *)
LEMMA PacketHost ==
  ASSUME H5Types, LinkInv, PacketInv
  PROVE  HostTimer \/ HostSendData \/ HostReceive \/ HostRestart => PacketInv'
<1>0. /\ host.state \in LinkStates /\ host \in HostStates /\ LineTypes
      /\ toDevice \in Seq(Frames)
  BY StatesAre
<1>f. \A m \in LinkMessages : LinkFrame(m) \in Frames /\ LinkFrame(m).kind # "DATA"
  BY FramesMade DEF LinkMessages
<1>1. CASE HostTimer
  <2>1. \E f \in Frames : f.kind # "DATA" /\ toDevice' = Append(toDevice, f)
    <3>1. PICK m \in LinkMessages : HostSends(LinkFrame(m))
      BY <1>1 DEF HostTimer, LinkMessages
    <3> QED
      BY <1>f, <3>1 DEF HostSends
  <2>2. UNCHANGED <<cb, received, host>> /\ up' = up
    BY <1>1 DEF HostTimer, device, up
  <2> QED
    BY <2>1, <2>2, HostQuiet
<1>2. CASE HostSendData
  BY <1>2, PacketIsSent
<1>3. CASE HostReceive
  <2> DEFINE f == Head(toHost)
             h == f.kind
  <2>1. toHost # <<>> /\ toHost' = Tail(toHost) /\ UNCHANGED <<cb, received, uart>>
    BY <1>3 DEF HostReceive, device
  <2>2. up # <<>> /\ up' = Tail(up) /\ Head(up) = f
    BY <1>0, <2>1, UpTake
  <2>3. f \in Frames /\ h \in FrameKinds /\ f.ack \in Seqs
    <3>1. f \in Frames
      BY <1>0, <2>1, TailIs DEF LineTypes
    <3> QED
      BY <3>1 DEF Frames
  <2>4. \A s \in LinkStates : HostIn(s).state = s /\ HostIn(s).session = host.session
    BY <1>0, HostTyped
  <2>5. CASE h = "SYNC"
    <3>1. HostReceiveLink("SYNC")
      BY <1>3, <2>5 DEF HostReceive, LinkMessages
    <3>2. \E g \in Frames : g.kind # "DATA" /\ toDevice' = Append(toDevice, g)
      BY <1>f, <3>1 DEF HostReceiveLink, HostSends, LinkMessages
    <3>3. host' = host \/ (host'.state = "IDLE" /\ host'.session = host.session)
      BY <2>4, <3>1 DEF HostReceiveLink, LinkStates
    <3> QED
      BY <2>1, <2>2, <3>2, <3>3, HostQuiet
  <2>6. CASE h = "SYNC_RSP"
    <3>1. HostReceiveLink("SYNC_RSP")
      BY <1>3, <2>6 DEF HostReceive, LinkMessages
    <3>2. CASE host.state = "IDLE"
      <4>1. cb.linkState # "ACTIVE"
        BY <2>2, <2>6, <3>2, LinkSays
      <4>2. toDevice' = toDevice /\ host'.state = "INIT" /\ host'.session = host.session
        BY <2>4, <3>1, <3>2 DEF HostReceiveLink, LinkStates
      <4> QED
        BY <2>1, <4>1, <4>2, HostQuiet
    <3>3. CASE host.state # "IDLE"
      <4>1. toDevice' = toDevice /\ host' = host
        BY <3>1, <3>3 DEF HostReceiveLink
      <4> QED
        BY <2>1, <2>2, <4>1, HostQuiet
    <3> QED
      BY <3>2, <3>3
  <2>7. CASE h = "CONFIG"
    <3>1. HostReceiveLink("CONFIG")
      BY <1>3, <2>7 DEF HostReceive, LinkMessages
    <3>2. \/ toDevice' = toDevice
          \/ \E g \in Frames : g.kind # "DATA" /\ toDevice' = Append(toDevice, g)
      BY <1>f, <3>1 DEF HostReceiveLink, HostSends, LinkMessages
    <3>3. host' = host
      BY <3>1 DEF HostReceiveLink
    <3> QED
      BY <2>1, <2>2, <3>2, <3>3, HostQuiet
  <2>8. CASE h = "CONFIG_RSP"
    <3>1. HostReceiveLink("CONFIG_RSP")
      BY <1>3, <2>8 DEF HostReceive, LinkMessages
    <3>2. toDevice' = toDevice
      BY <3>1 DEF HostReceiveLink
    <3>3. CASE host.state = "INIT"
      <4>1. host' = [HostIn("ACTIVE") EXCEPT !.session = HostIn("ACTIVE").session + 1]
        BY <3>1, <3>3 DEF HostReceiveLink
      <4>2. host'.state = "ACTIVE" /\ host'.session = host.session + 1
            /\ host'.sent = 0 /\ host'.acked = 0
        BY <4>1 DEF HostIn
      <4> QED
        BY <2>1, <2>2, <3>2, <3>3, <4>2, HostOpens
    <3>4. CASE host.state # "INIT"
      <4>1. host' = host
        BY <3>1, <3>4 DEF HostReceiveLink
      <4> QED
        BY <2>1, <2>2, <3>2, <4>1, HostQuiet
    <3> QED
      BY <3>3, <3>4
  <2>9. CASE h \in Packets
    <3>1. HostReceivePacket(f)
      BY <1>3, <2>9 DEF HostReceive, LinkMessages, Packets
    <3>2. CASE host.state # "ACTIVE"
      <4>1. UNCHANGED <<host, toDevice>>
        BY <3>1, <3>2 DEF HostReceivePacket
      <4> QED
        BY <2>1, <2>2, <4>1, HostQuiet
    <3>3. CASE host.state = "ACTIVE"
      <4> DEFINE g == [host EXCEPT !.acked = HostAcked(f.ack)]
                 next == (g.expected + 1) % SEQ_NUM
                 k == [g EXCEPT !.expected = next]
      <4>1. /\ g.state = host.state /\ g.session = host.session /\ g.sent = host.sent
            /\ g.acked = HostAcked(f.ack) /\ g.expected = host.expected /\ g.expected \in Seqs
        BY <1>0 DEF HostStates
      <4>2. /\ k.state = host.state /\ k.session = host.session /\ k.sent = host.sent
            /\ k.acked = HostAcked(f.ack)
        BY <1>0 DEF HostStates
      <4>3. next \in Seqs
        <5>1. g.expected + 1 \in Int
          BY <4>1, SeqsAre
        <5> QED
          BY <5>1, ModTyped
      <4>4. /\ host' \in {g, k}
            /\ \/ UNCHANGED toDevice
               \/ \E a \in {g.expected, next} : HostSends(PureAck(a))
        BY <3>1, <3>3 DEF HostReceivePacket
      <4>5. \A a \in Seqs : PureAck(a) \in Frames /\ PureAck(a).kind # "DATA"
        BY FramesMade
      <4> HIDE DEF g, next, k
      <4>6. \/ toDevice' = toDevice
            \/ \E e \in Frames : e.kind # "DATA" /\ toDevice' = Append(toDevice, e)
        BY <4>1, <4>3, <4>4, <4>5 DEF HostSends
      <4>7. /\ host'.state = host.state /\ host'.session = host.session
            /\ host'.sent = host.sent /\ host'.acked = HostAcked(f.ack)
        BY <4>1, <4>2, <4>4
      <4> HIDE DEF f
      <4> QED
        BY <2>1, <2>2, <2>9, <3>3, <4>6, <4>7, HostReads
    <3> QED
      BY <3>2, <3>3
  <2> QED
    BY <2>3, <2>5, <2>6, <2>7, <2>8, <2>9 DEF FrameKinds, LinkMessages
<1>4. CASE HostRestart
  <2>1. host'.state = "IDLE" /\ host'.session = host.session
    BY <1>4 DEF HostRestart, HostIn
  <2>2. UNCHANGED <<cb, received, toDevice>>
    BY <1>4 DEF HostRestart
  <2> QED
    BY <2>1, <2>2, HostQuiet
<1> QED
  BY <1>1, <1>2, <1>3, <1>4

(* Every step keeps PacketInv. *)
LEMMA PacketStep == H5Types /\ LinkInv /\ PacketInv /\ [Next]_vars => PacketInv'
<1> SUFFICES ASSUME H5Types, LinkInv, PacketInv, [Next]_vars PROVE PacketInv'
  OBVIOUS
<1>1. CASE Next
  BY <1>1, PacketDevice, PacketLine, PacketHost DEF Next
<1>2. CASE UNCHANGED vars
  <2>1. UNCHANGED <<cb, toDevice, host, received>> /\ up' = up
    BY <1>2 DEF vars, device, up
  <2> QED
    BY <2>1, DeviceQuiet DEF UpGrows, DownLess
<1> QED
  BY <1>1, <1>2

-----------------------------------------------------------------------------
H5Inv == H5Types /\ LinkInv /\ PacketInv

(* The inductive invariant *)
LEMMA H5InvHolds == Spec => []H5Inv
<1>1. Init => H5Inv
  BY TypesInit, LinkInit, PacketInit DEF H5Inv
<1>2. H5Inv /\ [Next]_vars => H5Inv'
  BY TypesStep, LinkStep, PacketStep DEF H5Inv
<1> QED
  BY <1>1, <1>2, PTL DEF Spec

(* The packets of a session reach the HCI layer in order, each once and none
   left out, whatever is lost or sent again and whoever starts anew
   (HCI_H5_DecodeDataPdu takes the expected number only, hci_h5.c:609).      *)
THEOREM PacketsInOrder == Spec => []InOrderOnce
<1>1. H5Inv => InOrderOnce
  BY DEF H5Inv, PacketInv, HistoryInv, History, Earlier, InOrderOnce, Before
<1> QED
  BY <1>1, H5InvHolds, PTL

(* A packet the host was told has arrived was given to the HCI layer: the
   acknowledgement number of every frame counts the packets that were taken. *)
THEOREM AckedArrived == Spec => []AckedIsReceived
<1>1. H5Inv => AckedIsReceived
  <2> SUFFICES ASSUME H5Inv, host.state = "ACTIVE", NEW n \in 1 .. host.acked
               PROVE  <<host.session, n>> \in Range(received)
    BY DEF AckedIsReceived
  <2>1. R \in Nat /\ host.acked \in Nat /\ host.acked <= R
    BY NumbersAre DEF H5Inv, PacketInv, WindowInv
  <2>2. n \in 1 .. R
    BY <2>1
  <2>3. PICK i \in DOMAIN received : received[i] = <<host.session, n>>
    BY <2>2 DEF H5Inv, PacketInv, HistoryInv, History, R
  <2> QED
    BY <2>3 DEF Range
<1> QED
  BY <1>1, H5InvHolds, PTL
=============================================================================
