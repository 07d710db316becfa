------------------------------- MODULE H5Link -------------------------------
(***************************************************************************)
(* vendor/B91_controller/hci_h5.c: the three-wire (H5) transport between   *)
(* the controller and its host, in builds with HCI_TR_MODE = HCI_TR_H5.    *)
(* Link establishment, sequence and acknowledgement numbers, the sending   *)
(* FIFO of the HCI layer, and loss of frames in both directions.           *)
(*                                                                         *)
(* A frame is its kind, its sequence number, the acknowledgement number,   *)
(* and what it carries.  A frame with a wrong checksum, length or CRC is   *)
(* discarded by the receiver: it is a lost one.  The host is not in the    *)
(* repository: it is one that follows the protocol, with a window of       *)
(* HostWindow frames, and may be started anew at any time.                 *)
(***************************************************************************)
EXTENDS Integers, SequencesExt

CONSTANTS
  SEQ_NUM,          \* sequence numbers: 8
  U8,               \* values of a byte: 256
  HCI_TX_FIFO_NUM,  \* slots of the sending FIFO
  slidWinSize,      \* window the device announces
  HostWindow,       \* window the host announces
  \* Bounds of the model
  ChannelSize,      \* frames on their way in one direction
  MaxPackets,       \* packets of the host in one session
  MaxEvents,        \* packets of the controller
  MaxSends,         \* transmissions of packets of the controller
  MaxRestarts,      \* restarts of each side
  Prompt            \* frames are handled within the 250 ms of a timer

ASSUME H5Assumption ==
  /\ {slidWinSize, HostWindow, HCI_TX_FIFO_NUM, SEQ_NUM, U8} \subseteq Nat \ {0}
  /\ {ChannelSize, MaxPackets, MaxEvents, MaxSends, MaxRestarts} \subseteq Nat
  /\ HostWindow < SEQ_NUM /\ slidWinSize < SEQ_NUM
  /\ U8 % SEQ_NUM = 0 /\ U8 % HCI_TX_FIFO_NUM = 0
  /\ MaxEvents < U8 /\ Prompt \in BOOLEAN

VARIABLES
  cb,        \* hciH5Cb: link state, windows and numbers of the device
  rptr,      \* read pointer of the sending FIFO
  wptr,      \* write pointer of the sending FIFO
  slots,     \* the packet in each slot of the sending FIFO, 0 for none
  uart,      \* the frame the UART is sending, or <<>>
  toHost,    \* frames on their way to the host
  toDevice,  \* frames on their way to the device
  received,  \* packets given to the HCI layer so far
  host,      \* state and numbers of the host
  sends,     \* transmissions of packets so far
  restarts   \* restarts of each side so far

fifo == <<rptr, wptr, slots>>
device == <<cb, fifo, uart, received, sends>>
vars == <<device, toHost, toDevice, host, restarts>>

LinkStates == {"IDLE", "INIT", "ACTIVE"}
LinkMessages == {"SYNC", "SYNC_RSP", "CONFIG", "CONFIG_RSP"}
Seqs == 0 .. SEQ_NUM - 1

LinkFrame(m) == [kind |-> m, seq |-> 0, ack |-> 0, reliable |-> 0, body |-> <<>>]
PureAck(a) == [LinkFrame("ACK") EXCEPT !.ack = a]
Data(s, a, b) == [kind |-> "DATA", seq |-> s, ack |-> a, reliable |-> 1, body |-> b]

-----------------------------------------------------------------------------
(* The device sends.  HCI_Slip_Send gives up when the UART is busy.        *)
UartBusy == uart # <<>>
Send(f) == uart' = IF UartBusy THEN uart ELSE <<f>>

(* HCI_H5_Reset *)
ResetKeepsAck(c) == [c EXCEPT !.rxSlidWinSize = 0, !.txSlidWinSize = 0, !.txSeq = 0, !.rxAck = 0]  \* mutant
ResetOf(c) == [c EXCEPT !.rxSlidWinSize = 0, !.txSlidWinSize = 0,
                        !.txSeq = 0, !.txAck = 0, !.rxAck = 0]

InState(s) == [linkState |-> s, rxSlidWinSize |-> 0, txSlidWinSize |-> 0,
               txSeq |-> 0, txAck |-> 0, rxAck |-> 0]

(* The FIFO is read at rptr plus the packets sent and not acknowledged.  The
   test for an empty FIFO compares the sum as an int with the byte wptr.    *)
NoData == wptr = rptr + cb.txSlidWinSize
SlotToSend == ((rptr + cb.txSlidWinSize) % U8) % HCI_TX_FIFO_NUM

(* HCI_H5_Poll, state ACTIVE: HCI_H5_SendData.  With a busy UART the numbers
   are taken back, which leaves everything as it was.                       *)
SendData ==
  /\ cb.linkState = "ACTIVE" /\ ~NoData /\ ~UartBusy
  /\ sends < MaxSends /\ sends' = sends + 1
  /\ Send(Data(cb.txSeq, cb.txAck, slots[SlotToSend]))
  /\ cb' = [cb EXCEPT !.txSeq = (@ + 1) % SEQ_NUM,
                      !.txSlidWinSize = (@ + 1) % U8,
                      !.rxSlidWinSize = 0]
  /\ UNCHANGED <<fifo, received, toHost, toDevice, host, restarts>>

(* HCI_H5_Poll in the other states, when 250 ms have passed. *)
TimerEnds == Prompt => uart \o toHost \o toDevice = <<>>
RepeatSync == cb.linkState = "IDLE" /\ Send(LinkFrame("SYNC"))  \* mutant
Repeat ==
  \/ cb.linkState = "IDLE" /\ Send(LinkFrame("SYNC"))
  \/ cb.linkState = "INIT" /\ Send(LinkFrame("CONFIG"))

PollLink ==
  /\ TimerEnds /\ Repeat
  /\ UNCHANGED <<cb, fifo, received, sends, toHost, toDevice, host, restarts>>

(* The HCI layer queues a packet when the FIFO has room for one. *)
QueueEvent ==
  /\ wptr < MaxEvents
  /\ (wptr - rptr) % U8 < HCI_TX_FIFO_NUM
  /\ slots' = [slots EXCEPT ![wptr % HCI_TX_FIFO_NUM] = wptr + 1]
  /\ wptr' = wptr + 1
  /\ UNCHANGED <<cb, rptr, uart, received, sends, toHost, toDevice, host, restarts>>

-----------------------------------------------------------------------------
(* The device receives: HCI_H5_PakcetHandler. *)
Arrives(kind) ==
  /\ toDevice # <<>> /\ Head(toDevice).kind = kind
  /\ toDevice' = Tail(toDevice)
  /\ UNCHANGED <<toHost, host, restarts, sends>>

LinkOnly == UNCHANGED <<fifo, received>>

(* HCI_H5_DecodeLinkPdu, by message *)
RecvSync ==
  /\ Arrives("SYNC") /\ LinkOnly
  /\ Send(LinkFrame("SYNC_RSP"))
  /\ cb' = IF cb.linkState = "ACTIVE" THEN [ResetOf(cb) EXCEPT !.linkState = "IDLE"] ELSE cb

LateAnswerIsInvalid == UNCHANGED cb /\ Send(LinkFrame("SYNC"))  \* mutant
LateAnswer == UNCHANGED <<cb, uart>>
RecvSyncRsp ==
  /\ Arrives("SYNC_RSP") /\ LinkOnly
  /\ IF cb.linkState = "IDLE"
     THEN cb' = [cb EXCEPT !.linkState = "INIT"] /\ Send(LinkFrame("CONFIG"))
     ELSE LateAnswer

RecvConfig ==
  /\ Arrives("CONFIG") /\ LinkOnly
  /\ Send(LinkFrame(IF cb.linkState = "IDLE" THEN "SYNC" ELSE "CONFIG_RSP"))
  /\ UNCHANGED cb

ActiveOf(c) == [ResetOf(c) EXCEPT !.linkState = "ACTIVE"]

RecvConfigRsp ==
  /\ Arrives("CONFIG_RSP") /\ LinkOnly
  /\ \/ cb.linkState = "IDLE" /\ Send(LinkFrame("SYNC")) /\ UNCHANGED cb
     \/ cb.linkState = "INIT" /\ cb' = ActiveOf(cb) /\ UNCHANGED uart
     \/ cb.linkState = "ACTIVE" /\ UNCHANGED <<cb, uart>>

(* HCI_H5_ReSendCheck with the acknowledgement a: going back from txSeq to it
   is counted down in txSlidWinSize, a byte, and what is left of the window is
   released from the FIFO.                                                  *)
NotTaken(c, a) == (c.txSeq - a) % SEQ_NUM
ReSendCheck(c, a) ==
  /\ cb' = [c EXCEPT !.rxAck = a, !.txSeq = a, !.txSlidWinSize = 0]
  /\ rptr' = (rptr + c.txSlidWinSize - NotTaken(c, a)) % U8

RecvAck ==
  /\ Arrives("ACK")
  /\ ReSendCheck(cb, Head(toDevice).ack)
  /\ UNCHANGED <<wptr, slots, uart, received>>

(* HCI_H5_DecodeDataPdu: only the expected packet is taken; a full window is
   acknowledged at once, whether the UART takes the acknowledgement or not.
   A packet of an unreliable kind is always taken, and counted.            *)
Window == IF slidWinSize < HostWindow THEN slidWinSize ELSE HostWindow
WindowFullLate(c) == c.rxSlidWinSize + 1 > Window  \* mutant
WindowFull(c) == c.rxSlidWinSize + 1 >= Window
ExpectedAny(c, f) == TRUE  \* mutant
Expected(c, f) == f.seq = c.txAck
Counted(c) == [c EXCEPT !.txAck = (@ + 1) % SEQ_NUM]
Taken(c) == [Counted(c) EXCEPT !.rxSlidWinSize = IF WindowFull(c) THEN 0 ELSE @ + 1]

RecvReliable(f) ==
  IF Expected(cb, f)
  THEN /\ ReSendCheck(Taken(cb), f.ack)
       /\ received' = Append(received, f.body)
       /\ IF WindowFull(cb) THEN Send(PureAck(Taken(cb).txAck)) ELSE UNCHANGED uart
  ELSE ReSendCheck(cb, f.ack) /\ UNCHANGED <<received, uart>>

RecvUnreliable(f) ==
  /\ cb' = Counted(cb) /\ received' = Append(received, f.body)
  /\ UNCHANGED <<rptr, uart>>

RecvData ==
  LET f == Head(toDevice) IN
  /\ Arrives("DATA") /\ UNCHANGED <<wptr, slots>>
  /\ IF cb.linkState # "ACTIVE" THEN UNCHANGED <<cb, rptr, received, uart>>
     ELSE IF f.reliable = 1 THEN RecvReliable(f) ELSE RecvUnreliable(f)

Receive == \/ RecvSync \/ RecvSyncRsp \/ RecvConfig \/ RecvConfigRsp
           \/ RecvAck \/ RecvData

(* The device starts anew: HCI_H5_Init, with the memory of the program.  A
   start takes longer than a frame is under way: the other side has what was
   sent before, and what it sent itself has found nobody.                  *)
DeviceRestart ==
  /\ restarts.device < MaxRestarts
  /\ restarts' = [restarts EXCEPT !.device = @ + 1]
  /\ cb' = InState("IDLE")
  /\ rptr' = 0 /\ wptr' = 0 /\ slots' = [i \in DOMAIN slots |-> 0]
  /\ toHost = <<>> /\ uart' = <<>> /\ toDevice' = <<>>
  /\ UNCHANGED <<received, sends, toHost, host>>

-----------------------------------------------------------------------------
(* The line.  The UART is busy until its frame has left.  Frames stay in
   order; any frame may be lost.                                           *)
UartDone ==
  /\ UartBusy /\ Len(toHost) < ChannelSize
  /\ toHost' = toHost \o uart /\ uart' = <<>>
  /\ UNCHANGED <<cb, fifo, received, sends, toDevice, host, restarts>>

LoseToHost ==
  /\ toHost # <<>> /\ toHost' = Tail(toHost)
  /\ UNCHANGED <<device, toDevice, host, restarts>>

LoseToDevice ==
  /\ toDevice # <<>> /\ toDevice' = Tail(toDevice)
  /\ UNCHANGED <<device, toHost, host, restarts>>

-----------------------------------------------------------------------------
(* The host.  Packets of a session are numbered from 1; the packet n has the
   sequence number of n - 1.                                               *)
SeqNumOf(n) == (n - 1) % SEQ_NUM
HostHasRoom == Len(toDevice) < ChannelSize
HostSends(f) == HostHasRoom /\ toDevice' = Append(toDevice, f)
HostIn(s) == [state |-> s, session |-> host.session, sent |-> 0, acked |-> 0, expected |-> 0]

HostTimer ==
  /\ TimerEnds
  /\ \/ host.state = "IDLE" /\ HostSends(LinkFrame("SYNC"))
     \/ host.state = "INIT" /\ HostSends(LinkFrame("CONFIG"))
  /\ UNCHANGED <<device, toHost, host, restarts>>

(* A packet is new or sent again. *)
HostSendData ==
  /\ host.state = "ACTIVE"
  /\ \E n \in host.acked + 1 .. host.acked + HostWindow :
       /\ n <= host.sent + 1 /\ n <= MaxPackets
       /\ n <= host.sent => TimerEnds
       /\ HostSends(Data(SeqNumOf(n), host.expected, <<host.session, n>>))
       /\ host' = [host EXCEPT !.sent = IF n > @ THEN n ELSE @]
  /\ UNCHANGED <<device, toHost, restarts>>

HostAcked(a) ==
  LET confirmed == {n \in host.acked .. host.sent : n % SEQ_NUM = a}
  IN IF confirmed = {} THEN host.acked ELSE CHOOSE n \in confirmed : TRUE

HostReceiveLink(m) ==
  \/ m = "SYNC" /\ HostSends(LinkFrame("SYNC_RSP"))
       /\ host' = IF host.state = "ACTIVE" THEN HostIn("IDLE") ELSE host
  \/ m = "SYNC_RSP" /\ UNCHANGED toDevice
       /\ host' = IF host.state = "IDLE" THEN HostIn("INIT") ELSE host
  \/ m = "CONFIG" /\ UNCHANGED host
       /\ IF host.state = "IDLE" THEN UNCHANGED toDevice ELSE HostSends(LinkFrame("CONFIG_RSP"))
  \/ m = "CONFIG_RSP" /\ UNCHANGED toDevice
       /\ host' = IF host.state = "INIT"
                  THEN [HostIn("ACTIVE") EXCEPT !.session = @ + 1] ELSE host

HostReceivePacket(f) ==
  IF host.state # "ACTIVE" THEN UNCHANGED <<host, toDevice>>
  ELSE LET h == [host EXCEPT !.acked = HostAcked(f.ack)]
           next == (h.expected + 1) % SEQ_NUM
       IN \/ f.kind = "ACK" /\ host' = h /\ UNCHANGED toDevice
          \/ f.kind = "DATA" /\ f.seq # h.expected
               /\ host' = h /\ HostSends(PureAck(h.expected))
          \/ f.kind = "DATA" /\ f.seq = h.expected
               /\ host' = [h EXCEPT !.expected = next] /\ HostSends(PureAck(next))

HostReceive ==
  /\ toHost # <<>> /\ toHost' = Tail(toHost)
  /\ LET f == Head(toHost)
     IN IF f.kind \in LinkMessages THEN HostReceiveLink(f.kind) ELSE HostReceivePacket(f)
  /\ UNCHANGED <<device, restarts>>

HostRestart ==
  /\ restarts.host < MaxRestarts
  /\ restarts' = [restarts EXCEPT !.host = @ + 1]
  /\ host' = HostIn("IDLE")
  /\ toDevice = <<>> /\ toHost' = <<>> /\ uart' = <<>>
  /\ UNCHANGED <<cb, fifo, received, sends, toDevice>>

-----------------------------------------------------------------------------
Init ==
  /\ cb = InState("IDLE")
  /\ rptr = 0 /\ wptr = 0 /\ slots = [i \in 0 .. HCI_TX_FIFO_NUM - 1 |-> 0]
  /\ uart = <<>> /\ toHost = <<>> /\ toDevice = <<>>
  /\ received = <<>> /\ sends = 0
  /\ host = [state |-> "IDLE", session |-> 0, sent |-> 0, acked |-> 0, expected |-> 0]
  /\ restarts = [device |-> 0, host |-> 0]

Next ==
  \/ SendData \/ PollLink \/ QueueEvent \/ Receive \/ DeviceRestart
  \/ UartDone \/ LoseToHost \/ LoseToDevice
  \/ HostTimer \/ HostSendData \/ HostReceive \/ HostRestart

Spec == Init /\ [][Next]_vars

(* The main loop runs, the UART sends, both timers end, and a message of the
   establishment that is sent again and again gets through at last.        *)
RecvLink(m) ==
  /\ \/ m = "SYNC" /\ RecvSync
     \/ m = "SYNC_RSP" /\ RecvSyncRsp
     \/ m = "CONFIG" /\ RecvConfig
     \/ m = "CONFIG_RSP" /\ RecvConfigRsp
  /\ ~UartBusy
HostRecv(m) == toHost # <<>> /\ Head(toHost).kind = m /\ HostReceive

Fairness ==
  /\ SF_vars(PollLink) /\ SF_vars(HostTimer) /\ WF_vars(UartDone)
  /\ WF_vars(Receive) /\ WF_vars(HostReceive)
  /\ \A m \in LinkMessages : SF_vars(RecvLink(m)) /\ SF_vars(HostRecv(m))

FairSpec == Spec /\ Fairness

-----------------------------------------------------------------------------
TypeOK ==
  /\ cb \in [linkState : LinkStates, rxSlidWinSize : 0 .. Window - 1,
             txSlidWinSize : 0 .. U8 - 1, txSeq : Seqs, txAck : Seqs, rxAck : Seqs]
  /\ rptr \in 0 .. U8 - 1 /\ wptr \in 0 .. MaxEvents
  /\ slots \in [0 .. HCI_TX_FIFO_NUM - 1 -> 0 .. MaxEvents]
  /\ Len(uart) <= 1 /\ Len(toHost) <= ChannelSize /\ Len(toDevice) <= ChannelSize
  /\ host.state \in LinkStates

(* The packets of a session reach the HCI layer of the device in their order,
   each once and none left out, whatever is lost or sent again and whoever
   starts anew: only the expected sequence number is taken (hci_h5.c:609).  *)
Before(i) == {j \in 1 .. i - 1 : received[j][1] = received[i][1]}
InOrderOnce == \A i \in DOMAIN received : received[i][2] = Cardinality(Before(i)) + 1

(* A packet the host was told has arrived was given to the HCI layer: the
   acknowledgement number in every frame counts the packets taken.         *)
AckedIsReceived ==
  host.state = "ACTIVE" =>
    \A n \in 1 .. host.acked : <<host.session, n>> \in Range(received)

(* Late messages of the establishment never take an established link down:
   once both sides are in it, no SYNC is under way in either direction, so
   neither end can be sent back to its start (hci_h5.c:506-512).           *)
Syncs(q) == {i \in DOMAIN q : q[i].kind = "SYNC"}
NoLateSync ==
  cb.linkState = "ACTIVE" /\ host.state = "ACTIVE" =>
    Syncs(toDevice) \cup Syncs(toHost) \cup Syncs(uart) = {}

(* "have no data to send." (hci_h5.c:327): HCI_H5_SendData sends packets that
   were put into the sending FIFO, and nothing else.                       *)
SentWasQueued == \A i \in DOMAIN uart : uart[i].kind = "DATA" => uart[i].body # 0

(* Whatever is lost and whoever starts anew, both sides are in the link at
   last and stay there: the SYNC and CONFIG of hci_h5.c:720-738 are sent
   again until they are answered, and no answer leaves a state unresolved. *)
LinkUp == cb.linkState = "ACTIVE" /\ host.state = "ACTIVE"
LinkComesUp == <>[]LinkUp
=============================================================================
