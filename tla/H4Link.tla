------------------------------- MODULE H4Link -------------------------------
(***************************************************************************)
(* vendor/B91_controller/hci_tr_h4.c and hci_tr.c: the H4 transport, the   *)
(* default one of the controller (hci_tr_api.h:60).  The UART cuts the     *)
(* bytes of the host anywhere into DMA transfers; HCI_Tr_H4RxHandler finds *)
(* the packets in them again and keeps the beginning of a cut one in a     *)
(* backup buffer, until the rest has come or 1000 ms have passed.          *)
(*                                                                         *)
(* The host is not in the repository.  It sends commands and ACL data and  *)
(* waits when HostCredits of its packets have not been handled, or when    *)
(* bytes were lost; it may stop within a packet, and is silent for the     *)
(* 1000 ms when it starts again.  Within a session bytes come without a    *)
(* pause of that length.                                                   *)
(***************************************************************************)
EXTENDS Integers, SequencesExt

CONSTANTS
  HCI_H4_TR_RX_BUF_NUM,  \* DMA buffers: 4
  HCI_RX_FIFO_NUM,       \* slots of the receiving FIFO of the HCI layer: 8
  PtrVals,               \* values of the u8 pointers of the FIFOs: 256
  CntVals,               \* values of the u8 backupCnt: 256
  H4BufSize,             \* bytes of a DMA buffer
  HostCredits,           \* packets the host may have under way
  Shapes,                \* <<type, length of the parameters>> of the packets sent
  Payload,               \* the byte that all parameters are made of
  \* Bounds of the model
  MaxSent,               \* packets of the first session; one less in each that follows
  MaxSessions,           \* sessions of the host
  MaxUartErrors          \* transfers lost to errors of the UART

ASSUME H4Assumption ==
  /\ {HCI_H4_TR_RX_BUF_NUM, HCI_RX_FIFO_NUM, PtrVals, CntVals,
      H4BufSize, HostCredits} \subseteq Nat \ {0}
  /\ {MaxSent, MaxSessions, MaxUartErrors, Payload} \subseteq Nat
  /\ PtrVals % HCI_H4_TR_RX_BUF_NUM = 0 /\ PtrVals % HCI_RX_FIFO_NUM = 0
  /\ HCI_RX_FIFO_NUM < PtrVals /\ HCI_H4_TR_RX_BUF_NUM < PtrVals
  /\ Shapes \subseteq {1, 2} \X Nat

VARIABLES
  line,       \* bytes on their way to the UART
  dma,        \* h4TrRxFifo: pointers and buffers, each with its length field
  handler,    \* HCI_Tr_H4RxHandler: position and rest of the buffer it reads
  backup,     \* isBackup, the bytes kept (backupCnt of them), the timer
  hci,        \* bltHci_rxfifo
  sent,       \* packets of this session of the host
  delivered,  \* packets given to blc_hci_handler in this session
  h4host,     \* whether the host is up, and its number of sessions
  damaged,    \* bytes of this session were lost before the handler
  uartErrors  \* transfers lost so far

h4vars == <<line, dma, handler, backup, hci, sent, delivered, h4host, damaged, uartErrors>>

Least(a, b) == IF a < b THEN a ELSE b

-----------------------------------------------------------------------------
(* Packets: the type, two bytes of opcode or handle, the length (one byte, two
   for ACL data), the parameters.                                          *)
CMD == 1
ACL == 2
SCO == 3
EVENT == 4
HeadLen == <<3, 4, 3, 2>>
ParamLen(b) ==
  CASE b[1] = ACL -> b[4] + CntVals * b[5]
    [] b[1] = EVENT -> b[3]
    [] OTHER -> b[4]
PacketLen(b) == 1 + HeadLen[b[1]] + ParamLen(b)
HasHead(b) == Len(b) >= 1 + HeadLen[b[1]]

Packet(n, shape) ==
  <<shape[1], n, 0, shape[2]>>
    \o (IF shape[1] = ACL THEN <<0>> ELSE <<>>) \o [i \in 1 .. shape[2] |-> Payload]

-----------------------------------------------------------------------------
(* The host *)
HostSend ==
  /\ h4host.up /\ ~damaged
  /\ Len(sent) + h4host.sessions <= MaxSent /\ Len(sent) - Len(delivered) < HostCredits
  /\ \E shape \in Shapes :
       LET p == Packet(Len(sent) + 3, shape)
       IN sent' = Append(sent, p) /\ line' = line \o p
  /\ UNCHANGED <<dma, handler, backup, hci, delivered, h4host, damaged, uartErrors>>

HostStops ==
  /\ h4host.up /\ h4host.sessions < MaxSessions
  /\ h4host' = [h4host EXCEPT !.up = FALSE]
  /\ line' = <<>>
  /\ UNCHANGED <<dma, handler, backup, hci, sent, delivered, damaged, uartErrors>>

(* What came before is handled; the line has been silent for 1000 ms. *)
Quiet == line = <<>> /\ dma.wptr = dma.rptr /\ handler.len = 0
HostStarts ==
  /\ ~h4host.up /\ Quiet /\ ~backup.timer /\ hci.wptr = hci.rptr
  /\ h4host' = [up |-> TRUE, sessions |-> h4host.sessions + 1]
  /\ sent' = <<>> /\ delivered' = <<>> /\ damaged' = FALSE
  /\ UNCHANGED <<line, dma, handler, backup, hci, uartErrors>>

-----------------------------------------------------------------------------
(* HCI_Tr_H4UartIRQHandler.  The DMA writes into the buffer at wptr, whoever
   owns it; its length field and the pointer are left alone when the FIFO is
   found full.                                                             *)
Armed == dma.wptr % HCI_H4_TR_RX_BUF_NUM
Full == dma.wptr - dma.rptr >= HCI_H4_TR_RX_BUF_NUM
ArmedIsUnread == (dma.wptr - dma.rptr) % PtrVals >= HCI_H4_TR_RX_BUF_NUM

Landed(k) ==
  LET old == dma.bufs[Armed].bytes
  IN SubSeq(line, 1, k) \o SubSeq(old, k + 1, Len(old))

Transfer(k, len, wptr) ==
  /\ line' = SubSeq(line, k + 1, Len(line))
  /\ dma' = [dma EXCEPT !.wptr = wptr, !.bufs[Armed] = [len |-> len, bytes |-> Landed(k)]]

UartIRQHandler ==
  /\ \E k \in 1 .. Least(Len(line), H4BufSize) :
       IF Full THEN Transfer(k, dma.bufs[Armed].len, dma.wptr)
               ELSE Transfer(k, k, (dma.wptr + 1) % PtrVals)
  /\ damaged' = (damaged \/ ArmedIsUnread)
  /\ UNCHANGED <<handler, backup, hci, sent, delivered, h4host, uartErrors>>

(* UART_RX_ERR: the transfer is given up. *)
UartRxErr ==
  /\ uartErrors < MaxUartErrors /\ uartErrors' = uartErrors + 1
  /\ \E k \in 1 .. Least(Len(line), H4BufSize) : Transfer(k, dma.bufs[Armed].len, dma.wptr)
  /\ damaged' = TRUE
  /\ UNCHANGED <<handler, backup, hci, sent, delivered, h4host>>

(* HCI_Tr_H4TimerIRQHandler, 1000 ms after the last part of a cut packet *)
TimerKeepsBytes(b) == [b EXCEPT !.timer = FALSE, !.is = FALSE]  \* mutant
TimerReset(b) == [is |-> FALSE, bytes |-> <<>>, timer |-> FALSE]
TimerIRQHandler ==
  /\ backup.timer /\ Quiet
  /\ backup' = TimerReset(backup)
  /\ UNCHANGED <<line, dma, handler, hci, sent, delivered, h4host, damaged, uartErrors>>

-----------------------------------------------------------------------------
(* HCI_Tr_H4BackUpHandler for the bytes d: how many of them it takes, and the
   backup with them.  Lengths are compared in 16 bits, the bytes kept are
   counted in 8, and a count that wrapped is a shorter backup.             *)
NoBackup == [is |-> FALSE, bytes |-> <<>>, timer |-> FALSE]
Counted8(b) == SubSeq(b, 1, Len(b) % CntVals)
Stored(d) == [is |-> TRUE, bytes |-> Counted8(d), timer |-> TRUE]

Take(b, d) ==
  IF b = <<>> \/ b[1] \notin {CMD, ACL} \/ ~HasHead(b \o d) THEN Len(d)
  ELSE LET rest == PacketLen(b \o d) - Len(b)
       IN IF rest < 0 THEN Len(d) ELSE Least(rest, Len(d))

BackUpHandler(d) ==
  LET b == backup.bytes
      kept == Counted8(b \o SubSeq(d, 1, Take(b, d)))
  IN IF b = <<>> THEN backup' = Stored(d) /\ UNCHANGED hci
     ELSE IF b[1] \notin {CMD, ACL} THEN UNCHANGED <<backup, hci>>
     ELSE IF kept # <<>> /\ HasHead(kept) /\ Len(kept) = PacketLen(kept)
     THEN /\ backup' = NoBackup
          /\ hci' = [hci EXCEPT !.slots[hci.wptr % HCI_RX_FIFO_NUM] = kept,
                                !.wptr = (@ + 1) % PtrVals]
     ELSE backup' = [backup EXCEPT !.bytes = kept, !.timer = TRUE] /\ UNCHANGED hci

-----------------------------------------------------------------------------
(* HCI_Tr_H4RxHandler, in HCI_Tr_Poll: one buffer at a time *)
Reading == handler.len > 0
BufferAt == dma.bufs[dma.rptr % HCI_H4_TR_RX_BUF_NUM]
RxHandlerStart ==
  /\ ~Reading /\ dma.wptr # dma.rptr
  /\ handler' = [pos |-> 0, len |-> BufferAt.len, resumed |-> FALSE]
  /\ UNCHANGED <<line, dma, backup, hci, sent, delivered, h4host, damaged, uartErrors>>

Rest == SubSeq(BufferAt.bytes, handler.pos + 1,
               Least(handler.pos + handler.len, Len(BufferAt.bytes)))

(* n bytes are done; the buffer is released with its last one.  What a free
   buffer holds is never read.                                             *)
EmptyBuf == [len |-> 0, bytes |-> <<>>]
GoOn(n, len, resumed) ==
  /\ handler' = IF len = 0 THEN [pos |-> 0, len |-> 0, resumed |-> FALSE]
                ELSE [pos |-> handler.pos + n, len |-> len, resumed |-> resumed]
  /\ dma' = IF len = 0 THEN [dma EXCEPT !.rptr = (@ + 1) % PtrVals,
                                       !.bufs[dma.rptr % HCI_H4_TR_RX_BUF_NUM] = EmptyBuf]
            ELSE dma
  /\ UNCHANGED <<line, sent, delivered, h4host, damaged, uartErrors>>

(* A packet that was cut goes on.  What is left of the buffer is read as a new
   packet in the same pass.                                                *)
RxHandlerResume ==
  /\ Reading /\ backup.is /\ ~handler.resumed
  /\ BackUpHandler(Rest)
  /\ LET res == Take(backup.bytes, Rest) % CntVals
     IN GoOn(res, handler.len - res, TRUE)

WholePacketShort(b) == HasHead(b) /\ Len(b) > PacketLen(b)  \* mutant
WholePacket(b) == HasHead(b) /\ Len(b) >= PacketLen(b)
ParsePacket ==
  IF WholePacket(Rest)
  THEN /\ hci' = [hci EXCEPT !.slots[hci.wptr % HCI_RX_FIFO_NUM] = SubSeq(Rest, 1, PacketLen(Rest)),
                             !.wptr = (@ + 1) % PtrVals]
       /\ GoOn(PacketLen(Rest), handler.len - PacketLen(Rest), FALSE)
       /\ UNCHANGED backup
  ELSE BackUpHandler(Rest) /\ GoOn(Len(Rest), 0, FALSE)

(* Types a host does not send, met when bytes were lost.  An unknown one, or a
   header cut short, drops the rest of the buffer.  For EVENT and SCO the code
   takes the packet's length off the u32 len and reads the same header again,
   pPacket is not moved on: len may pass 0 and come round, until it is 0 or less
   than a header, if it ever is.  When it is, the rest has been dropped, which
   is this step; a loop that does not end is a behaviour in which this step is
   never taken (H4Spec assumes no fairness), while the interrupts go on.  The
   rounds themselves are not modelled.                                       *)
SkipPacket == GoOn(0, 0, FALSE) /\ UNCHANGED <<backup, hci>>

RxHandlerPacket ==
  /\ Reading /\ (backup.is => handler.resumed)
  /\ IF Rest[1] \in {CMD, ACL} THEN ParsePacket ELSE SkipPacket

(* HCI_Tr_RxHandlerCback, called by blc_sdk_main_loop after HCI_Tr_Poll *)
RxHandlerCback ==
  /\ ~Reading /\ hci.wptr # hci.rptr
  /\ delivered' = Append(delivered, hci.slots[hci.rptr % HCI_RX_FIFO_NUM])
  /\ hci' = [hci EXCEPT !.rptr = (@ + 1) % PtrVals, !.slots[hci.rptr % HCI_RX_FIFO_NUM] = <<>>]
  /\ UNCHANGED <<line, dma, handler, backup, sent, h4host, damaged, uartErrors>>

-----------------------------------------------------------------------------
H4Init ==
  /\ line = <<>>
  /\ dma = [wptr |-> 0, rptr |-> 0,
            bufs |-> [i \in 0 .. HCI_H4_TR_RX_BUF_NUM - 1 |-> EmptyBuf]]
  /\ handler = [pos |-> 0, len |-> 0, resumed |-> FALSE]
  /\ backup = NoBackup
  /\ hci = [wptr |-> 0, rptr |-> 0, slots |-> [i \in 0 .. HCI_RX_FIFO_NUM - 1 |-> <<>>]]
  /\ sent = <<>> /\ delivered = <<>>
  /\ h4host = [up |-> TRUE, sessions |-> 1]
  /\ damaged = FALSE /\ uartErrors = 0

H4Next ==
  \/ HostSend \/ HostStops \/ HostStarts
  \/ UartIRQHandler \/ UartRxErr \/ TimerIRQHandler
  \/ RxHandlerStart \/ RxHandlerResume \/ RxHandlerPacket \/ RxHandlerCback

H4Spec == H4Init /\ [][H4Next]_h4vars

-----------------------------------------------------------------------------
(* The packets in the FIFO of the HCI layer, oldest first *)
QueuedPackets ==
  [i \in 1 .. (hci.wptr - hci.rptr) % PtrVals |-> hci.slots[(hci.rptr + i - 1) % HCI_RX_FIFO_NUM]]

(* However the bytes of a session are cut into transfers, the stack is given
   its packets whole, in order, each once and with nothing in between, and a
   packet cut short by the end of the session before never gets into one
   (hci_tr_h4.c:340-600), unless bytes were lost before the handler.       *)
PacketsAsSent == ~damaged => IsPrefix(delivered \o QueuedPackets, sent)

(* No packet is left behind: when all bytes have been read and all packets
   handled, none waits in the backup buffer for a byte that came before
   (hci_tr_h4.c:374, 406, 439, 478).                                       *)
NothingLeftBehind ==
  Quiet /\ hci.wptr = hci.rptr /\ h4host.up /\ ~damaged => delivered = sent
=============================================================================
