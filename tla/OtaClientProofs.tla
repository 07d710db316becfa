--------------------------- MODULE OtaClientProofs ---------------------------
(***************************************************************************)
(* Theorems about OtaClient, for every length of PDU, size of firmware,    *)
(* number of transfers and build:                                          *)
(*                                                                         *)
(*   PdusInSequence  the server never finds a PDU it does not expect;      *)
(*   SuccessIsOwn    a success is that of the transfer it is told for.     *)
(*                                                                         *)
(* Both have to follow what a transfer that timed out left on its way into *)
(* the next one.  The inductive invariant OtaInv: where the client is      *)
(* (FlowInv), the order of the queue to the server and how far its session *)
(* has come (OrderInv), that the answer a step waits for is one to its own *)
(* question and comes behind all that is left of a transfer before         *)
(* (AskInv), and that from the start on only PDUs of this firmware are     *)
(* under way (TransferInv).                                                *)
(***************************************************************************)
EXTENDS OtaClient, SequenceTheorems, TLAPS

Questions == [cmd : {"READ_BY_TYPE", "FW_VERSION_REQ", "START"}]
DataPdus == [cmd : {"DATA"}, index : Nat, addr : NewFwAddrs \cup {0}, valid : Nat, makeup : Int]
EndPdus == [cmd : {"END"}, index : Nat]
ToServer == Questions \cup DataPdus \cup EndPdus
Results == {"OTA_SUCCESS", "OTA_TIMEOUT", "OTA_DATA_PACKET_SEQ_ERR", "OTA_DATA_UNCOMPLETE"}
ToClient == [cmd : {"READ_BY_TYPE_RSP"}] \cup [cmd : {"FW_VERSION_RSP"}, accept : BOOLEAN]
            \cup [cmd : {"RESULT"}, result : Results]
Otas == [conn : {NoHandle0, OtaHandle}, addr : NewFwAddrs \cup {0}, cur : Nat, last : Nat,
         valid : Nat, ticking : BOOLEAN]
ClientTypes == flow \in 0 .. 10 /\ ota \in Otas /\ otaLink \in BOOLEAN
QueueTypes ==
  /\ toServer \in Seq(ToServer) /\ toClient \in Seq(ToClient)
  /\ server \in [open : BOOLEAN, pdus : Seq(DataPdus)]
OtaTypes == ClientTypes /\ QueueTypes

-----------------------------------------------------------------------------
(* Sequences as queues *)
LEMMA QueueTail ==
  ASSUME NEW S, NEW q \in Seq(S), q # <<>>
  PROVE  /\ Tail(q) \in Seq(S) /\ Len(q) \in Nat \ {0} /\ Len(Tail(q)) = Len(q) - 1
         /\ Head(q) = q[1] /\ q[1] \in S
         /\ \A i \in 1 .. Len(q) - 1 : Tail(q)[i] = q[i + 1]
  OBVIOUS

(* One element more at the end of a queue *)
LEMMA QueueAppend ==
  ASSUME NEW S, NEW q \in Seq(S), NEW m \in S
  PROVE  /\ Append(q, m) \in Seq(S) /\ Append(q, m) # <<>>
         /\ Len(q) \in Nat /\ Len(Append(q, m)) = Len(q) + 1
         /\ \A i \in 1 .. Len(q) : Append(q, m)[i] = q[i]
         /\ Append(q, m)[Len(q) + 1] = m
  OBVIOUS

(* The positions of a queue *)
LEMMA QueueDomain ==
  ASSUME NEW S, NEW q \in Seq(S)
  PROVE  DOMAIN q = 1 .. Len(q) /\ Len(q) \in Nat /\ (q = <<>> <=> Len(q) = 0)
  OBVIOUS

(* What the two sides put into the queues *)
LEMMA QuestionTyped ==
  ASSUME NEW c \in {"READ_BY_TYPE", "FW_VERSION_REQ", "START"}
  PROVE  Message(c) \in ToServer /\ Message(c).cmd = c
  BY DEF Message, ToServer, Questions

(* The PDU of an index carries the index *)
LEMMA PduTyped ==
  ASSUME ota \in Otas, NEW n \in Nat
  PROVE  /\ DataPdu(n) \in DataPdus /\ DataPdu(n) \in ToServer
         /\ DataPdu(n).cmd = "DATA" /\ DataPdu(n).index = n
<1>1. MakeUp(ota.valid) \in Int
  BY OtaAssumption DEF Otas, MakeUp
<1>2. ota.addr \in NewFwAddrs \cup {0} /\ ota.valid \in Nat /\ OTA_PDU_LENGTH \in Nat
  BY OtaAssumption DEF Otas
<1> QED
  BY <1>1, <1>2 DEF DataPdu, DataPdus, ToServer

(* The end carries the index of the last PDU *)
LEMMA EndTyped ==
  ASSUME NEW n \in Nat
  PROVE  /\ [cmd |-> "END", index |-> n] \in ToServer
         /\ [cmd |-> "END", index |-> n].cmd = "END" /\ [cmd |-> "END", index |-> n].index = n
  BY DEF ToServer, EndPdus

(* What the server can find at the front of its queue *)
LEMMA TakenKinds ==
  ASSUME NEW m \in ToServer
  PROVE  /\ m.cmd \in {"READ_BY_TYPE", "FW_VERSION_REQ", "START", "DATA", "END"}
         /\ m.cmd = "DATA" => m \in DataPdus /\ m.index \in Nat
         /\ m.cmd = "END" => m \in EndPdus /\ m.index \in Nat
<1>1. m \in Questions \/ m \in DataPdus \/ m \in EndPdus
  BY DEF ToServer
<1>2. m \in Questions => m.cmd \in {"READ_BY_TYPE", "FW_VERSION_REQ", "START"}
  BY DEF Questions
<1>3. m \in DataPdus => m.cmd = "DATA" /\ m.index \in Nat
  BY DEF DataPdus
<1>4. m \in EndPdus => m.cmd = "END" /\ m.index \in Nat
  BY DEF EndPdus
<1> QED
  BY <1>1, <1>2, <1>3, <1>4

(* The three answers of the server *)
LEMMA AnswerTyped ==
  /\ Message("READ_BY_TYPE_RSP") \in ToClient
  /\ \A a \in BOOLEAN : [cmd |-> "FW_VERSION_RSP", accept |-> a] \in ToClient
  /\ \A r \in Results : Result(r) \in ToClient
  BY DEF Message, Result, ToClient

(* A server without a session *)
LEMMA ClosedTyped == Closed \in [open : BOOLEAN, pdus : Seq(DataPdus)]
  BY DEF Closed

(* After a reset only the index of the last PDU is left of the transfer *)
LEMMA ResetTyped ==
  ASSUME ota \in Otas
  PROVE  /\ ResetOf(ota) \in Otas /\ ResetOf(ota).conn = NoHandle0 /\ ResetOf(ota).cur = 0
         /\ ResetOf(ota).ticking = FALSE /\ ResetOf(ota).last = ota.last
  BY DEF ResetOf, Reset, Otas, NoHandle0

(* The changes the steps make to the client's record *)
LEMMA KeyTyped ==
  ASSUME ota \in Otas, NEW c \in {NoHandle0, OtaHandle}, NEW a \in NewFwAddrs
  PROVE  LET o == [ota EXCEPT !.conn = c, !.addr = a]
         IN  o \in Otas /\ o.conn = c /\ o.cur = ota.cur /\ o.last = ota.last
             /\ o.ticking = ota.ticking
  BY DEF Otas

(* Step 1 sets the length of the transfer *)
LEMMA LengthTyped ==
  ASSUME ota \in Otas, NEW l \in Nat, NEW v \in Nat
  PROVE  LET o == [ota EXCEPT !.last = l, !.valid = v]
         IN  o \in Otas /\ o.conn = ota.conn /\ o.cur = ota.cur /\ o.last = l
             /\ o.ticking = ota.ticking
  BY DEF Otas

(* Step 7 starts the time-out *)
LEMMA TickTyped ==
  ASSUME ota \in Otas
  PROVE  LET o == [ota EXCEPT !.ticking = TRUE]
         IN  o \in Otas /\ o.conn = ota.conn /\ o.cur = ota.cur /\ o.last = ota.last
             /\ o.addr = ota.addr /\ o.valid = ota.valid
  BY DEF Otas

(* Step 8 goes on to the next PDU *)
LEMMA CurTyped ==
  ASSUME ota \in Otas
  PROVE  LET o == [ota EXCEPT !.cur = @ + 1]
         IN  o \in Otas /\ o.conn = ota.conn /\ o.cur = ota.cur + 1 /\ o.last = ota.last
             /\ o.addr = ota.addr /\ o.valid = ota.valid
  BY DEF Otas

(* A size of firmware gives a number of PDUs and of bytes in the last one *)
LEMMA SizeTyped ==
  ASSUME NEW size \in FwSizes
  PROVE  size \div OTA_PDU_LENGTH \in Nat /\ LastValid(size) \in Nat
<1>1. size \in Nat /\ OTA_PDU_LENGTH \in Nat \ {0}
  BY OtaAssumption
<1> QED
  BY <1>1 DEF LastValid

-----------------------------------------------------------------------------
(* Types *)
LEMMA ClientTypesStep ==
  ASSUME OtaTypes, [OtaNext]_otaVars
  PROVE  ClientTypes'
<1> USE DEF OtaTypes, ClientTypes
<1>1. CASE KeyTrigger
  <2>1. otaLink' = otaLink
    BY <1>1 DEF KeyTrigger, peerVars
  <2>2. CASE flow # 0
    BY <1>1, <2>1, <2>2 DEF KeyTrigger
  <2>3. CASE flow = 0
    <3>1. PICK addr \in NewFwAddrs :
            ota' = [ota EXCEPT !.conn = IF otaLink THEN OtaHandle ELSE NoHandle0, !.addr = addr]
      BY <1>1, <2>3 DEF KeyTrigger
    <3>2. ota' \in Otas
      BY <3>1, KeyTyped
    <3>3. flow' = 1
      BY <1>1, <2>3 DEF KeyTrigger
    <3> QED
      BY <2>1, <3>2, <3>3
  <2> QED
    BY <2>2, <2>3
<1>2. CASE OtaTimeout
  BY <1>2, ResetTyped DEF OtaTimeout, SetResult, peerVars
<1>3. CASE Step1CheckFw
  <2>1. PICK size \in FwSizes :
          \/ SetResult("OTA_FW_SIZE_ERR")
          \/ /\ ota' = [ota EXCEPT !.last = size \div OTA_PDU_LENGTH, !.valid = LastValid(size)]
             /\ flow' = 2
    BY <1>3 DEF Step1CheckFw
  <2>2. otaLink' = otaLink
    BY <1>3 DEF Step1CheckFw, peerVars
  <2>3. CASE SetResult("OTA_FW_SIZE_ERR")
    BY <2>2, <2>3, ResetTyped DEF SetResult
  <2>4. CASE /\ ota' = [ota EXCEPT !.last = size \div OTA_PDU_LENGTH, !.valid = LastValid(size)]
             /\ flow' = 2
    <3>1. ota' \in Otas
      BY <2>4, SizeTyped, LengthTyped
    <3> QED
      BY <2>2, <2>4, <3>1
  <2> QED
    BY <2>1, <2>3, <2>4
<1>4. CASE Step2UpdateConn \/ Step3ReqOtaHandle \/ Step5ReqFwVersion \/ Step7OtaStart
           \/ Step9OtaEnd
  <2>1. otaLink' = otaLink
    BY <1>4 DEF Step2UpdateConn, Step3ReqOtaHandle, Step5ReqFwVersion, Step7OtaStart, Step9OtaEnd,
       Quietly, peerVars
  <2>2. ota' = ota \/ ota' = [ota EXCEPT !.ticking = TRUE]
    BY <1>4 DEF Step2UpdateConn, Step3ReqOtaHandle, Step5ReqFwVersion, Step7OtaStart, Step9OtaEnd
  <2>3. flow' \in 0 .. 10
    BY <1>4 DEF Step2UpdateConn, Step3ReqOtaHandle, Step5ReqFwVersion, Step7OtaStart, Step9OtaEnd
  <2> QED
    BY <2>1, <2>2, <2>3, TickTyped
<1>5. CASE Step8OtaData
  <2>1. otaLink' = otaLink /\ (ota' = ota \/ ota' = [ota EXCEPT !.cur = @ + 1]) /\ flow' \in 0 .. 10
    BY <1>5 DEF Step8OtaData, Quietly, peerVars
  <2> QED
    BY <2>1, CurTyped
<1>6. CASE OnResponse
  BY <1>6, ResetTyped DEF OnResponse, SetResult
<1>7. CASE ServerTakes \/ ServerGivesUp
  BY <1>7 DEF ServerTakes, ServerGivesUp
<1>8. CASE OtaLinkLoss
  <2>1. otaLink' = FALSE
    BY <1>8 DEF OtaLinkLoss
  <2>2. \/ flow' = 0 /\ ota' = ResetOf(ota)
        \/ flow' = flow /\ ota' = ota
    BY <1>8 DEF OtaLinkLoss, SetResult
  <2>3. flow' \in 0 .. 10 /\ ota' \in Otas
    BY <2>2, ResetTyped
  <2> QED
    BY <2>1, <2>3
<1>9. CASE OtaConnects
  BY <1>9 DEF OtaConnects
<1>10. CASE UNCHANGED otaVars
  BY <1>10 DEF otaVars
<1> QED
  BY <1>1, <1>2, <1>3, <1>4, <1>5, <1>6, <1>7, <1>8, <1>9, <1>10 DEF OtaNext

(* The server answers, or takes the message into its session *)
LEMMA ServerTyped ==
  ASSUME OtaTypes, ServerTakes
  PROVE  QueueTypes'
<1> DEFINE m == Head(toServer)
<1>1. toServer # <<>> /\ toServer' = Tail(toServer)
  BY DEF ServerTakes
<1>2. toServer' \in Seq(ToServer) /\ m \in ToServer
  BY <1>1, QueueTail DEF OtaTypes, QueueTypes
<1>3. m.cmd = "DATA" => m \in DataPdus
  BY <1>2, TakenKinds
<1>4. \/ toClient' = toClient \/ \E a \in ToClient : toClient' = Append(toClient, a)
  BY AnswerTyped DEF ServerTakes, Results
<1>5. toClient' \in Seq(ToClient)
  <2>1. toClient \in Seq(ToClient)
    BY DEF OtaTypes, QueueTypes
  <2> QED
    BY <1>4, <2>1, AppendProperties
<1>6. \/ server' = server \/ server' = [open |-> TRUE, pdus |-> <<>>]
      \/ m.cmd = "DATA" /\ server' = [server EXCEPT !.pdus = Append(@, m)]
      \/ server' = Closed \/ server' = [server EXCEPT !.open = FALSE]
  BY DEF ServerTakes
<1>7. server' \in [open : BOOLEAN, pdus : Seq(DataPdus)]
  <2> HIDE DEF m
  <2>1. CASE m.cmd = "DATA" /\ server' = [server EXCEPT !.pdus = Append(@, m)]
    <3>1. Append(server.pdus, m) \in Seq(DataPdus)
      BY <2>1, <1>3 DEF OtaTypes, QueueTypes
    <3> QED
      BY <2>1, <3>1 DEF OtaTypes, QueueTypes
  <2>2. CASE server' = server \/ server' = Closed
    BY <2>2, ClosedTyped DEF OtaTypes, QueueTypes
  <2>3. CASE server' = [server EXCEPT !.open = FALSE]
    BY <2>3 DEF OtaTypes, QueueTypes
  <2>4. [open |-> TRUE, pdus |-> <<>>] \in [open : BOOLEAN, pdus : Seq(DataPdus)]
    OBVIOUS
  <2> QED
    BY <1>6, <2>1, <2>2, <2>3, <2>4
<1> QED
  BY <1>2, <1>5, <1>7 DEF QueueTypes

(* One more message for the server *)
LEMMA AskedTyped ==
  ASSUME QueueTypes, NEW m \in ToServer, toServer' = Append(toServer, m),
         toClient' = toClient, server' = server
  PROVE  QueueTypes'
<1>1. toServer' \in Seq(ToServer)
  <2>1. toServer \in Seq(ToServer)
    BY DEF QueueTypes
  <2> QED
    BY <2>1, AppendProperties
<1>2. toClient' \in Seq(ToClient)
  BY DEF QueueTypes
<1>3. server' \in [open : BOOLEAN, pdus : Seq(DataPdus)]
  BY DEF QueueTypes
<1> QED
  BY <1>1, <1>2, <1>3 DEF QueueTypes

(* Every step leaves messages of their kinds in the queues *)
LEMMA QueueTypesStep ==
  ASSUME OtaTypes, [OtaNext]_otaVars
  PROVE  QueueTypes'
<1> USE DEF OtaTypes
<1>1. CASE UNCHANGED <<toServer, toClient, server>>
  BY <1>1 DEF QueueTypes
<1>2. CASE Step3ReqOtaHandle \/ Step5ReqFwVersion \/ Step7OtaStart
  <2>1. toClient' = toClient /\ server' = server
    BY <1>2 DEF Step3ReqOtaHandle, Step5ReqFwVersion, Step7OtaStart, Quietly, peerVars
  <2>2. \/ toServer' = toServer \/ toServer' = Append(toServer, Message("READ_BY_TYPE"))
        \/ toServer' = Append(toServer, Message("FW_VERSION_REQ"))
        \/ toServer' = Append(toServer, Message("START"))
    BY <1>2 DEF Step3ReqOtaHandle, Step5ReqFwVersion, Step7OtaStart, Push
  <2>3. \A c \in {"READ_BY_TYPE", "FW_VERSION_REQ", "START"} : Message(c) \in ToServer
    BY QuestionTyped
  <2>4. CASE toServer' = toServer
    BY <1>1, <2>1, <2>4
  <2> QED
    BY <2>1, <2>2, <2>3, <2>4, AskedTyped
<1>3. CASE Step8OtaData
  <2>1. toClient' = toClient /\ server' = server
    BY <1>3 DEF Step8OtaData, Quietly, peerVars
  <2>2. toServer' = toServer \/ toServer' = Append(toServer, DataPdu(ota.cur))
    BY <1>3 DEF Step8OtaData, Push
  <2>3. DataPdu(ota.cur) \in ToServer
    <3>1. ota \in Otas /\ ota.cur \in Nat
      BY DEF ClientTypes, Otas
    <3> QED
      BY <3>1, PduTyped
  <2>4. CASE toServer' = toServer
    BY <1>1, <2>1, <2>4
  <2> QED
    BY <2>1, <2>2, <2>3, <2>4, AskedTyped
<1>4. CASE Step9OtaEnd
  <2>1. /\ toServer' = Append(toServer, [cmd |-> "END", index |-> ota.last])
        /\ toClient' = toClient /\ server' = server
    BY <1>4 DEF Step9OtaEnd, Quietly, peerVars, Push
  <2>2. [cmd |-> "END", index |-> ota.last] \in ToServer
    <3>1. ota.last \in Nat
      BY DEF ClientTypes, Otas
    <3> QED
      BY <3>1, EndTyped
  <2> QED
    BY <2>1, <2>2, AskedTyped
<1>5. CASE OnResponse
  <2>1. toServer' = toServer /\ server' = server /\ toClient # <<>> /\ toClient' = Tail(toClient)
    BY <1>5 DEF OnResponse
  <2>2. toClient' \in Seq(ToClient)
    <3>1. toClient \in Seq(ToClient)
      BY DEF QueueTypes
    <3> QED
      BY <2>1, <3>1, QueueTail
  <2> QED
    BY <2>1, <2>2 DEF QueueTypes
<1>6. CASE ServerTakes
  BY <1>6, ServerTyped
<1>7. CASE ServerGivesUp
  <2>1. /\ toServer' = toServer /\ server' = Closed
        /\ toClient' = Append(toClient, Result("OTA_TIMEOUT"))
    BY <1>7 DEF ServerGivesUp
  <2>2. toClient' \in Seq(ToClient)
    <3>1. toClient \in Seq(ToClient) /\ Result("OTA_TIMEOUT") \in ToClient
      BY AnswerTyped DEF Results, QueueTypes
    <3> QED
      BY <2>1, <3>1, AppendProperties
  <2> QED
    BY <2>1, <2>2, ClosedTyped DEF QueueTypes
<1>8. CASE OtaLinkLoss
  <2>1. toServer' = <<>> /\ server' = Closed /\ toClient' = <<>>
    BY <1>8 DEF OtaLinkLoss
  <2> QED
    BY <2>1, ClosedTyped DEF QueueTypes
<1> QED
  BY <1>1, <1>2, <1>3, <1>4, <1>5, <1>6, <1>7, <1>8
  DEF OtaNext, KeyTrigger, OtaTimeout, Step1CheckFw, Step2UpdateConn, OtaConnects, otaVars,
      peerVars, Quietly

-----------------------------------------------------------------------------
(* Where the client is: the index of the next PDU and the end of the transfer,
   the time-out, which runs while data is sent only, and the connection.     *)
FlowInv ==
  /\ flow < 8 => ota.cur = 0 /\ ~ota.ticking
  /\ flow >= 3 => ota.conn = OtaHandle
  /\ ota.conn = OtaHandle => flow # 0 /\ otaLink
  /\ ota.cur <= ota.last + 1
  /\ flow \in {9, 10} => ota.cur = ota.last + 1

(* FlowInv depends on the step, the record and the link *)
LEMMA FlowKept ==
  ASSUME FlowInv, flow' = flow, ota' = ota, otaLink' = otaLink
  PROVE  FlowInv'
  BY DEF FlowInv

(* Every end of a transfer goes through the reset *)
LEMMA FlowReset ==
  ASSUME ClientTypes, FlowInv, flow' = 0, ota' = ResetOf(ota)
  PROVE  FlowInv'
<1>1. /\ ota'.conn = NoHandle0 /\ ota'.cur = 0 /\ ota'.ticking = FALSE
      /\ ota'.last \in Nat
  <2>1. ota \in Otas
    BY DEF ClientTypes
  <2> QED
    BY <2>1, ResetTyped DEF Otas
<1> QED
  BY <1>1 DEF FlowInv, NoHandle0, OtaHandle

(* FlowInv is inductive, given the types *)
LEMMA FlowStep ==
  ASSUME ClientTypes, FlowInv, [OtaNext]_otaVars
  PROVE  FlowInv'
<1>0. ota \in Otas /\ flow \in 0 .. 10 /\ ota.cur \in Nat /\ ota.last \in Nat
  BY DEF ClientTypes, Otas
<1>1. CASE KeyTrigger
  <2>1. otaLink' = otaLink
    BY <1>1 DEF KeyTrigger, peerVars
  <2>2. CASE flow # 0
    BY <1>1, <2>1, <2>2, FlowKept DEF KeyTrigger
  <2>3. CASE flow = 0
    <3>1. PICK addr \in NewFwAddrs :
            ota' = [ota EXCEPT !.conn = IF otaLink THEN OtaHandle ELSE NoHandle0, !.addr = addr]
      BY <1>1, <2>3 DEF KeyTrigger
    <3>2. /\ ota'.conn = IF otaLink THEN OtaHandle ELSE NoHandle0
          /\ ota'.cur = ota.cur /\ ota'.last = ota.last /\ ota'.ticking = ota.ticking
      BY <1>0, <3>1, KeyTyped
    <3>3. flow' = 1
      BY <1>1, <2>3 DEF KeyTrigger
    <3> QED
      BY <1>0, <2>1, <2>3, <3>2, <3>3 DEF FlowInv, NoHandle0, OtaHandle
  <2> QED
    BY <2>2, <2>3
<1>2. CASE OtaTimeout
  BY <1>2, FlowReset DEF OtaTimeout, SetResult
<1>3. CASE Step1CheckFw
  <2>1. PICK size \in FwSizes :
          \/ SetResult("OTA_FW_SIZE_ERR")
          \/ /\ ota' = [ota EXCEPT !.last = size \div OTA_PDU_LENGTH, !.valid = LastValid(size)]
             /\ flow' = 2
    BY <1>3 DEF Step1CheckFw
  <2>2. otaLink' = otaLink /\ flow = 1
    BY <1>3 DEF Step1CheckFw, peerVars
  <2>3. CASE SetResult("OTA_FW_SIZE_ERR")
    BY <2>3, FlowReset DEF SetResult
  <2>4. CASE /\ ota' = [ota EXCEPT !.last = size \div OTA_PDU_LENGTH, !.valid = LastValid(size)]
             /\ flow' = 2
    <3>1. /\ ota'.conn = ota.conn /\ ota'.cur = ota.cur /\ ota'.ticking = ota.ticking
          /\ ota'.last \in Nat
      <4>1. size \div OTA_PDU_LENGTH \in Nat /\ LastValid(size) \in Nat
        BY SizeTyped
      <4> HIDE DEF LastValid
      <4> QED
        BY <1>0, <2>4, <4>1, LengthTyped
    <3>2. ota'.cur = 0 /\ (~ota.ticking => ~ota'.ticking)
      BY <2>2, <3>1 DEF FlowInv
    <3>3. flow' = 2 /\ ota'.cur <= ota'.last + 1
      BY <2>4, <3>1, <3>2
    <3> QED
      BY <2>2, <3>1, <3>2, <3>3 DEF FlowInv
  <2> QED
    BY <2>1, <2>3, <2>4
<1>4. CASE Step2UpdateConn
  BY <1>4 DEF Step2UpdateConn, Succeeds, FlowInv, Quietly, peerVars
<1>5. CASE Step3ReqOtaHandle \/ Step5ReqFwVersion
  <2>1. /\ otaLink' = otaLink /\ ota' = ota /\ flow' \in 3 .. 7 /\ flow \in 3 .. 7
    BY <1>5 DEF Step3ReqOtaHandle, Step5ReqFwVersion, Quietly, peerVars
  <2> QED
    BY <2>1 DEF FlowInv
<1>6. CASE Step7OtaStart
  <2>1. /\ otaLink' = otaLink /\ flow = 7 /\ flow' = 8
        /\ ota' = [ota EXCEPT !.ticking = TRUE]
    BY <1>6 DEF Step7OtaStart, Quietly, peerVars
  <2>2. ota'.conn = ota.conn /\ ota'.cur = ota.cur /\ ota'.last = ota.last
    BY <1>0, <2>1, TickTyped
  <2> QED
    BY <1>0, <2>1, <2>2 DEF FlowInv
<1>7. CASE Step8OtaData
  <2>1. otaLink' = otaLink /\ flow = 8
    BY <1>7 DEF Step8OtaData, Quietly, peerVars
  <2>2. CASE MoreData
    <3>1. ota' = [ota EXCEPT !.cur = @ + 1] /\ flow' = 8
      BY <1>7, <2>1, <2>2 DEF Step8OtaData
    <3>2. ota'.conn = ota.conn /\ ota'.cur = ota.cur + 1 /\ ota'.last = ota.last
      BY <1>0, <3>1, CurTyped
    <3>3. ota.cur <= ota.last
      BY <2>2 DEF MoreData
    <3> QED
      BY <1>0, <2>1, <3>1, <3>2, <3>3 DEF FlowInv
  <2>3. CASE ~MoreData
    <3>1. ota' = ota /\ flow' = 9
      BY <1>7, <2>3 DEF Step8OtaData
    <3>2. ota.cur > ota.last
      BY <1>0, <2>3 DEF MoreData
    <3> QED
      BY <1>0, <2>1, <3>1, <3>2 DEF FlowInv
  <2> QED
    BY <2>2, <2>3
<1>8. CASE Step9OtaEnd
  BY <1>8 DEF Step9OtaEnd, FlowInv, Quietly, peerVars
<1>9. CASE OnResponse
  <2>1. otaLink' = otaLink
    BY <1>9 DEF OnResponse
  <2>2. \/ flow' = 0 /\ ota' = ResetOf(ota)
        \/ flow = 4 /\ flow' = 5 /\ ota' = ota
        \/ flow = 6 /\ flow' = 7 /\ ota' = ota
        \/ flow' = flow /\ ota' = ota
    BY <1>9 DEF OnResponse, SetResult
  <2>3. CASE (flow = 4 /\ flow' = 5 /\ ota' = ota) \/ (flow = 6 /\ flow' = 7 /\ ota' = ota)
    BY <2>1, <2>3 DEF FlowInv
  <2> QED
    BY <2>1, <2>2, <2>3, FlowReset, FlowKept
<1>10. CASE ServerTakes \/ ServerGivesUp
  BY <1>10, FlowKept DEF ServerTakes, ServerGivesUp
<1>11. CASE OtaLinkLoss
  <2>1. CASE flow # 0 /\ ota.conn = OtaHandle
    BY <1>11, <2>1, FlowReset DEF OtaLinkLoss, SetResult
  <2>2. CASE ~(flow # 0 /\ ota.conn = OtaHandle)
    <3>1. flow' = flow /\ ota' = ota
      BY <1>11, <2>2 DEF OtaLinkLoss
    <3> QED
      BY <2>2, <3>1 DEF FlowInv
  <2> QED
    BY <2>1, <2>2
<1>12. CASE OtaConnects
  <2>1. flow' = flow /\ ota' = ota /\ otaLink' = TRUE
    BY <1>12 DEF OtaConnects
  <2> QED
    BY <2>1 DEF FlowInv
<1>13. CASE UNCHANGED otaVars
  BY <1>13, FlowKept DEF otaVars
<1> QED
  BY <1>1, <1>2, <1>3, <1>4, <1>5, <1>6, <1>7, <1>8, <1>9, <1>10, <1>11, <1>12, <1>13 DEF OtaNext

-----------------------------------------------------------------------------
(* The order of the queue: each data PDU follows the one before it or the start
   of its session, the end follows the last one, and what is first in the queue
   is what an open session s expects.                                        *)
Follows(m, p) ==
  /\ m.cmd = "DATA" => (p.cmd = "START" /\ m.index = 0) \/ (p.cmd = "DATA" /\ m.index = p.index + 1)
  /\ m.cmd = "END" => p.cmd = "DATA" /\ m.index = p.index
IsNext(m, s) ==
  /\ m.cmd = "DATA" /\ s.open => m.index = Len(s.pdus)
  /\ m.cmd = "END" /\ s.open => Len(s.pdus) = m.index + 1
InSequence(q, s) ==
  /\ \A i \in 2 .. Len(q) : Follows(q[i], q[i - 1])
  /\ q # <<>> => IsNext(q[1], s)

(* The session has come to n PDUs, those under way counted. *)
EndsAt(m, n) == (m.cmd = "START" /\ n = 0) \/ (m.cmd = "DATA" /\ m.index = n - 1)
UpTo(q, s, n) ==
  IF q = <<>> THEN s.open => Len(s.pdus) = n
  ELSE EndsAt(q[Len(q)], n)
OrderInv ==
  /\ InSequence(toServer, server)
  /\ flow \in {8, 9} => UpTo(toServer, server, ota.cur)

(* What the server does with message m, the first of the queue, when the queue
   is in order: it never finds a PDU it does not expect.                     *)
Answers(m) ==
  \/ /\ m.cmd = "READ_BY_TYPE" /\ server' = server
     /\ toClient' = Append(toClient, Message("READ_BY_TYPE_RSP"))
  \/ /\ m.cmd = "FW_VERSION_REQ" /\ server' = server
     /\ \E a \in BOOLEAN : toClient' = Append(toClient, [cmd |-> "FW_VERSION_RSP", accept |-> a])
Takes(m) ==
  \/ m.cmd = "START" /\ server' = [open |-> TRUE, pdus |-> <<>>]
  \/ /\ m.cmd = "DATA" /\ server.open /\ m.index = Len(server.pdus)
     /\ server' = [server EXCEPT !.pdus = Append(@, m)]
  \/ m.cmd \in {"DATA", "END"} /\ ~server.open /\ server' = server
Concludes(m) ==
  /\ m.cmd = "END" /\ server.open /\ Len(server.pdus) = m.index + 1
  /\ server' = [server EXCEPT !.open = FALSE]
  /\ toClient' = Append(toClient, Result("OTA_SUCCESS"))
Served(m) == Answers(m) \/ (Takes(m) /\ toClient' = toClient) \/ Concludes(m)

(* On a queue in order the server never comes to its sequence error *)
LEMMA ServerServes ==
  ASSUME OtaTypes, InSequence(toServer, server), ServerTakes
  PROVE  /\ toServer # <<>> /\ toServer' = Tail(toServer) /\ toServer[1] \in ToServer
         /\ Served(toServer[1])
<1>1. toServer # <<>> /\ toServer' = Tail(toServer)
  BY DEF ServerTakes
<1>2. Head(toServer) = toServer[1] /\ toServer[1] \in ToServer
  BY <1>1, QueueTail DEF OtaTypes, QueueTypes
<1>3. IsNext(toServer[1], server)
  BY <1>1 DEF InSequence
<1> DEFINE m == toServer[1]
<1>4. m.cmd = "END" /\ server.open => Complete(m)
  BY <1>3 DEF IsNext, Complete
<1>5. m.cmd = "DATA" /\ server.open => m.index = Len(server.pdus)
  BY <1>3 DEF IsNext
<1>6. Served(m)
  <2> HIDE DEF m
  <2>1. m = Head(toServer)
    BY <1>2 DEF m
  <2>2. CASE m.cmd = "READ_BY_TYPE"
    BY <2>1, <2>2 DEF ServerTakes, Served, Answers
  <2>3. CASE m.cmd = "FW_VERSION_REQ"
    BY <2>1, <2>3 DEF ServerTakes, Served, Answers
  <2>4. CASE m.cmd = "START"
    BY <2>1, <2>4 DEF ServerTakes, Served, Takes
  <2>5. CASE m.cmd = "DATA"
    BY <2>1, <2>5, <1>5 DEF ServerTakes, Served, Takes
  <2>6. CASE m.cmd = "END"
    <3>1. CASE server.open
      <4>1. Len(server.pdus) = m.index + 1 /\ Complete(m)
        BY <1>3, <2>6, <3>1 DEF IsNext, m, Complete
      <4>2. /\ server' = [server EXCEPT !.open = FALSE]
            /\ toClient' = Append(toClient, Result("OTA_SUCCESS"))
        BY <2>1, <2>6, <3>1, <4>1 DEF ServerTakes
      <4> QED
        BY <2>6, <3>1, <4>1, <4>2 DEF Served, Concludes
    <3>2. CASE ~server.open
      BY <2>1, <2>6, <3>2 DEF ServerTakes, Served, Takes
    <3> QED
      BY <3>1, <3>2
  <2> QED
    BY <2>1, <2>2, <2>3, <2>4, <2>5, <2>6 DEF ServerTakes
<1> QED
  BY <1>1, <1>2, <1>6

(* The session behind a step of the server *)
LEMMA ServedState ==
  ASSUME OtaTypes, NEW m \in ToServer, Served(m)
  PROVE  /\ m.cmd = "START" => server'.open /\ server'.pdus = <<>>
         /\ m.cmd = "DATA" /\ server'.open => /\ Len(server'.pdus) = m.index + 1
                                              /\ Len(server'.pdus) = Len(server.pdus) + 1
                                              /\ server.open
         /\ m.cmd = "END" => ~server'.open
<1>1. server \in [open : BOOLEAN, pdus : Seq(DataPdus)]
  BY DEF OtaTypes, QueueTypes
<1>2. CASE m.cmd = "START"
  <2>1. server' = [open |-> TRUE, pdus |-> <<>>]
    BY <1>2 DEF Served, Answers, Takes, Concludes
  <2> QED
    BY <1>2, <2>1
<1>3. CASE m.cmd = "DATA"
  <2>1. CASE ~server.open
    BY <1>3, <2>1 DEF Served, Answers, Takes, Concludes
  <2>2. CASE server.open
    <3>1. m.index = Len(server.pdus) /\ server' = [server EXCEPT !.pdus = Append(@, m)]
      BY <1>3, <2>2 DEF Served, Answers, Takes, Concludes
    <3>2. server'.pdus = Append(server.pdus, m)
      BY <1>1, <3>1
    <3>3. m \in DataPdus /\ server.pdus \in Seq(DataPdus)
      BY <1>1, <1>3, TakenKinds
    <3>4. Len(server'.pdus) = Len(server.pdus) + 1
      BY <3>2, <3>3, QueueAppend
    <3> QED
      BY <1>3, <2>2, <3>1, <3>4
  <2> QED
    BY <2>1, <2>2
<1>4. CASE m.cmd = "END"
  <2>1. server' = [server EXCEPT !.open = FALSE] \/ (~server.open /\ server' = server)
    BY <1>4 DEF Served, Answers, Takes, Concludes
  <2>2. server' = [server EXCEPT !.open = FALSE] => server'.open = FALSE
    BY <1>1
  <2> QED
    BY <1>4, <2>1, <2>2
<1>5. m.cmd \in {"READ_BY_TYPE", "FW_VERSION_REQ", "START", "DATA", "END"}
  BY TakenKinds
<1> QED
  BY <1>2, <1>3, <1>4, <1>5

(* The queue stays in order when the server takes its first message *)
LEMMA OrderServed ==
  ASSUME OtaTypes, OrderInv, ServerTakes
  PROVE  OrderInv'
<1>1. InSequence(toServer, server)
  BY DEF OrderInv
<1>2. /\ toServer # <<>> /\ toServer' = Tail(toServer) /\ toServer[1] \in ToServer
      /\ Served(toServer[1])
  BY <1>1, ServerServes
<1>3. /\ toServer \in Seq(ToServer) /\ Len(toServer) \in Nat \ {0}
      /\ toServer' \in Seq(ToServer) /\ Len(toServer') = Len(toServer) - 1
      /\ \A i \in 1 .. Len(toServer) - 1 : toServer'[i] = toServer[i + 1]
  BY <1>2, QueueTail DEF OtaTypes, QueueTypes
<1>4. \A i \in 2 .. Len(toServer) : Follows(toServer[i], toServer[i - 1])
  BY <1>1 DEF InSequence
<1>5. ASSUME NEW i \in 2 .. Len(toServer') PROVE Follows(toServer'[i], toServer'[i - 1])
  <2>1. /\ i + 1 \in 2 .. Len(toServer) /\ i \in 1 .. Len(toServer) - 1
        /\ i - 1 \in 1 .. Len(toServer) - 1
    BY <1>3
  <2>2. toServer'[i] = toServer[i + 1] /\ toServer'[i - 1] = toServer[(i - 1) + 1]
    BY <1>3, <2>1
  <2>3. Follows(toServer[i + 1], toServer[(i + 1) - 1]) /\ (i + 1) - 1 = i /\ (i - 1) + 1 = i
    BY <1>4, <2>1
  <2> QED
    BY <2>2, <2>3
<1> DEFINE m == toServer[1]
<1>6. /\ m.cmd = "START" => server'.open /\ server'.pdus = <<>>
      /\ m.cmd = "DATA" /\ server'.open => Len(server'.pdus) = m.index + 1
      /\ m.cmd = "END" => ~server'.open
  BY <1>2, ServedState
<1>7. ASSUME toServer' # <<>> PROVE IsNext(toServer'[1], server')
  <2>1. Len(toServer) >= 2
    <3>1. Len(toServer') # 0
      BY <1>3, <1>7
    <3> QED
      BY <1>3, <3>1
  <2>2. toServer'[1] = toServer[2]
    BY <1>3, <2>1
  <2>3. Follows(toServer[2], toServer[1])
    BY <1>3, <1>4, <2>1
  <2> HIDE DEF m
  <2>4. Follows(toServer'[1], m)
    BY <2>2, <2>3 DEF m
  <2>5. m.cmd = "DATA" => m.index \in Nat
    BY <1>2, TakenKinds DEF m
  <2>6. Len(<<>>) = 0
    OBVIOUS
  <2> QED
    BY <1>6, <2>4, <2>5, <2>6 DEF Follows, IsNext
<1>8. InSequence(toServer', server')
  BY <1>5, <1>7 DEF InSequence
<1>9. ASSUME flow \in {8, 9} PROVE UpTo(toServer', server', ota.cur)
  <2>1. EndsAt(toServer[Len(toServer)], ota.cur)
    BY <1>2, <1>9 DEF OrderInv, UpTo
  <2>2. CASE toServer' = <<>>
    <3>1. Len(toServer) = 1
      BY <1>3, <2>2
    <3>2. EndsAt(m, ota.cur)
      BY <2>1, <3>1
    <3>3. ota.cur \in Nat /\ (m.cmd = "DATA" => m.index \in Nat)
      BY <1>2, TakenKinds DEF OtaTypes, ClientTypes, Otas
    <3> HIDE DEF m
    <3>4. server'.open => Len(server'.pdus) = ota.cur
      BY <1>6, <3>2, <3>3 DEF EndsAt
    <3> QED
      BY <2>2, <3>4 DEF UpTo
  <2>3. CASE toServer' # <<>>
    <3>1. Len(toServer') # 0
      BY <1>3, <2>3
    <3>2. toServer'[Len(toServer')] = toServer[Len(toServer)]
      BY <1>3, <3>1
    <3> QED
      BY <2>1, <2>3, <3>2 DEF UpTo
  <2> QED
    BY <2>2, <2>3
<1>10. flow' = flow /\ ota' = ota
  BY DEF ServerTakes
<1> QED
  BY <1>8, <1>9, <1>10 DEF OrderInv

(* One more message behind a queue in order *)
LEMMA OrderGrows ==
  ASSUME NEW q \in Seq(ToServer), NEW s, NEW m \in ToServer, InSequence(q, s),
         q = <<>> => IsNext(m, s), q # <<>> => Follows(m, q[Len(q)])
  PROVE  InSequence(Append(q, m), s)
<1> DEFINE r == Append(q, m)
<1>1. /\ r # <<>> /\ Len(q) \in Nat /\ Len(r) = Len(q) + 1
      /\ \A i \in 1 .. Len(q) : r[i] = q[i]
      /\ r[Len(q) + 1] = m /\ (q = <<>> <=> Len(q) = 0)
  BY QueueAppend, QueueDomain
<1> HIDE DEF r
<1>2. ASSUME NEW i \in 2 .. Len(r) PROVE Follows(r[i], r[i - 1])
  <2>1. i - 1 \in 1 .. Len(q) /\ r[i - 1] = q[i - 1]
    BY <1>1
  <2>2. CASE i \in 2 .. Len(q)
    <3>1. r[i] = q[i] /\ Follows(q[i], q[i - 1])
      BY <1>1, <2>2 DEF InSequence
    <3> QED
      BY <2>1, <3>1
  <2>3. CASE i = Len(q) + 1
    <3>1. i - 1 = Len(q) /\ q # <<>> /\ r[i] = m
      BY <1>1, <2>1, <2>3
    <3> QED
      BY <2>1, <3>1
  <2> QED
    BY <1>1, <2>2, <2>3
<1>3. IsNext(r[1], s)
  <2>1. CASE q = <<>>
    BY <1>1, <2>1
  <2>2. CASE q # <<>>
    <3>1. r[1] = q[1]
      BY <1>1, <2>2
    <3> QED
      BY <2>2, <3>1 DEF InSequence
  <2> QED
    BY <2>1, <2>2
<1>4. InSequence(r, s)
  BY <1>2, <1>3 DEF InSequence
<1> QED
  BY <1>4 DEF r

(* A question may be asked at any time. *)
LEMMA QuestionOrder ==
  ASSUME OtaTypes, NEW c \in {"READ_BY_TYPE", "FW_VERSION_REQ", "START"},
         InSequence(toServer, server), toServer' = Append(toServer, Message(c)), server' = server
  PROVE  InSequence(toServer', server') /\ toServer' # <<>>
         /\ toServer'[Len(toServer')] = Message(c) /\ Message(c).cmd = c
<1>1. Message(c) \in ToServer /\ Message(c).cmd = c
  BY QuestionTyped
<1> DEFINE m == Message(c)
<1>2. m.cmd # "DATA" /\ m.cmd # "END"
  BY <1>1
<1> HIDE DEF m
<1>3. IsNext(m, server) /\ \A p : Follows(m, p)
  BY <1>2 DEF IsNext, Follows
<1>4. toServer \in Seq(ToServer) /\ m \in ToServer /\ toServer' = Append(toServer, m)
  BY <1>1 DEF OtaTypes, QueueTypes, m
<1>5. InSequence(Append(toServer, m), server)
  BY <1>3, <1>4, OrderGrows
<1>6. toServer' # <<>> /\ toServer'[Len(toServer')] = m
  BY <1>4, QueueAppend
<1> QED
  BY <1>1, <1>4, <1>5, <1>6 DEF m

(* The client sends the PDU that comes next, or the end behind the last one. *)
LEMMA PduOrder ==
  ASSUME OtaTypes, NEW m \in ToServer, NEW n \in Nat, toServer' = Append(toServer, m),
         server' = server,
         (m.cmd = "DATA" /\ m.index = n) \/ (m.cmd = "END" /\ m.index + 1 = n),
         InSequence(toServer, server), UpTo(toServer, server, n)
  PROVE  InSequence(toServer', server') /\ toServer' # <<>> /\ toServer'[Len(toServer')] = m
<1>0. toServer \in Seq(ToServer)
  BY DEF OtaTypes, QueueTypes
<1>1. ASSUME toServer = <<>> PROVE IsNext(m, server)
  BY <1>1 DEF UpTo, IsNext
<1>2. ASSUME toServer # <<>> PROVE Follows(m, toServer[Len(toServer)])
  <2>1. EndsAt(toServer[Len(toServer)], n)
    BY <1>2 DEF UpTo
  <2>2. toServer[Len(toServer)] \in ToServer
    BY <1>0, <1>2
  <2> DEFINE p == toServer[Len(toServer)]
  <2>3. p.cmd = "DATA" => p.index \in Nat
    BY <2>2, TakenKinds
  <2> HIDE DEF p
  <2>4. EndsAt(p, n)
    BY <2>1 DEF p
  <2>5. m.cmd = "END" => m.index \in Nat
    BY TakenKinds
  <2>6. Follows(m, p)
    BY <2>3, <2>4, <2>5 DEF EndsAt, Follows
  <2> QED
    BY <2>6 DEF p
<1>3. InSequence(Append(toServer, m), server)
  BY <1>0, <1>1, <1>2, OrderGrows
<1>4. toServer' # <<>> /\ toServer'[Len(toServer')] = m
  BY <1>0, QueueAppend
<1> QED
  BY <1>3, <1>4

(* A closed server expects nothing. *)
LEMMA ClosedOrder ==
  ASSUME NEW q, NEW s, NEW n, InSequence(q, s)
  PROVE  InSequence(q, Closed) /\ (UpTo(q, s, n) => UpTo(q, Closed, n))
<1>1. ~Closed.open
  BY DEF Closed
<1> QED
  BY <1>1 DEF InSequence, IsNext, UpTo

(* OrderInv is inductive: a step of the client adds the next PDU or a new start *)
LEMMA OrderStep ==
  ASSUME OtaTypes, FlowInv, OrderInv, [OtaNext]_otaVars
  PROVE  OrderInv'
<1>0. /\ InSequence(toServer, server)
      /\ flow \in {8, 9} => UpTo(toServer, server, ota.cur)
      /\ ota \in Otas /\ flow \in 0 .. 10 /\ ota.cur \in Nat /\ ota.last \in Nat
  BY DEF OrderInv, OtaTypes, ClientTypes, Otas
<1>1. ASSUME toServer' = toServer, server' = server,
             flow' \notin {8, 9} \/ (flow' = flow /\ ota' = ota)
      PROVE  OrderInv'
  BY <1>0, <1>1 DEF OrderInv
<1>2. CASE KeyTrigger
  <2>1. toServer' = toServer /\ server' = server
    BY <1>2 DEF KeyTrigger, peerVars
  <2>2. flow' = 1 \/ (flow' = flow /\ ota' = ota)
    BY <1>2 DEF KeyTrigger
  <2> QED
    BY <1>1, <2>1, <2>2
<1>3. CASE OtaTimeout \/ Step1CheckFw
  <2>1. toServer' = toServer /\ server' = server
    BY <1>3 DEF OtaTimeout, Step1CheckFw, peerVars
  <2>2. flow' \in {0, 2}
    BY <1>3 DEF OtaTimeout, Step1CheckFw, SetResult
  <2> QED
    BY <1>1, <2>1, <2>2
<1>4. CASE Step2UpdateConn \/ OtaConnects \/ UNCHANGED otaVars
  <2>1. toServer' = toServer /\ server' = server
    BY <1>4 DEF Step2UpdateConn, OtaConnects, otaVars, Quietly, peerVars
  <2>2. flow' = 3 \/ (flow' = flow /\ ota' = ota)
    BY <1>4 DEF Step2UpdateConn, OtaConnects, otaVars
  <2> QED
    BY <1>1, <2>1, <2>2
<1>5. CASE Step3ReqOtaHandle \/ Step5ReqFwVersion
  <2>1. server' = server /\ flow' \in {4, 6, 7}
    BY <1>5 DEF Step3ReqOtaHandle, Step5ReqFwVersion, Quietly, peerVars
  <2>2. \/ toServer' = toServer \/ toServer' = Append(toServer, Message("READ_BY_TYPE"))
        \/ toServer' = Append(toServer, Message("FW_VERSION_REQ"))
    BY <1>5 DEF Step3ReqOtaHandle, Step5ReqFwVersion, Push
  <2>3. InSequence(toServer', server')
    <3>1. CASE toServer' = toServer
      BY <1>0, <2>1, <3>1
    <3>2. CASE toServer' = Append(toServer, Message("READ_BY_TYPE"))
      BY <1>0, <2>1, <3>2, QuestionOrder
    <3>3. CASE toServer' = Append(toServer, Message("FW_VERSION_REQ"))
      BY <1>0, <2>1, <3>3, QuestionOrder
    <3> QED
      BY <2>2, <3>1, <3>2, <3>3
  <2> QED
    BY <2>1, <2>3 DEF OrderInv
<1>6. CASE Step7OtaStart
  <2>1. /\ server' = server /\ flow = 7 /\ flow' = 8
        /\ toServer' = Append(toServer, Message("START")) /\ ota' = [ota EXCEPT !.ticking = TRUE]
    BY <1>6 DEF Step7OtaStart, Quietly, peerVars, Push
  <2>2. /\ InSequence(toServer', server') /\ toServer' # <<>>
        /\ toServer'[Len(toServer')].cmd = "START"
    BY <1>0, <2>1, QuestionOrder
  <2>3. ota'.cur = 0
    <3>1. ota'.cur = ota.cur
      BY <1>0, <2>1, TickTyped
    <3> QED
      BY <2>1, <3>1 DEF FlowInv
  <2>4. UpTo(toServer', server', ota'.cur)
    BY <2>2, <2>3 DEF UpTo, EndsAt
  <2> QED
    BY <2>2, <2>4 DEF OrderInv
<1>7. CASE Step8OtaData
  <2>1. server' = server /\ flow = 8
    BY <1>7 DEF Step8OtaData, Quietly, peerVars
  <2>2. CASE MoreData
    <3>1. /\ ota' = [ota EXCEPT !.cur = @ + 1] /\ toServer' = Append(toServer, DataPdu(ota.cur))
      BY <1>7, <2>1, <2>2 DEF Step8OtaData, Push
    <3>2. ota'.cur = ota.cur + 1
      BY <1>0, <3>1, CurTyped
    <3>3. /\ DataPdu(ota.cur) \in ToServer /\ DataPdu(ota.cur).cmd = "DATA"
          /\ DataPdu(ota.cur).index = ota.cur
      BY <1>0, PduTyped
    <3>4. /\ InSequence(toServer', server') /\ toServer' # <<>>
          /\ toServer'[Len(toServer')] = DataPdu(ota.cur)
      <4>1. PICK m \in ToServer : m = DataPdu(ota.cur)
        BY <3>3
      <4>2. toServer' = Append(toServer, m) /\ m.cmd = "DATA" /\ m.index = ota.cur
        BY <3>1, <3>3, <4>1
      <4>3. UpTo(toServer, server, ota.cur)
        BY <1>0, <2>1
      <4>4. InSequence(toServer', server') /\ toServer' # <<>> /\ toServer'[Len(toServer')] = m
        BY <1>0, <2>1, <4>2, <4>3, PduOrder
      <4> QED
        BY <4>1, <4>4
    <3>5. EndsAt(toServer'[Len(toServer')], ota'.cur)
      BY <1>0, <3>2, <3>3, <3>4 DEF EndsAt
    <3> QED
      BY <3>4, <3>5 DEF OrderInv, UpTo
  <2>3. CASE ~MoreData
    <3>1. toServer' = toServer /\ ota' = ota
      BY <1>7, <2>3 DEF Step8OtaData
    <3> QED
      BY <1>0, <2>1, <3>1 DEF OrderInv
  <2> QED
    BY <2>2, <2>3
<1>8. CASE Step9OtaEnd
  <2> DEFINE m == [cmd |-> "END", index |-> ota.last]
  <2>1. server' = server /\ flow = 9 /\ flow' = 10 /\ toServer' = Append(toServer, m)
    BY <1>8 DEF Step9OtaEnd, Quietly, peerVars, Push
  <2>2. m \in ToServer /\ m.cmd = "END" /\ m.index = ota.last
    BY <1>0, EndTyped
  <2> HIDE DEF m
  <2>3. ota.cur = ota.last + 1
    BY <1>0, <2>1 DEF FlowInv
  <2>4. m.index + 1 = ota.cur
    BY <2>2, <2>3
  <2>5. InSequence(toServer', server')
    BY <1>0, <2>1, <2>2, <2>3, <2>4, PduOrder
  <2> QED
    BY <2>1, <2>5 DEF OrderInv
<1>9. CASE OnResponse
  <2>1. toServer' = toServer /\ server' = server
    BY <1>9 DEF OnResponse
  <2>2. flow' \in {0, 5, 7} \/ (flow' = flow /\ ota' = ota)
    BY <1>9 DEF OnResponse, SetResult
  <2> QED
    BY <1>1, <2>1, <2>2
<1>10. CASE ServerTakes
  BY <1>10, OrderServed
<1>11. CASE ServerGivesUp
  <2>1. toServer' = toServer /\ server' = Closed /\ flow' = flow /\ ota' = ota
    BY <1>11 DEF ServerGivesUp
  <2> QED
    BY <1>0, <2>1, ClosedOrder DEF OrderInv
<1>12. CASE OtaLinkLoss
  <2>1. toServer' = <<>> /\ server' = Closed
    BY <1>12 DEF OtaLinkLoss
  <2>2. ~Closed.open
    BY DEF Closed
  <2> QED
    BY <2>1, <2>2 DEF OrderInv, InSequence, UpTo
<1> QED
  BY <1>2, <1>3, <1>4, <1>5, <1>6, <1>7, <1>8, <1>9, <1>10, <1>11, <1>12 DEF OtaNext

(* The server's answers *)
LEMMA KeptAppend ==
  ASSUME NEW q \in Seq(ToClient), NEW a \in ToClient,
         a.cmd = "RESULT" => a.result \in {"OTA_SUCCESS", "OTA_TIMEOUT"},
         SequenceKept, toClient = q, toClient' = Append(q, a)
  PROVE  SequenceKept'
<1>1. /\ toClient' \in Seq(ToClient) /\ Len(toClient') = Len(q) + 1 /\ Len(q) \in Nat
      /\ \A i \in 1 .. Len(q) : toClient'[i] = q[i]
      /\ toClient'[Len(q) + 1] = a
  BY QueueAppend
<1>2. DOMAIN toClient' = 1 .. Len(q) + 1 /\ DOMAIN toClient = 1 .. Len(q)
  BY <1>1, QueueDomain
<1> SUFFICES ASSUME NEW i \in DOMAIN toClient', toClient'[i].cmd = "RESULT"
             PROVE  toClient'[i].result \notin {"OTA_DATA_PACKET_SEQ_ERR", "OTA_DATA_UNCOMPLETE"}
  BY DEF SequenceKept
<1>3. CASE i = Len(q) + 1
  BY <1>1, <1>3
<1>4. CASE i \in 1 .. Len(q)
  BY <1>1, <1>2, <1>4 DEF SequenceKept
<1> QED
  BY <1>1, <1>2, <1>3, <1>4

(* The server reports no sequence error on a queue in order *)
LEMMA KeptStep ==
  ASSUME OtaTypes, OrderInv, SequenceKept, [OtaNext]_otaVars
  PROVE  SequenceKept'
<1>0. toClient \in Seq(ToClient) /\ InSequence(toServer, server)
  BY DEF OtaTypes, QueueTypes, OrderInv
<1>1. CASE toClient' = toClient
  BY <1>1 DEF SequenceKept
<1>2. CASE OnResponse
  <2>1. toClient # <<>> /\ toClient' = Tail(toClient)
    BY <1>2 DEF OnResponse
  <2>2. /\ toClient' \in Seq(ToClient) /\ Len(toClient) \in Nat \ {0}
        /\ Len(toClient') = Len(toClient) - 1
        /\ \A i \in 1 .. Len(toClient) - 1 : toClient'[i] = toClient[i + 1]
    BY <1>0, <2>1, QueueTail
  <2>3. DOMAIN toClient' = 1 .. Len(toClient) - 1 /\ DOMAIN toClient = 1 .. Len(toClient)
    BY <1>0, <2>2, QueueDomain
  <2> SUFFICES ASSUME NEW i \in DOMAIN toClient', toClient'[i].cmd = "RESULT"
               PROVE  toClient'[i].result \notin {"OTA_DATA_PACKET_SEQ_ERR", "OTA_DATA_UNCOMPLETE"}
    BY DEF SequenceKept
  <2>4. i + 1 \in DOMAIN toClient /\ toClient'[i] = toClient[i + 1]
    BY <2>2, <2>3
  <2> QED
    BY <2>4 DEF SequenceKept
<1>3. CASE ServerTakes
  <2> DEFINE m == toServer[1]
  <2>1. Served(m)
    BY <1>0, <1>3, ServerServes
  <2> HIDE DEF m
  <2>2. \/ toClient' = toClient
        \/ toClient' = Append(toClient, Message("READ_BY_TYPE_RSP"))
        \/ \E a \in BOOLEAN : toClient' = Append(toClient, [cmd |-> "FW_VERSION_RSP", accept |-> a])
        \/ toClient' = Append(toClient, Result("OTA_SUCCESS"))
    BY <2>1 DEF Served, Answers, Concludes
  <2>3. /\ Message("READ_BY_TYPE_RSP") \in ToClient /\ Message("READ_BY_TYPE_RSP").cmd # "RESULT"
        /\ Result("OTA_SUCCESS") \in ToClient /\ Result("OTA_SUCCESS").result = "OTA_SUCCESS"
    BY AnswerTyped DEF Message, Result, Results
  <2>4. \A a \in BOOLEAN : /\ [cmd |-> "FW_VERSION_RSP", accept |-> a] \in ToClient
                           /\ [cmd |-> "FW_VERSION_RSP", accept |-> a].cmd # "RESULT"
    BY AnswerTyped
  <2>5. \E a \in ToClient : /\ a.cmd = "RESULT" => a.result \in {"OTA_SUCCESS", "OTA_TIMEOUT"}
                            /\ toClient' = toClient \/ toClient' = Append(toClient, a)
    BY <2>2, <2>3, <2>4
  <2> QED
    BY <1>0, <1>1, <2>5, KeptAppend
<1>4. CASE ServerGivesUp
  <2>1. toClient' = Append(toClient, Result("OTA_TIMEOUT"))
    BY <1>4 DEF ServerGivesUp
  <2>2. Result("OTA_TIMEOUT") \in ToClient /\ Result("OTA_TIMEOUT").result = "OTA_TIMEOUT"
    BY AnswerTyped DEF Result, Results
  <2> QED
    BY <1>0, <2>1, <2>2, KeptAppend
<1>5. CASE OtaLinkLoss
  BY <1>5 DEF OtaLinkLoss, SequenceKept
<1> QED
  BY <1>1, <1>2, <1>3, <1>4, <1>5
  DEF OtaNext, KeyTrigger, OtaTimeout, Step1CheckFw, Step2UpdateConn, OtaConnects, otaVars,
      peerVars, Quietly, Step3ReqOtaHandle, Step5ReqFwVersion, Step7OtaStart, Step8OtaData,
      Step9OtaEnd

-----------------------------------------------------------------------------
(* Questions c and their answers r.  The client waits for one answer: the
   question is the last message to the server, or it was answered, and then
   nothing is behind it and no success behind the answer.                    *)
Has(q, c) == \E i \in 1 .. Len(q) : q[i].cmd = c
OneAt(q, c, k) == \A i \in 1 .. Len(q) : q[i].cmd = c <=> i = k
IsSuccess(m) == m.cmd = "RESULT" /\ m.result = "OTA_SUCCESS"
NoSuccess(q) == \A i \in 1 .. Len(q) : ~IsSuccess(q[i])
AnsweredAt(q, r, k) ==
  OneAt(q, r, k) /\ \A i \in 1 .. Len(q) : k < i => ~IsSuccess(q[i])
Awaits(c, r) ==
  \/ toServer # <<>> /\ OneAt(toServer, c, Len(toServer)) /\ ~Has(toClient, r)
  \/ toServer = <<>> /\ \E k \in 1 .. Len(toClient) : AnsweredAt(toClient, r, k)
NotAsked(c, r) == ~Has(toServer, c) /\ ~Has(toClient, r)
Pairs == {<<"READ_BY_TYPE", "READ_BY_TYPE_RSP">>, <<"FW_VERSION_REQ", "FW_VERSION_RSP">>}

AskInv ==
  /\ IF flow = 4 THEN Awaits("READ_BY_TYPE", "READ_BY_TYPE_RSP")
     ELSE NotAsked("READ_BY_TYPE", "READ_BY_TYPE_RSP")
  /\ IF flow = 6 THEN Awaits("FW_VERSION_REQ", "FW_VERSION_RSP") /\ Len(toServer) <= 1
     ELSE NotAsked("FW_VERSION_REQ", "FW_VERSION_RSP")
  /\ flow \in {5, 7} => toServer = <<>>
  /\ flow \in 5 .. 7 => NoSuccess(toClient)

(* What an answer more brings into the queue to the client *)
LEMMA HasAppend ==
  ASSUME NEW S, NEW q \in Seq(S), NEW m \in S, NEW c, NEW p, p = Append(q, m)
  PROVE  /\ Has(p, c) <=> Has(q, c) \/ m.cmd = c
         /\ NoSuccess(p) <=> NoSuccess(q) /\ ~IsSuccess(m)
<1>1. /\ Len(q) \in Nat /\ Len(p) = Len(q) + 1 /\ p[Len(q) + 1] = m
      /\ \A i \in 1 .. Len(q) : p[i] = q[i]
  BY QueueAppend
<1>2. 1 .. Len(p) = 1 .. Len(q) \cup {Len(q) + 1}
  BY <1>1
<1>3. Has(p, c) <=> Has(q, c) \/ m.cmd = c
  BY <1>1, <1>2 DEF Has
<1>4. NoSuccess(p) <=> NoSuccess(q) /\ ~IsSuccess(m)
  BY <1>1, <1>2 DEF NoSuccess
<1> QED
  BY <1>3, <1>4

(* What an answer less leaves in it *)
LEMMA HasTail ==
  ASSUME NEW S, NEW q \in Seq(S), q # <<>>, NEW c, NEW p, p = Tail(q)
  PROVE  /\ Has(p, c) => Has(q, c)
         /\ NoSuccess(q) => NoSuccess(p)
<1>1. /\ Len(q) \in Nat \ {0} /\ Len(p) = Len(q) - 1
      /\ \A i \in 1 .. Len(q) - 1 : p[i] = q[i + 1]
  BY QueueTail
<1>2. \A i \in 1 .. Len(p) : i + 1 \in 1 .. Len(q) /\ p[i] = q[i + 1]
  BY <1>1
<1> QED
  BY <1>2 DEF Has, NoSuccess

(* The answer is where it was, or one place before. *)
LEMMA AnsweredAppend ==
  ASSUME NEW q \in Seq(ToClient), NEW a \in ToClient, NEW r, NEW k \in 1 .. Len(q),
         AnsweredAt(q, r, k),
         a.cmd # r, ~IsSuccess(a), NEW p, p = Append(q, a)
  PROVE  k \in 1 .. Len(p) /\ AnsweredAt(p, r, k)
<1>1. /\ Len(q) \in Nat /\ Len(p) = Len(q) + 1 /\ p[Len(q) + 1] = a
      /\ \A i \in 1 .. Len(q) : p[i] = q[i]
  BY QueueAppend
<1>2. 1 .. Len(p) = 1 .. Len(q) \cup {Len(q) + 1} /\ k # Len(q) + 1
  BY <1>1
<1>3. OneAt(p, r, k)
  BY <1>1, <1>2 DEF AnsweredAt, OneAt
<1>4. \A i \in 1 .. Len(p) : k < i => ~IsSuccess(p[i])
  BY <1>1, <1>2 DEF AnsweredAt
<1> QED
  BY <1>2, <1>3, <1>4 DEF AnsweredAt

(* An answer put behind all others is the one awaited *)
LEMMA AnsweredNew ==
  ASSUME NEW q \in Seq(ToClient), NEW a \in ToClient, NEW r, ~Has(q, r), a.cmd = r,
         NEW p, p = Append(q, a)
  PROVE  Len(p) \in 1 .. Len(p) /\ AnsweredAt(p, r, Len(p))
<1>1. /\ Len(q) \in Nat /\ Len(p) = Len(q) + 1 /\ p[Len(q) + 1] = a
      /\ \A i \in 1 .. Len(q) : p[i] = q[i]
  BY QueueAppend
<1>2. 1 .. Len(p) = 1 .. Len(q) \cup {Len(q) + 1}
  BY <1>1
<1>3. OneAt(p, r, Len(p))
  BY <1>1, <1>2 DEF OneAt, Has
<1>4. \A i \in 1 .. Len(p) : ~(Len(p) < i)
  BY <1>1
<1> QED
  BY <1>1, <1>3, <1>4 DEF AnsweredAt

(* Taking an answer brings the awaited one nearer, or is it *)
LEMMA AnsweredTail ==
  ASSUME NEW q \in Seq(ToClient), q # <<>>, NEW r, NEW k \in 1 .. Len(q), AnsweredAt(q, r, k),
         NEW p, p = Tail(q)
  PROVE  /\ q[1].cmd = r => ~Has(p, r) /\ NoSuccess(p)
         /\ q[1].cmd # r => k - 1 \in 1 .. Len(p) /\ AnsweredAt(p, r, k - 1)
<1>1. /\ Len(q) \in Nat \ {0} /\ Len(p) = Len(q) - 1
      /\ \A i \in 1 .. Len(q) - 1 : p[i] = q[i + 1]
  BY QueueTail
<1>2. \A i \in 1 .. Len(p) : i + 1 \in 1 .. Len(q) /\ p[i] = q[i + 1] /\ 1 < i + 1 /\ i \in Nat
  BY <1>1
<1>3. /\ \A i \in 1 .. Len(q) : q[i].cmd = r <=> i = k
      /\ \A i \in 1 .. Len(q) : k < i => ~IsSuccess(q[i])
  BY DEF AnsweredAt, OneAt
<1>4. 1 \in 1 .. Len(q)
  BY <1>1
<1>5. CASE q[1].cmd = r
  <2>1. k = 1
    BY <1>3, <1>4, <1>5
  <2>2. \A i \in 1 .. Len(p) : p[i].cmd # r /\ ~IsSuccess(p[i])
    BY <1>2, <1>3, <2>1
  <2> QED
    BY <1>5, <2>2 DEF Has, NoSuccess
<1>6. CASE q[1].cmd # r
  <2>1. k # 1
    BY <1>3, <1>4, <1>6
  <2>2. k - 1 \in 1 .. Len(p)
    BY <1>1, <2>1
  <2>3. \A i \in 1 .. Len(p) : (p[i].cmd = r <=> i = k - 1) /\ (k - 1 < i => ~IsSuccess(p[i]))
    BY <1>2, <1>3
  <2> QED
    BY <1>6, <2>2, <2>3 DEF AnsweredAt, OneAt
<1> QED
  BY <1>5, <1>6

(* What the server answers to m *)
LEMMA ServedAnswers ==
  ASSUME Served(toServer[1]), NEW m, m = toServer[1], NEW c, NEW r, <<c, r>> \in Pairs
  PROVE  /\ m.cmd = c => \E a \in ToClient : /\ toClient' = Append(toClient, a)
                                             /\ a.cmd = r /\ ~IsSuccess(a)
         /\ m.cmd # c => \/ toClient' = toClient
                         \/ \E a \in ToClient : toClient' = Append(toClient, a) /\ a.cmd # r
         /\ m.cmd # "END" => \/ toClient' = toClient
                             \/ \E a \in ToClient : toClient' = Append(toClient, a) /\ ~IsSuccess(a)
<1>1. Served(m)
  OBVIOUS
<1>2. \/ c = "READ_BY_TYPE" /\ r = "READ_BY_TYPE_RSP"
      \/ c = "FW_VERSION_REQ" /\ r = "FW_VERSION_RSP"
  BY DEF Pairs
<1>3. CASE Answers(m)
  <2>1. CASE m.cmd = "READ_BY_TYPE" /\ toClient' = Append(toClient, Message("READ_BY_TYPE_RSP"))
    <3>1. PICK a \in ToClient : a = Message("READ_BY_TYPE_RSP")
      BY AnswerTyped
    <3>2. a.cmd = "READ_BY_TYPE_RSP" /\ ~IsSuccess(a)
      BY <3>1 DEF Message, IsSuccess
    <3>3. toClient' = Append(toClient, a)
      BY <2>1, <3>1
    <3> QED
      BY <1>2, <2>1, <3>2, <3>3
  <2>2. CASE /\ m.cmd = "FW_VERSION_REQ"
             /\ \E b \in BOOLEAN :
                  toClient' = Append(toClient, [cmd |-> "FW_VERSION_RSP", accept |-> b])
    <3>1. PICK b \in BOOLEAN :
         toClient' = Append(toClient, [cmd |-> "FW_VERSION_RSP", accept |-> b])
      BY <2>2
    <3>2. PICK a \in ToClient : a = [cmd |-> "FW_VERSION_RSP", accept |-> b]
      BY AnswerTyped
    <3>3. a.cmd = "FW_VERSION_RSP" /\ ~IsSuccess(a)
      BY <3>2 DEF IsSuccess
    <3>4. toClient' = Append(toClient, a)
      BY <3>1, <3>2
    <3> QED
      BY <1>2, <2>2, <3>3, <3>4
  <2> QED
    BY <1>3, <2>1, <2>2 DEF Answers
<1>4. CASE Takes(m) /\ toClient' = toClient
  BY <1>2, <1>4 DEF Takes
<1>5. CASE Concludes(m)
  <2>1. m.cmd = "END" /\ toClient' = Append(toClient, Result("OTA_SUCCESS"))
    BY <1>5 DEF Concludes
  <2>2. PICK a \in ToClient : a = Result("OTA_SUCCESS")
    BY AnswerTyped DEF Results
  <2>3. a.cmd = "RESULT"
    BY <2>2 DEF Result
  <2>4. toClient' = Append(toClient, a) /\ a.cmd # r /\ m.cmd # c
    BY <1>2, <2>1, <2>2, <2>3
  <2> QED
    BY <2>1, <2>4
<1> QED
  BY <1>1, <1>3, <1>4, <1>5 DEF Served

(* The server takes a message while an answer is awaited, or none is. *)
LEMMA AwaitsServed ==
  ASSUME OtaTypes, InSequence(toServer, server), ServerTakes, NEW c, NEW r, <<c, r>> \in Pairs
  PROVE  /\ Awaits(c, r) => Awaits(c, r)'
         /\ NotAsked(c, r) => NotAsked(c, r)'
<1>1. /\ toServer # <<>> /\ toServer' = Tail(toServer) /\ toServer[1] \in ToServer
      /\ Served(toServer[1])
  BY ServerServes
<1>2. /\ toServer \in Seq(ToServer) /\ toClient \in Seq(ToClient)
      /\ Len(toServer) \in Nat \ {0} /\ Len(toServer') = Len(toServer) - 1
      /\ \A i \in 1 .. Len(toServer) - 1 : toServer'[i] = toServer[i + 1]
      /\ toServer' \in Seq(ToServer)
  BY <1>1, QueueTail DEF OtaTypes, QueueTypes
<1>3. 1 \in 1 .. Len(toServer) /\ (toServer' = <<>> <=> Len(toServer) = 1)
  <2>1. toServer' = <<>> <=> Len(toServer') = 0
    BY <1>2, QueueDomain
  <2> QED
    BY <1>2, <2>1
<1>4. PICK m \in ToServer : m = toServer[1]
  BY <1>1
<1>5. /\ m.cmd = c => \E a \in ToClient : /\ toClient' = Append(toClient, a)
                                          /\ a.cmd = r /\ ~IsSuccess(a)
      /\ m.cmd # c => \/ toClient' = toClient
                      \/ \E a \in ToClient : toClient' = Append(toClient, a) /\ a.cmd # r
  BY <1>1, <1>4, ServedAnswers
<1>6. ASSUME Awaits(c, r) PROVE Awaits(c, r)'
  <2>1. OneAt(toServer, c, Len(toServer)) /\ ~Has(toClient, r)
    BY <1>1, <1>6 DEF Awaits
  <2>2. CASE Len(toServer) = 1
    <3>1. m.cmd = c
      BY <1>3, <1>4, <2>1, <2>2 DEF OneAt
    <3>2. PICK a \in ToClient : toClient' = Append(toClient, a) /\ a.cmd = r
      BY <1>5, <3>1
    <3>3. Len(toClient') \in 1 .. Len(toClient') /\ AnsweredAt(toClient', r, Len(toClient'))
      BY <1>2, <2>1, <3>2, AnsweredNew
    <3>4. toServer' = <<>>
      BY <1>3, <2>2
    <3> QED
      BY <3>3, <3>4 DEF Awaits
  <2>3. CASE Len(toServer) # 1
    <3>1. m.cmd # c
      BY <1>3, <1>4, <2>1, <2>3 DEF OneAt
    <3>2. ~Has(toClient', r)
      <4>1. CASE toClient' = toClient
        BY <2>1, <4>1
      <4>2. CASE \E a \in ToClient : toClient' = Append(toClient, a) /\ a.cmd # r
        BY <1>2, <2>1, <4>2, HasAppend
      <4> QED
        BY <1>5, <3>1, <4>1, <4>2
    <3>3. ASSUME NEW i \in 1 .. Len(toServer') PROVE toServer'[i].cmd = c <=> i = Len(toServer')
      <4>1. i + 1 \in 1 .. Len(toServer) /\ toServer'[i] = toServer[i + 1]
        BY <1>2
      <4>2. toServer[i + 1].cmd = c <=> i + 1 = Len(toServer)
        BY <2>1, <4>1 DEF OneAt
      <4> QED
        BY <1>2, <4>1, <4>2
    <3>4. toServer' # <<>>
      BY <1>3, <2>3
    <3> QED
      BY <3>2, <3>3, <3>4 DEF Awaits, OneAt
  <2> QED
    BY <2>2, <2>3
<1>7. ASSUME NotAsked(c, r) PROVE NotAsked(c, r)'
  <2>1. ~Has(toServer, c) /\ ~Has(toClient, r)
    BY <1>7 DEF NotAsked
  <2>2. m.cmd # c
    BY <1>3, <1>4, <2>1 DEF Has
  <2>3. ~Has(toServer', c)
    BY <1>1, <1>2, <2>1, HasTail
  <2>4. ~Has(toClient', r)
    <3>1. CASE toClient' = toClient
      BY <2>1, <3>1
    <3>2. CASE \E a \in ToClient : toClient' = Append(toClient, a) /\ a.cmd # r
      BY <1>2, <2>1, <3>2, HasAppend
    <3> QED
      BY <1>5, <2>2, <3>1, <3>2
  <2> QED
    BY <2>3, <2>4 DEF NotAsked
<1> QED
  BY <1>6, <1>7

(* The server gives up *)
LEMMA AwaitsGivenUp ==
  ASSUME OtaTypes, NEW a \in ToClient, ~IsSuccess(a), a.cmd = "RESULT",
         toServer' = toServer, toClient' = Append(toClient, a), NEW c, NEW r, <<c, r>> \in Pairs
  PROVE  /\ Awaits(c, r) => Awaits(c, r)'
         /\ NotAsked(c, r) => NotAsked(c, r)'
<1>1. toClient \in Seq(ToClient) /\ a.cmd # r
  BY DEF OtaTypes, QueueTypes, Pairs
<1>2. ASSUME ~Has(toClient, r) PROVE ~Has(toClient', r)
  BY <1>1, <1>2, HasAppend
<1>3. ASSUME NEW k \in 1 .. Len(toClient), AnsweredAt(toClient, r, k)
      PROVE  k \in 1 .. Len(toClient') /\ AnsweredAt(toClient', r, k)
  BY <1>1, <1>3, AnsweredAppend
<1>4. Awaits(c, r) => Awaits(c, r)'
  BY <1>2, <1>3 DEF Awaits
<1>5. NotAsked(c, r) => NotAsked(c, r)'
  BY <1>2 DEF NotAsked
<1> QED
  BY <1>4, <1>5

(* The client takes what comes first *)
LEMMA AwaitsTaken ==
  ASSUME OtaTypes, toClient # <<>>, toServer' = toServer, toClient' = Tail(toClient), NEW c, NEW r
  PROVE  /\ Awaits(c, r) /\ toClient[1].cmd # r => Awaits(c, r)'
         /\ Awaits(c, r) /\ toClient[1].cmd = r =>
              NotAsked(c, r)' /\ toServer = <<>> /\ NoSuccess(toClient')
         /\ NotAsked(c, r) => NotAsked(c, r)'
<1>1. toClient \in Seq(ToClient) /\ Len(toClient) \in Nat \ {0} /\ 1 \in 1 .. Len(toClient)
  <2>1. toClient \in Seq(ToClient)
    BY DEF OtaTypes, QueueTypes
  <2> QED
    BY <2>1, QueueTail
<1>2. ASSUME ~Has(toClient, r) PROVE ~Has(toClient', r) /\ toClient[1].cmd # r
  <2>1. ~Has(toClient', r)
    BY <1>1, <1>2, HasTail
  <2> QED
    BY <1>1, <1>2, <2>1 DEF Has
<1>3. ASSUME NEW k \in 1 .. Len(toClient), AnsweredAt(toClient, r, k)
      PROVE  /\ toClient[1].cmd = r => ~Has(toClient', r) /\ NoSuccess(toClient')
             /\ toClient[1].cmd # r
                => k - 1 \in 1 .. Len(toClient') /\ AnsweredAt(toClient', r, k - 1)
  BY <1>1, <1>3, AnsweredTail
<1>4. ASSUME Awaits(c, r), toClient[1].cmd # r PROVE Awaits(c, r)'
  BY <1>2, <1>3, <1>4 DEF Awaits
<1>5. ASSUME Awaits(c, r), toClient[1].cmd = r
      PROVE  NotAsked(c, r)' /\ toServer = <<>> /\ NoSuccess(toClient')
  <2>1. toServer = <<>> /\ \E k \in 1 .. Len(toClient) : AnsweredAt(toClient, r, k)
    BY <1>2, <1>5 DEF Awaits
  <2>2. ~Has(toClient', r) /\ NoSuccess(toClient')
    BY <1>3, <1>5, <2>1
  <2>3. ~Has(toServer', c)
    BY <2>1 DEF Has
  <2> QED
    BY <2>1, <2>2, <2>3 DEF NotAsked
<1>6. ASSUME NotAsked(c, r) PROVE NotAsked(c, r)'
  BY <1>2, <1>6 DEF NotAsked
<1> QED
  BY <1>4, <1>5, <1>6

(* The client sends message m *)
LEMMA AwaitsAsked ==
  ASSUME OtaTypes, NEW m \in ToServer, toServer' = Append(toServer, m), toClient' = toClient,
         NEW c, NEW r, NotAsked(c, r)
  PROVE  /\ m.cmd = c => Awaits(c, r)'
         /\ m.cmd # c => NotAsked(c, r)'
<1>1. toServer \in Seq(ToServer)
  BY DEF OtaTypes, QueueTypes
<1>2. /\ Len(toServer) \in Nat /\ Len(toServer') = Len(toServer) + 1 /\ toServer' # <<>>
      /\ toServer'[Len(toServer) + 1] = m
      /\ \A i \in 1 .. Len(toServer) : toServer'[i] = toServer[i]
  BY <1>1, QueueAppend
<1>3. ~Has(toServer, c) /\ ~Has(toClient', r)
  BY DEF NotAsked
<1>4. ASSUME m.cmd = c PROVE Awaits(c, r)'
  <2>1. \A i \in 1 .. Len(toServer') : i = Len(toServer') \/ i \in 1 .. Len(toServer)
    BY <1>2
  <2>2. OneAt(toServer', c, Len(toServer'))
    BY <1>2, <1>3, <1>4, <2>1 DEF OneAt, Has
  <2> QED
    BY <1>2, <1>3, <2>2 DEF Awaits
<1>5. ASSUME m.cmd # c PROVE NotAsked(c, r)'
  <2>1. ~Has(toServer', c)
    BY <1>1, <1>3, <1>5, HasAppend
  <2> QED
    BY <1>3, <2>1 DEF NotAsked
<1> QED
  BY <1>4, <1>5

(* No answer is awaited, before or after. *)
LEMMA AskIdle ==
  ASSUME flow' \notin 4 .. 7, NotAsked("READ_BY_TYPE", "READ_BY_TYPE_RSP")',
         NotAsked("FW_VERSION_REQ", "FW_VERSION_RSP")'
  PROVE  AskInv'
  BY DEF AskInv

(* AskInv depends on the queues and on the step *)
LEMMA AskSame ==
  ASSUME AskInv, toServer' = toServer, toClient' = toClient,
         flow' = flow \/ (flow \notin {4, 6} /\ flow' \notin 4 .. 7)
  PROVE  AskInv'
<1>1. \A c, r : /\ Awaits(c, r) => Awaits(c, r)'
                /\ NotAsked(c, r) => NotAsked(c, r)'
  BY DEF Awaits, NotAsked
<1>2. CASE flow' = flow
  BY <1>1, <1>2 DEF AskInv
<1>3. CASE flow \notin {4, 6} /\ flow' \notin 4 .. 7
  BY <1>1, <1>3 DEF AskInv
<1> QED
  BY <1>2, <1>3

(* The client takes an answer: the one awaited, or one left of a transfer before *)
LEMMA AskResponse ==
  ASSUME OtaTypes, AskInv, OnResponse
  PROVE  AskInv'
<1>1. toClient # <<>> /\ toClient' = Tail(toClient) /\ toServer' = toServer
  BY DEF OnResponse
<1>2. toClient \in Seq(ToClient)
  BY DEF OtaTypes, QueueTypes
<1>3. Head(toClient) = toClient[1]
  BY <1>1, <1>2, QueueTail
<1>4. NoSuccess(toClient) => NoSuccess(toClient')
  BY <1>1, <1>2, HasTail
<1> DEFINE m == toClient[1]
<1>5. \A c, r : /\ Awaits(c, r) /\ m.cmd # r => Awaits(c, r)'
                /\ Awaits(c, r) /\ m.cmd = r =>
                     NotAsked(c, r)' /\ toServer = <<>> /\ NoSuccess(toClient')
                /\ NotAsked(c, r) => NotAsked(c, r)'
  BY <1>1, AwaitsTaken
<1>6. \/ m.cmd = "READ_BY_TYPE_RSP" /\ flow = 4 /\ flow' = 5
      \/ m.cmd = "FW_VERSION_RSP" /\ flow = 6 /\ flow' \in {0, 7}
      \/ m.cmd = "RESULT" /\ flow = 10 /\ flow' = 0
      \/ /\ ~(m.cmd = "READ_BY_TYPE_RSP" /\ flow = 4) /\ ~(m.cmd = "FW_VERSION_RSP" /\ flow = 6)
         /\ flow' = flow
  BY <1>3 DEF OnResponse, SetResult, ResultAwaited
<1> HIDE DEF m
<1>7. CASE m.cmd = "READ_BY_TYPE_RSP" /\ flow = 4 /\ flow' = 5
  <2>1. Awaits("READ_BY_TYPE", "READ_BY_TYPE_RSP") /\ NotAsked("FW_VERSION_REQ", "FW_VERSION_RSP")
    BY <1>7 DEF AskInv
  <2>2. /\ NotAsked("READ_BY_TYPE", "READ_BY_TYPE_RSP")'
        /\ NotAsked("FW_VERSION_REQ", "FW_VERSION_RSP")'
        /\ toServer' = <<>> /\ NoSuccess(toClient')
    BY <1>1, <1>5, <1>7, <2>1
  <2> QED
    BY <1>7, <2>2 DEF AskInv
<1>8. CASE m.cmd = "FW_VERSION_RSP" /\ flow = 6 /\ flow' \in {0, 7}
  <2>1. Awaits("FW_VERSION_REQ", "FW_VERSION_RSP") /\ NotAsked("READ_BY_TYPE", "READ_BY_TYPE_RSP")
    BY <1>8 DEF AskInv
  <2>2. /\ NotAsked("READ_BY_TYPE", "READ_BY_TYPE_RSP")'
        /\ NotAsked("FW_VERSION_REQ", "FW_VERSION_RSP")'
        /\ toServer' = <<>> /\ NoSuccess(toClient')
    BY <1>1, <1>5, <1>8, <2>1
  <2> QED
    BY <1>8, <2>2 DEF AskInv
<1>9. CASE m.cmd = "RESULT" /\ flow = 10 /\ flow' = 0
  <2>1. NotAsked("READ_BY_TYPE", "READ_BY_TYPE_RSP") /\ NotAsked("FW_VERSION_REQ", "FW_VERSION_RSP")
    BY <1>9 DEF AskInv
  <2> QED
    BY <1>5, <1>9, <2>1, AskIdle
<1>10. CASE /\ ~(m.cmd = "READ_BY_TYPE_RSP" /\ flow = 4) /\ ~(m.cmd = "FW_VERSION_RSP" /\ flow = 6)
            /\ flow' = flow
  <2>1. flow = 4 => Awaits("READ_BY_TYPE", "READ_BY_TYPE_RSP")'
    BY <1>5, <1>10 DEF AskInv
  <2>2. flow = 6 => Awaits("FW_VERSION_REQ", "FW_VERSION_RSP")'
    BY <1>5, <1>10 DEF AskInv
  <2>3. flow # 4 => NotAsked("READ_BY_TYPE", "READ_BY_TYPE_RSP")'
    BY <1>5 DEF AskInv
  <2>4. flow # 6 => NotAsked("FW_VERSION_REQ", "FW_VERSION_RSP")'
    BY <1>5 DEF AskInv
  <2> QED
    BY <1>1, <1>4, <1>10, <2>1, <2>2, <2>3, <2>4 DEF AskInv
<1> QED
  BY <1>6, <1>7, <1>8, <1>9, <1>10

(* The server takes a question and puts its answer behind all it gave before *)
LEMMA AskServed ==
  ASSUME OtaTypes, AskInv, InSequence(toServer, server), ServerTakes
  PROVE  AskInv'
<1>1. /\ toServer # <<>> /\ toServer' = Tail(toServer) /\ toServer[1] \in ToServer
      /\ Served(toServer[1])
  BY ServerServes
<1>2. \A c, r : <<c, r>> \in Pairs => /\ Awaits(c, r) => Awaits(c, r)'
                                      /\ NotAsked(c, r) => NotAsked(c, r)'
  BY AwaitsServed
<1>3. /\ <<"READ_BY_TYPE", "READ_BY_TYPE_RSP">> \in Pairs
      /\ <<"FW_VERSION_REQ", "FW_VERSION_RSP">> \in Pairs
  BY DEF Pairs
<1>4. flow' = flow /\ flow \notin {5, 7}
  BY <1>1 DEF ServerTakes, AskInv
<1>5. Len(toServer') <= Len(toServer)
  BY <1>1, QueueTail DEF OtaTypes, QueueTypes
<1>6. ASSUME flow = 6 PROVE NoSuccess(toClient') /\ Len(toServer') <= 1
  <2>1. Awaits("FW_VERSION_REQ", "FW_VERSION_RSP") /\ Len(toServer) <= 1 /\ NoSuccess(toClient)
    BY <1>6 DEF AskInv
  <2>2. /\ Len(toServer) \in Nat \ {0} /\ toClient \in Seq(ToClient)
        /\ Len(toServer') = Len(toServer) - 1
    BY <1>1, QueueTail DEF OtaTypes, QueueTypes
  <2>3. Len(toServer) = 1 /\ Len(toServer') <= 1
    BY <2>1, <2>2
  <2>4. OneAt(toServer, "FW_VERSION_REQ", Len(toServer))
    BY <1>1, <2>1 DEF Awaits
  <2>5. toServer[1].cmd = "FW_VERSION_REQ"
    BY <2>3, <2>4 DEF OneAt
  <2>6. PICK a \in ToClient : toClient' = Append(toClient, a) /\ ~IsSuccess(a)
    BY <1>1, <1>3, <2>5, ServedAnswers
  <2>7. NoSuccess(toClient')
    BY <2>1, <2>2, <2>6, HasAppend
  <2> QED
    BY <2>3, <2>7
<1> QED
  BY <1>2, <1>3, <1>4, <1>6 DEF AskInv

(* What is sent while no answer is awaited *)
LEMMA AskPdu ==
  ASSUME OtaTypes, AskInv, NEW m \in ToServer, toServer' = Append(toServer, m),
         toClient' = toClient,
         flow \notin {4, 6}, flow' \notin 4 .. 7, m.cmd \notin {"READ_BY_TYPE", "FW_VERSION_REQ"}
  PROVE  AskInv'
<1>1. NotAsked("READ_BY_TYPE", "READ_BY_TYPE_RSP") /\ NotAsked("FW_VERSION_REQ", "FW_VERSION_RSP")
  BY DEF AskInv
<1>2. NotAsked("READ_BY_TYPE", "READ_BY_TYPE_RSP")' /\ NotAsked("FW_VERSION_REQ", "FW_VERSION_RSP")'
  BY <1>1, AwaitsAsked
<1> QED
  BY <1>2, AskIdle

(* AskInv is inductive, given where the client is and the order of its queue *)
LEMMA AskStep ==
  ASSUME OtaTypes, FlowInv, OrderInv, AskInv, [OtaNext]_otaVars
  PROVE  AskInv'
<1>0. ota \in Otas /\ flow \in 0 .. 10 /\ ota.cur \in Nat /\ ota.last \in Nat
  BY DEF OtaTypes, ClientTypes, Otas
<1>1. CASE KeyTrigger \/ Step1CheckFw \/ Step2UpdateConn \/ OtaConnects \/ UNCHANGED otaVars
  <2>1. toServer' = toServer /\ toClient' = toClient
    BY <1>1 DEF KeyTrigger, Step1CheckFw, Step2UpdateConn, OtaConnects, otaVars, peerVars, Quietly
  <2>2. flow' = flow \/ (flow \in {0, 1, 2} /\ flow' \in {0, 1, 2, 3})
    BY <1>1 DEF KeyTrigger, Step1CheckFw, Step2UpdateConn, OtaConnects, otaVars, SetResult
  <2> QED
    BY <2>1, <2>2, AskSame
<1>2. CASE OtaTimeout
  <2>1. toServer' = toServer /\ toClient' = toClient /\ ota.ticking /\ flow' = 0
    BY <1>2 DEF OtaTimeout, peerVars, SetResult
  <2>2. ~(flow < 8)
    BY <2>1 DEF FlowInv
  <2> QED
    BY <1>0, <2>1, <2>2, AskSame
<1>3. CASE Step3ReqOtaHandle
  <2> DEFINE m == Message("READ_BY_TYPE")
  <2>1. flow = 3 /\ flow' = 4 /\ toServer' = Append(toServer, m) /\ toClient' = toClient
    BY <1>3 DEF Step3ReqOtaHandle, Push, Quietly, peerVars
  <2>2. m \in ToServer /\ m.cmd = "READ_BY_TYPE"
    BY QuestionTyped
  <2> HIDE DEF m
  <2>3. NotAsked("READ_BY_TYPE", "READ_BY_TYPE_RSP") /\ NotAsked("FW_VERSION_REQ", "FW_VERSION_RSP")
    BY <2>1 DEF AskInv
  <2>4. Awaits("READ_BY_TYPE", "READ_BY_TYPE_RSP")' /\ NotAsked("FW_VERSION_REQ", "FW_VERSION_RSP")'
    BY <2>1, <2>2, <2>3, AwaitsAsked
  <2> QED
    BY <2>1, <2>4 DEF AskInv
<1>4. CASE Step5ReqFwVersion
  <2>1. /\ flow = 5 /\ toClient' = toClient /\ toServer = <<>> /\ NoSuccess(toClient)
        /\ NotAsked("READ_BY_TYPE", "READ_BY_TYPE_RSP")
        /\ NotAsked("FW_VERSION_REQ", "FW_VERSION_RSP")
    BY <1>4 DEF Step5ReqFwVersion, Quietly, peerVars, AskInv
  <2>2. CASE flow' = 7 /\ toServer' = toServer
    <3>1. /\ NotAsked("READ_BY_TYPE", "READ_BY_TYPE_RSP")'
          /\ NotAsked("FW_VERSION_REQ", "FW_VERSION_RSP")'
      BY <2>1, <2>2 DEF NotAsked
    <3> QED
      BY <2>1, <2>2, <3>1 DEF AskInv
  <2>3. CASE flow' = 6 /\ toServer' = Append(toServer, Message("FW_VERSION_REQ"))
    <3> DEFINE m == Message("FW_VERSION_REQ")
    <3>1. m \in ToServer /\ m.cmd = "FW_VERSION_REQ"
      BY QuestionTyped
    <3>2. toServer' = Append(toServer, m)
      BY <2>3
    <3> HIDE DEF m
    <3>3. /\ Awaits("FW_VERSION_REQ", "FW_VERSION_RSP")'
          /\ NotAsked("READ_BY_TYPE", "READ_BY_TYPE_RSP")'
      BY <2>1, <3>1, <3>2, AwaitsAsked
    <3>4. Len(toServer') <= 1
      BY <2>1, <3>1, <3>2, QueueAppend DEF OtaTypes, QueueTypes
    <3> QED
      BY <2>1, <2>3, <3>3, <3>4 DEF AskInv
  <2>4. \/ flow' = 7 /\ toServer' = toServer
        \/ flow' = 6 /\ toServer' = Append(toServer, Message("FW_VERSION_REQ"))
    BY <1>4 DEF Step5ReqFwVersion, Push
  <2> QED
    BY <2>2, <2>3, <2>4
<1>5. CASE Step7OtaStart
  <2> DEFINE m == Message("START")
  <2>1. flow = 7 /\ flow' = 8 /\ toServer' = Append(toServer, m) /\ toClient' = toClient
    BY <1>5 DEF Step7OtaStart, Push, Quietly, peerVars
  <2>2. m \in ToServer /\ m.cmd = "START"
    BY QuestionTyped
  <2> HIDE DEF m
  <2> QED
    BY <2>1, <2>2, AskPdu
<1>6. CASE Step8OtaData
  <2>1. flow = 8 /\ flow' \in {8, 9} /\ toClient' = toClient
    BY <1>6 DEF Step8OtaData, Quietly, peerVars
  <2>2. CASE toServer' = toServer
    BY <2>1, <2>2, AskSame
  <2>3. CASE toServer' = Append(toServer, DataPdu(ota.cur))
    <3>1. PICK m \in ToServer : m = DataPdu(ota.cur) /\ m.cmd = "DATA"
      BY <1>0, PduTyped
    <3>2. toServer' = Append(toServer, m)
      BY <2>3, <3>1
    <3> QED
      BY <2>1, <3>1, <3>2, AskPdu
  <2>4. toServer' = toServer \/ toServer' = Append(toServer, DataPdu(ota.cur))
    BY <1>6 DEF Step8OtaData, Push
  <2> QED
    BY <2>2, <2>3, <2>4
<1>7. CASE Step9OtaEnd
  <2> DEFINE m == [cmd |-> "END", index |-> ota.last]
  <2>1. flow = 9 /\ flow' = 10 /\ toServer' = Append(toServer, m) /\ toClient' = toClient
    BY <1>7 DEF Step9OtaEnd, Push, Quietly, peerVars
  <2>2. m \in ToServer /\ m.cmd = "END"
    BY <1>0, EndTyped
  <2> HIDE DEF m
  <2> QED
    BY <2>1, <2>2, AskPdu
<1>8. CASE OnResponse
  BY <1>8, AskResponse
<1>9. CASE ServerTakes
  BY <1>9, AskServed DEF OrderInv
<1>10. CASE ServerGivesUp
  <2>1. toServer' = toServer /\ flow' = flow /\ toClient' = Append(toClient, Result("OTA_TIMEOUT"))
    BY <1>10 DEF ServerGivesUp
  <2>2. PICK a \in ToClient : a = Result("OTA_TIMEOUT")
    BY AnswerTyped DEF Results
  <2>3. ~IsSuccess(a) /\ a.cmd = "RESULT" /\ toClient' = Append(toClient, a)
    BY <2>1, <2>2 DEF IsSuccess, Result
  <2>4. \A c, r : <<c, r>> \in Pairs => /\ Awaits(c, r) => Awaits(c, r)'
                                        /\ NotAsked(c, r) => NotAsked(c, r)'
    BY <2>1, <2>3, AwaitsGivenUp
  <2>5. /\ <<"READ_BY_TYPE", "READ_BY_TYPE_RSP">> \in Pairs
        /\ <<"FW_VERSION_REQ", "FW_VERSION_RSP">> \in Pairs
    BY DEF Pairs
  <2>6. NoSuccess(toClient) => NoSuccess(toClient')
    BY <2>3, HasAppend DEF OtaTypes, QueueTypes
  <2> QED
    BY <2>1, <2>4, <2>5, <2>6 DEF AskInv
<1>11. CASE OtaLinkLoss
  <2>1. toServer' = <<>> /\ toClient' = <<>>
    BY <1>11 DEF OtaLinkLoss
  <2>2. flow' \notin 4 .. 7
    <3>1. CASE flow # 0 /\ ota.conn = OtaHandle
      BY <1>11, <3>1 DEF OtaLinkLoss, SetResult
    <3>2. CASE ~(flow # 0 /\ ota.conn = OtaHandle)
      BY <1>0, <1>11, <3>2 DEF OtaLinkLoss, FlowInv
    <3> QED
      BY <3>1, <3>2
  <2>3. \A c, r : NotAsked(c, r)'
    BY <2>1 DEF NotAsked, Has
  <2> QED
    BY <2>2, <2>3, AskIdle
<1> QED
  BY <1>1, <1>2, <1>3, <1>4, <1>5, <1>6, <1>7, <1>8, <1>9, <1>10, <1>11 DEF OtaNext

-----------------------------------------------------------------------------
(* While data is sent, what is on its way to the server and what its session
   has taken are the PDUs of this transfer, and a success is the answer to its
   end.                                                                      *)
Whole(n) == [i \in 1 .. n |-> DataPdu(i - 1)]
SentIs(i) ==
  /\ toServer[i].cmd = "START" => i = 1
  /\ toServer[i].cmd = "DATA" => toServer[i] = DataPdu(toServer[i].index)
  /\ toServer[i].cmd = "END" => flow = 10 /\ i = Len(toServer) /\ toServer[i].index = ota.last
SentInv == \A i \in 1 .. Len(toServer) : SentIs(i)
TakenInv ==
  server.open /\ (toServer = <<>> \/ toServer[1].cmd # "START") =>
    \A j \in 1 .. Len(server.pdus) : server.pdus[j] = DataPdu(j - 1)
DoneInv ==
  ~NoSuccess(toClient) =>
    flow = 10 /\ toServer = <<>> /\ server = [open |-> FALSE, pdus |-> Whole(ota.last + 1)]
TransferInv == flow \in 8 .. 10 => SentInv /\ TakenInv /\ DoneInv

(* The firmware is not changed while it is sent. *)
LEMMA SamePdus ==
  ASSUME ota'.addr = ota.addr, ota'.last = ota.last, ota'.valid = ota.valid
  PROVE  \A n : DataPdu(n)' = DataPdu(n)
  BY DEF DataPdu

(* TransferInv depends on the record, the queues, the session and the step *)
LEMMA SameOta ==
  ASSUME TransferInv, flow' = flow, ota' = ota, toServer' = toServer, toClient' = toClient,
         server' = server
  PROVE  TransferInv'
<1>1. \A n : DataPdu(n)' = DataPdu(n)
  BY SamePdus
<1>2. Whole(ota.last + 1)' = Whole(ota.last + 1)
  BY <1>1 DEF Whole
<1> QED
  BY <1>1, <1>2 DEF TransferInv, SentInv, SentIs, TakenInv, DoneInv

(* The client sends the start, a PDU or the end *)
LEMMA TransferStarts ==
  ASSUME OtaTypes, AskInv, Step7OtaStart
  PROVE  TransferInv'
<1> DEFINE m == Message("START")
<1>1. /\ flow = 7 /\ toServer' = Append(toServer, m) /\ toClient' = toClient
  BY DEF Step7OtaStart, Push, Quietly, peerVars
<1>2. m \in ToServer /\ m.cmd = "START"
  BY QuestionTyped
<1> HIDE DEF m
<1>3. toServer = <<>> /\ NoSuccess(toClient)
  BY <1>1 DEF AskInv
<1>4. Len(toServer') = 1 /\ toServer'[1] = m /\ toServer' # <<>>
  BY <1>1, <1>2, <1>3, QueueAppend DEF OtaTypes, QueueTypes
<1>5. SentInv'
  BY <1>2, <1>4 DEF SentInv, SentIs
<1>6. TakenInv'
  BY <1>2, <1>4 DEF TakenInv
<1>7. DoneInv'
  BY <1>1, <1>3 DEF DoneInv
<1> QED
  BY <1>5, <1>6, <1>7 DEF TransferInv

(* One PDU more, or the end, of this transfer *)
LEMMA TransferGrows ==
  ASSUME OtaTypes, TransferInv, flow \in {8, 9}, NEW m \in ToServer,
         toServer' = Append(toServer, m),
         toClient' = toClient, server' = server, m.cmd \in {"DATA", "END"},
         ota'.addr = ota.addr, ota'.last = ota.last, ota'.valid = ota.valid,
         m.cmd = "DATA" => m = DataPdu(m.index),
         m.cmd = "END" => flow' = 10 /\ m.index = ota.last
  PROVE  SentInv' /\ TakenInv' /\ DoneInv'
<1>0. SentInv /\ TakenInv /\ DoneInv /\ toServer \in Seq(ToServer)
  BY DEF TransferInv, OtaTypes, QueueTypes
<1>1. \A n : DataPdu(n)' = DataPdu(n)
  BY SamePdus
<1>2. /\ Len(toServer) \in Nat /\ Len(toServer') = Len(toServer) + 1 /\ toServer' # <<>>
      /\ toServer'[Len(toServer) + 1] = m
      /\ \A i \in 1 .. Len(toServer) : toServer'[i] = toServer[i]
      /\ toServer = <<>> <=> Len(toServer) = 0
  BY <1>0, QueueAppend, QueueDomain
<1>3. ASSUME NEW i \in 1 .. Len(toServer') PROVE SentIs(i)'
  <2>1. CASE i = Len(toServer) + 1
    <3>1. toServer'[i] = m /\ m.cmd # "START" /\ i = Len(toServer')
      BY <1>2, <2>1
    <3>2. m.cmd = "DATA" => m = DataPdu(m.index)'
      BY <1>1
    <3> QED
      BY <3>1, <3>2 DEF SentIs
  <2>2. CASE i \in 1 .. Len(toServer)
    <3>1. toServer'[i] = toServer[i] /\ SentIs(i)
      BY <1>0, <1>2, <2>2 DEF SentInv
    <3>2. toServer[i].cmd # "END"
      BY <3>1 DEF SentIs
    <3>3. DataPdu(toServer[i].index)' = DataPdu(toServer'[i].index)
      BY <1>1, <3>1
    <3> QED
      BY <1>1, <3>1, <3>2 DEF SentIs
  <2> QED
    BY <1>2, <2>1, <2>2
<1>4. SentInv'
  BY <1>3 DEF SentInv
<1>5. TakenInv'
  <2>1. toServer = <<>> \/ toServer'[1] = toServer[1]
    BY <1>2
  <2> QED
    BY <1>0, <1>1, <1>2, <2>1 DEF TakenInv
<1>6. DoneInv'
  BY <1>0 DEF DoneInv
<1> QED
  BY <1>4, <1>5, <1>6

(* The server takes what comes first *)
LEMMA TransferServed ==
  ASSUME OtaTypes, OrderInv, TransferInv, flow \in 8 .. 10, ServerTakes
  PROVE  SentInv' /\ TakenInv' /\ DoneInv'
<1>0. SentInv /\ TakenInv /\ DoneInv /\ toServer \in Seq(ToServer) /\ toClient \in Seq(ToClient)
  BY DEF TransferInv, OtaTypes, QueueTypes
<1>1. /\ toServer # <<>> /\ toServer' = Tail(toServer) /\ toServer[1] \in ToServer
      /\ Served(toServer[1])
  BY ServerServes DEF OrderInv
<1>2. flow' = flow /\ ota' = ota
  BY DEF ServerTakes
<1>3. \A n : DataPdu(n)' = DataPdu(n)
  BY <1>2, SamePdus
<1>4. /\ Len(toServer) \in Nat \ {0} /\ Len(toServer') = Len(toServer) - 1
      /\ \A i \in 1 .. Len(toServer) - 1 : toServer'[i] = toServer[i + 1]
      /\ 1 \in 1 .. Len(toServer)
  BY <1>0, <1>1, QueueTail
<1>5. SentIs(1)
  BY <1>0, <1>4 DEF SentInv
<1>6. ASSUME NEW i \in 1 .. Len(toServer') PROVE SentIs(i)' /\ toServer'[i].cmd # "START"
  <2>1. i + 1 \in 1 .. Len(toServer) /\ toServer'[i] = toServer[i + 1] /\ i + 1 # 1
    BY <1>4
  <2>2. SentIs(i + 1)
    BY <1>0, <2>1 DEF SentInv
  <2>3. toServer'[i].cmd # "START"
    BY <2>1, <2>2 DEF SentIs
  <2>4. (toServer[i].cmd = "DATA" => toServer[i] = DataPdu(toServer[i].index))'
    <3>1. PICK n : n = toServer[i + 1].index
      OBVIOUS
    <3>2. toServer[i + 1].cmd = "DATA" => toServer[i + 1] = DataPdu(n)
      BY <2>2, <3>1 DEF SentIs
    <3>3. DataPdu(n)' = DataPdu(n) /\ toServer'[i].index = n
      BY <1>3, <2>1, <3>1
    <3>4. toServer'[i].cmd = "DATA" => toServer'[i] = DataPdu(n)'
      BY <2>1, <3>2, <3>3
    <3> QED
      BY <3>3, <3>4
  <2>5. toServer'[i].cmd = "END"
         => flow' = 10 /\ i = Len(toServer') /\ toServer'[i].index = ota'.last
    BY <1>2, <1>4, <2>1, <2>2 DEF SentIs
  <2> QED
    BY <2>3, <2>4, <2>5 DEF SentIs
<1>7. PICK m \in ToServer : m = toServer[1] /\ Served(m)
  BY <1>1
<1>8. server \in [open : BOOLEAN, pdus : Seq(DataPdus)] /\ Len(server.pdus) \in Nat
  BY DEF OtaTypes, QueueTypes
<1>9. m.cmd # "START" =>
        (server.open => \A j \in 1 .. Len(server.pdus) : server.pdus[j] = DataPdu(j - 1))
  BY <1>0, <1>7 DEF TakenInv
<1>10. NoSuccess(toClient)
  BY <1>0, <1>1 DEF DoneInv
<1>11. TakenInv'
  <2> SUFFICES ASSUME server'.open, NEW j \in 1 .. Len(server'.pdus)
               PROVE  server'.pdus[j] = DataPdu(j - 1)
    BY <1>3 DEF TakenInv
  <2>1. CASE Answers(m)
    <3>1. server' = server /\ m.cmd # "START"
      BY <2>1 DEF Answers
    <3> QED
      BY <1>9, <3>1
  <2>2. CASE Takes(m)
    <3>1. CASE m.cmd = "START"
      <4>1. server' = [open |-> TRUE, pdus |-> <<>>]
        BY <2>2, <3>1 DEF Takes
      <4> QED
        BY <4>1
    <3>2. CASE m.cmd = "DATA" /\ server.open
      <4>1. m.index = Len(server.pdus) /\ server' = [server EXCEPT !.pdus = Append(@, m)]
        BY <2>2, <3>2 DEF Takes
      <4>2. server'.pdus = Append(server.pdus, m) /\ m \in DataPdus /\ server.pdus \in Seq(DataPdus)
        BY <1>8, <3>2, <4>1, TakenKinds
      <4>3. /\ Len(server'.pdus) = Len(server.pdus) + 1 /\ server'.pdus[Len(server.pdus) + 1] = m
            /\ \A k \in 1 .. Len(server.pdus) : server'.pdus[k] = server.pdus[k]
        BY <4>2, QueueAppend
      <4>4. m = DataPdu(m.index)
        BY <1>5, <1>7, <3>2 DEF SentIs
      <4>5. CASE j = Len(server.pdus) + 1
        <5>1. j - 1 = m.index
          BY <1>8, <4>1, <4>5
        <5> QED
          BY <4>3, <4>4, <4>5, <5>1
      <4>6. CASE j \in 1 .. Len(server.pdus)
        BY <1>9, <3>2, <4>3, <4>6
      <4> QED
        BY <1>8, <4>3, <4>5, <4>6
    <3>3. CASE m.cmd \in {"DATA", "END"} /\ ~server.open /\ server' = server
      BY <3>3
    <3> QED
      BY <2>2, <3>1, <3>2, <3>3 DEF Takes
  <2>3. CASE Concludes(m)
    <3>1. server'.open = FALSE
      BY <1>8, <2>3 DEF Concludes
    <3> QED
      BY <3>1
  <2> QED
    BY <1>7, <2>1, <2>2, <2>3 DEF Served
<1>12. DoneInv'
  <2>1. CASE m.cmd = "END" /\ Concludes(m)
    <3>1. flow = 10 /\ Len(toServer) = 1 /\ m.index = ota.last
      BY <1>5, <1>7, <2>1 DEF SentIs
    <3>2. toServer' = <<>>
      BY <1>0, <1>1, <1>4, <3>1
    <3>3. server.open /\ Len(server.pdus) = ota.last + 1 /\ server' = [server EXCEPT !.open = FALSE]
      BY <2>1, <3>1 DEF Concludes
    <3>4. \A j \in 1 .. Len(server.pdus) : server.pdus[j] = DataPdu(j - 1)
      BY <1>9, <2>1, <3>3
    <3>5. server.pdus = Whole(ota.last + 1)
      BY <1>8, <3>3, <3>4 DEF Whole
    <3>6. server' = [open |-> FALSE, pdus |-> Whole(ota.last + 1)]
      BY <1>8, <3>3, <3>5
    <3>7. Whole(ota.last + 1)' = Whole(ota.last + 1)
      BY <1>2, <1>3 DEF Whole
    <3> QED
      BY <1>2, <3>1, <3>2, <3>6, <3>7 DEF DoneInv
  <2>2. CASE m.cmd # "END"
    <3>1. \/ toClient' = toClient
          \/ \E a \in ToClient : toClient' = Append(toClient, a) /\ ~IsSuccess(a)
      BY <1>7, <2>2, ServedAnswers DEF Pairs
    <3>2. NoSuccess(toClient')
      BY <1>0, <1>10, <3>1, HasAppend
    <3> QED
      BY <3>2 DEF DoneInv
  <2>3. CASE m.cmd = "END" /\ ~Concludes(m)
    <3>1. toClient' = toClient
      BY <1>7, <2>3 DEF Served, Answers
    <3> QED
      BY <1>10, <3>1 DEF DoneInv
  <2> QED
    BY <2>1, <2>2, <2>3
<1> QED
  BY <1>6, <1>11, <1>12 DEF SentInv

(* TransferInv is inductive: before the start is sent nothing is claimed *)
LEMMA TransferStep ==
  ASSUME OtaTypes, FlowInv, OrderInv, AskInv, TransferInv, [OtaNext]_otaVars
  PROVE  TransferInv'
<1>0. ota \in Otas /\ flow \in 0 .. 10 /\ ota.cur \in Nat /\ ota.last \in Nat
  BY DEF OtaTypes, ClientTypes, Otas
<1>1. ASSUME flow' \notin 8 .. 10 PROVE TransferInv'
  BY <1>1 DEF TransferInv
<1>2. CASE KeyTrigger
  <2>1. toServer' = toServer /\ toClient' = toClient /\ server' = server
    BY <1>2 DEF KeyTrigger, peerVars
  <2>2. flow' = 1 \/ (flow' = flow /\ ota' = ota)
    BY <1>2 DEF KeyTrigger
  <2> QED
    BY <1>1, <2>1, <2>2, SameOta
<1>3. CASE OtaTimeout \/ Step1CheckFw \/ Step2UpdateConn \/ Step3ReqOtaHandle \/ Step5ReqFwVersion
  <2>1. flow' \in {0, 2, 3, 4, 6, 7}
    BY <1>3 DEF OtaTimeout, Step1CheckFw, Step2UpdateConn, Step3ReqOtaHandle, Step5ReqFwVersion,
       SetResult
  <2> QED
    BY <1>1, <2>1
<1>4. CASE Step7OtaStart
  BY <1>4, TransferStarts
<1>5. CASE Step8OtaData
  <2>1. flow = 8 /\ server' = server /\ toClient' = toClient
    BY <1>5 DEF Step8OtaData, Quietly, peerVars
  <2>2. CASE MoreData
    <3>1. /\ ota' = [ota EXCEPT !.cur = @ + 1] /\ toServer' = Append(toServer, DataPdu(ota.cur))
      BY <1>5, <2>1, <2>2 DEF Step8OtaData, Push
    <3>2. ota'.addr = ota.addr /\ ota'.last = ota.last /\ ota'.valid = ota.valid
      BY <1>0, <3>1, CurTyped
    <3>3. PICK m \in ToServer : m = DataPdu(ota.cur) /\ m.cmd = "DATA" /\ m.index = ota.cur
      BY <1>0, PduTyped
    <3>4. toServer' = Append(toServer, m) /\ m = DataPdu(m.index)
      BY <3>1, <3>3
    <3> QED
      BY <2>1, <3>2, <3>3, <3>4, TransferGrows DEF TransferInv
  <2>3. CASE ~MoreData
    <3>1. toServer' = toServer /\ ota' = ota
      BY <1>5, <2>3 DEF Step8OtaData
    <3>2. SentInv /\ TakenInv /\ DoneInv
      BY <2>1 DEF TransferInv
    <3>3. NoSuccess(toClient)
      BY <2>1, <3>2 DEF DoneInv
    <3>4. \A n : DataPdu(n)' = DataPdu(n)
      BY <3>1, SamePdus
    <3>5. SentInv'
      <4> SUFFICES ASSUME NEW i \in 1 .. Len(toServer) PROVE SentIs(i)'
        BY <3>1 DEF SentInv
      <4>1. SentIs(i)
        BY <3>2 DEF SentInv
      <4> QED
        BY <2>1, <3>1, <3>4, <4>1 DEF SentIs
    <3>6. TakenInv'
      BY <2>1, <3>1, <3>2, <3>4 DEF TakenInv
    <3>7. DoneInv'
      BY <2>1, <3>3 DEF DoneInv
    <3> QED
      BY <3>5, <3>6, <3>7 DEF TransferInv
  <2> QED
    BY <2>2, <2>3
<1>6. CASE Step9OtaEnd
  <2>1. /\ flow = 9 /\ flow' = 10 /\ server' = server /\ toClient' = toClient /\ ota' = ota
        /\ toServer' = Append(toServer, [cmd |-> "END", index |-> ota.last])
    BY <1>6 DEF Step9OtaEnd, Quietly, peerVars, Push
  <2>2. PICK m \in ToServer :
         m = [cmd |-> "END", index |-> ota.last] /\ m.cmd = "END" /\ m.index = ota.last
    BY <1>0, EndTyped
  <2>3. toServer' = Append(toServer, m)
    BY <2>1, <2>2
  <2> QED
    BY <2>1, <2>2, <2>3, TransferGrows DEF TransferInv
<1>7. CASE OnResponse
  <2>1. toServer' = toServer /\ server' = server /\ toClient # <<>> /\ toClient' = Tail(toClient)
    BY <1>7 DEF OnResponse
  <2>2. flow' \in {0, 5, 7} \/ (flow' = flow /\ ota' = ota)
    BY <1>7 DEF OnResponse, SetResult
  <2>3. CASE flow' = flow /\ ota' = ota /\ flow \in 8 .. 10
    <3>1. SentInv /\ TakenInv /\ DoneInv
      BY <2>3 DEF TransferInv
    <3>2. \A n : DataPdu(n)' = DataPdu(n)
      BY <2>3, SamePdus
    <3>3. Whole(ota.last + 1)' = Whole(ota.last + 1)
      BY <2>3, <3>2 DEF Whole
    <3>4. NoSuccess(toClient) => NoSuccess(toClient')
      BY <2>1, HasTail DEF OtaTypes, QueueTypes
    <3>5. SentInv' /\ TakenInv'
      BY <2>1, <2>3, <3>1, <3>2 DEF SentInv, SentIs, TakenInv
    <3>6. DoneInv'
      BY <2>1, <2>3, <3>1, <3>3, <3>4 DEF DoneInv
    <3> QED
      BY <3>5, <3>6 DEF TransferInv
  <2> QED
    BY <1>1, <2>2, <2>3
<1>8. CASE ServerTakes
  <2>1. flow' = flow
    BY <1>8 DEF ServerTakes
  <2> QED
    BY <1>1, <1>8, <2>1, TransferServed DEF TransferInv
<1>9. CASE ServerGivesUp
  <2>1. /\ flow' = flow /\ ota' = ota /\ toServer' = toServer /\ server' = Closed /\ server.open
        /\ toClient' = Append(toClient, Result("OTA_TIMEOUT"))
    BY <1>9 DEF ServerGivesUp
  <2>2. CASE flow \in 8 .. 10
    <3>1. SentInv /\ TakenInv /\ DoneInv
      BY <2>2 DEF TransferInv
    <3>2. NoSuccess(toClient)
      BY <2>1, <3>1 DEF DoneInv
    <3>3. PICK a \in ToClient : a = Result("OTA_TIMEOUT")
      BY AnswerTyped DEF Results
    <3>4. ~IsSuccess(a) /\ toClient' = Append(toClient, a)
      BY <2>1, <3>3 DEF IsSuccess, Result
    <3>5. NoSuccess(toClient')
      BY <3>2, <3>4, HasAppend DEF OtaTypes, QueueTypes
    <3>6. \A n : DataPdu(n)' = DataPdu(n)
      BY <2>1, SamePdus
    <3>7. SentInv'
      BY <2>1, <3>1, <3>6 DEF SentInv, SentIs
    <3>8. TakenInv'
      BY <2>1 DEF TakenInv, Closed
    <3>9. DoneInv'
      BY <3>5 DEF DoneInv
    <3> QED
      BY <3>7, <3>8, <3>9 DEF TransferInv
  <2> QED
    BY <1>1, <2>1, <2>2
<1>10. CASE OtaLinkLoss
  <2>1. CASE flow # 0 /\ ota.conn = OtaHandle
    BY <1>1, <1>10, <2>1 DEF OtaLinkLoss, SetResult
  <2>2. CASE ~(flow # 0 /\ ota.conn = OtaHandle)
    <3>1. flow' = flow /\ flow < 3
      BY <1>0, <1>10, <2>2 DEF OtaLinkLoss, FlowInv
    <3> QED
      BY <1>1, <3>1
  <2> QED
    BY <2>1, <2>2
<1>11. CASE OtaConnects \/ UNCHANGED otaVars
  <2>1. /\ flow' = flow /\ ota' = ota /\ toServer' = toServer /\ toClient' = toClient
        /\ server' = server
    BY <1>11 DEF OtaConnects, otaVars
  <2> QED
    BY <2>1, SameOta
<1> QED
  BY <1>2, <1>3, <1>4, <1>5, <1>6, <1>7, <1>8, <1>9, <1>10, <1>11 DEF OtaNext

-----------------------------------------------------------------------------
(* The inductive invariant of the transfer *)
OtaInv == OtaTypes /\ FlowInv /\ OrderInv /\ AskInv /\ TransferInv /\ SequenceKept

(* No transfer under way: every part holds *)
LEMMA OtaInvInit == OtaInit => OtaInv
<1> SUFFICES ASSUME OtaInit PROVE OtaInv
  OBVIOUS
<1>1. /\ flow = 0 /\ ota = Reset /\ otaLink = FALSE
      /\ toServer = <<>> /\ toClient = <<>> /\ server = Closed
  BY DEF OtaInit
<1>2. ota \in Otas /\ ota.conn = 0 /\ ota.cur = 0 /\ ota.last = 0 /\ ota.ticking = FALSE
  BY <1>1 DEF Reset, Otas, NoHandle0
<1>3. OtaTypes
  <2>1. ClientTypes
    <3>1. otaLink \in BOOLEAN /\ ota \in Otas
      BY <1>1, <1>2, Zenon
    <3>2. flow \in 0 .. 10
      BY <1>1
    <3> QED
      BY <3>1, <3>2, Zenon DEF ClientTypes
  <2>2. toServer \in Seq(ToServer) /\ toClient \in Seq(ToClient)
    BY <1>1
  <2>3. server \in [open : BOOLEAN, pdus : Seq(DataPdus)]
    BY <1>1, ClosedTyped
  <2> QED
    BY <2>1, <2>2, <2>3 DEF OtaTypes, QueueTypes
<1>4. FlowInv
  <2>1. flow < 8 /\ ~(flow >= 3) /\ flow \notin {9, 10}
    BY <1>1
  <2>2. ota.conn # OtaHandle /\ ota.cur <= ota.last + 1
    BY <1>2 DEF OtaHandle
  <2>3. ~ota.ticking
    BY <1>2
  <2> QED
    BY <1>2, <2>1, <2>2, <2>3 DEF FlowInv
<1>5. OrderInv
  BY <1>1 DEF OrderInv, InSequence
<1>6. AskInv
  BY <1>1 DEF AskInv, NotAsked, Has
<1>7. TransferInv
  BY <1>1 DEF TransferInv
<1>8. SequenceKept
  BY <1>1 DEF SequenceKept
<1> QED
  BY <1>3, <1>4, <1>5, <1>6, <1>7, <1>8 DEF OtaInv

(* The parts are kept together, each from itself and those before it *)
LEMMA OtaInvStep == OtaInv /\ [OtaNext]_otaVars => OtaInv'
<1> SUFFICES ASSUME OtaInv, [OtaNext]_otaVars PROVE OtaInv'
  OBVIOUS
<1>1. OtaTypes /\ FlowInv /\ OrderInv /\ AskInv /\ TransferInv /\ SequenceKept /\ ClientTypes
  BY DEF OtaInv, OtaTypes
<1>2. OtaTypes'
  BY <1>1, ClientTypesStep, QueueTypesStep DEF OtaTypes
<1>3. FlowInv'
  BY <1>1, FlowStep
<1>4. OrderInv' /\ AskInv' /\ TransferInv' /\ SequenceKept'
  BY <1>1, OrderStep, AskStep, TransferStep, KeptStep
<1> QED
  BY <1>2, <1>3, <1>4 DEF OtaInv

(* The server never finds a PDU out of sequence, nor an end before the last one,
   although a transfer that timed out leaves its PDUs on their way and the next
   one starts on the same connection (app_ota_client.c:112, 331-398).        *)
THEOREM PdusInSequence == OtaSpec => []SequenceKept
<1>1. OtaInv => SequenceKept
  BY DEF OtaInv
<1> QED
  BY OtaInvInit, OtaInvStep, <1>1, PTL DEF OtaSpec

(* A success told to the user is the answer to this transfer: the server has
   taken all the PDUs of this firmware and no others, although a success of a
   transfer that timed out may still be on its way when the next one starts
   (app_ota_client.c:201-207).                                               *)
THEOREM SuccessIsOwn == OtaSpec => SuccessIsWhole
<1> DEFINE IsWhole ==
      server = [open |-> FALSE, pdus |-> [i \in 1 .. ota.last + 1 |-> DataPdu(i - 1)]]
<1>1. ASSUME OtaInv, [OtaNext]_otaVars, result' = "OTA_SUCCESS", flow # 0, flow' = 0
      PROVE  IsWhole
  <2>1. CASE OnResponse
    <3>1. toClient # <<>> /\ toClient \in Seq(ToClient)
      BY <1>1, <2>1 DEF OnResponse, OtaInv, OtaTypes, QueueTypes
    <3>2. Head(toClient) = toClient[1] /\ 1 \in 1 .. Len(toClient)
      BY <3>1, QueueTail
    <3>3. toClient[1].cmd = "RESULT" /\ flow = 10 /\ toClient[1].result = "OTA_SUCCESS"
      BY <1>1, <2>1, <3>2 DEF OnResponse, SetResult, ResultAwaited
    <3>4. ~NoSuccess(toClient)
      BY <3>2, <3>3 DEF NoSuccess, IsSuccess
    <3>5. DoneInv
      BY <1>1, <3>3 DEF OtaInv, TransferInv
    <3> QED
      BY <3>4, <3>5 DEF DoneInv, Whole
  <2>2. ~OtaTimeout /\ ~Step1CheckFw
    BY <1>1 DEF OtaTimeout, Step1CheckFw, SetResult
  <2>3. ~OtaLinkLoss
    BY <1>1 DEF OtaLinkLoss, SetResult
  <2>4. /\ ~KeyTrigger /\ ~Step2UpdateConn /\ ~Step3ReqOtaHandle /\ ~Step5ReqFwVersion
        /\ ~Step7OtaStart /\ ~Step8OtaData /\ ~Step9OtaEnd
    BY <1>1 DEF KeyTrigger, Step2UpdateConn, Step3ReqOtaHandle, Step5ReqFwVersion, Step7OtaStart,
       Step8OtaData, Step9OtaEnd
  <2>5. ~ServerTakes /\ ~ServerGivesUp /\ ~OtaConnects /\ ~UNCHANGED otaVars
    BY <1>1 DEF ServerTakes, ServerGivesUp, OtaConnects, otaVars
  <2> QED
    BY <1>1, <2>1, <2>2, <2>3, <2>4, <2>5 DEF OtaNext
<1>2. OtaInv /\ [OtaNext]_otaVars =>
        [result' = "OTA_SUCCESS" /\ flow # 0 /\ flow' = 0 => IsWhole]_otaVars
  BY <1>1
<1> QED
  BY OtaInvInit, OtaInvStep, <1>2, PTL DEF OtaSpec, SuccessIsWhole
=============================================================================
