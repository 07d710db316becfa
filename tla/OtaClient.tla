------------------------------ MODULE OtaClient ------------------------------
(***************************************************************************)
(* vendor/B91_feature/feature_ota/app_ota_client.c, with the call-backs of *)
(* its app.c and the key of its app_ui.c: a master sends the firmware of   *)
(* another device from its own flash to that device.                       *)
(*                                                                         *)
(* The server, the link and the sending FIFO are not in the repository.    *)
(* The link keeps the order and loses nothing but when it ends.  The       *)
(* server opens a session with CMD_OTA_START, takes data PDUs in the order *)
(* of their indexes, gives one result per session and may give up at any   *)
(* moment.  The time-out of 100 s may end anywhere: the link may be slow.  *)
(***************************************************************************)
EXTENDS Integers, Sequences

CONSTANTS
  OTA_PDU_LENGTH,  \* bytes of firmware in a PDU: 16 or 240
  ALIGNMENT,       \* the last PDU is made up to a multiple of 16 bytes
  FW_SIZE_MIN, FW_SIZE_MAX,
  TX_FIFO_LIMIT,   \* ACL_MASTER_TX_FIFO_NUM - 4
  OtaBuilds,       \* values of OTA_FW_VERSION_EXCHANGE_ENABLE, .._COMPARE_ENABLE
  NewFwAddrs,      \* NEW_FW_ADDR0, NEW_FW_ADDR1
  FwSizes,         \* sizes found in the header of a firmware
  MaxOtas          \* Bound of the model: times the key is pressed

ASSUME OtaAssumption ==
  /\ {OTA_PDU_LENGTH, ALIGNMENT, TX_FIFO_LIMIT} \subseteq Nat \ {0}
  /\ OTA_PDU_LENGTH % ALIGNMENT = 0
  /\ {FW_SIZE_MIN, FW_SIZE_MAX, MaxOtas} \subseteq Nat /\ FwSizes \subseteq Nat
  /\ OtaBuilds \subseteq [exchange : BOOLEAN, compare : BOOLEAN]
  /\ 0 \notin NewFwAddrs

VARIABLES
  flow,      \* ota_update_flow: 0 .. 10
  ota,       \* ota_connHandle, ota_new_fw_addr, cur_adr_index, last_adr_index,
             \* last_valid_pdu_len; ota_start_tick is set
  fwSize,    \* firmware_size
  otaLink,   \* the connection of conn_dev_list[0] is up
  toServer,  \* write commands and requests on their way
  toClient,  \* responses and notifications on their way
  server,    \* its session: open, and the data PDUs it took
  result,    \* the last result told to the user
  otaBuild,  \* options of the build
  otas       \* times the key was pressed

otaVars == <<flow, ota, fwSize, otaLink, toServer, toClient, server, result, otaBuild, otas>>
peerVars == <<otaLink, toClient, server>>

NoHandle0 == 0
OtaHandle == 1
Reset == [conn |-> NoHandle0, addr |-> 0, cur |-> 0, last |-> 0, valid |-> 0, ticking |-> FALSE]

(* app_ota_reset, app_ota_set_result; the lengths are left as they are. *)
ResetKeepsIndex(o) == [Reset EXCEPT !.last = o.last, !.valid = o.valid, !.cur = o.cur]  \* mutant
ResetOf(o) == [Reset EXCEPT !.last = o.last, !.valid = o.valid]
SetResult(r) == flow' = 0 /\ ota' = ResetOf(ota) /\ result' = r

-----------------------------------------------------------------------------
(* app_key_trigger_ota_start for conn_dev_list[0], when there is a connection as
   master; it may be in another slot, and then the handle is 0.            *)
KeyTrigger ==
  /\ otas < MaxOtas /\ otas' = otas + 1
  /\ IF flow = 0
     THEN /\ flow' = 1
          /\ \E addr \in NewFwAddrs :
               ota' = [ota EXCEPT !.conn = IF otaLink THEN OtaHandle ELSE NoHandle0, !.addr = addr]
     ELSE UNCHANGED <<flow, ota>>
  /\ UNCHANGED <<fwSize, peerVars, toServer, result, otaBuild>>

(* app_proc_ota_update looks at the time-out before the step. *)
OtaTimeout ==
  /\ flow # 0 /\ ota.ticking
  /\ SetResult("OTA_TIMEOUT")
  /\ UNCHANGED <<fwSize, peerVars, toServer, otaBuild, otas>>

LastValid(size) == IF size % OTA_PDU_LENGTH = 0 THEN OTA_PDU_LENGTH ELSE size % OTA_PDU_LENGTH
Step1CheckFw ==
  /\ flow = 1
  /\ \E size \in FwSizes :
       /\ fwSize' = size
       /\ \/ size \notin FW_SIZE_MIN .. FW_SIZE_MAX /\ SetResult("OTA_FW_SIZE_ERR")
          \/ /\ size \in FW_SIZE_MIN .. FW_SIZE_MAX
             /\ ota' = [ota EXCEPT !.last = size \div OTA_PDU_LENGTH, !.valid = LastValid(size)]
             /\ flow' = 2 /\ UNCHANGED result
  /\ UNCHANGED <<peerVars, toServer, otaBuild, otas>>

(* Commands succeed on the connection only while it is there. *)
Succeeds == otaLink /\ ota.conn = OtaHandle
Message(cmd) == [cmd |-> cmd]
Push(msg) == Succeeds /\ toServer' = Append(toServer, msg)
Quietly == UNCHANGED <<fwSize, peerVars, result, otaBuild, otas>>

Step2UpdateConn ==
  /\ flow = 2 /\ Succeeds /\ flow' = 3
  /\ UNCHANGED <<ota, toServer>> /\ Quietly

Step3ReqOtaHandle ==
  /\ flow = 3 /\ Push(Message("READ_BY_TYPE")) /\ flow' = 4
  /\ UNCHANGED ota /\ Quietly

Step5ReqFwVersion ==
  /\ flow = 5
  /\ \/ otaBuild.exchange /\ Push(Message("FW_VERSION_REQ")) /\ flow' = 6
     \/ ~otaBuild.exchange /\ flow' = 7 /\ UNCHANGED toServer
  /\ UNCHANGED ota /\ Quietly

Step7OtaStart ==
  /\ flow = 7 /\ Push(Message("START")) /\ flow' = 8
  /\ ota' = [ota EXCEPT !.ticking = TRUE]
  /\ Quietly

(* One data PDU a pass: what is read from flash, and what is made up with 0xFF *)
MakeUp(valid) == ALIGNMENT - (valid % ALIGNMENT)
DataPdu(n) ==
  [cmd |-> "DATA", index |-> n, addr |-> ota.addr,
   valid |-> IF n = ota.last THEN ota.valid ELSE OTA_PDU_LENGTH,
   makeup |-> IF n = ota.last THEN MakeUp(ota.valid) ELSE 0]

MoreData == ota.cur <= ota.last
Step8OtaData ==
  /\ flow = 8 /\ Len(toServer) < TX_FIFO_LIMIT
  /\ \/ /\ MoreData /\ Push(DataPdu(ota.cur)) /\ ota' = [ota EXCEPT !.cur = @ + 1]
        /\ UNCHANGED flow
     \/ ~MoreData /\ flow' = 9 /\ UNCHANGED <<ota, toServer>>
  /\ Quietly

Step9OtaEnd ==
  /\ flow = 9 /\ Push([cmd |-> "END", index |-> ota.last]) /\ flow' = 10
  /\ UNCHANGED ota /\ Quietly

-----------------------------------------------------------------------------
(* app_gatt_data_handler: what comes from the server, in the step that waits for
   it and in no other                                                      *)
ResultAnyStep(step) == flow # 0  \* mutant
ResultAwaited(step) == flow = 10
OnResponse ==
  /\ toClient # <<>> /\ toClient' = Tail(toClient)
  /\ LET m == Head(toClient) IN
     \/ m.cmd = "READ_BY_TYPE_RSP" /\ flow = 4 /\ flow' = 5 /\ UNCHANGED <<ota, result>>
     \/ /\ m.cmd = "FW_VERSION_RSP" /\ flow = 6
        /\ \/ otaBuild.compare /\ ~m.accept /\ SetResult("OTA_VERSION_COMPARE_ERR")
           \/ ~(otaBuild.compare /\ ~m.accept) /\ flow' = 7 /\ UNCHANGED <<ota, result>>
     \/ m.cmd = "RESULT" /\ ResultAwaited(flow) /\ SetResult(m.result)
     \/ /\ \/ m.cmd = "READ_BY_TYPE_RSP" /\ flow # 4
           \/ m.cmd = "FW_VERSION_RSP" /\ flow # 6
           \/ m.cmd = "RESULT" /\ ~ResultAwaited(flow)
        /\ UNCHANGED <<flow, ota, result>>
  /\ UNCHANGED <<fwSize, otaLink, toServer, server, otaBuild, otas>>

-----------------------------------------------------------------------------
(* The server *)
Closed == [open |-> FALSE, pdus |-> <<>>]
Result(r) == [cmd |-> "RESULT", result |-> r]
Complete(m) == Len(server.pdus) = m.index + 1

ServerTakes ==
  /\ toServer # <<>> /\ toServer' = Tail(toServer)
  /\ LET m == Head(toServer) IN
     \/ /\ m.cmd = "READ_BY_TYPE"
        /\ toClient' = Append(toClient, Message("READ_BY_TYPE_RSP")) /\ UNCHANGED server
     \/ /\ m.cmd = "FW_VERSION_REQ" /\ UNCHANGED server
        /\ \E accept \in BOOLEAN :
             toClient' = Append(toClient, [cmd |-> "FW_VERSION_RSP", accept |-> accept])
     \/ m.cmd = "START" /\ server' = [open |-> TRUE, pdus |-> <<>>] /\ UNCHANGED toClient
     \/ /\ m.cmd = "DATA" /\ server.open /\ m.index = Len(server.pdus)
        /\ server' = [server EXCEPT !.pdus = Append(@, m)] /\ UNCHANGED toClient
     \/ /\ m.cmd = "DATA" /\ server.open /\ m.index # Len(server.pdus)
        /\ server' = Closed /\ toClient' = Append(toClient, Result("OTA_DATA_PACKET_SEQ_ERR"))
     \/ /\ m.cmd = "END" /\ server.open
        /\ server' = [server EXCEPT !.open = FALSE]
        /\ toClient' = Append(toClient,
             Result(IF Complete(m) THEN "OTA_SUCCESS" ELSE "OTA_DATA_UNCOMPLETE"))
     \/ m.cmd \in {"DATA", "END"} /\ ~server.open /\ UNCHANGED <<server, toClient>>
  /\ UNCHANGED <<flow, ota, fwSize, otaLink, result, otaBuild, otas>>

ServerGivesUp ==
  /\ server.open /\ server' = Closed
  /\ toClient' = Append(toClient, Result("OTA_TIMEOUT"))
  /\ UNCHANGED <<flow, ota, fwSize, otaLink, toServer, result, otaBuild, otas>>

-----------------------------------------------------------------------------
(* app_process_ota_connection_terminate *)
OtaLinkLoss ==
  /\ otaLink /\ otaLink' = FALSE
  /\ toServer' = <<>> /\ toClient' = <<>> /\ server' = Closed
  /\ IF flow # 0 /\ ota.conn = OtaHandle THEN SetResult("OTA_FAIL_DUE_TO_CONNECTION_TERMIANTE")
     ELSE UNCHANGED <<flow, ota, result>>
  /\ UNCHANGED <<fwSize, otaBuild, otas>>

OtaConnects ==
  /\ ~otaLink /\ otas < MaxOtas /\ otaLink' = TRUE
  /\ UNCHANGED <<flow, ota, fwSize, toServer, toClient, server, result, otaBuild, otas>>

OtaInit ==
  /\ flow = 0 /\ ota = Reset /\ fwSize = 0 /\ otaLink = FALSE
  /\ toServer = <<>> /\ toClient = <<>> /\ server = Closed
  /\ result = "none" /\ otaBuild \in OtaBuilds /\ otas = 0

OtaNext ==
  \/ KeyTrigger \/ OtaTimeout \/ Step1CheckFw \/ Step2UpdateConn \/ Step3ReqOtaHandle
  \/ Step5ReqFwVersion \/ Step7OtaStart \/ Step8OtaData \/ Step9OtaEnd
  \/ OnResponse \/ ServerTakes \/ ServerGivesUp \/ OtaLinkLoss \/ OtaConnects

OtaSpec == OtaInit /\ [][OtaNext]_otaVars

-----------------------------------------------------------------------------
(* The server never finds a PDU out of sequence, nor an end before the last
   one, although an OTA that timed out leaves its PDUs on the way and the next
   one starts on the same connection (app_ota_client.c:112, 331-398).      *)
SequenceKept ==
  \A i \in DOMAIN toClient :
    toClient[i].cmd = "RESULT" =>
      toClient[i].result \notin {"OTA_DATA_PACKET_SEQ_ERR", "OTA_DATA_UNCOMPLETE"}

(* A success told to the user is that of this OTA: the server has the PDUs of
   this firmware, all of them, and not those of an OTA that timed out before
   (app_ota_client.c:201-207).                                             *)
SuccessIsWhole ==
  [][ result' = "OTA_SUCCESS" /\ flow # 0 /\ flow' = 0 =>
        server = [open |-> FALSE, pdus |-> [i \in 1 .. ota.last + 1 |-> DataPdu(i - 1)]] ]_otaVars

(* "send OTA data form address 0 ~ firmware_size": no PDU holds a byte behind
   the firmware, and the last one only what makes up the alignment.  The code
   does not keep this for some sizes.                                      *)
DataIsFirmware ==
  [][ Step8OtaData /\ MoreData =>
        LET pdu == DataPdu(ota.cur)
        IN /\ pdu.index * OTA_PDU_LENGTH + pdu.valid <= fwSize
           /\ pdu.makeup < ALIGNMENT ]_otaVars
=============================================================================
