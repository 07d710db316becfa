----------------------------- MODULE ConnManager -----------------------------
(***************************************************************************)
(* The host application of the multiple-connection demo (vendor/B91_demo/  *)
(* app.c and app_ui.c, vendor/common/simple_sdp.c): what it does with the  *)
(* connections the controller reports.  One thread runs main_loop: the     *)
(* stack's loop delivers events to the callbacks, then the keyboard is     *)
(* scanned, then a pending un_pair is carried out, then a registered       *)
(* service discovery is run.  The discovery waits for ATT responses by     *)
(* running the first three again inside itself, so every callback may run  *)
(* between two steps of it.                                                *)
(*                                                                         *)
(* The controller and the link are a closed library: they are modelled by  *)
(* what this code may see of them, a FIFO of events and a status for each  *)
(* command.                                                                *)
(***************************************************************************)
EXTENDS DeviceManage, Sequences

CONSTANTS
  SmpEnable,                \* BLE_MASTER_SMP_ENABLE
  USER_PAIR_SLAVE_MAX_NUM,  \* bonds kept when SMP is off
  Keys,                     \* keys of the board that are pressed
  DrainsEvents,             \* a pass of the stack's loop delivers all that is waiting
  ATT_DB_UUID16_NUM,        \* characteristics a discovery has room for
  LowBits,                  \* the low three bits of the controller's handles
  UnaskedAnswers,           \* peers also send ATT responses no discovery asked for
  MaxEvents                 \* bound: events waiting in the controller

ASSUME ConnAssumption ==
  /\ SmpEnable \in BOOLEAN
  /\ DrainsEvents \in BOOLEAN
  /\ USER_PAIR_SLAVE_MAX_NUM \in Nat \ {0}
  /\ Keys \subseteq {"pair", "unpair", "volume"}
  /\ ATT_DB_UUID16_NUM \in Nat
  /\ LowBits \in [MasterHandles \cup {NoHandle} -> 0 .. 7] /\ LowBits[NoHandle] = 0
  /\ UnaskedAnswers \in BOOLEAN
  /\ MaxEvents \in Nat \ {0}

VARIABLES
  master_smp_pending,       \* handle whose security process is running, or 0
  master_sdp_pending,       \* handle marked for service discovery, or 0
  main_service,             \* the discovery is registered with the main loop
  cur_sdp_device,           \* handle and peer of the last master connection
  master_pairing_enable,    \* the pair key is held
  master_unpair_enable,     \* handle the un_pair key chose, or 0
  master_disconnect_connhandle, \* handle in the un_pair disconnection flow, or 0
  manual_pair,              \* blm_manPair: peer being paired by hand, or NoPeer
  bonded,                   \* peers whose bond is stored
  att_flash,                \* per peer, whose ATT handles are stored, or NoPeer
  loop,                     \* where the main loop is
  discovery,                \* the running app_service_discovery
  host_att_req_busy,        \* low half: handle whose ATT response is awaited, or 0
  host_att_req_op,          \* its high half: the request sent, or "none"
  p_att_response,           \* the response buffer's address is set (never unset)
  keys,                     \* keys the last scan saw
  key_type,                 \* what the last single key press was
  link,                     \* controller: peer of each live connection
  requested,                \* controller: peer of a create connection just accepted
  initiating,               \* controller: peer a connection is being created to
  securing,                 \* stack: connections whose security process runs
  evq,                      \* controller: events not yet delivered
  att_request               \* peer: connection with an unanswered request, or 0

pendVars == <<master_smp_pending, master_sdp_pending, cur_sdp_device>>
uiVars   == <<master_pairing_enable, master_unpair_enable, keys, key_type>>
reqVars  == <<host_att_req_busy, host_att_req_op, p_att_response>>
sdpVars  == <<main_service, discovery, reqVars>>
storeVars == <<bonded, att_flash>>
ctlVars  == <<link, requested, initiating, evq, att_request>>
vars == <<devVars, pendVars, uiVars, sdpVars, storeVars, ctlVars,
          master_disconnect_connhandle, manual_pair, loop, securing>>

-----------------------------------------------------------------------------

MasterHandleOrNone == MasterHandles \cup {NoHandle}

AdvEvent(p)     == [type |-> "adv",  handle |-> NoHandle, peer |-> p]
ConnEvent(h, p) == [type |-> "conn", handle |-> h, peer |-> p]
DiscEvent(h)    == [type |-> "disc", handle |-> h, peer |-> NoPeer]
AttEvent(h, p)  == [type |-> "att",  handle |-> h, peer |-> p]

Events == UNION {{AdvEvent(p) : p \in Peers},
                 {ConnEvent(h, p) : h \in Handles, p \in Peers},
                 {DiscEvent(h) : h \in Handles},
                 {AttEvent(h, p) : h \in MasterHandles, p \in PeersOrNone}}

(* The requests of a discovery: READ_BY_TYPE, FIND_INFO and READ.  A response
   is an error or has the request's opcode | 1, which has its name here.     *)
Requests   == {"type", "info", "read"}
AttOpcodes == Requests \cup {"error"}

(* The discovery that is running: the handle it was started with, the response
   its buffer holds, the HID reports it has yet to ask about, the peer whose
   responses it has read, and whether the second it gives the outstanding
   request has passed.                                                      *)
Discoveries == [handle : MasterHandleOrNone, rsp : AttOpcodes \cup {"none"},
                reports : 0 .. ATT_DB_UUID16_NUM, source : PeersOrNone, expired : BOOLEAN]
NoDiscovery == [handle |-> NoHandle, rsp |-> "none", reports |-> 0, source |-> NoPeer,
                expired |-> FALSE]
Discovering == discovery.handle # NoHandle

Init ==
  /\ DevInit
  /\ master_smp_pending = NoHandle
  /\ master_sdp_pending = NoHandle
  /\ main_service = FALSE
  /\ cur_sdp_device = [conn_handle |-> NoHandle, peer |-> NoPeer]
  /\ master_pairing_enable = FALSE
  /\ master_unpair_enable = NoHandle
  /\ master_disconnect_connhandle = NoHandle
  /\ manual_pair = NoPeer
  /\ bonded = {}
  /\ att_flash = [p \in Peers |-> NoPeer]
  /\ loop = "stack"
  /\ discovery = NoDiscovery
  /\ host_att_req_busy = NoHandle /\ host_att_req_op = "none"
  /\ p_att_response = FALSE
  /\ keys = {}
  /\ key_type = "none"
  /\ link = [h \in Handles |-> NoPeer]
  /\ requested = NoPeer
  /\ initiating = NoPeer
  /\ securing = {}
  /\ evq = <<>>
  /\ att_request = NoHandle

-----------------------------------------------------------------------------
(* The controller and the peers. *)

Linked(p) == \E h \in Handles : link[h] = p
Initiating == requested # NoPeer \/ initiating # NoPeer
Room == Len(evq) < MaxEvents
Enqueue(e) == Room /\ evq' = Append(evq, e)

(* An advertising packet of a peer is received; none is reported while the
   controller is initiating (comment in app_le_adv_report_event_handle).   *)
Advertise(p) ==
  /\ ~Initiating /\ ~Linked(p)
  /\ Enqueue(AdvEvent(p))
  /\ UNCHANGED <<devVars, pendVars, uiVars, sdpVars, storeVars, link, requested, initiating,
                 att_request, master_disconnect_connhandle, manual_pair, loop, securing>>

(* The connection the host asked for is established; this takes air time, so
   never within the round of the main loop that asked for it.              *)
EstablishMaster(h) ==
  /\ initiating # NoPeer /\ ~Linked(initiating)
  /\ h \in MasterHandles /\ link[h] = NoPeer
  /\ link' = [link EXCEPT ![h] = initiating]
  /\ Enqueue(ConnEvent(h, initiating))
  /\ initiating' = NoPeer
  /\ UNCHANGED <<devVars, pendVars, uiVars, sdpVars, storeVars, requested, att_request,
                 master_disconnect_connhandle, manual_pair, loop, securing>>

(* A central connects to this device's advertising. *)
EstablishSlave(h, p) ==
  /\ ~Linked(p) /\ h \in SlaveHandles /\ link[h] = NoPeer
  /\ link' = [link EXCEPT ![h] = p]
  /\ Enqueue(ConnEvent(h, p))
  /\ UNCHANGED <<devVars, pendVars, uiVars, sdpVars, storeVars, requested, initiating, att_request,
                 master_disconnect_connhandle, manual_pair, loop, securing>>

(* A link ends: supervision timeout, the peer's or the host's request. *)
LinkLoss(h) ==
  /\ link[h] # NoPeer
  /\ link' = [link EXCEPT ![h] = NoPeer]
  /\ Enqueue(DiscEvent(h))
  /\ att_request' = IF att_request = h THEN NoHandle ELSE att_request
  /\ UNCHANGED <<devVars, pendVars, uiVars, sdpVars, storeVars, requested, initiating,
                 master_disconnect_connhandle, manual_pair, loop, securing>>

(* A peer answers the ATT request it received.  With UnaskedAnswers it may
   also respond to what no discovery asked, such as a request of the stack's
   own.                                                                     *)
AnswerAtt(h) ==
  /\ h = att_request \/ UnaskedAnswers
  /\ link[h] # NoPeer
  /\ Enqueue(AttEvent(h, link[h]))
  /\ att_request' = IF att_request = h THEN NoHandle ELSE att_request
  /\ UNCHANGED <<devVars, pendVars, uiVars, sdpVars, storeVars, link, requested, initiating,
                 master_disconnect_connhandle, manual_pair, loop, securing>>

(* The stack's security process of a master connection ends: the stack has
   stored the bond and reports GAP_EVT_SMP_SECURITY_PROCESS_DONE.          *)
SecurityDone(h) ==
  /\ loop = "stack" /\ h \in securing /\ link[h] # NoPeer
  /\ securing' = securing \ {h}
  /\ bonded' = bonded \cup {link[h]}
  /\ IF IsMaster(h)
     THEN /\ master_smp_pending' = IF SmpEnable /\ master_smp_pending = h
                                   THEN NoHandle ELSE master_smp_pending
          /\ main_service' = (main_service \/ master_sdp_pending = h)
     ELSE UNCHANGED <<master_smp_pending, main_service>>
  /\ UNCHANGED <<devVars, master_sdp_pending, cur_sdp_device, uiVars, discovery,
                 reqVars, att_flash, ctlVars, master_disconnect_connhandle,
                 manual_pair, loop>>

(* The security process fails: GAP_EVT_SMP_PAIRING_FAIL. *)
PairingFail(h) ==
  /\ loop = "stack" /\ h \in securing /\ link[h] # NoPeer
  /\ securing' = securing \ {h}
  /\ master_smp_pending' = IF SmpEnable /\ IsMaster(h) /\ master_smp_pending = h
                           THEN NoHandle ELSE master_smp_pending
  /\ UNCHANGED <<devVars, master_sdp_pending, cur_sdp_device, uiVars, sdpVars, storeVars,
                 ctlVars, master_disconnect_connhandle, manual_pair, loop>>

-----------------------------------------------------------------------------
(* app_controller_event_callback and app_gatt_data_handler: the handlers of
   the events blc_sdk_main_loop delivers, in the order of the FIFO.        *)

Deliver(type) ==
  /\ loop = "stack" /\ evq # <<>> /\ Head(evq).type = type
  /\ evq' = Tail(evq)
  /\ UNCHANGED loop

(* Mutants: the two pending marks are each forgotten. *)
ConnectionBusyNoSmp ==
  master_sdp_pending # NoHandle \/ master_disconnect_connhandle # NoHandle
ConnectionBusyNoSdp ==
  \/ SmpEnable /\ master_smp_pending # NoHandle
  \/ master_disconnect_connhandle # NoHandle

(* What stops the handler from creating a connection at once. *)
ConnectionBusy ==
  \/ SmpEnable /\ master_smp_pending # NoHandle
  \/ master_sdp_pending # NoHandle
  \/ master_disconnect_connhandle # NoHandle

(* app_le_adv_report_event_handle.  near is the RSSI test, accepted whether
   the controller takes the create connection command: it may refuse it, and
   does when it is initiating, the peer is connected or no handle is left. *)
OnAdvReport ==
  /\ Deliver("adv")
  /\ \E near, accepted \in BOOLEAN :
       LET p       == Head(evq).peer
           auto    == p \in bonded
           manual  == master_pairing_enable /\ near
           request == ~ConnectionBusy /\ (auto \/ manual)
       IN  /\ accepted => /\ request
                          /\ ~Initiating /\ ~Linked(p)
                          /\ \E h \in MasterHandles : link[h] = NoPeer
           /\ requested' = IF accepted THEN p ELSE requested
           /\ manual_pair' = IF accepted /\ ~SmpEnable /\ manual /\ ~auto
                             THEN p ELSE manual_pair
  /\ UNCHANGED <<devVars, pendVars, uiVars, sdpVars, storeVars, link, initiating, att_request,
                 master_disconnect_connhandle, securing>>

(* What user_tbl_slave_mac_add leaves of the bonds: a full table first drops
   its oldest, and the add fails when the flash sector is used up.         *)
BondTableAdd(b, p) ==
  LET kept == IF Cardinality(b) >= USER_PAIR_SLAVE_MAX_NUM THEN {b \ {q} : q \in b} ELSE {b}
  IN  kept \cup {k \cup {p} : k \in kept}

(* app_le_connection_complete_event_handle, slave role: only the list. *)
OnConnCompleteSlave ==
  /\ Deliver("conn")
  /\ LET e == Head(evq)
     IN  /\ e.handle \in SlaveHandles
         /\ InsertByConnEvent(e.handle, "slave", e.peer)
  /\ UNCHANGED <<pendVars, uiVars, sdpVars, storeVars, link, requested, initiating,
                 att_request, master_disconnect_connhandle, manual_pair, securing>>

(* The same handler, master role: SMP is marked pending (or a manual pairing
   becomes a bond), then the stored ATT handles are added to the list or SDP
   is marked pending and, without SMP, registered.                         *)
OnConnCompleteMaster ==
  /\ Deliver("conn")
  /\ LET e == Head(evq)
         stored == att_flash[e.peer] # NoPeer
     IN  /\ e.handle \in MasterHandles
         /\ IF SmpEnable
            THEN /\ master_smp_pending' = e.handle
                 /\ securing' = securing \cup {e.handle}
                 /\ UNCHANGED <<bonded, manual_pair>>
            ELSE /\ IF manual_pair = e.peer
                    THEN manual_pair' = NoPeer /\ bonded' \in BondTableAdd(bonded, e.peer)
                    ELSE UNCHANGED <<manual_pair, bonded>>
                 /\ UNCHANGED <<master_smp_pending, securing>>
         /\ cur_sdp_device' = [conn_handle |-> e.handle, peer |-> e.peer]
         /\ IF stored
            THEN /\ InsertWithAttHandle(e.handle, e.peer, att_flash[e.peer])
                 /\ UNCHANGED <<master_sdp_pending, main_service>>
            ELSE /\ InsertByConnEvent(e.handle, "master", e.peer)
                 /\ master_sdp_pending' = e.handle
                 /\ main_service' = (main_service \/ ~SmpEnable)
  /\ UNCHANGED <<uiVars, discovery, reqVars, att_flash, link, requested, initiating,
                 att_request, master_disconnect_connhandle>>

ClearMarkNever(mark, h) == mark  \* mutant: the mark outlives the connection

ClearMark(mark, h) == IF mark = h THEN NoHandle ELSE mark

(* app_disconnect_event_handle. *)
OnDisconnect ==
  /\ Deliver("disc")
  /\ LET h == Head(evq).handle
     IN  /\ master_smp_pending' = IF SmpEnable THEN ClearMark(master_smp_pending, h)
                                  ELSE master_smp_pending
         /\ master_sdp_pending' = ClearMark(master_sdp_pending, h)
         /\ master_disconnect_connhandle' = ClearMark(master_disconnect_connhandle, h)
         /\ DeleteByConnhandle(h)
         /\ securing' = securing \ {h}
  /\ UNCHANGED <<cur_sdp_device, uiVars, sdpVars, storeVars, link, requested, initiating,
                 att_request, manual_pair>>

(* Mutant: the connection need not be the one in discovery. *)
ResponseTakenAnyTime(h, opcode) ==
  /\ IsMaster(h) /\ p_att_response
  /\ LowBits[h] = LowBits[host_att_req_busy]
  /\ opcode \in {"error", host_att_req_op}

(* app_gatt_data_handler and host_att_client_handler: a response is copied to
   the buffer of the last request when its connection is the one marked
   pending, the low bits of its handle are those of the word host_att_req_busy,
   and it is an error or the response to the request in that word.  The word
   may be 0, and the pointer outlives the discovery whose stack frame holds
   the buffer.                                                               *)
ResponseTaken(h, opcode) ==
  /\ IsMaster(h) /\ master_sdp_pending = h
  /\ p_att_response
  /\ LowBits[h] = LowBits[host_att_req_busy]
  /\ opcode \in {"error", host_att_req_op}

(* What the discovery finds in its buffer; its handles are those of the peer
   it first had a response from.                                            *)
Copied(opcode, p) ==
  [discovery EXCEPT !.rsp = opcode, !.source = IF @ = NoPeer THEN p ELSE @]

(* The opcode is the peer's: an error, the response asked for or another. *)
OnAttData ==
  /\ Deliver("att")
  /\ \E opcode \in AttOpcodes :
       LET e == Head(evq)
           taken == ResponseTaken(e.handle, opcode)
       IN  /\ host_att_req_busy' = IF taken THEN NoHandle ELSE host_att_req_busy
           /\ host_att_req_op' = IF taken THEN "none" ELSE host_att_req_op
           /\ discovery' = IF taken /\ Discovering THEN Copied(opcode, e.peer) ELSE discovery
  /\ UNCHANGED <<devVars, pendVars, uiVars, main_service, p_att_response, storeVars, link,
                 requested, initiating, att_request, master_disconnect_connhandle, manual_pair,
                 securing>>

(* blc_sdk_main_loop returns. *)
StackReturns ==
  /\ loop = "stack" /\ loop' = "keyboard"
  /\ DrainsEvents => evq = <<>>
  /\ UNCHANGED <<devVars, pendVars, uiVars, sdpVars, storeVars, ctlVars,
                 master_disconnect_connhandle, manual_pair, securing>>

-----------------------------------------------------------------------------
(* proc_keyboard and key_change_proc: a scan reports the keys that are down
   when they changed.  Two keys at once do nothing.                        *)

(* Mutant: a second un_pair is accepted during the first. *)
ChosenForUnpairAnyTime ==
  IF Used(MasterSlots) # {}
  THEN conn_dev_list[Least(Used(MasterSlots))].conn_handle
  ELSE master_unpair_enable

(* The un_pair key takes the first connected master slot, unless an un_pair
   disconnection is running.                                               *)
ChosenForUnpair ==
  IF conn_master_num # 0 /\ master_disconnect_connhandle = NoHandle /\ Used(MasterSlots) # {}
  THEN conn_dev_list[Least(Used(MasterSlots))].conn_handle
  ELSE master_unpair_enable

KeyScan(K) ==
  /\ loop = "keyboard" /\ loop' = "unpair"
  /\ keys' = K
  /\ UNCHANGED <<devVars, pendVars, sdpVars, storeVars, ctlVars, master_disconnect_connhandle,
                 manual_pair, securing>>

(* Nothing changed, or two keys are down. *)
KeysIgnored ==
  /\ \E K \in SUBSET Keys : KeyScan(K) /\ (K = keys \/ Cardinality(K) = 2)
  /\ UNCHANGED <<key_type, master_pairing_enable, master_unpair_enable>>

PressVolume ==
  /\ keys # {"volume"} /\ "volume" \in Keys /\ KeyScan({"volume"})
  /\ key_type' = "consumer"
  /\ UNCHANGED <<master_pairing_enable, master_unpair_enable>>

PressPair ==
  /\ keys # {"pair"} /\ "pair" \in Keys /\ KeyScan({"pair"})
  /\ key_type' = "pair_unpair"
  /\ master_pairing_enable' = TRUE
  /\ UNCHANGED master_unpair_enable

PressUnpair ==
  /\ keys # {"unpair"} /\ "unpair" \in Keys /\ KeyScan({"unpair"})
  /\ key_type' = "pair_unpair"
  /\ master_unpair_enable' = ChosenForUnpair
  /\ UNCHANGED master_pairing_enable

(* No key, or more than two, which the last branch takes for a release of the
   key that was last pressed alone.                                        *)
ReleaseKeys ==
  /\ \E K \in SUBSET Keys : KeyScan(K) /\ K # keys /\ Cardinality(K) \notin {1, 2}
  /\ IF key_type = "pair_unpair"
     THEN master_pairing_enable' = FALSE /\ master_unpair_enable' = NoHandle
     ELSE UNCHANGED <<master_pairing_enable, master_unpair_enable>>
  /\ UNCHANGED key_type

(* proc_master_role_unpair.  A manual pairing is given two seconds.  Then the
   chosen connection, if it is still in the list, is disconnected and, when
   the controller takes the command, the peer's stored ATT handles and bond
   are deleted; a refused command is tried again in the next pass.         *)
ProcUnpair ==
  /\ loop = "unpair" /\ loop' = "service"
  /\ manual_pair' \in IF SmpEnable THEN {manual_pair} ELSE {manual_pair, NoPeer}
  /\ LET h == master_unpair_enable
     IN  \/ /\ h # NoHandle /\ Connected(h) /\ link[h] # NoPeer
            /\ master_disconnect_connhandle' = h
            /\ master_unpair_enable' = NoHandle
            /\ att_flash' = [att_flash EXCEPT ![EntryOf(h).peer] = NoPeer]
            /\ bonded' = bonded \ {EntryOf(h).peer}
         \/ /\ h # NoHandle => Connected(h)
            /\ UNCHANGED <<master_disconnect_connhandle, master_unpair_enable, att_flash, bonded>>
         \/ /\ h # NoHandle /\ ~Connected(h)
            /\ master_unpair_enable' = NoHandle
            /\ UNCHANGED <<master_disconnect_connhandle, att_flash, bonded>>
  /\ UNCHANGED <<devVars, pendVars, master_pairing_enable, keys, key_type, sdpVars, ctlVars,
                 securing>>

-----------------------------------------------------------------------------
(* simple_sdp_loop and app_service_discovery.  The discovery is one call on
   the stack; between a request and its response it is main_idle_loop that
   runs, so loop goes round while discovery stays.                         *)

EndDiscovery ==
  /\ discovery' = NoDiscovery
  /\ master_sdp_pending' = NoHandle
  /\ main_service' = FALSE
  /\ UNCHANGED <<master_smp_pending, cur_sdp_device>>

(* Send a request on the discovery's connection and start its second; the
   stack drops it when the connection is gone.                             *)
SendRequest(h, op, reports, source) ==
  /\ discovery' = [handle |-> h, rsp |-> "none", reports |-> reports, source |-> source,
                   expired |-> FALSE]
  /\ host_att_req_busy' = h /\ host_att_req_op' = op
  /\ p_att_response' = TRUE
  /\ att_request' = IF link[h] # NoPeer THEN h ELSE att_request
  /\ UNCHANGED <<main_service, pendVars>>

ServiceFrame ==
  /\ loop = "service" /\ loop' = "stack"
  /\ initiating' = IF requested # NoPeer THEN requested ELSE initiating
  /\ requested' = NoPeer
  /\ UNCHANGED <<uiVars, bonded, link, evq, master_disconnect_connhandle,
                 manual_pair, securing>>

(* No service is registered, or the connection it was registered for has
   gone: the call does nothing but clear what it finds.                    *)
NoService ==
  /\ ServiceFrame /\ ~Discovering
  /\ main_service => master_sdp_pending = NoHandle
  /\ main_service' = FALSE
  /\ UNCHANGED <<devVars, pendVars, discovery, reqVars, att_flash, att_request>>

StartDiscovery ==
  /\ ServiceFrame /\ ~Discovering
  /\ main_service /\ master_sdp_pending # NoHandle
  /\ SendRequest(master_sdp_pending, "type", 0, NoPeer)
  /\ UNCHANGED <<devVars, att_flash>>

TimedOutNever == FALSE  \* mutant: the wait has no time-out

(* clock_time_exceed in host_att_service_wait_event *)
TimedOut == discovery.expired

(* host_att_service_wait_event finds no response yet. *)
WaitResponse ==
  /\ ServiceFrame /\ Discovering
  /\ ~TimedOut /\ host_att_req_busy # NoHandle
  /\ UNCHANGED <<devVars, pendVars, sdpVars, att_flash, att_request>>

(* The second has passed, even if the response came in the last pass. *)
DiscoveryTimeout ==
  /\ ServiceFrame /\ Discovering
  /\ TimedOut
  /\ EndDiscovery
  /\ UNCHANGED <<devVars, reqVars, att_flash, att_request>>

(* The request op that follows the response read, and the HID reports left to
   ask about then.  A READ_BY_TYPE response, whatever it holds, is followed by
   another such request; anything else ends that phase.  Then every report
   found is asked for its descriptors, and the report reference among them, if
   there is one, is read.                                                    *)
FollowUp(op, reports) ==
  \/ /\ discovery.rsp = "type" /\ op = "type"
     /\ reports \in discovery.reports .. ATT_DB_UUID16_NUM
  \/ /\ discovery.rsp # "type" /\ op = "info"
     /\ discovery.reports > 0 /\ reports = discovery.reports - 1
  \/ discovery.rsp = "info" /\ op = "read" /\ reports = discovery.reports

NextRequest ==
  /\ ServiceFrame /\ Discovering
  /\ ~TimedOut /\ host_att_req_busy = NoHandle
  /\ \E op \in Requests, reports \in 0 .. ATT_DB_UUID16_NUM :
       /\ FollowUp(op, reports)
       /\ SendRequest(discovery.handle, op, reports, discovery.source)
  /\ UNCHANGED <<devVars, att_flash>>

(* The last response ends the discovery: the handles go to the list entry of
   the connection in cur_sdp_device and to flash under its peer's address,
   unless the flash sector is full.                                        *)
FinishDiscovery ==
  /\ ServiceFrame /\ Discovering
  /\ ~TimedOut /\ host_att_req_busy = NoHandle
  /\ discovery.rsp # "type" /\ discovery.reports = 0
  /\ AddPeerAttHandle(cur_sdp_device.conn_handle, discovery.source)
  /\ \/ att_flash' = [att_flash EXCEPT ![cur_sdp_device.peer] = discovery.source]
     \/ UNCHANGED att_flash
  /\ EndDiscovery
  /\ UNCHANGED <<reqVars, att_request>>

(* One second passes without a response being noticed. *)
ClockExpires ==
  /\ Discovering /\ ~discovery.expired
  /\ discovery' = [discovery EXCEPT !.expired = TRUE]
  /\ UNCHANGED <<devVars, pendVars, uiVars, main_service, reqVars, storeVars, ctlVars,
                 master_disconnect_connhandle, manual_pair, loop, securing>>

-----------------------------------------------------------------------------
Controller ==
  \/ \E p \in Peers : Advertise(p)
  \/ \E h \in Handles : EstablishMaster(h)
  \/ \E h \in Handles, p \in Peers : EstablishSlave(h, p)
  \/ \E h \in Handles : LinkLoss(h)
  \/ \E h \in MasterHandles : AnswerAtt(h)
  \/ ClockExpires

Callbacks ==
  \/ OnAdvReport \/ OnConnCompleteSlave \/ OnConnCompleteMaster
  \/ OnDisconnect \/ OnAttData
  \/ \E h \in Handles : SecurityDone(h)
  \/ \E h \in Handles : PairingFail(h)

Service ==
  \/ NoService \/ StartDiscovery \/ WaitResponse \/ DiscoveryTimeout
  \/ NextRequest \/ FinishDiscovery

Keyboard == KeysIgnored \/ PressVolume \/ PressPair \/ PressUnpair \/ ReleaseKeys

MainLoop == StackReturns \/ Keyboard \/ ProcUnpair \/ Service

Next == Controller \/ Callbacks \/ MainLoop

Spec == Init /\ [][Next]_vars

(* The single thread keeps running: it leaves the stack's loop when events
   come more slowly than it handles them, its other steps have no condition.
   The second of a request passes, unless another request starts it anew.  A
   connection the controller agreed to end does end.                       *)
FairSpec ==
  /\ Spec
  /\ WF_vars(Callbacks) /\ SF_vars(StackReturns)
  /\ WF_vars(Keyboard) /\ WF_vars(ProcUnpair) /\ WF_vars(Service)
  /\ WF_vars(ClockExpires \/ NextRequest)
  /\ SF_vars(\E h \in Handles : h = master_disconnect_connhandle /\ LinkLoss(h))
-----------------------------------------------------------------------------
(* The variables of the application and of the stack it is linked with. *)
AppTypeOK ==
  /\ master_smp_pending \in MasterHandleOrNone
  /\ master_sdp_pending \in MasterHandleOrNone
  /\ main_service \in BOOLEAN
  /\ cur_sdp_device \in [conn_handle : MasterHandleOrNone, peer : PeersOrNone]
  /\ master_pairing_enable \in BOOLEAN
  /\ master_unpair_enable \in HandleOrNone
  /\ master_disconnect_connhandle \in HandleOrNone
  /\ manual_pair \in PeersOrNone
  /\ bonded \subseteq Peers
  /\ att_flash \in [Peers -> PeersOrNone]
  /\ loop \in {"stack", "keyboard", "unpair", "service"}
  /\ discovery \in Discoveries
  /\ host_att_req_busy \in MasterHandleOrNone
  /\ host_att_req_op \in Requests \cup {"none"}
  /\ p_att_response \in BOOLEAN
  /\ keys \subseteq Keys
  /\ key_type \in {"none", "consumer", "pair_unpair"}
  /\ securing \subseteq MasterHandles

(* The variables of the controller and the peers. *)
CtlTypeOK ==
  /\ link \in [Handles -> PeersOrNone]
  /\ requested \in PeersOrNone
  /\ initiating \in PeersOrNone
  /\ evq \in Seq(Events)
  /\ att_request \in MasterHandleOrNone

(* Every variable has its type. *)
TypeOK == DevTypeOK /\ AppTypeOK /\ CtlTypeOK

(* The connection list is the controller's set of connections with the events
   still waiting taken back: without an event for a handle the list has one
   entry for it exactly when the link is up, with the link's peer; with
   events, the first one fits the list and the last one the link.          *)
LinkEvents(h) == {j \in 1 .. Len(evq) : evq[j].handle = h /\ evq[j].type \in {"conn", "disc"}}

ListTracksController ==
  \A h \in Handles :
    LET n == Cardinality(SlotsWithHandle(h))
        E == LinkEvents(h)
        up == link[h] # NoPeer
    IN  IF E = {}
        THEN n = (IF up THEN 1 ELSE 0) /\ (up => EntryOf(h).peer = link[h])
        ELSE /\ n = (IF evq[Least(E)].type = "disc" THEN 1 ELSE 0)
             /\ up <=> \E j \in E : (\A k \in E : k <= j) /\ evq[j].type = "conn"

(* A pending mark always names a master connection in the list: the marks
   stop new connections from being created, so one left behind by a lost
   connection would stop them for good.                                    *)
PendingIsConnected ==
  \A h \in {master_smp_pending, master_sdp_pending, master_disconnect_connhandle} :
    h # NoHandle => IsMaster(h)

(* "if one master un_pair disconnection flow not finish, here new un_pair not
   accepted": no connection is chosen while one is being disconnected.     *)
OneUnpairAtATime ==
  master_unpair_enable = NoHandle \/ master_disconnect_connhandle = NoHandle

(* As long as the responses that come are answers to requests of a discovery,
   ATT handles are only ever used for and stored under the peer whose
   database they were read from, whatever connects and disconnects while the
   discovery waits.                                                        *)
HandlesBelongToPeer ==
  /\ \A i \in Slots : conn_dev_list[i].char_handle \in {NoPeer, conn_dev_list[i].peer}
  /\ \A p \in Peers : att_flash[p] \in {NoPeer, p}

(* As long as the responses that come are answers to requests of a discovery,
   none is copied when the discovery whose stack frame holds the buffer is
   over, however late it comes: no response that would be copied is delivered
   then.  The match itself does not see to it: the pointer and, after a
   time-out, the busy word are still set, and the word 0 matches an error
   response on a handle whose low bits are 0.  With UnaskedAnswers an error
   response before the marked connection's discovery has begun is copied.   *)
AnswerHasBuffer ==
  [][ Deliver("att") /\ (\E opcode \in AttOpcodes : ResponseTaken(Head(evq).handle, opcode))
        => Discovering ]_vars

(* "if previous connection SMP not finish, can not create a new connection":
   the connection whose security process runs is the one that is marked, so
   two are never in it together and no mark is overwritten.                *)
SecuringIsMarked == securing \subseteq {master_smp_pending}

(* Under FairSpec a started discovery ends, whatever the keyboard, the other
   connections and the peer do meanwhile, unless the peer answers its
   READ_BY_TYPE requests for ever: every wait has a time-out, but that phase is
   left only by an answer of another kind.                                   *)
ReadByTypeAnswered == OnAttData /\ discovery.rsp # "type" /\ discovery'.rsp = "type"

DiscoveryEnds == (Discovering ~> ~Discovering) \/ []<><<ReadByTypeAnswered>>_vars

(* Under FairSpec an un_pair disconnection flow always finishes, so that new
   connections may be created again.                                       *)
UnpairFlowEnds ==
  master_disconnect_connhandle # NoHandle ~> master_disconnect_connhandle = NoHandle

(* "add the peer device att_handle value to conn_dev_list after service
   discovery is correctly finished": if the connection is still there, its
   entry has its handles then.  The code does not keep this when a lower
   master slot is empty.                                                   *)
DiscoveredHandlesInstalled ==
  [][ \A h \in MasterHandles :
        FinishDiscovery /\ discovery.handle = h /\ IsMaster(h)
          => EntryOf(h)'.char_handle # NoPeer ]_vars

(* "delete ATT handle storage on flash": when an un_pair flow is over, no ATT
   handles of the peer are stored.  The code does not keep this when the
   flow starts while the peer's discovery is running.                      *)
UnpairForgetsHandles ==
  [][ \A h \in MasterHandles :
        master_disconnect_connhandle = h /\ master_disconnect_connhandle' # h
          => att_flash'[EntryOf(h).peer] = NoPeer ]_vars

(* "mark this connection need SDP": the mark goes away only with its connection
   or when the discovery of that connection ends.  The code does not keep
   this: a discovery whose connection was lost takes the mark, and the
   registration, of the connection that came after it.                     *)
MarkClearedByOwner ==
  [][ \A h \in MasterHandles :
        master_sdp_pending = h /\ master_sdp_pending' # h
          => discovery.handle = h \/ ~IsMaster(h)' ]_vars
=============================================================================
