# A TLA+ development for the Telink B91 multiple-connection BLE SDK

This directory models the host side of the SDK's multiple-connection demo: the
code that keeps several BLE connections of both roles, pairs with peers,
discovers their services and remembers both across power cycles; the two
transports (H4, H5) of its controller build; and the parts below and beside
them that keep state of their own: software timers, key scan, USB reports, OTA
client, buffer pools. The link layer, SMP and ATT are a closed library
(`stack/ble` has headers only), so the models stop where the repository's source
stops, and say what they assume of the library.

Paths below are relative to `src/eagle_ble_sdk/`.

## 1. Inventory

| part | source | state | operations |
|---|---|---|---|
| connection list | `vendor/common/device_manage.c` | `conn_dev_list[]`, `conn_master_num`, `conn_slave_num` | insert by connection event, delete by handle or by peer, look-ups |
| connection manager | `vendor/B91_demo/app.c` | `master_smp_pending`, `master_sdp_pending`, `master_disconnect_connhandle`, `blm_manPair` | handlers of advertising report, connection complete, disconnection, ATT data, SMP events; the main loop |
| keyboard UI | `vendor/B91_demo/app_ui.c` | `master_pairing_enable`, `master_unpair_enable`, `key_type` | `key_change_proc`, `proc_keyboard`, `proc_master_role_unpair` |
| service discovery | `vendor/common/simple_sdp.c` | `main_service`, `cur_sdp_device`, `host_att_req_busy`, `p_att_response`; ATT handles on flash | `app_service_discovery` and the requests it sends, the ATT client handler, store, search and delete of handles |
| bond store | `vendor/common/custom_pair.c` | `user_tbl_slaveMac`, `user_bond_slave_flash_cfg_idx`, a flash sector | add, search, delete, delete all, start-up scan and clean-up |
| software timers | `vendor/common/blt_soft_timer.c` | table of timers in order of expiry, wake-up time | add, delete, process with call-backs |
| HCI transport, H5 | `vendor/B91_controller/hci_h5.c` (over `hci_slip.c`, `hci_tr_h5.c`) | FIFOs, link state, sequence numbers and window | packet handlers, send, poll |
| HCI transport, H4 | `vendor/B91_controller/hci_tr_h4.c`, `hci_tr.c` | DMA buffers, position in a buffer, backup of a cut packet with its timer | UART and timer interrupts, the search for packets, hand-over to the stack |
| OTA client | `vendor/B91_feature/feature_ota/app_ota_client.c` | `ota_update_flow`, indexes and addresses of the transfer | one step of the flow per main-loop round, time-out, handlers of answers |
| buffer pools | `common/buf_pool0`, `common/buf_pool1` | free lists, counters, nesting of critical sections | allocate, free, from the main loop and from interrupts |
| key matrix | `application/keyboard/keyboard.c` | count of scans, pins, two readings of the matrix | scan, filter, report a change |
| USB HID reports | `application/app/usbkb.c`, `usbmouse.c`, dongle's `app_ui.c` | FIFO of reports, endpoints and toggles, notes of what is not released | report, release, drain, bus reset |

How they interact. One thread runs `main_loop` (`app.c:763`): first
`main_idle_loop` (the stack's `blc_sdk_main_loop`, which delivers events to the
call-backs in `app.c`; then the keyboard scan; then `proc_master_role_unpair`),
then `simple_sdp_loop`, which runs a registered discovery. The discovery
(`simple_sdp.c:271`) sends an ATT request and waits for its answer *by calling
`main_idle_loop` itself*, so every call-back, key and un_pair step may run
between two of its steps. All communication is through global variables. The
four pending marks (`master_smp_pending`, `master_sdp_pending`,
`master_disconnect_connhandle`, `blm_manPair`) are set in one handler, tested in
another and cleared in a third.

The transports, timers, key scan, reports, OTA client and pools share no state
with the connection manager: they meet it in calls (a key event, a timer's
call-back) or not at all (the transports are in a build without the
application). They are therefore modelled apart, each with the callers it has.

What is hard:

* **re-entrancy**: what the discovery read before a wait may be gone after it;
* **handles are reused**, and events of an old and a new connection with the
  same handle may be waiting together;
* **late answers**: an ATT response may come after its time-out, when the
  buffer it was to go to is gone, and little of it is compared with the request;
* **a loop ended by the peer**: the discovery asks for the next characteristics as
  long as the peer has an answer;
* **marks that outlive what they mark**: each of them stops new connections;
* **limits**: full list, full bond table, used-up flash sector;
* **power loss** between two flash writes of one operation, or within one;
* **lost frames, resending and restarts** of either side of the H5 link, with
  sequence numbers and pointers that wrap;
* **a byte stream cut anywhere**, and a host that stops within a packet;
* **a clock that wraps** under a table that is only looked at from its front, and
  call-backs that end their timer while the table is being gone through;
* **contacts that bounce** while the scan is being switched off;
* **interrupts between any two accesses** to a list that their handlers use, too;
* **answers of an operation that has timed out**, which arrive in the next one.

What makes each part correct is stated as the properties of section 3; the
hazards they answer are listed in `PROJECT.json` with their source lines.

## 2. Modules

| module | extends or implements | checked by | proved in |
|---|---|---|---|
| `DeviceManage` | | `MCLocalServices` | `ConnManagerProofs` |
| `ConnManager` | extends and implements `DeviceManage` | `MCConnManager` | `ConnManagerProofs` |
| `PairStore` | implements `BondList` | `MCLocalServices`, `MCPairStore` | `PairStoreProofs` |
| `SdpStore` | | `MCLocalServices` | `SdpStoreProofs` |
| `SoftTimer` | | `MCLocalServices` | `PeripheralProofs` |
| `KeyScan` | | `MCLocalServices` | `PeripheralProofs` |
| `UsbHid` | | `MCLocalServices` | `PeripheralProofs` |
| `OtaClient` | | `MCLocalServices`, `MCOtaClient` | `OtaClientProofs` |
| `BufPools` | | `MCLocalServices` | `BufPoolsProofs` |
| `H5Link` | | `MCHciLinks`, `MCH5Link` | `H5LinkProofs` |
| `H4Link` | | `MCHciLinks`, `MCH4Link` | `H4LinkProofs` |

`MCLocalServices` and `MCHciLinks` put several components into one model whose
variable `part` says which one is at work; a behaviour is one of that component
alone. It is a way to check small components in one run, not a composition:
these components share nothing.

**DeviceManage** is `device_manage.c`, one action per function, plus
`dev_char_info_add_peer_att_handle` of `simple_sdp.c`, which writes the same
array. Slots, roles and the two counters are as in the code. The array of a
peer's characteristic handles is abstracted to *whose* handles they are
(`char_handle` is a peer or `NoPeer` for `char_handle_valid = 0`). `DevSpec`
calls the functions in any order with any arguments.

**ConnManager** extends it with the application.

| in the model | in the code |
|---|---|
| `OnAdvReport` | `app_le_adv_report_event_handle`: the three busy tests, then create connection |
| `OnConnCompleteSlave`, `OnConnCompleteMaster` | `app_le_connection_complete_event_handle`: marks, manual pairing, list, stored handles or a mark for discovery |
| `OnDisconnect` | `app_disconnect_event_handle` |
| `OnAttData` | `app_gatt_data_handler` with `host_att_client_handler` |
| `SecurityDone`, `PairingFail` | `app_host_event_callback` |
| `KeysIgnored`, `PressVolume`, `PressPair`, `PressUnpair`, `ReleaseKeys` | `proc_keyboard` and `key_change_proc` |
| `ProcUnpair` | `proc_master_role_unpair` |
| `NoService`, `StartDiscovery`, `WaitResponse`, `NextRequest`, `DiscoveryTimeout`, `FinishDiscovery` | `simple_sdp_loop`, `app_service_discovery`, `host_att_discoveryService`, `host_att_service_wait_event` |
| `loop` | where the main loop is; it goes round the same way while `discovery` is running, because the wait calls `main_idle_loop` |

The controller, the stack and the peers are external: `link` (live connections),
`requested` and `initiating` (a create connection in progress), `securing`,
`evq` (events waiting to be delivered, in order), `att_request` (the request a
peer has not answered). Their actions are `Advertise`, `EstablishMaster`,
`EstablishSlave`, `LinkLoss`, `AnswerAtt`, and the passing of time
`ClockExpires`. Any connection may be lost at any time and any answer may come
late or never; its opcode, an error, that of the request or another, is chosen when it
is handled.

What a response is worth is decided as in the code (`ResponseTaken`,
`simple_sdp.c:162` and `app.c:475`): the connection is the one marked,
`p_att_response` is set, the low three bits of the handle are those of the word
`host_att_req_busy`, and the opcode is an error's or that of the request in the word.
The pointer is never cleared and the word not by a time-out; the word 0 passes for an
error response on a handle whose low bits are 0. `LowBits` gives the handles of the
model their low bits; in every run the first master handle has 0. With
`UnaskedAnswers` peers also send responses that no discovery asked for, as they do
when the closed stack sends requests of its own; which ones it sends is not in the
repository.

`FollowUp` is the loop of `host_att_discoveryService`. Whatever a READ_BY_TYPE
response holds, the next request is another READ_BY_TYPE, without a bound; anything
else ends that phase. Then each HID report found, at most `ATT_DB_UUID16_NUM` (20), is
asked for its descriptors, and a report reference among them is read.

`DrainsEvents` states the one thing assumed of the library's
loop: that a pass of it delivers everything that waits. Without it an
advertising report could be handled after the connection it led to, and the
application has no defence (see the hazard at `app.c:141`).

**PairStore** is `custom_pair.c`. Since no other code runs inside one of its
functions, an operation is given as the sequence of its flash writes; it
completes, or power is lost after any of them or within one, which ends in the
state `off`. Flash is modelled by what programming does (bits are only
cleared): a unit that is not blank cannot take a new bond. A broken page write
leaves an incomplete mark (`Erased`) or a mark with a wrong address
(`Unknown`); bytes are taken to be programmed in address order, and erasing a
sector to be atomic. **BondList** is the abstract specification: a list of bonds, oldest first,
that changes only by bonding, unbonding and, when power is lost in an operation
of several writes, in the ways those writes allow.

**H5Link** is `hci_h5.c` and its host. `cb` is `hciH5Cb`; `rptr`, `wptr` and
`slots` are the sending FIFO, of which the code compares and advances byte-wide
pointers (`U8`). The handlers of a frame (`HCI_H5_PakcetHandler`) are one action
per message: `RecvSync`, `RecvSyncRsp`, `RecvConfig`, `RecvConfigRsp`, `RecvAck`,
`RecvData`; `HCI_H5_Poll` is `PollLink` and `SendData`. `ReSendCheck` gives the
loop of the code in closed form: counting `txSeq` back to the received number
takes `NotTaken` rounds, each of which takes 1 from a byte. A send with a busy UART is
dropped, as in the code. Damaged frames (checksum, length, CRC) are lost frames.
The host is external: it follows the protocol, resends what is not acknowledged,
and may start anew, as the device may. A start takes longer than a frame is under
way, so nothing sent before reaches the side that has started anew; without this,
the three-wire protocol itself can take an answer of an old establishment for one of
the new. `received`, `host.session` and the numbers in packets are there to
state the properties.

**SdpStore** is the flash part of `simple_sdp.c` (439-585). A unit is written in
three steps, `StoreAddr`, `StoreHandles`, `StoreMark`, with a possible power loss
between and within them. Because bits are only cleared and nothing is erased, a
field that was written twice holds what both values have in common; it is
modelled as the set of the values written. `discovered` is a ghost: the record
in force of each peer. A unit left behind by a store cut short is blank by its mark and
will be written over: the code has no way to see it, and `FoundIsDiscovered`
states exactly how far the harm may go.

**SoftTimer** is `blt_soft_timer.c`. The bubble sort is the code's two loops as recursive
functions (`Sorted`, `BubblePass`) of one comparison (`BubbleStep`); `ProcessStart`, `CallBackDeletes`, `CallBackRestarts`, `NotExpired`
and `ProcessEnd` are the turns of the loop in `blt_soft_timer_process`, which
goes on with the next *index* after a deletion has moved the table. `Tick` is
the clock, which wraps; `Gap` bounds the time between two calls. `GapAssumption` says
how far: a deletion in the loop passes over the next timer, in the worst case the same
one once for each timer before it, and it must not have left the window of
`SAFE_MARGIN_POST` (4 s) by then. With the code's four timers that allows almost a second
between two calls. The code states no such bound; a main loop that polls, as that of the
demo, comes round far sooner, and an application that does not is not covered.

**KeyScan** is `keyboard.c` with the options of B91_demo, and `proc_keyboard`
with `key_change_proc` behind it. A scan is one action (it takes
microseconds); a contact may bounce between two scans.

**UsbHid** is the two report endpoints. `KeyboardReport`, `KeyboardReportMedia`
and `ConsumerReport` are what arrives from the remote, `FifoProc` is the main
loop's draining, `HandleReset` what it does after a bus reset. The host fetches
whenever it likes.

**OtaClient** has one action per case of `app_proc_ota_update` (`Step1CheckFw` to
`Step9OtaEnd`), `OtaTimeout` before it, `OnResponse` for the call-backs.
The server is external: it opens a session, takes PDUs in order, answers late,
and may give up.

**BufPools** is `myBuf.c` and `ev_buffer.c` with `mempool.c`. A step is one
access to something shared, `stack` holds the calls under way, an `Interrupt`
may come before any step at which both enable bits are set. The two pools leave
their sections differently (one enables, one restores), and both may be used by
the same handlers.

**H4Link** is `hci_tr_h4.c`. `Transfer` is the DMA with its interrupt (`UartIRQHandler`),
`RxHandlerStart`, `RxHandlerResume`, `RxHandlerPacket` are the stretches of
`HCI_Tr_H4RxHandler` between which an interrupt may come; `backup` is the kept
part of a packet. The packets are byte sequences, because lengths are read from
them, made of one payload byte. One thing is simplified (`SkipPacket`,
`hci_tr_h4.c:576-604`): for the types EVENT and SCO, which a host does not send, the
code takes the length off a `u32` and reads the same header again, so that the count
may pass 0 and come round many times or for ever. The model has only how it may end,
with the rest of the buffer dropped; a loop that does not end is a behaviour in which
the handler takes no further step. It is met only when bytes were lost, and the
properties of `H4Link` say nothing from then on.

## 3. Runs

| run | configuration | shows |
|---|---|---|
| `conn_smp` | SMP on, 2 master slots, 2 peers (symmetric), keys pair and un_pair, no HID reports, 2 events waiting | the safety of the default build |
| `conn_custom_pair` | SMP off, 1 master and 1 slave slot, 1 peer, all keys, 1 HID report, unasked answers, 1 event waiting | safety and, under fairness, `DiscoveryEnds` and `UnpairFlowEnds` |
| `conn_sparse_slots` | as `conn_smp`, 1 HID report | finding: handles of a discovery are not installed when a lower slot is empty |
| `conn_unpair_in_discovery` | as `conn_smp`, 1 HID report | finding: un_pair during a discovery leaves the handles on flash |
| `conn_lost_mark` | as `conn_smp`, 1 HID report | finding: the end of a discovery whose connection was lost clears the mark of another connection |
| `local_services` | eight components of their own, constants below | their safety, and the refinement of `BondList` |
| `pair_full_sector` | 8 units, 3 bonds, 4 peers (symmetric) | finding: an add to a full table in a used-up sector loses a bond |
| `ota_full_pdu` | PDUs of 4 bytes, a firmware of 8 | finding: a firmware of a whole number of PDUs is sent with one PDU too many |
| `hci_links` | H5: 2 sequence numbers, bytes modulo 4, 2 slots, 3 packets per session, 1 event sent up to 2 times, 2 frames under way, 1 restart of each side. H4: 2 DMA buffers of 6 bytes, commands of 4 and data of 6 bytes, 2 sessions, 1 error | safety of both transports |
| `h5_establish` | as H5 in `hci_links` with 1 packet and prompt handling | under fairness, `LinkComesUp` |
| `h5_late_ack` | 8 sequence numbers, bytes modulo 256, 8 slots, 2 events, no packets of the host | finding: late acknowledgements move the read pointer back and an empty slot is sent |
| `h4_max_packet` | the code's sizes, one packet of 256 bytes cut in two | finding: the byte count of a kept packet wraps and the packet is left behind |

The properties in words:

* `CountsMatch`: counters and entries agree, though they are changed apart.
* `EntriesNotOverwritten`: a live entry is not taken over by another connection.
* `ListTracksController`: the list is the controller's set of connections with
  the waiting events taken back, also when handles are reused.
* `PendingIsConnected`: a pending mark names a live master connection.
* `OneUnpairAtATime`: no connection is chosen for un_pair while another one is
  being disconnected.
* `HandlesBelongToPeer`: ATT handles are used and stored only for the peer they
  were read from, whatever happens while the discovery waits.
* `SecuringIsMarked`: at most one connection is in its security process, and it
  is the one marked.
* `AnswerHasBuffer`: no response that the handler would copy is delivered when no
  discovery runs, whose stack frame holds the buffer.
* `DiscoveryEnds`: a discovery that was started ends, unless the peer answers its
  READ_BY_TYPE requests for ever.
* `UnpairFlowEnds`: an un_pair flow, once started, ends.
* `NeverHangs`: no order of operations and power losses makes the start-up loop
  for ever on too many marks.
* `TableIsFlash`: a start-up at any moment would find exactly the table that is
  in RAM.
* `InOrderOnce`: the packets of a session reach the HCI layer in order, each
  once, none left out.
* `AckedIsReceived`: what the host was told has arrived was given to the HCI layer.
* `NoLateSync`: in an established link no SYNC is under way, so nothing can take
  it down but a restart.
* `LinkComesUp`: both sides get into the link and stay there.
* `PacketsAsSent`: however the UART cuts the bytes of a session, the stack gets
  its packets whole, in order, each once, and nothing of an earlier session.
* `NothingLeftBehind`: when all bytes were read, no packet waits for one more.
* `FoundIsDiscovered`: a search finds the last discovery of its peer and nothing
  else; only a unit written over the rest of a cut store may be lost.
* `TimersInOrder`: between two calls the table is in order of expiry across
  the wrap of the clock, which is what lets the code look at the front only.
* `NeverMissed`: no timer leaves the window in which its call-back is run.
* `WakeupIsFront`: a sleeping chip is woken for the front timer.
* `KeysFollow`: three scans after the contacts came to rest the user interface
  knows the keys held, whatever the bounces showed.
* `ScansEndReleased`: the matrix is not read any more only with no key pressed
  in the filter.
* `PairingNeedsKey`: manual pairing outlives its key only behind a volume key.
* `FifoKeepsNewest`: the FIFO of reports forgets its oldest and nothing else.
* `NoKeySticks`: a press the host has seen is followed by its release.
* `SequenceKept`, `SuccessIsWhole`: no PDU is out of sequence for the server, and
  a success is that of this transfer, also after one that timed out.
* `PoolsIntact`: outside the sections every buffer is with one caller or once on
  its list, and the counters agree.
* `InterruptsBack`: with no call under way both enable bits are set.

Bounds. Two peers and two master slots are the least with which one connection
can be taken for another: a slot can be emptied below a used one, a handle can
be reused by another peer, and two connections can be in discovery, security and
un_pair at once. Two waiting events allow a disconnection and the next
connection of the same handle to wait together; the code looks at one event at
a time. A discovery has any number of READ_BY_TYPE requests in every run; with a HID
report it also has the FIND_INFO and READ requests, which `conn_smp` leaves out for its
size (`ATT_DB_UUID16_NUM` is 0 there): they wait as the first one does.
`MaxEvents` is the only bound on a counter. In
`conn_custom_pair` one peer keeps the liveness check small; a second one adds
interleavings but no wait of another kind. In `local_services` and `pair_full_sector`
eight units are enough to fill the bond table, clean the sector at start-up and
use it up. The other constants of `local_services`: three units of handles for two
peers (a record, a cut store and a blank unit at once); three timers with two
call-backs and intervals of 2 and 4 on a clock of 36 values, every one of them a
start (`COMPARE_RANGE` and the margins keep the code's proportions, and
`TimerAssumption` says what of them the order relies on, and one tick between two
calls is all that `GapAssumption` allows); three keys on two pins
with the code's six scans; a FIFO of two reports with pointers modulo 4; PDUs of 4 bytes
with firmwares below the least size, of two and of three PDUs, three starts; two
sizes of buffers, two and one, with one handler within a call (a handler cannot be
interrupted before it enables interrupts itself; what three levels add is proved).
In `hci_links` an H4 buffer holds one packet of the greatest length and the byte
count (7 values) has room for it, which the code's `u8` has not for its own
(`h4_max_packet`); a packet may be cut after every byte.
Of H5 in that run two
sequence numbers (the window is 1) and three packets make numbers come round,
which eight would only with nine packets; a code error that shows with eight
shows with two, because the code only compares numbers for equality and counts
modulo the size. One event is enough for going back, resending and the underflow
of the window; two frames under way let an old and a new message of each kind be
on the line together. `h5_late_ack` uses the code's own sizes.

Fairness (`FairSpec`). The thread keeps running: weak fairness of the call-backs
and of each main-loop step, strong fairness of leaving the stack's loop, which
is only disabled again and again when events keep coming (they come more slowly
than they are handled). Time passes: the second of a request ends unless the discovery
goes on with another request, which starts it anew (weak fairness of
`ClockExpires \/ NextRequest`; of `ClockExpires` alone it would say that some request
must meet its time-out, however quickly the peer answers). A connection for which
the controller accepted the disconnect command does end: strong fairness of
that one `LinkLoss`, because the event queue may be full when it is first
possible. Nothing is assumed of peers or keys.

`DiscoveryEnds` therefore has to exempt a peer that answers READ_BY_TYPE requests for
ever (`[]<><<ReadByTypeAnswered>>_vars`): the loop (`simple_sdp.c:286-331`) is left only
by another answer or by a time-out, and the handle it asks from next need not grow.
Without the exemption TLC finds this behaviour. The other requests are bounded by the
reports found.

What `UnaskedAnswers = FALSE` in `conn_smp` leaves out. With `TRUE`, TLC finds two
violations there, both with an error response that answers no request of a discovery:

* `AnswerHasBuffer`: on a marked connection whose handle has low bits 0, before its
  discovery has begun, the error response matches the word 0 and is copied to where a
  finished discovery had its buffer;
* `HandlesBelongToPeer`: a discovery outlives its connection, the handle is used again
  for another peer, and that peer's error response ends the READ_BY_TYPE phase of the old
  discovery, which then stores what it read from the first peer under the second.

Whether a peer can send such a response depends on the requests of the closed stack (the
exchange of MTU sizes, for one), so it is stated as an assumption of the two properties
and as a hypothesis of their theorems, and not as a finding. The properties of
`conn_custom_pair` hold with unasked answers as well.

For H5Link: the main loop handles frames and the UART sends (weak fairness), the
timers end again and again (strong), and a message of the establishment that is sent for ever
is received at last with the UART free (strong, per message). `Prompt`
states what the 250 ms of the timers are for: frames under way, some of them 100
microseconds long, are handled before a timer ends. Without it the two sides
could keep the line and the UART busy for ever.

Deadlock is checked in the runs of ConnManager and in `pair_full_sector`. It is
not in those of the transports (a link over which everything has been sent and
acknowledged is at rest) and of `local_services` and `ota_full_pdu` (the OTA
client is at rest when the key has been pressed `MaxOtas` times).

What the violations mean. `conn_sparse_slots`, `conn_unpair_in_discovery`,
`conn_lost_mark`, `pair_full_sector`, `h5_late_ack`, `h4_max_packet` and
`ota_full_pdu` each check one property that a comment of the code states and the code
does not keep; `PROJECT.json` quotes the comment. The passing runs state what
does hold beside it: `NothingLeftBehind` for packets whose bytes can be counted,
`SuccessIsWhole` for the PDUs as the client numbers them, and so on.

## 4. Proofs

`ConnManagerProofs` proves of `DeviceManage`, for any numbers of slots and any set of peers:

* `ListTyped`, `CountersCount`: `DevTypeOK` and `CountsMatch` always hold. The
  inductive invariant `DevInv` is their conjunction. `CountsMatch` is not
  inductive alone: a delete takes 1 from the counter of the *entry's* role, and
  only the type invariant says that an entry's role is that of the half of the
  array it is in.
* `EntriesKept`: `EntriesNotOverwritten`; it needs the type of the list only.
* The lemmas: the least slot of a non-empty set exists (`LeastMember`, by
  well-foundedness of `<` on the naturals), and what one insertion or deletion
  does to the number of used slots.

Of `ConnManager` it proves, for any constants:

* `UsesList`: `Spec => DevSpec`, every step of the application is a call of the
  list's functions or leaves it alone. Hence `AppCountersCount`.
* `Typed`: `TypeOK`.
* `OneUnpair`: `OneUnpairAtATime`. The choice is only made when no flow runs,
  and the flow's handle is set in the step that clears the choice.
* `OneSecuring`: `SecuringIsMarked`, assuming `DrainsEvents`. The inductive
  invariant `ComingInv` follows a connection from the accepted command to its
  event: at most one is requested, initiating or waiting in the queue; while
  one is, no advertising report waits behind it and no mark is set. It was
  checked with TLC as an invariant of `conn_smp` before the proof.
* `ListTracked`: `ListTracksController`. The property folds the waiting events into
  the list; what is inductive (`TrackInv`) says it for each handle alone: the waiting events of a handle begin
  as its entry is, end as its link is, and alternate between connection and
  disconnection (`LeadsTo`); and each connected entry is in the half of its role, with
  a handle no other entry has (`OneEach`). That there is room for every connection event that waits
  follows by counting the slots of a role against its handles.
* `MarksName`: `PendingIsConnected`. A mark is set for the entry just made and cleared
  where the entry goes; with `TrackInv`, an entry goes only with its own handle.
* `HandlesKept`, assuming `DrainsEvents` and `~UnaskedAnswers`: `HandlesBelongToPeer`. The invariant
  `HostInv` follows the discovery through its waits (`DiscoveryInv`): while the mark is
  set `cur_sdp_device` is the marked device (`MarkIsCur`), the list has its peer
  for its handle or none (`CurFits`), and between the step that takes a response and the one
  that uses it no other connection is on its way (`ResponseRead`). The code keeps no copy of
  the device over a wait; that the handles go to the right peer rests on the mark, which holds
  back any other connection.
* `AnswerBuffered`, assuming the same: `AnswerHasBuffer`. It is about every response that
  passes the code's own tests, for any low bits of the handles and any opcode, also when
  the word is 0; these tests do not keep it, and the proof uses none of them but that of
  the mark. At most one request is on a link (`RequestOnLink`); an answer that waits comes from the peer the list has
  for its handle, before any event that changes it (`AnswersFit`); and when a mark is set
  and no discovery runs, or only one that has read from another peer, no answer on its
  handle waits or is to come (`NoOldAnswer`).

`PairStoreProofs` proves for any units, bonds and peers:

* `SectorGood`: `StoreInv` always holds. It says how the sector is laid out: the units
  in use first, then blank ones; the bonds a start-up would read (`Scanned`), at most as many as
  the table has entries and no peer twice; and, while the device is on, the table and the
  index in RAM are what the start-up would make of it. An operation is a
  sequence of flash writes, and the invariant is proved for *every prefix* of it and for
  a write cut within: the old bond goes before the new one is written, and a
  clean-up of the sector copies what it then erases.
* `StoreTyped`, `StartupReturns`, `RamFollowsFlash`: `TypeOK`, `NeverHangs` and `TableIsFlash`
  follow from it.
* `BondsImplemented`: `Spec => ImplementsBondList`, one case per operation and per place
  where the power may go: each is a step of `BondList` or leaves the bonds as they are.

`H5LinkProofs` proves, for any number of sequence numbers and slots, any window
below that number, any length of the channels, and with or without `Prompt`:

* `TypesHold`: `TypeOK` (`H5Types` adds the shapes of the frames under way).
* `LinkNotTorn`: `NoLateSync`. `LinkInv` says, for both directions alike, which kinds of
  frames may be under way between sides in which states (`Kinds`) and which may be behind
  which others (`Behind`); the frame in the UART counts as the last of its queue.
* `PacketsInOrder`, `AckedArrived`: `InOrderOnce`, `AckedIsReceived`. `PacketInv` bounds how
  far the host's numbers, the acknowledgements under way and the packets under way may lag
  behind what the device took: by no more than a window. A window is less
  than `SEQ_NUM`, so a number modulo `SEQ_NUM` names one packet. Between a restart
  and the new establishment no packet is under way (`FreshInv`, `QuietInv`).

None of these properties is inductive alone: they say nothing of frames under way,
and a late one is what could break them. The invariants were checked with TLC first, also
with four sequence numbers, a window of three and without `Prompt`.

`H4LinkProofs` proves of `H4Link`, for any sizes of its buffers and FIFOs, any packets and any
number of sessions and of losses, `H4PacketsAsSent` (`PacketsAsSent`) and
`H4NothingLeftBehind` (`NothingLeftBehind`). Neither property says where the bytes are:

* `H4Inv` does. The packets of a session, one behind the other, are a stream (`Stream`). Behind
  the packets given to the HCI layer come the bytes of the backup, of the unread buffers from the
  handler's position on, and of the line, without a gap (`InStream`); and the FIFO holds
  the packets that follow the delivered ones (`FifoHolds`). It is kept as long as no bytes
  are lost and until what a stopped host left has been handled (`Live`).
* A step of the host makes the stream longer (`StreamGrows`); a transfer moves bytes of the
  line behind those of the buffers (`UartInv`); the handler moves bytes to the backup or to the
  FIFO (`ReaderInv`), releasing a buffer with its last one (`Releases`). It cuts at the right
  place because what it reads begins where a packet begins or where the backup
  ends (`ReadsNext`), so the length in the header is that of this packet, whether the header is whole
  yet or not (`HeaderTells`, `ResumeAdvances`, `PacketAdvances`).
* The pointers wrap and their slots are numbered modulo less: `WriteMoves`, `ReadMoves`,
  `WriteSlot`, `ReadSlot`, from division with remainder.
* The time-out drops no byte that is needed: it needs a silent line, and with the host up all
  bytes then were those of whole packets (`QuietMeansGiven`).

Both theorems have two hypotheses on the constants, said in each. `CountsPackets`: the bytes of
every packet sent can be counted in `backupCnt`. The code's `u8` cannot count those of
the longest ones, and `h4_max_packet` shows what becomes of them. `FlowControlled`: the
host, which is not in the repository, has at most as many packets under way as the FIFO of the
HCI layer has slots; `HCI_Tr_H4RxHandler` does not look whether it is full. The
constants of `hci_links` satisfy both, with equality for the second. With one more packet under way (and
four sent) TLC finds `PacketsAsSent` violated: a packet is written over one not handled yet.

`SdpStoreProofs` proves `RecordsAreFound`, `FoundIsDiscovered` for any peers,
handles and number of units. `SdpInv`: the units in use come first (`UsedFirst`), so
a search, which stops at a blank unit, sees every record; the unit of a store
under way is blank and holds what was written to it so far (`StoringInv`); the
record of a peer is in the unit its last discovery went to (`RecordsInv`), and a
unit that a search would find is the one of its peer's record (`HoldsInv`). The
property alone is not inductive, because it says nothing of a store that is not finished.

`PeripheralProofs` proves of `KeyScan` `KeysAreFollowed`, `ScansEnd` and `PairingEnds` for any
keys, pins and a release count of at least 3. `ScanInv` relates the count of
scans to the two readings of the filter: the last reading is empty unless the
count was set in this scan, the filter follows one scan later. With a count of 1 or 2
the scans would end before the filter has seen the release; the code has 6.

Of `UsbHid` it proves, for any keys, two or more slots and any width of the pointers that is a
multiple of twice the slots:

* `FifoIsQueue`: `FifoKeepsNewest`. The pointers are never reset, so where a report lies
  depends on their difference alone (`Wrapped`, from division with remainder): the FIFO
  holds at most its slots (`FifoInv`), a write puts its report behind all that wait or, when full, moves
  both pointers (`Puts`), a read takes the oldest (`Gets`). With a single slot this is false:
  the mask that compares the pointers is then 1 and takes two reports for none, as TLC showed.
  The code has 4 slots, and `HidAssumption` leaves out one.
* `KeysAreReleased`: `NoKeySticks`. The property says nothing while a report waits or a reset is not
  seen yet. `StickInv` does: until a report meets a busy endpoint nothing is in the FIFO, device and
  host agree on the toggle (`ToggleInv`), so no report is dropped, and what the host
  shows, or will when it fetches, is noted as not released and still held (`ShownInv`).
  It was checked with TLC first.

Of `SoftTimer` it proves, for any number of timers, intervals and width of the clock,
`TableIsSorted` (`TimersInOrder`), `NoTimerIsMissed` (`NeverMissed`) and `FrontWakes`
(`WakeupIsFront`). The argument has three parts:

* Times wrap, so nothing is said of them but how many ticks they are ahead of the clock
  (`Ahead`, below zero when overdue). Near the clock the code's comparisons are those of these
  ticks (`NearTimes`, `NearClock`), and a tick of the clock takes one from each (`AheadTicks`).
* `Sorted` puts a table of such times in order (`SortOrders`). Its two recursive functions
  have a solution, so their equations hold (`PassIs`, `SortedIs`, from `LoopExists`); a pass over
  the first `m` entries brings the latest of them to place `m` and leaves what is above in order
  (`PassOrders`). A lower bound for each place that grows with the place is kept as well, because
  that is what the last part needs of the sort.
* `TimerInv`. The table alone says nothing while the loop runs, and `NeverMissed` is not
  inductive: that a timer is still in the window does not say that it will be after the next
  gap. `WindowInv` bounds how late the timer at each place may be: by one gap for each
  place behind it and the ticks since the last call. A timer that is passed over has moved up one
  place and so is allowed one more gap; the one that is looked at is not late any more. `OrderInv` keeps
  the order within the loop until a timer is restarted. TLC checked the invariant first.

`BufPoolsProofs` proves `EnabledAfterCalls` (`InterruptsBack`), `SectionsExclude`
and `ListsIntact` (`PoolsIntact`) for any sizes of pools and any depth of nested handlers.
`SectionInv`: only the innermost call is between disabling and enabling
interrupts; the enable register is what its label says; the nesting is 1 exactly
while it is counted; and what a call of the second pool saved is an enabled
register. Hence `myCsNesting` never exceeds 1, and restoring and enabling come to the same.
For `ListsIntact` the invariant `FullInv` adds that every call frees a buffer of its pool that it
holds and no other call frees (`FramesInv`), and that each list is a *chain*: a
function from `1 .. n` onto the buffers nobody holds whose links lead from one to the
next (`ChainsInv`), except within a section, where the innermost call has the list in hand and
its label says what is still to be written (`TakeInv`, `PutInv`). A chain turns what a walk along the
links yields (`NthFree`, a recursive function, whose existence is proved from
its iterates) into a statement about single links.

`OtaClientProofs` proves, for any length of PDU, sizes of firmware, number of transfers
and build:

* `PdusInSequence`: `SequenceKept`. `OrderInv` orders the queue to the server from its front on:
  what comes first is what the session waits for, each PDU is followed by the next one, by
  the end or by a new start, and while data is sent the last one is that before `cur`, the
  number the client sends next. PDUs left by a transfer that timed out are therefore a part
  of an earlier sequence, in order, before the start that ends them.
* `SuccessIsOwn`: `SuccessIsWhole`. `AskInv` says that the answer a step waits for is one to
  its own question and comes behind all that is left of an earlier transfer: questions and
  answers keep their order, so once it is taken no PDU is on its way and no success. `TransferInv`
  uses this: from the start on, the queue and the session hold PDUs of this firmware only,
  and a success that waits is the answer to this transfer's end.

`FlowInv` says where the client is (a connection from step 3 on, a count only while data
is sent). Neither property is inductive: both are about messages the client has forgotten.
`OtaInv` was checked with TLC first.

A non-empty set of naturals has a least member (`LeastExists`, from the well-foundedness
of `<`); this stands in for induction where a `CHOOSE` of a least element has to be typed.

The assumptions on the constants (`DeviceAssumption`, `ConnAssumption`,
`PairAssumption`, `SdpAssumption`, `ScanAssumption`, `PoolAssumption`, `H5Assumption`,
`OtaAssumption`, `HidAssumption`, `TimerAssumption`, `GapAssumption`, `H4Assumption`) are
evaluated by TLC in the runs. `DrainsEvents`, a statement about the closed library, is a
hypothesis of three theorems and is said in each, as is `~UnaskedAnswers` in two, and as are `CountsPackets` and `FlowControlled` in
those of `H4Link`.

Only model-checked, not proved:

* The liveness properties (`DiscoveryEnds`, `UnpairFlowEnds`, `LinkComesUp`): liveness under
  fairness is out of the prover's reach.

## 5. Not modelled

* Start-up, advertising data, LEDs, USB reports, connection parameter updates,
  power management, ATT traffic of the slave role: no part in the state above.
* The contents of ATT responses and the tables of handles built from them: a response has
  a kind, and what was read is known by the peer it came from.
* The rounds of the loop over a packet type no host sends (`SkipPacket` of H4Link).
* Resolvable private addresses: the code's matching is marked TODO.
* SLIP coding and the search for frames in DMA buffers (`hci_slip.c`,
  `hci_tr_h5.c`): byte by byte what the coding says; a damaged frame is a lost one.
* The sending side of H4 (`HCI_Tr_TxHandlerCback`) and its mode without DMA.
* `zb_buffer.c` of the second pool: nothing in the repository calls it. (Its lines 94
  and 190 keep `irq_disable()`, a word, in a `u8`, which would lose the enable
  bits above the lowest eight.) The heap below `myBuf.c` only grows at start-up.
* The ring FIFO of `utility.c`: its users are in the closed library.
* Call-backs of software timers that add or delete timers themselves; mouse
  movement, system keys and the control endpoint of USB; the legacy OTA protocol.
* Drivers, boot code, audio, algorithms, FreeRTOS (third-party, not used by the
  demo's main loop) and the other demo applications, which copy the connection
  handling modelled here. These make up most of the repository's lines; the
  SDK's own stateful logic is mostly in `vendor/`, and that is what the models map.

## 6. Plan

Done: the core (connection list, connection manager with discovery), the bond store, both
transports, the handle store, timers, key scan, USB reports, OTA client and buffer pools;
the theorems of `DeviceManage`, `ConnManager`, `PairStore`, `SdpStore`, `KeyScan`, `BufPools`,
`H5Link`, `H4Link`, `OtaClient`, `UsbHid` and `SoftTimer`: every safety property a passing run
checks is a theorem, and only liveness is left to TLC alone.

Next:

1. The sending side of H4 (`HCI_Tr_TxHandlerCback`) and the byte search of `hci_tr_h5.c`, each
   with the order of what it hands on as its property.
2. What the application asks of the closed library (`DrainsEvents`, `UnaskedAnswers`,
   `FlowControlled`), if its
   source becomes available: they are hypotheses of theorems now.
