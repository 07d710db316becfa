------------------------------- MODULE UsbHid -------------------------------
(***************************************************************************)
(* application/app/usbkb.c and usbmouse.c: the HID reports of a dongle.    *)
(* The keys that a remote sends over the air (att_keyboard,                *)
(* att_keyboard_media in vendor/B91_master_dongle/app_ui.c) are written to *)
(* two interrupt endpoints, or put into one FIFO while the endpoint still  *)
(* holds a report that the host has not fetched.                           *)
(*                                                                         *)
(* The host is not in the repository: it fetches a report whenever it      *)
(* likes, drops one with the wrong data toggle, and may reset the bus.     *)
(* The remote holds at most one ordinary and one consumer key.             *)
(***************************************************************************)
EXTENDS Integers, SequencesExt

CONSTANTS
  Keys,         \* codes of ordinary keys
  MediaKeys,    \* codes of consumer keys
  NoKey,        \* the empty report: everything is released
  USB_FIFO_NUM, \* 4; with one slot Overflow, modulo two, would not see a full one
  FifoPtrVals   \* values of the u8 pointers usb_ff_wptr, usb_ff_rptr: 256

ASSUME HidAssumption ==
  /\ USB_FIFO_NUM \in Nat \ {0, 1} /\ FifoPtrVals \in Nat
  /\ FifoPtrVals % (2 * USB_FIFO_NUM) = 0 /\ FifoPtrVals > 0
  /\ NoKey \notin Keys \cup MediaKeys

VARIABLES
  usb_fifo,    \* reports that met a busy endpoint, by slot
  ffPtr,       \* usb_ff_wptr, usb_ff_rptr
  ep,          \* per endpoint: the report it holds, or <<>>, with its toggle
  edp_toggle,  \* per endpoint: toggle of the next report
  notReleased, \* usbkb_not_released: KB_NORMAL_RELEASE_MASK, KB_MEDIA_RELEASE_MASK
  lastKey,     \* last_data of usbkb_check_repeat_and_save
  mediaStep,   \* usbkb_hid_report has still to call usbkb_release_media_key
  remote,      \* keys held at the remote, as received
  usbHost,     \* per endpoint: the keys and the toggle the host knows
  busReset,    \* a reset of the bus that the device has not seen yet
  metBusy      \* a report met a busy endpoint

fifoVars == <<usb_fifo, ffPtr>>
hidVars == <<usb_fifo, ffPtr, ep, edp_toggle, notReleased, lastKey, mediaStep,
             remote, usbHost, busReset, metBusy>>

Endpoints == {"KEYBOARD_IN", "MOUSE"}
CodesOf(e) == IF e = "MOUSE" THEN MediaKeys ELSE Keys
Reports == [ep : {"KEYBOARD_IN"}, code : Keys \cup {NoKey}]
             \cup [ep : {"MOUSE"}, code : MediaKeys \cup {NoKey}]
Report(e, code) == [ep |-> e, code |-> code]
Busy(e) == ep[e] # <<>>

-----------------------------------------------------------------------------
(* The tail of usbkb_hid_report_normal and usbmouse_hid_report: write to the
   endpoint, or, when it is busy, to the FIFO, where the newest reports push
   the oldest out.                                                         *)
Slot(p) == p % USB_FIFO_NUM
OverflowAtFull(w, r) == (w - r) % (2 * USB_FIFO_NUM) >= USB_FIFO_NUM  \* mutant
Overflow(w, r) == (w - r) % (2 * USB_FIFO_NUM) > USB_FIFO_NUM
Next8(p) == (p + 1) % FifoPtrVals

WriteEndpoint(e, code) ==
  /\ ep' = [ep EXCEPT ![e] = <<[code |-> code, toggle |-> edp_toggle[e]]>>]
  /\ edp_toggle' = [edp_toggle EXCEPT ![e] = 1 - @]

WriteFifo(e, code) ==
  LET w == Next8(ffPtr.w)
  IN /\ usb_fifo' = [usb_fifo EXCEPT ![Slot(ffPtr.w)] = Report(e, code)]
     /\ ffPtr' = [w |-> w, r |-> IF Overflow(w, ffPtr.r) THEN Next8(ffPtr.r) ELSE ffPtr.r]

HidReport(e, code) ==
  IF Busy(e) THEN WriteFifo(e, code) /\ metBusy' = TRUE /\ UNCHANGED <<ep, edp_toggle>>
  ELSE WriteEndpoint(e, code) /\ UNCHANGED <<fifoVars, metBusy>>

(* A key is reported and noted as not released; a release is reported when one
   is noted.  The note follows the endpoint, not the FIFO.                 *)
ReportKey(e, code) ==
  /\ HidReport(e, code)
  /\ notReleased' = IF Busy(e) THEN notReleased ELSE notReleased \cup {e}
ReleaseUnasked(e) == UNCHANGED <<fifoVars, ep, edp_toggle, metBusy, notReleased>>  \* mutant
Release(e) ==
  IF e \in notReleased
  THEN HidReport(e, NoKey) /\ notReleased' = IF Busy(e) THEN notReleased ELSE notReleased \ {e}
  ELSE UNCHANGED <<fifoVars, ep, edp_toggle, metBusy, notReleased>>

ReportOrRelease(e, code) == IF code = NoKey THEN Release(e) ELSE ReportKey(e, code)

-----------------------------------------------------------------------------
(* att_keyboard and usbkb_hid_report: a key that is pressed again while
   something is noted as not released is taken for a repetition.           *)
Repeated(key) == key # NoKey /\ lastKey = key /\ notReleased # {}

KeyboardReport ==
  /\ ~mediaStep
  /\ \E key \in Keys \cup {NoKey} :
       /\ key # remote.key /\ (key = NoKey \/ remote.key = NoKey)
       /\ remote' = [remote EXCEPT !.key = key]
       /\ lastKey' = IF key = NoKey THEN lastKey ELSE key
       /\ IF Repeated(key)
          THEN UNCHANGED <<fifoVars, ep, edp_toggle, metBusy, notReleased, mediaStep>>
          ELSE ReportOrRelease("KEYBOARD_IN", key) /\ mediaStep' = TRUE
  /\ UNCHANGED <<usbHost, busReset>>

(* usbkb_report_media_key, later in the same call *)
KeyboardReportMedia ==
  /\ mediaStep /\ mediaStep' = FALSE
  /\ Release("MOUSE")
  /\ UNCHANGED <<lastKey, remote, usbHost, busReset>>

(* att_keyboard_media and usbkb_report_consumer_key *)
ConsumerReport ==
  /\ ~mediaStep
  /\ \E key \in MediaKeys \cup {NoKey} :
       /\ key # remote.media /\ (key = NoKey \/ remote.media = NoKey)
       /\ remote' = [remote EXCEPT !.media = key]
       /\ ReportOrRelease("MOUSE", key)
  /\ UNCHANGED <<lastKey, mediaStep, usbHost, busReset>>

(* usb_hid_report_fifo_proc: the oldest report, when its endpoint is free.
   What a free slot holds is never read.                                   *)
Empty == Report("KEYBOARD_IN", NoKey)
FifoProc ==
  LET oldest == usb_fifo[Slot(ffPtr.r)] IN
  /\ ~mediaStep /\ ~busReset /\ ffPtr.w # ffPtr.r /\ ~Busy(oldest.ep)
  /\ WriteEndpoint(oldest.ep, oldest.code)
  /\ ffPtr' = [ffPtr EXCEPT !.r = Next8(@)]
  /\ usb_fifo' = [usb_fifo EXCEPT ![Slot(ffPtr.r)] = Empty]
  /\ UNCHANGED <<notReleased, lastKey, mediaStep, remote, usbHost, busReset, metBusy>>

(* usb_handle_irq: the device sees the reset *)
HandleReset ==
  /\ busReset /\ ~mediaStep /\ busReset' = FALSE
  /\ ep' = [e \in Endpoints |-> <<>>]
  /\ edp_toggle' = [e \in Endpoints |-> 0]
  /\ UNCHANGED <<fifoVars, notReleased, lastKey, mediaStep, remote, usbHost, metBusy>>

-----------------------------------------------------------------------------
(* The host fetches a report. *)
HostFetch(e) ==
  /\ Busy(e) /\ ~busReset
  /\ ep' = [ep EXCEPT ![e] = <<>>]
  /\ usbHost' = IF ep[e][1].toggle = usbHost[e].toggle
                THEN [usbHost EXCEPT ![e] = [code |-> ep[e][1].code, toggle |-> 1 - @.toggle]]
                ELSE usbHost
  /\ UNCHANGED <<fifoVars, edp_toggle, notReleased, lastKey, mediaStep, remote, busReset, metBusy>>

HostReset ==
  /\ ~busReset /\ busReset' = TRUE
  /\ usbHost' = [e \in Endpoints |-> [code |-> NoKey, toggle |-> 0]]
  /\ UNCHANGED <<fifoVars, ep, edp_toggle, notReleased, lastKey, mediaStep, remote, metBusy>>

-----------------------------------------------------------------------------
HidInit ==
  /\ usb_fifo = [i \in 0 .. USB_FIFO_NUM - 1 |-> Empty]
  /\ ffPtr = [w |-> 0, r |-> 0]
  /\ ep = [e \in Endpoints |-> <<>>] /\ edp_toggle = [e \in Endpoints |-> 0]
  /\ notReleased = {} /\ lastKey = NoKey /\ mediaStep = FALSE
  /\ remote = [key |-> NoKey, media |-> NoKey]
  /\ usbHost = [e \in Endpoints |-> [code |-> NoKey, toggle |-> 0]]
  /\ busReset = FALSE /\ metBusy = FALSE

HidNext ==
  \/ KeyboardReport \/ KeyboardReportMedia \/ ConsumerReport \/ FifoProc \/ HandleReset
  \/ \E e \in Endpoints : HostFetch(e)
  \/ HostReset

HidSpec == HidInit /\ [][HidNext]_hidVars

-----------------------------------------------------------------------------
(* The reports in the FIFO, oldest first *)
Waiting == [i \in 1 .. (ffPtr.w - ffPtr.r) % FifoPtrVals |-> usb_fifo[Slot(ffPtr.r + i - 1)]]

(* The FIFO is a queue that forgets the oldest of its reports when a new one
   finds it full, and only then: nothing is duplicated, exchanged or lost when
   the byte pointers wrap (usbkb.c:169-178, 356-381).                      *)
Newest(q) == IF Len(q) > USB_FIFO_NUM THEN Tail(q) ELSE q
FifoKeepsNewest ==
  [][ \/ Waiting' = Waiting
      \/ \E r \in Reports : Busy(r.ep) /\ Waiting' = Newest(Append(Waiting, r))
      \/ /\ Waiting # <<>> /\ Waiting' = Tail(Waiting)
         /\ ep'[Head(Waiting).ep][1].code = Head(Waiting).code ]_hidVars

(* Once all reports are fetched the host shows no key that is not held: every
   press that got to the host is followed by its release, across resets of the
   bus, as long as no report met a busy endpoint (usbkb.c:111-136).  After one
   did, the note of what is not released may be wrong either way.          *)
Settled == ~mediaStep /\ ~busReset /\ \A e \in Endpoints : ~Busy(e)
NoKeySticks ==
  Settled /\ ~metBusy =>
    /\ usbHost["KEYBOARD_IN"].code \in {NoKey, remote.key}
    /\ usbHost["MOUSE"].code \in {NoKey, remote.media}
=============================================================================
