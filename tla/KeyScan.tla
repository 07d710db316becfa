------------------------------ MODULE KeyScan ------------------------------
(***************************************************************************)
(* application/keyboard/keyboard.c as B91_demo uses it (proc_keyboard and  *)
(* key_change_proc in app_ui.c), with the options of its app_config.h: no  *)
(* ghost removal, no repetition, no lines for a keyboard.  Every 10 ms the *)
(* scan pins are looked at with all lines driven; while one of them shows  *)
(* a key, and RELEASE_SCANS - 1 times after, the matrix is read and        *)
(* filtered, and a change of it goes to the user interface.                *)
(*                                                                         *)
(* A contact bounces within one interval at most: the next scan may see    *)
(* either level.  A scan takes a few microseconds and sees one level.      *)
(***************************************************************************)
EXTENDS Integers, FiniteSets

CONSTANTS
  VolumeKeys,     \* CR_VOL_UP, CR_VOL_DN
  PairKeys,       \* BTN_PAIR
  ScanPin,        \* the scan pin of each key
  RELEASE_SCANS   \* release_cnt is set to 6

MatrixKeys == VolumeKeys \cup PairKeys
KeySets == SUBSET MatrixKeys

ASSUME ScanAssumption ==
  /\ DOMAIN ScanPin = MatrixKeys /\ VolumeKeys \cap PairKeys = {}
  /\ RELEASE_SCANS \in Nat /\ RELEASE_SCANS >= 3

VARIABLES
  down,          \* keys held
  bouncing,      \* keys whose contact has not settled
  release_cnt,   \* scans that follow without a key
  ret_last,      \* pins that last showed a key
  mtrx_pre,      \* the matrix as read the last time
  mtrx_last,     \* the filtered matrix
  kb_keys,       \* keys of the last event given to key_change_proc
  ui_key_type,   \* key_type
  pairing,       \* master_pairing_enable
  steady         \* scans since a contact changed, up to RELEASE_SCANS

contactVars == <<down, bouncing>>
scanVars == <<release_cnt, ret_last, mtrx_pre, mtrx_last>>
uiVars == <<kb_keys, ui_key_type, pairing>>
keyVars == <<contactVars, scanVars, uiVars, steady>>

-----------------------------------------------------------------------------
(* A key is pressed or released. *)
Contact ==
  /\ \E k \in MatrixKeys :
       /\ down' = IF k \in down THEN down \ {k} ELSE down \cup {k}
       /\ bouncing' = bouncing \cup {k}
  /\ steady' = 0
  /\ UNCHANGED <<scanVars, uiVars>>

(* What a scan may see *)
Levels == {(down \ bouncing) \cup b : b \in SUBSET bouncing}
PinsOf(K) == {ScanPin[k] : k \in K}

(* kb_key_pressed, when the pins show the keys in K: the pins to be read, and
   the count that is left                                                  *)
CountTwo(K) == IF K # {} THEN 2 ELSE release_cnt  \* mutant
Count(K) == IF K # {} THEN RELEASE_SCANS ELSE release_cnt
PinsSeen(K) == IF K # {} THEN PinsOf(K) ELSE ret_last
KeyPressed(K) ==
  /\ ret_last' = PinsSeen(K)
  /\ release_cnt' = IF Count(K) > 0 THEN Count(K) - 1 ELSE 0
PinsShown(K) == PinsOf(K)  \* mutant
PinsNeeded(K) == IF Count(K) > 0 THEN PinsSeen(K) ELSE {}

(* key_debounce_filter: a key is pressed after two readings and released after
   two without it.                                                         *)
Filtered(raw) == ((mtrx_pre \cap raw) \ mtrx_last) \cup (mtrx_last \cap (mtrx_pre \cup raw))

(* key_change_proc for the pairing and the volume keys.  Two keys are ignored;
   none, and more than two, are a release of the last type.                *)
PairingKept == pairing  \* mutant
PairingAfterRelease == pairing /\ ui_key_type # "PAIR_UNPAIR_KEY"
KeyChange(K) ==
  /\ kb_keys' = K
  /\ ui_key_type' = IF Cardinality(K) # 1 THEN ui_key_type
                    ELSE IF K \subseteq VolumeKeys THEN "CONSUMER_KEY" ELSE "PAIR_UNPAIR_KEY"
  /\ \/ Cardinality(K) = 1 /\ pairing' = (pairing \/ K \subseteq PairKeys)
     \/ Cardinality(K) = 2 /\ UNCHANGED pairing
     \/ Cardinality(K) \notin {1, 2} /\ pairing' = PairingAfterRelease

(* kb_scan_key_value: the event is read from the matrix buffer in the call that
   put it there.                                                           *)
ScanKeyValue(raw) ==
  /\ mtrx_pre' = raw /\ mtrx_last' = Filtered(raw)
  /\ IF Filtered(raw) # mtrx_last THEN KeyChange(Filtered(raw)) ELSE UNCHANGED uiVars

Settles ==
  /\ bouncing' = {} /\ UNCHANGED down
  /\ steady' = IF steady < RELEASE_SCANS THEN steady + 1 ELSE steady

(* proc_keyboard: the pins are looked at, then the lines are read one by one. *)
ProcKeyboard ==
  /\ \E K \in Levels :
       /\ KeyPressed(K)
       /\ IF PinsNeeded(K) = {} THEN UNCHANGED <<mtrx_pre, mtrx_last, uiVars>>
          ELSE ScanKeyValue({k \in K : ScanPin[k] \in PinsNeeded(K)})
  /\ Settles

KeyInit ==
  /\ down = {} /\ bouncing = {} /\ release_cnt = 0 /\ ret_last = {}
  /\ mtrx_pre = {} /\ mtrx_last = {} /\ kb_keys = {} /\ ui_key_type = "NONE"
  /\ pairing = FALSE /\ steady = RELEASE_SCANS

KeyNext == Contact \/ ProcKeyboard
KeySpec == KeyInit /\ [][KeyNext]_keyVars

-----------------------------------------------------------------------------
(* The user interface knows the keys that are held as soon as the contacts have
   been at rest for three scans; a key whose release fell into the scans after
   the last one seen is never left pressed (keyboard.c:266, 412, 417).     *)
KeysFollow == steady >= 3 => kb_keys = down

(* When the scans have ended, no key is left pressed in the filter: nothing
   would read the matrix again to release it (keyboard.c:257, 417).        *)
ScansEndReleased == release_cnt = 0 => mtrx_last = {}

(* Manual pairing lasts as long as its key is pressed: it stays on with all keys
   up only when a volume key was the last one reported alone
   (app_ui.c:97-185).                                                      *)
PairingNeedsKey ==
  pairing /\ down = {} /\ steady >= 3 => ui_key_type = "CONSUMER_KEY"
=============================================================================
