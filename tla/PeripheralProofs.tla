--------------------------- MODULE PeripheralProofs ---------------------------
(***************************************************************************)
(* The properties of KeyScan, for any keys, pins and number of scans, of   *)
(* UsbHid, for any keys, number of slots and width of the pointers, and of *)
(* SoftTimer, for any number of timers, intervals and width of the clock.  *)
(*                                                                         *)
(* What makes those of KeyScan hold is how the count of scans, the two     *)
(* readings of the filter and the contacts at rest go together (ScanInv):  *)
(* a reading is not empty only in the scan that set the count, the filter  *)
(* one scan longer; and a filter that is not read any more has nothing to  *)
(* read.                                                                   *)
(*                                                                         *)
(* The queue of UsbHid lies between two pointers that are never reset: how *)
(* many reports it holds and where they lie depends on their difference    *)
(* only (Wrapped), and a write that finds it full moves both (Puts).  No   *)
(* key sticks because, until a report meets a busy endpoint, what the host *)
(* shows or will show is noted as not released and held (HidInv).          *)
(*                                                                         *)
(* The times of SoftTimer wrap, and only how far they are ahead of the     *)
(* clock counts (Ahead): the code's comparisons of two times near it are   *)
(* those of the ticks they are ahead (NearTimes).  So the bubble sort puts *)
(* a table in order (SortOrders), pass by pass.  A timer is never too far  *)
(* behind, because the one that takes the place of a deleted one and is    *)
(* passed over has one place less to move up (Low, WindowInv).             *)
(***************************************************************************)
EXTENDS KeyScan, UsbHid, SoftTimer, FiniteSetTheorems, SequenceTheorems,
        WellFoundedInduction, TLAPS

-----------------------------------------------------------------------------
(* The key scan *)
CountInv ==
  /\ release_cnt \in 0 .. RELEASE_SCANS - 1
  /\ release_cnt > 0 => ret_last # {}
  /\ release_cnt < RELEASE_SCANS - 1 => mtrx_pre = {}
  /\ release_cnt < RELEASE_SCANS - 2 => mtrx_last = {}

RestInv ==
  /\ steady \in 0 .. RELEASE_SCANS
  /\ steady >= 1 => bouncing = {}
  /\ steady >= 2 => mtrx_pre = down
  /\ steady >= 3 => mtrx_last = down

PairingInv ==
  /\ kb_keys = mtrx_last
  /\ ui_key_type = "NONE" => ~pairing
  /\ ui_key_type \in {"NONE", "CONSUMER_KEY", "PAIR_UNPAIR_KEY"}
  /\ kb_keys = {} /\ pairing => ui_key_type = "CONSUMER_KEY"

ScanInv == CountInv /\ RestInv /\ PairingInv

(* What a scan leaves in the matrix: the keys it saw, unless it saw none and
   none of the scans before asks for another reading.                      *)
LEMMA ScanReads ==
  ASSUME ScanInv, NEW K, KeyPressed(K),
         IF PinsNeeded(K) = {} THEN UNCHANGED <<mtrx_pre, mtrx_last, uiVars>>
         ELSE ScanKeyValue({k \in K : ScanPin[k] \in PinsNeeded(K)})
  PROVE  /\ \/ ScanKeyValue(K)
            \/ K = {} /\ release_cnt = 0 /\ UNCHANGED <<mtrx_pre, mtrx_last, uiVars>>
         /\ ret_last' = PinsSeen(K)
         /\ release_cnt' = IF K # {} THEN RELEASE_SCANS - 1
                           ELSE IF release_cnt > 0 THEN release_cnt - 1 ELSE 0
<1>1. RELEASE_SCANS \in Nat /\ RELEASE_SCANS >= 3
  BY ScanAssumption
<1>2. release_cnt \in Nat /\ (release_cnt > 0 => ret_last # {})
  BY <1>1 DEF ScanInv, CountInv
<1>3. CASE K # {}
  <2>1. PinsNeeded(K) = PinsOf(K)
    BY <1>1, <1>3 DEF PinsNeeded, Count, PinsSeen
  <2>2. PinsOf(K) # {} /\ {k \in K : ScanPin[k] \in PinsOf(K)} = K
    BY <1>3 DEF PinsOf
  <2>3. ScanKeyValue(K)
    BY <2>1, <2>2
  <2> QED
    BY <1>1, <1>3, <2>3 DEF KeyPressed, Count
<1>4. CASE K = {} /\ release_cnt > 0
  <2>1. PinsNeeded(K) # {}
    BY <1>2, <1>4 DEF PinsNeeded, Count, PinsSeen
  <2>2. {k \in K : ScanPin[k] \in PinsNeeded(K)} = K
    BY <1>4
  <2>3. ScanKeyValue(K)
    BY <2>1, <2>2
  <2> QED
    BY <1>2, <1>4, <2>3 DEF KeyPressed, Count
<1>5. CASE K = {} /\ release_cnt = 0
  <2>1. PinsNeeded(K) = {}
    BY <1>5 DEF PinsNeeded, Count
  <2> QED
    BY <1>5, <2>1 DEF KeyPressed, Count
<1> QED
  BY <1>2, <1>3, <1>4, <1>5

(* The count, and how long the two readings may hold a key *)
LEMMA CountKept == ScanInv /\ ProcKeyboard => CountInv'
<1> SUFFICES ASSUME ScanInv, ProcKeyboard PROVE CountInv'
  OBVIOUS
<1>1. RELEASE_SCANS \in Nat /\ RELEASE_SCANS >= 3
  BY ScanAssumption
<1>2. PICK K \in Levels :
        /\ KeyPressed(K)
        /\ IF PinsNeeded(K) = {} THEN UNCHANGED <<mtrx_pre, mtrx_last, uiVars>>
           ELSE ScanKeyValue({k \in K : ScanPin[k] \in PinsNeeded(K)})
  BY DEF ProcKeyboard
<1>3. /\ \/ ScanKeyValue(K)
         \/ K = {} /\ release_cnt = 0 /\ UNCHANGED <<mtrx_pre, mtrx_last, uiVars>>
      /\ ret_last' = PinsSeen(K)
      /\ release_cnt' = IF K # {} THEN RELEASE_SCANS - 1
                        ELSE IF release_cnt > 0 THEN release_cnt - 1 ELSE 0
  BY <1>2, ScanReads
<1>4. CountInv
  BY DEF ScanInv
<1>5. CASE K # {}
  <2>1. PinsSeen(K) # {}
    BY <1>5 DEF PinsSeen, PinsOf
  <2> QED
    BY <1>1, <1>3, <1>5, <2>1 DEF CountInv
<1>6. CASE K = {} /\ release_cnt > 0
  <2>1. mtrx_pre' = {} /\ mtrx_last' = mtrx_last \cap mtrx_pre
    BY <1>3, <1>6 DEF ScanKeyValue, Filtered
  <2>2. ret_last' = ret_last
    BY <1>3, <1>6 DEF PinsSeen
  <2> QED
    BY <1>1, <1>3, <1>4, <1>6, <2>1, <2>2 DEF CountInv
<1>7. CASE K = {} /\ release_cnt = 0
  <2>1. mtrx_pre = {} /\ mtrx_last = {} /\ release_cnt' = 0
    BY <1>1, <1>3, <1>4, <1>7 DEF CountInv
  <2>2. mtrx_pre' = {} /\ mtrx_last' = {}
    BY <1>3, <1>7, <2>1 DEF ScanKeyValue, Filtered
  <2> QED
    BY <1>1, <2>1, <2>2 DEF CountInv
<1> QED
  BY <1>4, <1>5, <1>6, <1>7 DEF CountInv

(* With the contacts at rest the second scan reads them right, and the filter
   follows in the third.                                                   *)
LEMMA RestKept == ScanInv /\ ProcKeyboard => RestInv'
<1> SUFFICES ASSUME ScanInv, ProcKeyboard PROVE RestInv'
  OBVIOUS
<1>1. RELEASE_SCANS \in Nat /\ RELEASE_SCANS >= 3
  BY ScanAssumption
<1>2. PICK K \in Levels :
        /\ KeyPressed(K)
        /\ IF PinsNeeded(K) = {} THEN UNCHANGED <<mtrx_pre, mtrx_last, uiVars>>
           ELSE ScanKeyValue({k \in K : ScanPin[k] \in PinsNeeded(K)})
  BY DEF ProcKeyboard
<1>3. \/ ScanKeyValue(K)
      \/ K = {} /\ release_cnt = 0 /\ UNCHANGED <<mtrx_pre, mtrx_last, uiVars>>
  BY <1>2, ScanReads
<1>4. CountInv /\ RestInv
  BY DEF ScanInv
<1>5. /\ bouncing' = {} /\ down' = down
      /\ steady' = IF steady < RELEASE_SCANS THEN steady + 1 ELSE steady
  BY DEF ProcKeyboard, Settles
<1>6. steady >= 1 => K = down
  BY <1>2, <1>4 DEF RestInv, Levels
<1>7. steady >= 1 => mtrx_pre' = down
  <2>1. CASE ScanKeyValue(K)
    BY <1>6, <2>1 DEF ScanKeyValue
  <2>2. CASE K = {} /\ release_cnt = 0 /\ UNCHANGED <<mtrx_pre, mtrx_last, uiVars>>
    <3>1. mtrx_pre = {}
      BY <1>1, <1>4, <2>2 DEF CountInv
    <3> QED
      BY <1>6, <2>2, <3>1
  <2> QED
    BY <1>3, <2>1, <2>2
<1>8. steady >= 2 => mtrx_last' = down
  <2> SUFFICES ASSUME steady >= 2 PROVE mtrx_last' = down
    OBVIOUS
  <2>1. steady >= 1 /\ mtrx_pre = down
    BY <1>1, <1>4 DEF RestInv
  <2>2. CASE ScanKeyValue(K)
    <3>1. mtrx_last' = ((down \cap down) \ mtrx_last) \cup (mtrx_last \cap (down \cup down))
      BY <1>6, <2>1, <2>2 DEF ScanKeyValue, Filtered
    <3> QED
      BY <3>1
  <2>3. CASE K = {} /\ release_cnt = 0 /\ UNCHANGED <<mtrx_pre, mtrx_last, uiVars>>
    <3>1. mtrx_last = {}
      BY <1>1, <1>4, <2>3 DEF CountInv
    <3> QED
      BY <1>6, <2>1, <2>3, <3>1
  <2> QED
    BY <1>3, <2>2, <2>3
<1> QED
  BY <1>1, <1>4, <1>5, <1>7, <1>8 DEF RestInv

(* The user interface is told every change, and a release ends the pairing
   that its key began.                                                     *)
LEMMA PairingKeptOn == ScanInv /\ ProcKeyboard => PairingInv'
<1> SUFFICES ASSUME ScanInv, ProcKeyboard PROVE PairingInv'
  OBVIOUS
<1>1. PICK K \in Levels :
        /\ KeyPressed(K)
        /\ IF PinsNeeded(K) = {} THEN UNCHANGED <<mtrx_pre, mtrx_last, uiVars>>
           ELSE ScanKeyValue({k \in K : ScanPin[k] \in PinsNeeded(K)})
  BY DEF ProcKeyboard
<1>2. ScanKeyValue(K) \/ UNCHANGED <<mtrx_pre, mtrx_last, uiVars>>
  BY <1>1, ScanReads
<1>3. PairingInv
  BY DEF ScanInv
<1>4. CASE UNCHANGED <<mtrx_last, uiVars>>
  BY <1>3, <1>4 DEF PairingInv, uiVars
<1>5. CASE ScanKeyValue(K) /\ Filtered(K) # mtrx_last
  <2>1. kb_keys' = Filtered(K) /\ mtrx_last' = Filtered(K) /\ KeyChange(Filtered(K))
    BY <1>5 DEF ScanKeyValue, KeyChange
  <2>2. Cardinality({}) = 0
    BY FS_EmptySet
  <2>3. CASE Cardinality(Filtered(K)) = 1 /\ Filtered(K) \subseteq VolumeKeys
    <3>1. ui_key_type' = "CONSUMER_KEY"
      BY <2>1, <2>3 DEF KeyChange
    <3> QED
      BY <2>1, <3>1 DEF PairingInv
  <2>4. CASE Cardinality(Filtered(K)) = 1 /\ ~(Filtered(K) \subseteq VolumeKeys)
    <3>1. ui_key_type' = "PAIR_UNPAIR_KEY" /\ Filtered(K) # {}
      BY <2>1, <2>2, <2>4 DEF KeyChange
    <3> QED
      BY <2>1, <3>1 DEF PairingInv
  <2>5. CASE Cardinality(Filtered(K)) = 2
    <3>1. ui_key_type' = ui_key_type /\ Filtered(K) # {}
      BY <2>1, <2>2, <2>5 DEF KeyChange
    <3>2. pairing' = pairing
      BY <2>1, <2>5 DEF KeyChange
    <3> QED
      BY <1>3, <2>1, <3>1, <3>2 DEF PairingInv
  <2>6. CASE Cardinality(Filtered(K)) \notin {1, 2}
    <3>1. ui_key_type' = ui_key_type
      BY <2>1, <2>6 DEF KeyChange
    <3>2. pairing' = PairingAfterRelease
      BY <2>1, <2>6 DEF KeyChange
    <3>3. pairing' => pairing /\ ui_key_type # "PAIR_UNPAIR_KEY"
      BY <3>2, Zenon DEF PairingAfterRelease
    <3> QED
      BY <1>3, <2>1, <3>1, <3>3 DEF PairingInv
  <2> QED
    BY <2>3, <2>4, <2>5, <2>6
<1> QED
  <2>1. CASE ScanKeyValue(K) /\ Filtered(K) = mtrx_last
    BY <1>4, <2>1 DEF ScanKeyValue, uiVars
  <2> QED
    BY <1>2, <1>4, <1>5, <2>1

-----------------------------------------------------------------------------
LEMMA ScanInvInit == KeyInit => ScanInv
  BY ScanAssumption DEF KeyInit, ScanInv, CountInv, RestInv, PairingInv

LEMMA ScanInvNext == ScanInv /\ [KeyNext]_keyVars => ScanInv'
<1> SUFFICES ASSUME ScanInv, [KeyNext]_keyVars PROVE ScanInv'
  OBVIOUS
<1>1. CASE Contact
  <2>1. UNCHANGED <<scanVars, uiVars>> /\ steady' = 0
    BY <1>1 DEF Contact
  <2>2. CountInv'
    BY <2>1 DEF ScanInv, CountInv, scanVars
  <2>3. RestInv'
    BY <2>1, ScanAssumption DEF RestInv
  <2>4. PairingInv'
    BY <2>1 DEF ScanInv, PairingInv, scanVars, uiVars
  <2> QED
    BY <2>2, <2>3, <2>4 DEF ScanInv
<1>2. CASE ProcKeyboard
  BY <1>2, CountKept, RestKept, PairingKeptOn DEF ScanInv
<1>3. CASE UNCHANGED keyVars
  BY <1>3 DEF keyVars, contactVars, scanVars, uiVars, ScanInv, CountInv, RestInv, PairingInv
<1> QED
  BY <1>1, <1>2, <1>3 DEF KeyNext

LEMMA ScanInvAlways == KeySpec => []ScanInv
  BY ScanInvInit, ScanInvNext, PTL DEF KeySpec

(* Three scans after the contacts came to rest the user interface knows the
   keys that are held, whatever the bounces before showed.                 *)
THEOREM KeysAreFollowed == KeySpec => []KeysFollow
<1>1. ScanInv => KeysFollow
  BY ScanAssumption DEF ScanInv, RestInv, PairingInv, KeysFollow
<1> QED
  BY <1>1, ScanInvAlways, PTL

(* The scans end with no key in the filter. *)
THEOREM ScansEnd == KeySpec => []ScansEndReleased
<1>1. ScanInv => ScansEndReleased
  BY ScanAssumption DEF ScanInv, CountInv, ScansEndReleased
<1> QED
  BY <1>1, ScanInvAlways, PTL

(* Manual pairing outlives its key only behind a volume key. *)
THEOREM PairingEnds == KeySpec => []PairingNeedsKey
<1>1. ScanInv => PairingNeedsKey
  BY ScanAssumption DEF ScanInv, RestInv, PairingInv, PairingNeedsKey
<1> QED
  BY <1>1, ScanInvAlways, PTL

-----------------------------------------------------------------------------
(* Numbers modulo m: division with remainder *)
LEMMA Quotient ==
  ASSUME NEW x \in Int, NEW m \in Nat \ {0}
  PROVE  /\ x = (m * (x \div m)) + (x % m)
         /\ x % m \in 0 .. m - 1 /\ x \div m \in Int
  OBVIOUS

(* A multiple is at least as far from 0 as the number. *)
LEMMA Multiple ==
  ASSUME NEW k \in Int, NEW m \in Nat \ {0}, m * k < m, -m < m * k
  PROVE  k = 0
<1>1. k > 0 => m * k >= m
  OBVIOUS
<1>2. k < 0 => m * k <= -m
  <2> SUFFICES ASSUME k < 0 PROVE m * k <= -m
    OBVIOUS
  <2>1. -k \in Int /\ -k > 0
    OBVIOUS
  <2>2. m * (-k) >= m
    BY <2>1
  <2>3. m * (-k) = -(m * k)
    OBVIOUS
  <2> QED
    BY <2>2, <2>3
<1>3. m * k \in Int
  OBVIOUS
<1> QED
  BY <1>1, <1>2, <1>3

(* There is only one remainder. *)
LEMMA Remainder ==
  ASSUME NEW x \in Int, NEW m \in Nat \ {0}, NEW r \in 0 .. m - 1,
         \E k \in Int : x = (m * k) + r
  PROVE  x % m = r
<1> DEFINE p == x \div m
<1>0. PICK k \in Int : x = (m * k) + r
  OBVIOUS
<1>1. x = (m * p) + (x % m) /\ x % m \in 0 .. m - 1 /\ p \in Int
  BY Quotient
<1> HIDE DEF p
<1>2. m * (p - k) = r - (x % m)
  <2>1. m * (p - k) = (m * p) - (m * k) /\ m * p \in Int /\ m * k \in Int
    BY <1>1
  <2>2. x % m \in Int /\ r \in Int
    BY <1>1
  <2>3. x = (m * p) + (x % m) /\ x = (m * k) + r
    BY <1>0, <1>1
  <2>4. (m * p) - (m * k) = r - (x % m)
    BY <2>1, <2>2, <2>3
  <2> QED
    BY <2>1, <2>4
<1>3. p - k \in Int /\ m * (p - k) < m /\ -m < m * (p - k)
  BY <1>1, <1>2
<1>4. p - k = 0
  BY <1>3, Multiple
<1>5. p = k
  BY <1>1, <1>4
<1> QED
  BY <1>0, <1>1, <1>5

(* A number below m *)
LEMMA SmallRemainder ==
  ASSUME NEW m \in Nat \ {0}, NEW x \in 0 .. m - 1
  PROVE  x % m = x
<1>1. x = (m * 0) + x
  OBVIOUS
<1> QED
  BY <1>1, Remainder

(* Numbers that differ by a multiple of m *)
IsMultiple(x, m) == \E k \in Int : x = m * k
LEMMA SameRemainder ==
  ASSUME NEW x \in Int, NEW y \in Int, NEW m \in Nat \ {0}, IsMultiple(x - y, m)
  PROVE  x % m = y % m
<1>0. PICK k \in Int : x - y = m * k
  BY DEF IsMultiple
<1> DEFINE q == y \div m
<1>1. y = (m * q) + (y % m) /\ y % m \in 0 .. m - 1 /\ q \in Int
  BY Quotient
<1> HIDE DEF q
<1>2. m * (q + k) = (m * q) + (m * k) /\ m * q \in Int /\ m * k \in Int /\ q + k \in Int
  BY <1>1
<1>3. x = (m * (q + k)) + (y % m)
  BY <1>0, <1>1, <1>2
<1> QED
  BY <1>1, <1>2, <1>3, Remainder

(* Numbers less than m apart *)
LEMMA OtherRemainder ==
  ASSUME NEW x \in Int, NEW y \in Int, NEW m \in Nat \ {0}, x # y, x - y < m, y - x < m
  PROVE  x % m # y % m
<1> DEFINE p == x \div m
           q == y \div m
<1>1. /\ x = (m * p) + (x % m) /\ y = (m * q) + (y % m)
      /\ p \in Int /\ q \in Int /\ x % m \in Int /\ y % m \in Int
  BY Quotient
<1> HIDE DEF p, q
<1> SUFFICES ASSUME x % m = y % m PROVE FALSE
  OBVIOUS
<1>2. m * (p - q) = (m * p) - (m * q) /\ m * p \in Int /\ m * q \in Int /\ p - q \in Int
  BY <1>1
<1>3. x - y = m * (p - q)
  BY <1>1, <1>2
<1>4. p - q = 0
  BY <1>2, <1>3, Multiple
<1> QED
  BY <1>1, <1>3, <1>4

-----------------------------------------------------------------------------
(* The FIFO: the count of its reports, and what it holds *)
UsedOf(w, r) == (w - r) % FifoPtrVals
Ptrs == 0 .. FifoPtrVals - 1

(* A number without remainder *)
LEMMA Divides ==
  ASSUME NEW x \in Nat \ {0}, NEW m \in Nat \ {0}, x % m = 0
  PROVE  x >= m /\ \E c \in Nat : x = m * c
<1> DEFINE c == x \div m
<1>1. x = (m * c) + (x % m) /\ c \in Int
  BY Quotient
<1> HIDE DEF c
<1>2. x = m * c
  BY <1>1
<1>3. c > 0
  <2>1. c <= 0 => m * c <= 0
    BY <1>1
  <2> QED
    BY <1>1, <1>2, <2>1
<1>4. m * c >= m
  BY <1>1, <1>3
<1> QED
  BY <1>1, <1>2, <1>3, <1>4

(* The count of values of a pointer is a multiple of twice that of the slots. *)
LEMMA Pointers ==
  /\ USB_FIFO_NUM \in Nat \ {0, 1} /\ FifoPtrVals \in Nat \ {0}
  /\ 2 * USB_FIFO_NUM \in Nat \ {0} /\ FifoPtrVals >= 2 * USB_FIFO_NUM
  /\ \E c \in Nat : FifoPtrVals = (2 * USB_FIFO_NUM) * c
<1>1. /\ USB_FIFO_NUM \in Nat \ {0, 1} /\ FifoPtrVals \in Nat \ {0}
      /\ FifoPtrVals % (2 * USB_FIFO_NUM) = 0
  BY HidAssumption
<1>2. 2 * USB_FIFO_NUM \in Nat \ {0}
  BY <1>1
<1> QED
  BY <1>1, <1>2, Divides

(* A pointer that counts on wraps by all its values or not at all. *)
LEMMA NextPointer ==
  ASSUME NEW p \in Ptrs
  PROVE  /\ Next8(p) \in Ptrs
         /\ \E k \in {0, 1} : Next8(p) = p + 1 - FifoPtrVals * k
<1>1. FifoPtrVals \in Nat \ {0} /\ p \in Int /\ p + 1 \in Int
  BY Pointers DEF Ptrs
<1>2. CASE p = FifoPtrVals - 1
  <2>1. p + 1 = (FifoPtrVals * 1) + 0 /\ 0 \in 0 .. FifoPtrVals - 1
    BY <1>1, <1>2
  <2>2. (p + 1) % FifoPtrVals = 0
    BY <1>1, <2>1, Remainder
  <2> QED
    BY <1>1, <1>2, <2>1, <2>2 DEF Next8, Ptrs
<1>3. CASE p < FifoPtrVals - 1
  <2>1. p + 1 = (FifoPtrVals * 0) + (p + 1) /\ p + 1 \in 0 .. FifoPtrVals - 1
    BY <1>1, <1>3 DEF Ptrs
  <2>2. (p + 1) % FifoPtrVals = p + 1
    BY <1>1, <2>1, Remainder
  <2> QED
    BY <1>1, <2>1, <2>2 DEF Next8, Ptrs
<1> QED
  BY <1>1, <1>2, <1>3 DEF Ptrs

(* Where a number of the pointers' values lies in the FIFO does not depend on
   how often they wrapped; nor does what Overflow looks at.                  *)
LEMMA Wrapped ==
  ASSUME NEW x \in Int, NEW y \in Int, \E k \in Int : x = y + FifoPtrVals * k
  PROVE  /\ Slot(x) = Slot(y) /\ x % (2 * USB_FIFO_NUM) = y % (2 * USB_FIFO_NUM)
         /\ x % FifoPtrVals = y % FifoPtrVals
<1>0. PICK k \in Int : x = y + FifoPtrVals * k
  OBVIOUS
<1>1. /\ USB_FIFO_NUM \in Nat \ {0} /\ FifoPtrVals \in Nat \ {0}
      /\ 2 * USB_FIFO_NUM \in Nat \ {0}
  BY Pointers
<1>2. PICK c \in Nat : FifoPtrVals = (2 * USB_FIFO_NUM) * c
  BY Pointers
<1>3. PICK m \in Nat \ {0} : m = 2 * USB_FIFO_NUM
  BY <1>1
<1>4. FifoPtrVals = m * c
  BY <1>2, <1>3
<1>5. PICK d \in Int : FifoPtrVals * k = m * d
  <2>1. c * k \in Int /\ (m * c) * k = m * (c * k)
    OBVIOUS
  <2> QED
    BY <1>4, <2>1
<1>6. x - y = FifoPtrVals * k
  <2>1. FifoPtrVals * k \in Int
    BY <1>1
  <2> QED
    BY <1>0, <1>1, <2>1
<1>7. x % FifoPtrVals = y % FifoPtrVals
  <2>1. IsMultiple(x - y, FifoPtrVals)
    BY <1>6 DEF IsMultiple
  <2> QED
    BY <1>1, <2>1, SameRemainder
<1>8. x - y = m * d
  BY <1>5, <1>6
<1>9. x % (2 * USB_FIFO_NUM) = y % (2 * USB_FIFO_NUM)
  <2>1. IsMultiple(x - y, m)
    BY <1>8 DEF IsMultiple
  <2>2. x % m = y % m
    BY <2>1, SameRemainder
  <2> QED
    BY <1>3, <2>2
<1>10. x % USB_FIFO_NUM = y % USB_FIFO_NUM
  <2>1. 2 * d \in Int /\ m * d = USB_FIFO_NUM * (2 * d)
    BY <1>1, <1>3
  <2>2. x - y = USB_FIFO_NUM * (2 * d)
    BY <1>8, <2>1
  <2>3. IsMultiple(x - y, USB_FIFO_NUM)
    BY <2>1, <2>2 DEF IsMultiple
  <2> QED
    BY <1>1, <2>3, SameRemainder
<1> QED
  BY <1>7, <1>9, <1>10 DEF Slot

(* The pointers w and r, with at most a full FIFO between them *)
LEMMA Between ==
  ASSUME NEW w \in Ptrs, NEW r \in Ptrs
  PROVE  /\ UsedOf(w, r) \in Ptrs
         /\ \E k \in Int : w = r + UsedOf(w, r) + FifoPtrVals * k
<1>1. FifoPtrVals \in Nat \ {0} /\ w \in Int /\ r \in Int /\ w - r \in Int
  BY Pointers DEF Ptrs
<1> DEFINE k == (w - r) \div FifoPtrVals
<1>2. /\ w - r = (FifoPtrVals * k) + ((w - r) % FifoPtrVals) /\ k \in Int
      /\ (w - r) % FifoPtrVals \in 0 .. FifoPtrVals - 1
  BY <1>1, Quotient
<1> HIDE DEF k
<1>3. FifoPtrVals * k \in Int
  BY <1>1, <1>2
<1>4. UsedOf(w, r) \in Ptrs /\ w - r = (FifoPtrVals * k) + UsedOf(w, r)
  BY <1>2 DEF UsedOf, Ptrs
<1>5. w = r + UsedOf(w, r) + FifoPtrVals * k
  BY <1>1, <1>3, <1>4 DEF Ptrs
<1> QED
  BY <1>2, <1>4, <1>5

(* The count that lies between two pointers *)
LEMMA CountIs ==
  ASSUME NEW w \in Int, NEW r \in Int, NEW n \in Ptrs,
         \E k \in Int : w = r + n + FifoPtrVals * k
  PROVE  UsedOf(w, r) = n
<1>0. PICK k \in Int : w = r + n + FifoPtrVals * k
  OBVIOUS
<1>1. FifoPtrVals \in Nat \ {0} /\ FifoPtrVals * k \in Int /\ n \in Int
  BY Pointers DEF Ptrs
<1>2. w - r = (FifoPtrVals * k) + n /\ w - r \in Int
  BY <1>0, <1>1
<1> QED
  BY <1>0, <1>1, <1>2, Remainder DEF UsedOf, Ptrs

(* What a write and a read do to the pointers, wherever they stand *)
LEMMA PointersMove ==
  ASSUME NEW w \in Ptrs, NEW r \in Ptrs, UsedOf(w, r) <= USB_FIFO_NUM
  PROVE  /\ UsedOf(w, r) < USB_FIFO_NUM => UsedOf(Next8(w), r) = UsedOf(w, r) + 1
         /\ UsedOf(Next8(w), Next8(r)) = UsedOf(w, r)
         /\ UsedOf(w, r) > 0 => UsedOf(w, Next8(r)) = UsedOf(w, r) - 1
         /\ Overflow(Next8(w), r) <=> UsedOf(w, r) = USB_FIFO_NUM
         /\ Slot(w) = Slot(r + UsedOf(w, r))
         /\ \A j \in Int : Slot(Next8(r) + j) = Slot(r + 1 + j)
<1>1. PICK n \in Ptrs, k \in Int : n = UsedOf(w, r) /\ w = r + n + FifoPtrVals * k
  BY Between
<1>2. /\ USB_FIFO_NUM \in Nat \ {0, 1} /\ FifoPtrVals \in Nat
      /\ FifoPtrVals >= 2 * USB_FIFO_NUM
  BY Pointers
<1>3. w \in Int /\ r \in Int /\ n \in Nat /\ n <= USB_FIFO_NUM
  BY <1>1, <1>2 DEF Ptrs
<1>4. PICK a \in {0, 1} : Next8(w) = w + 1 - FifoPtrVals * a
  BY NextPointer
<1>5. PICK b \in {0, 1} : Next8(r) = r + 1 - FifoPtrVals * b
  BY NextPointer
<1>6. Next8(w) \in Int /\ Next8(r) \in Int
  BY <1>2, NextPointer DEF Ptrs
<1>7. Next8(w) = r + (n + 1) + FifoPtrVals * (k - a) /\ k - a \in Int
  <2>1. FifoPtrVals * (k - a) = FifoPtrVals * k - FifoPtrVals * a
    BY <1>2
  <2>2. FifoPtrVals * k \in Int /\ FifoPtrVals * a \in Int
    BY <1>2
  <2> QED
    BY <1>1, <1>3, <1>4, <2>1, <2>2
<1>8. n + 1 \in Ptrs
  BY <1>2, <1>3 DEF Ptrs
<1>9. UsedOf(Next8(w), r) = n + 1
  BY <1>3, <1>6, <1>7, <1>8, CountIs
<1>10. UsedOf(Next8(w), Next8(r)) = n
  <2>1. FifoPtrVals * (k - a + b) = FifoPtrVals * (k - a) + FifoPtrVals * b
    BY <1>2
  <2>2. FifoPtrVals * (k - a) \in Int /\ FifoPtrVals * b \in Int /\ k - a + b \in Int
    BY <1>2
  <2>3. Next8(w) = Next8(r) + n + FifoPtrVals * (k - a + b)
    BY <1>3, <1>5, <1>7, <2>1, <2>2
  <2> QED
    BY <1>1, <1>6, <2>2, <2>3, CountIs
<1>11. n > 0 => UsedOf(w, Next8(r)) = n - 1
  <2> SUFFICES ASSUME n > 0 PROVE UsedOf(w, Next8(r)) = n - 1
    OBVIOUS
  <2>1. FifoPtrVals * (k + b) = FifoPtrVals * k + FifoPtrVals * b
    BY <1>2
  <2>2. FifoPtrVals * k \in Int /\ FifoPtrVals * b \in Int /\ k + b \in Int
    BY <1>2
  <2>3. w = Next8(r) + (n - 1) + FifoPtrVals * (k + b)
    BY <1>1, <1>3, <1>5, <2>1, <2>2
  <2>4. PICK m \in Ptrs : m = n - 1
    BY <1>2, <1>3 DEF Ptrs
  <2>5. \E d \in Int : w = Next8(r) + m + FifoPtrVals * d
    <3>1. k + b \in Int
      BY <2>2
    <3> WITNESS k + b \in Int
    <3> QED
      BY <2>3, <2>4
  <2>6. UsedOf(w, Next8(r)) = m
    BY <1>3, <1>6, <2>5, CountIs
  <2> QED
    BY <2>4, <2>6
<1>12. Overflow(Next8(w), r) <=> n = USB_FIFO_NUM
  <2>1. Next8(w) - r = (n + 1) + FifoPtrVals * (k - a)
    <3>1. FifoPtrVals * (k - a) \in Int
      BY <1>2
    <3> QED
      BY <1>3, <1>7, <3>1
  <2>2. (Next8(w) - r) % (2 * USB_FIFO_NUM) = (n + 1) % (2 * USB_FIFO_NUM)
    <3>1. Next8(w) - r \in Int /\ n + 1 \in Int
      BY <1>3, <1>6
    <3> QED
      BY <1>7, <2>1, <3>1, Wrapped
  <2>3. (n + 1) % (2 * USB_FIFO_NUM) = n + 1
    <3>1. PICK m \in Nat \ {0} : m = 2 * USB_FIFO_NUM
      BY <1>2
    <3>2. n + 1 \in 0 .. m - 1
      BY <1>2, <1>3, <3>1
    <3>3. (n + 1) % m = n + 1
      BY <3>2, SmallRemainder
    <3> QED
      BY <3>1, <3>3
  <2> QED
    BY <1>2, <1>3, <2>2, <2>3 DEF Overflow
<1>13. Slot(w) = Slot(r + n)
  BY <1>1, <1>3, Wrapped
<1>14. ASSUME NEW j \in Int PROVE Slot(Next8(r) + j) = Slot(r + 1 + j)
  <2>1. FifoPtrVals * b \in Int
    BY <1>2
  <2>2. r + 1 + j = (Next8(r) + j) + FifoPtrVals * b
    BY <1>3, <1>5, <1>6, <2>1
  <2>3. r + 1 + j \in Int /\ Next8(r) + j \in Int /\ b \in Int
    BY <1>3, <1>6
  <2> QED
    BY <2>2, <2>3, Wrapped
<1> QED
  BY <1>1, <1>9, <1>10, <1>11, <1>12, <1>13, <1>14

(* The reports between two pointers, oldest first *)
WaitingOf(g, w, r) == [i \in 1 .. UsedOf(w, r) |-> g[Slot(r + i - 1)]]
Slots == 0 .. USB_FIFO_NUM - 1

LEMMA SlotTyped == \A x \in Int : Slot(x) \in Slots
  BY Pointers, Quotient DEF Slot, Slots

LEMMA WaitingIs ==
  ASSUME NEW g \in [Slots -> Reports], NEW w \in Ptrs, NEW r \in Ptrs
  PROVE  /\ UsedOf(w, r) \in Nat
         /\ WaitingOf(g, w, r) \in Seq(Reports) /\ Len(WaitingOf(g, w, r)) = UsedOf(w, r)
         /\ \A i \in 1 .. UsedOf(w, r) : WaitingOf(g, w, r)[i] = g[Slot(r + i - 1)]
<1> DEFINE n == UsedOf(w, r)
<1>1. n \in Nat /\ r \in Int
  BY Between DEF Ptrs
<1> HIDE DEF n
<1>2. \A i \in 1 .. n : g[Slot(r + i - 1)] \in Reports
  BY <1>1, SlotTyped
<1>3. WaitingOf(g, w, r) = [i \in 1 .. n |-> g[Slot(r + i - 1)]]
  BY DEF WaitingOf, n
<1>4. WaitingOf(g, w, r) \in [1 .. n -> Reports]
  BY <1>2, <1>3
<1>5. WaitingOf(g, w, r) \in Seq(Reports)
  BY <1>1, <1>4, SeqDef
<1>6. Len(WaitingOf(g, w, r)) = n
  BY <1>1, <1>3
<1> QED
  BY <1>1, <1>3, <1>5, <1>6 DEF n

(* Slots of reports less than a whole FIFO apart *)
LEMMA SlotsApart ==
  ASSUME NEW x \in Int, NEW y \in Int, x # y, x - y < USB_FIFO_NUM, y - x < USB_FIFO_NUM
  PROVE  Slot(x) # Slot(y)
BY Pointers, OtherRemainder DEF Slot

(* A write puts the report behind all that wait, and the oldest gives way when
   there are more than slots.                                                *)
LEMMA Puts ==
  ASSUME NEW g \in [Slots -> Reports], NEW w \in Ptrs, NEW r \in Ptrs, NEW m \in Reports,
         UsedOf(w, r) <= USB_FIFO_NUM,
         NEW h \in [Slots -> Reports], h[Slot(w)] = m,
         \A x \in Slots : x # Slot(w) => h[x] = g[x],
         NEW s, s = IF Overflow(Next8(w), r) THEN Next8(r) ELSE r
  PROVE  /\ Next8(w) \in Ptrs /\ s \in Ptrs
         /\ UsedOf(Next8(w), s) <= USB_FIFO_NUM
         /\ WaitingOf(h, Next8(w), s) = Newest(Append(WaitingOf(g, w, r), m))
<1> DEFINE n == UsedOf(w, r)
           q == WaitingOf(g, w, r)
           v == Next8(w)
           p == WaitingOf(h, v, s)
<1>0. /\ n < USB_FIFO_NUM => UsedOf(v, r) = n + 1
      /\ UsedOf(v, Next8(r)) = n
      /\ Overflow(v, r) <=> n = USB_FIFO_NUM
      /\ \A j \in Int : Slot(Next8(r) + j) = Slot(r + 1 + j)
  BY PointersMove
<1>1. /\ n \in Nat /\ r \in Int /\ q \in Seq(Reports) /\ Len(q) = n /\ n <= USB_FIFO_NUM
      /\ \A i \in 1 .. n : q[i] = g[Slot(r + i - 1)]
  BY WaitingIs DEF Ptrs
<1>2. USB_FIFO_NUM \in Nat /\ w \in Int /\ Slot(w) \in Slots
  BY Pointers, SlotTyped DEF Ptrs
<1>3. h \in [Slots -> Reports] /\ v \in Ptrs /\ s \in Ptrs
  BY <1>2, NextPointer
<1>4. /\ p \in Seq(Reports) /\ Len(p) = UsedOf(v, s) /\ s \in Int
      /\ \A i \in 1 .. UsedOf(v, s) : p[i] = h[Slot(s + i - 1)]
  <2>1. s \in Int
    BY <1>3 DEF Ptrs
  <2>2. /\ WaitingOf(h, v, s) \in Seq(Reports) /\ Len(WaitingOf(h, v, s)) = UsedOf(v, s)
        /\ \A i \in 1 .. UsedOf(v, s) : WaitingOf(h, v, s)[i] = h[Slot(s + i - 1)]
    <3> HIDE DEF v, n, q, p
    <3> QED
      BY <1>3, WaitingIs
  <2> QED
    BY <2>1, <2>2
<1>9. Slot(w) = Slot(r + n) /\ h[Slot(w)] = m
  BY <1>2, PointersMove
<1>5. ASSUME NEW x \in Int, x # r + n, x - (r + n) < USB_FIFO_NUM, (r + n) - x < USB_FIFO_NUM
      PROVE  h[Slot(x)] = g[Slot(x)]
  <2>1. r + n \in Int
    BY <1>1
  <2>2. Slot(x) # Slot(w) /\ Slot(x) \in Slots
    BY <1>9, <1>5, <2>1, SlotsApart, SlotTyped
  <2> QED
    BY <2>2
<1> HIDE DEF q, p, v, n
<1>6. /\ Append(q, m) \in Seq(Reports) /\ Append(q, m) # <<>> /\ Len(Append(q, m)) = n + 1
      /\ \A i \in 1 .. n : Append(q, m)[i] = q[i]
      /\ Append(q, m)[n + 1] = m
  BY <1>1, AppendProperties
<1>7. ASSUME n < USB_FIFO_NUM
      PROVE  UsedOf(v, s) <= USB_FIFO_NUM /\ p = Newest(Append(q, m))
  <2>1. s = r /\ UsedOf(v, s) = n + 1
    BY <1>0, <1>1, <1>2, <1>7 DEF v
  <2>2. /\ p \in Seq(Reports) /\ Len(p) = n + 1
        /\ \A i \in 1 .. n + 1 : p[i] = h[Slot(r + i - 1)]
    BY <1>4, <2>1
  <2>3. ASSUME NEW i \in 1 .. n + 1 PROVE p[i] = Append(q, m)[i]
    <3>1. CASE i = n + 1
      <4>1. r + i - 1 = r + n
        BY <1>1, <3>1
      <4> QED
        BY <1>9, <1>6, <2>2, <3>1, <4>1
    <3>2. CASE i \in 1 .. n
      <4>1. PICK x \in Int : x = r + i - 1
        BY <1>1
      <4>2. x # r + n /\ x - (r + n) < USB_FIFO_NUM /\ (r + n) - x < USB_FIFO_NUM
        BY <1>1, <1>2, <1>7, <3>2, <4>1
      <4>3. h[Slot(x)] = g[Slot(x)]
        BY <1>5, <4>2
      <4> QED
        BY <1>1, <1>6, <2>2, <3>2, <4>1, <4>3
    <3> QED
      BY <1>1, <3>1, <3>2
  <2>4. p = Append(q, m)
    BY <1>6, <2>2, <2>3, SeqEqual
  <2>5. Newest(Append(q, m)) = Append(q, m)
    BY <1>1, <1>2, <1>6, <1>7 DEF Newest
  <2>6. UsedOf(v, s) <= USB_FIFO_NUM
    BY <1>1, <1>2, <1>7, <2>1
  <2> QED
    BY <2>4, <2>5, <2>6
<1>8. ASSUME n = USB_FIFO_NUM
      PROVE  UsedOf(v, s) <= USB_FIFO_NUM /\ p = Newest(Append(q, m))
  <2>1. s = Next8(r) /\ UsedOf(v, s) = n /\ \A j \in Int : Slot(s + j) = Slot(r + 1 + j)
    BY <1>0, <1>1, <1>2, <1>8 DEF v
  <2>2. /\ p \in Seq(Reports) /\ Len(p) = n /\ s \in Int
        /\ \A i \in 1 .. n : p[i] = h[Slot(s + i - 1)]
    BY <1>4, <2>1
  <2>3. /\ Tail(Append(q, m)) \in Seq(Reports) /\ Len(Tail(Append(q, m))) = n
        /\ \A i \in 1 .. n : Tail(Append(q, m))[i] = Append(q, m)[i + 1]
    <3>1. PICK a \in Seq(Reports) : a = Append(q, m)
      BY <1>6
    <3>2. a # <<>> /\ Len(a) = n + 1
      BY <1>6, <3>1
    <3>3. /\ Tail(a) \in Seq(Reports) /\ Len(Tail(a)) = Len(a) - 1
          /\ \A i \in 1 .. Len(Tail(a)) : Tail(a)[i] = a[i + 1]
      BY <3>2, HeadTailProperties
    <3>4. Len(Tail(a)) = n
      BY <1>1, <3>2, <3>3
    <3> QED
      BY <3>1, <3>3, <3>4
  <2>4. ASSUME NEW i \in 1 .. n PROVE p[i] = Append(q, m)[i + 1]
    <3>1. Slot(s + i - 1) = Slot(r + i)
      <4>1. i - 1 \in Int /\ s + i - 1 = s + (i - 1) /\ r + 1 + (i - 1) = r + i
        BY <1>1, <2>2
      <4> QED
        BY <2>1, <4>1
    <3>2. CASE i = n
      BY <1>9, <1>6, <2>2, <3>1, <3>2
    <3>3. CASE i \in 1 .. n - 1
      <4>1. h[Slot(r + i)] = g[Slot(r + i)]
        BY <1>1, <1>5, <1>8, <3>3
      <4>2. i + 1 \in 1 .. n /\ r + (i + 1) - 1 = r + i
        BY <1>1, <3>3
      <4>3. q[i + 1] = g[Slot(r + i)]
        BY <1>1, <4>2
      <4> QED
        BY <1>6, <2>2, <3>1, <4>1, <4>2, <4>3
    <3> QED
      BY <1>1, <3>2, <3>3
  <2>5. p = Tail(Append(q, m))
    BY <2>2, <2>3, <2>4, SeqEqual
  <2>6. Newest(Append(q, m)) = Tail(Append(q, m))
    BY <1>1, <1>2, <1>6, <1>8 DEF Newest
  <2>7. UsedOf(v, s) <= USB_FIFO_NUM
    BY <1>1, <1>2, <1>8, <2>1
  <2> QED
    BY <2>5, <2>6, <2>7
<1>10. UsedOf(v, s) <= USB_FIFO_NUM /\ p = Newest(Append(q, m))
  BY <1>1, <1>2, <1>7, <1>8
<1> QED
  BY <1>3, <1>10 DEF p, q, v

(* A read takes the oldest away. *)
LEMMA Gets ==
  ASSUME NEW g \in [Slots -> Reports], NEW w \in Ptrs, NEW r \in Ptrs,
         UsedOf(w, r) <= USB_FIFO_NUM, w # r,
         NEW h \in [Slots -> Reports],
         \A x \in Slots : x # Slot(r) => h[x] = g[x]
  PROVE  /\ Next8(r) \in Ptrs
         /\ UsedOf(w, Next8(r)) <= USB_FIFO_NUM
         /\ WaitingOf(g, w, r) # <<>> /\ Head(WaitingOf(g, w, r)) = g[Slot(r)]
         /\ WaitingOf(h, w, Next8(r)) = Tail(WaitingOf(g, w, r))
<1> DEFINE n == UsedOf(w, r)
           q == WaitingOf(g, w, r)
           s == Next8(r)
           p == WaitingOf(h, w, s)
<1>1. /\ n \in Nat /\ r \in Int /\ q \in Seq(Reports) /\ Len(q) = n /\ n <= USB_FIFO_NUM
      /\ \A i \in 1 .. n : q[i] = g[Slot(r + i - 1)]
  BY WaitingIs DEF Ptrs
<1>2. USB_FIFO_NUM \in Nat /\ w \in Int /\ Slot(r) \in Slots
  BY <1>1, Pointers, SlotTyped DEF Ptrs
<1>3. h \in [Slots -> Reports] /\ s \in Ptrs
  BY <1>2, NextPointer
<1>4. n > 0
  <2> SUFFICES ASSUME n = 0 PROVE FALSE
    BY <1>1
  <2>1. PICK k \in Int : w = r + 0 + FifoPtrVals * k
    BY Between
  <2>2. FifoPtrVals \in Nat \ {0} /\ w - r = FifoPtrVals * k /\ w - r < FifoPtrVals
        /\ -FifoPtrVals < w - r
    BY <1>1, <1>2, <2>1, Pointers DEF Ptrs
  <2>3. k = 0
    BY <2>2, Multiple
  <2> QED
    BY <1>1, <2>1, <2>2, <2>3
<1>5. UsedOf(w, s) = n - 1 /\ \A j \in Int : Slot(s + j) = Slot(r + 1 + j)
  BY <1>4, PointersMove
<1>12. /\ p \in Seq(Reports) /\ Len(p) = UsedOf(w, s) /\ s \in Int
       /\ \A i \in 1 .. UsedOf(w, s) : p[i] = h[Slot(s + i - 1)]
  <2>1. s \in Int
    BY <1>3 DEF Ptrs
  <2>2. /\ WaitingOf(h, w, s) \in Seq(Reports) /\ Len(WaitingOf(h, w, s)) = UsedOf(w, s)
        /\ \A i \in 1 .. UsedOf(w, s) : WaitingOf(h, w, s)[i] = h[Slot(s + i - 1)]
    <3> HIDE DEF s, n, q, p
    <3> QED
      BY <1>3, WaitingIs
  <2> QED
    BY <2>1, <2>2
<1> HIDE DEF q, p, s, n
<1>6. /\ p \in Seq(Reports) /\ Len(p) = n - 1 /\ s \in Int
      /\ \A i \in 1 .. n - 1 : p[i] = h[Slot(s + i - 1)]
  BY <1>5, <1>12
<1>7. q # <<>> /\ Head(q) = q[1] /\ q[1] = g[Slot(r)]
  <2>1. r + 1 - 1 = r
    BY <1>1
  <2>2. q # <<>> /\ 1 \in 1 .. n
    BY <1>1, <1>4
  <2>3. Head(q) = q[1]
    BY <1>1, <2>2
  <2> QED
    BY <1>1, <2>1, <2>2, <2>3
<1>8. /\ Tail(q) \in Seq(Reports) /\ Len(Tail(q)) = n - 1
      /\ \A i \in 1 .. n - 1 : Tail(q)[i] = q[i + 1]
  BY <1>1, <1>7, HeadTailProperties
<1>9. ASSUME NEW i \in 1 .. n - 1 PROVE p[i] = Tail(q)[i]
  <2>1. Slot(s + i - 1) = Slot(r + i)
    <3>1. i - 1 \in Int /\ s + i - 1 = s + (i - 1) /\ r + 1 + (i - 1) = r + i
      BY <1>1, <1>6
    <3> QED
      BY <1>5, <3>1
  <2>2. Slot(r + i) # Slot(r) /\ Slot(r + i) \in Slots
    BY <1>1, <1>2, SlotsApart, SlotTyped
  <2>3. i + 1 \in 1 .. n /\ r + (i + 1) - 1 = r + i
    BY <1>1
  <2>4. q[i + 1] = g[Slot(r + i)]
    BY <1>1, <2>3
  <2> QED
    BY <1>6, <1>8, <2>1, <2>2, <2>4
<1>10. p = Tail(q)
  BY <1>6, <1>8, <1>9, SeqEqual
<1>11. UsedOf(w, s) <= USB_FIFO_NUM
  BY <1>1, <1>2, <1>5
<1> QED
  BY <1>3, <1>7, <1>10, <1>11 DEF p, q, s

-----------------------------------------------------------------------------
Codes == Keys \cup MediaKeys \cup {NoKey}
Known == [code : Codes, toggle : {0, 1}]
Held == {<<>>} \cup {<<x>> : x \in Known}

FifoInv ==
  /\ usb_fifo \in [Slots -> Reports] /\ ffPtr \in [w : Ptrs, r : Ptrs]
  /\ UsedOf(ffPtr.w, ffPtr.r) <= USB_FIFO_NUM

EndpointTypes ==
  /\ ep \in [Endpoints -> Held] /\ edp_toggle \in [Endpoints -> {0, 1}]
  /\ usbHost \in [Endpoints -> Known] /\ notReleased \in SUBSET Endpoints
  /\ remote \in [key : Keys \cup {NoKey}, media : MediaKeys \cup {NoKey}]

(* What the host shows, or will when it fetches, and what the remote holds *)
Shown(e) == IF busReset THEN NoKey ELSE IF Busy(e) THEN ep[e][1].code ELSE usbHost[e].code
HeldKey(e) == IF e = "MOUSE" THEN remote.media ELSE remote.key

(* Before a report met a busy endpoint the toggles are in step, and what the
   host shows is noted and held.                                           *)
ToggleInv(e) ==
  /\ ~busReset => edp_toggle[e] = IF Busy(e) THEN 1 - usbHost[e].toggle ELSE usbHost[e].toggle
  /\ ~busReset /\ Busy(e) => ep[e][1].toggle = usbHost[e].toggle
  /\ busReset => usbHost[e] = [code |-> NoKey, toggle |-> 0]
ShownInv(e) == Shown(e) # NoKey => e \in notReleased /\ Shown(e) = HeldKey(e)
StickInv ==
  ~metBusy => /\ ffPtr.w = ffPtr.r
              /\ \A e \in Endpoints : ToggleInv(e) /\ ShownInv(e)

HidInv == FifoInv /\ EndpointTypes /\ StickInv

(* A step of the FIFO: nothing, a report behind the others, or the oldest gone *)
FifoStep ==
  \/ Waiting' = Waiting
  \/ \E r \in Reports : Busy(r.ep) /\ Waiting' = Newest(Append(Waiting, r))
  \/ /\ Waiting # <<>> /\ Waiting' = Tail(Waiting)
     /\ ep'[Head(Waiting).ep][1].code = Head(Waiting).code

LEMMA WaitingOfFifo ==
  /\ Waiting = WaitingOf(usb_fifo, ffPtr.w, ffPtr.r)
  /\ Waiting' = WaitingOf(usb_fifo', ffPtr'.w, ffPtr'.r)
  BY DEF Waiting, WaitingOf, UsedOf

(* HidReport, from the FIFO's side *)
LEMMA ReportFifo ==
  ASSUME FifoInv, NEW e \in Endpoints, NEW code \in CodesOf(e) \cup {NoKey}, HidReport(e, code)
  PROVE  FifoInv' /\ FifoStep
<1>1. Report(e, code) \in Reports /\ Report(e, code).ep = e
  BY DEF Report, Reports, CodesOf, Endpoints
<1>2. CASE Busy(e)
  <2> DEFINE v == Next8(ffPtr.w)
             s == IF Overflow(v, ffPtr.r) THEN Next8(ffPtr.r) ELSE ffPtr.r
  <2>1. /\ usb_fifo' = [usb_fifo EXCEPT ![Slot(ffPtr.w)] = Report(e, code)]
        /\ ffPtr' = [w |-> v, r |-> s]
    BY <1>2 DEF HidReport, WriteFifo
  <2>2. /\ ffPtr.w \in Ptrs /\ ffPtr.r \in Ptrs /\ usb_fifo \in [Slots -> Reports]
        /\ UsedOf(ffPtr.w, ffPtr.r) <= USB_FIFO_NUM
    BY DEF FifoInv
  <2>3. Slot(ffPtr.w) \in Slots
    BY <2>2, SlotTyped DEF Ptrs
  <2>4. /\ usb_fifo' \in [Slots -> Reports] /\ usb_fifo'[Slot(ffPtr.w)] = Report(e, code)
        /\ \A x \in Slots : x # Slot(ffPtr.w) => usb_fifo'[x] = usb_fifo[x]
    BY <1>1, <2>1, <2>2, <2>3
  <2>5. /\ v \in Ptrs /\ s \in Ptrs /\ UsedOf(v, s) <= USB_FIFO_NUM
        /\ WaitingOf(usb_fifo', v, s)
             = Newest(Append(WaitingOf(usb_fifo, ffPtr.w, ffPtr.r), Report(e, code)))
    BY <1>1, <2>2, <2>4, Puts
  <2> HIDE DEF v, s
  <2>6. ffPtr'.w = v /\ ffPtr'.r = s /\ ffPtr' \in [w : Ptrs, r : Ptrs]
    BY <2>1, <2>5
  <2>7. Waiting' = Newest(Append(Waiting, Report(e, code)))
    BY <2>5, <2>6, WaitingOfFifo
  <2>8. FifoStep
    BY <1>1, <1>2, <2>7 DEF FifoStep
  <2> QED
    BY <2>4, <2>5, <2>6, <2>8 DEF FifoInv
<1>3. CASE ~Busy(e)
  <2>1. UNCHANGED fifoVars
    BY <1>3 DEF HidReport
  <2> QED
    BY <2>1, WaitingOfFifo DEF FifoInv, FifoStep, fifoVars
<1> QED
  BY <1>2, <1>3

LEMMA StillFifo == FifoInv /\ UNCHANGED fifoVars => FifoInv' /\ FifoStep
  BY WaitingOfFifo DEF FifoInv, FifoStep, fifoVars

(* FifoProc, from the FIFO's side *)
LEMMA ProcFifo ==
  ASSUME FifoInv, EndpointTypes, FifoProc
  PROVE  FifoInv' /\ FifoStep
<1> DEFINE oldest == usb_fifo[Slot(ffPtr.r)]
           s == Next8(ffPtr.r)
<1>0. ffPtr.w # ffPtr.r
  BY DEF FifoProc
<1>1. /\ ffPtr' = [ffPtr EXCEPT !.r = s]
      /\ usb_fifo' = [usb_fifo EXCEPT ![Slot(ffPtr.r)] = Empty]
      /\ ep' = [ep EXCEPT ![oldest.ep] = <<[code |-> oldest.code,
                                            toggle |-> edp_toggle[oldest.ep]]>>]
  BY DEF FifoProc, WriteEndpoint
<1>2. /\ ffPtr.w \in Ptrs /\ ffPtr.r \in Ptrs /\ usb_fifo \in [Slots -> Reports]
      /\ UsedOf(ffPtr.w, ffPtr.r) <= USB_FIFO_NUM /\ ffPtr \in [w : Ptrs, r : Ptrs]
  BY DEF FifoInv
<1>3. Slot(ffPtr.r) \in Slots
  BY <1>2, SlotTyped DEF Ptrs
<1>4. Empty \in Reports
  BY DEF Empty, Report, Reports
<1>5. /\ usb_fifo' \in [Slots -> Reports]
      /\ \A x \in Slots : x # Slot(ffPtr.r) => usb_fifo'[x] = usb_fifo[x]
  BY <1>1, <1>2, <1>3, <1>4
<1>6. /\ s \in Ptrs /\ UsedOf(ffPtr.w, s) <= USB_FIFO_NUM
      /\ WaitingOf(usb_fifo, ffPtr.w, ffPtr.r) # <<>>
      /\ Head(WaitingOf(usb_fifo, ffPtr.w, ffPtr.r)) = oldest
      /\ WaitingOf(usb_fifo', ffPtr.w, s) = Tail(WaitingOf(usb_fifo, ffPtr.w, ffPtr.r))
  <2>1. PICK g \in [Slots -> Reports], h \in [Slots -> Reports], w \in Ptrs, r \in Ptrs :
          g = usb_fifo /\ h = usb_fifo' /\ w = ffPtr.w /\ r = ffPtr.r
    BY <1>2, <1>5
  <2>2. /\ w # r /\ UsedOf(w, r) <= USB_FIFO_NUM
        /\ \A x \in Slots : x # Slot(r) => h[x] = g[x]
    BY <1>0, <1>2, <1>5, <2>1
  <2>3. /\ Next8(r) \in Ptrs /\ UsedOf(w, Next8(r)) <= USB_FIFO_NUM
        /\ WaitingOf(g, w, r) # <<>> /\ Head(WaitingOf(g, w, r)) = g[Slot(r)]
        /\ WaitingOf(h, w, Next8(r)) = Tail(WaitingOf(g, w, r))
    BY <2>2, Gets
  <2> QED
    BY <2>1, <2>3
<1>7. oldest \in Reports /\ oldest.ep \in Endpoints
  <2>1. oldest \in Reports
    BY <1>2, <1>3
  <2> QED
    BY <2>1 DEF Reports, Endpoints
<1>8. ep'[oldest.ep][1].code = oldest.code
  <2>1. ep'[oldest.ep] = <<[code |-> oldest.code, toggle |-> edp_toggle[oldest.ep]]>>
    BY <1>1, <1>7 DEF EndpointTypes
  <2> QED
    BY <2>1
<1> HIDE DEF oldest, s
<1>9. ffPtr'.w = ffPtr.w /\ ffPtr'.r = s /\ ffPtr' \in [w : Ptrs, r : Ptrs]
  BY <1>1, <1>2, <1>6
<1>10. FifoInv'
  BY <1>5, <1>6, <1>9 DEF FifoInv
<1>11. Waiting # <<>> /\ Waiting' = Tail(Waiting) /\ Head(Waiting) = oldest
  BY <1>6, <1>9, WaitingOfFifo
<1> QED
  BY <1>8, <1>10, <1>11 DEF FifoStep

(* A report that finds its endpoint free *)
LEMMA WriteSticks ==
  ASSUME EndpointTypes, NEW e \in Endpoints, NEW code \in CodesOf(e) \cup {NoKey},
         WriteEndpoint(e, code)
  PROVE  /\ ep' \in [Endpoints -> Held] /\ edp_toggle' \in [Endpoints -> {0, 1}]
         /\ ep'[e] = <<[code |-> code, toggle |-> edp_toggle[e]]>>
         /\ edp_toggle'[e] = 1 - edp_toggle[e]
         /\ \A x \in Endpoints \ {e} : ep'[x] = ep[x] /\ edp_toggle'[x] = edp_toggle[x]
<1>1. /\ ep \in [Endpoints -> Held] /\ edp_toggle \in [Endpoints -> {0, 1}]
      /\ edp_toggle[e] \in {0, 1}
  BY DEF EndpointTypes
<1>2. code \in Codes
  BY DEF Codes, CodesOf
<1>3. PICK c \in Known : c = [code |-> code, toggle |-> edp_toggle[e]]
  BY <1>1, <1>2 DEF Known
<1>4. <<c>> \in Held
  BY DEF Held
<1>5. ep' = [ep EXCEPT ![e] = <<c>>] /\ edp_toggle' = [edp_toggle EXCEPT ![e] = 1 - @]
  BY <1>3 DEF WriteEndpoint
<1>6. ep' \in [Endpoints -> Held]
  BY <1>1, <1>4, <1>5
<1>7. edp_toggle' \in [Endpoints -> {0, 1}]
  BY <1>1, <1>5
<1> QED
  BY <1>1, <1>3, <1>5, <1>6, <1>7

(* What ReportOrRelease leaves: until a report met a busy endpoint the host
   will show the key of the report, or nothing.                            *)
LEMMA ReportSticks ==
  ASSUME EndpointTypes, StickInv, NEW e \in Endpoints, NEW code \in CodesOf(e) \cup {NoKey},
         ReportOrRelease(e, code), UNCHANGED <<usbHost, busReset>>
  PROVE  /\ ep' \in [Endpoints -> Held] /\ edp_toggle' \in [Endpoints -> {0, 1}]
         /\ notReleased' \in SUBSET Endpoints
         /\ ~metBusy' => /\ ~metBusy /\ ffPtr'.w = ffPtr'.r
                         /\ \A x \in Endpoints :
                              /\ ToggleInv(x)'
                              /\ Shown(x)' # NoKey =>
                                   /\ x \in notReleased'
                                   /\ Shown(x)' = IF x = e THEN code ELSE Shown(x)
<1>1. /\ ep \in [Endpoints -> Held] /\ edp_toggle \in [Endpoints -> {0, 1}]
      /\ notReleased \in SUBSET Endpoints
  BY DEF EndpointTypes
<1>2. CASE ReportKey(e, code) \/ (code = NoKey /\ e \in notReleased /\ HidReport(e, NoKey)
              /\ notReleased' = IF Busy(e) THEN notReleased ELSE notReleased \ {e})
  <2>1. HidReport(e, code)
    BY <1>2 DEF ReportKey
  <2>2. notReleased' \in SUBSET Endpoints
    BY <1>1, <1>2 DEF ReportKey
  <2>3. CASE Busy(e)
    <3>1. metBusy' = TRUE /\ UNCHANGED <<ep, edp_toggle>>
      BY <2>1, <2>3 DEF HidReport
    <3> QED
      BY <1>1, <2>2, <3>1
  <2>4. CASE ~Busy(e)
    <3>1. WriteEndpoint(e, code) /\ UNCHANGED <<fifoVars, metBusy>>
      BY <2>1, <2>4 DEF HidReport
    <3>2. /\ ep' \in [Endpoints -> Held] /\ edp_toggle' \in [Endpoints -> {0, 1}]
          /\ ep'[e] = <<[code |-> code, toggle |-> edp_toggle[e]]>>
          /\ edp_toggle'[e] = 1 - edp_toggle[e]
          /\ \A x \in Endpoints \ {e} : ep'[x] = ep[x] /\ edp_toggle'[x] = edp_toggle[x]
      BY <3>1, WriteSticks
    <3>3. ASSUME ~metBusy PROVE ffPtr'.w = ffPtr'.r
      BY <3>1, <3>3 DEF StickInv, fifoVars
    <3>4. Busy(e)' /\ ep'[e][1].code = code /\ ep'[e][1].toggle = edp_toggle[e]
      BY <3>2 DEF Busy
    <3>5. ASSUME ~metBusy, NEW x \in Endpoints PROVE ToggleInv(x)'
      <4>1. ToggleInv(x) /\ busReset' = busReset /\ usbHost' = usbHost
        BY <3>5 DEF StickInv
      <4>2. CASE x = e
        BY <2>4, <3>2, <3>4, <4>1, <4>2 DEF ToggleInv
      <4>3. CASE x # e
        <5>1. ep'[x] = ep[x] /\ edp_toggle'[x] = edp_toggle[x]
          BY <3>2, <4>3
        <5> QED
          BY <4>1, <5>1 DEF ToggleInv, Busy
      <4> QED
        BY <4>2, <4>3
    <3>6. ASSUME ~metBusy, NEW x \in Endpoints, Shown(x)' # NoKey
          PROVE  x \in notReleased' /\ Shown(x)' = IF x = e THEN code ELSE Shown(x)
      <4>1. ShownInv(x) /\ busReset' = busReset /\ usbHost' = usbHost
        BY <3>6 DEF StickInv
      <4>2. CASE x = e
        <5>1. ~busReset
          BY <3>6, <4>1 DEF Shown
        <5>2. Shown(x)' = code
          BY <3>4, <4>1, <4>2, <5>1 DEF Shown
        <5>3. e \in notReleased'
          BY <1>2, <2>4, <3>6, <4>2, <5>2 DEF ReportKey
        <5> QED
          BY <4>2, <5>2, <5>3
      <4>3. CASE x # e
        <5>1. ep'[x] = ep[x]
          BY <3>2, <4>3
        <5>2. Shown(x)' = Shown(x)
          BY <4>1, <5>1 DEF Shown, Busy
        <5>3. x \in notReleased
          BY <3>6, <4>1, <5>2 DEF ShownInv
        <5>4. x \in notReleased'
          BY <1>2, <2>4, <4>3, <5>3 DEF ReportKey
        <5> QED
          BY <4>3, <5>2, <5>4
      <4> QED
        BY <4>2, <4>3
    <3> QED
      BY <2>2, <3>1, <3>2, <3>3, <3>5, <3>6
  <2> QED
    BY <2>3, <2>4
<1>3. CASE code = NoKey /\ e \notin notReleased
           /\ UNCHANGED <<fifoVars, ep, edp_toggle, metBusy, notReleased>>
  <2>1. ASSUME NEW x \in Endpoints PROVE Shown(x)' = Shown(x) /\ (ToggleInv(x)' <=> ToggleInv(x))
    BY <1>3 DEF Shown, Busy, ToggleInv
  <2>2. ~metBusy => ffPtr'.w = ffPtr'.r /\ \A x \in Endpoints : ToggleInv(x)'
    BY <1>3, <2>1 DEF StickInv, fifoVars
  <2>3. ASSUME ~metBusy, NEW x \in Endpoints, Shown(x)' # NoKey
        PROVE  x \in notReleased' /\ Shown(x)' = IF x = e THEN code ELSE Shown(x)
    <3>1. x \in notReleased
      BY <2>1, <2>3 DEF StickInv, ShownInv
    <3>2. x # e
      BY <1>3, <3>1
    <3> QED
      BY <1>3, <2>1, <3>1, <3>2
  <2> QED
    BY <1>1, <1>3, <2>2, <2>3
<1> QED
  BY <1>2, <1>3 DEF ReportOrRelease, Release

(* The FIFO does not care for what is noted. *)
LEMMA ReportOrReleaseFifo ==
  ASSUME FifoInv, NEW e \in Endpoints, NEW code \in CodesOf(e) \cup {NoKey},
         ReportOrRelease(e, code)
  PROVE  FifoInv' /\ FifoStep
<1>1. NoKey \in CodesOf(e) \cup {NoKey}
  OBVIOUS
<1>2. HidReport(e, code) \/ HidReport(e, NoKey) \/ UNCHANGED fifoVars
  BY DEF ReportOrRelease, Release, ReportKey
<1> QED
  BY <1>1, <1>2, ReportFifo, StillFifo

-----------------------------------------------------------------------------
LEMMA KeyboardKept ==
  ASSUME HidInv, KeyboardReport
  PROVE  HidInv' /\ FifoStep
<1>1. PICK key \in Keys \cup {NoKey} :
        /\ key # remote.key /\ (key = NoKey \/ remote.key = NoKey)
        /\ remote' = [remote EXCEPT !.key = key]
        /\ IF Repeated(key)
           THEN UNCHANGED <<fifoVars, ep, edp_toggle, metBusy, notReleased, mediaStep>>
           ELSE ReportOrRelease("KEYBOARD_IN", key) /\ mediaStep' = TRUE
  BY DEF KeyboardReport
<1>2. UNCHANGED <<usbHost, busReset>> /\ usbHost \in [Endpoints -> Known]
  BY DEF KeyboardReport, HidInv, EndpointTypes
<1>3. /\ remote' \in [key : Keys \cup {NoKey}, media : MediaKeys \cup {NoKey}]
      /\ remote'.key = key /\ remote'.media = remote.media
  BY <1>1 DEF HidInv, EndpointTypes
<1>4. CASE Repeated(key)
  <2>1. UNCHANGED <<fifoVars, ep, edp_toggle, metBusy, notReleased, usbHost, busReset>>
    BY <1>1, <1>2, <1>4
  <2>2. FifoInv' /\ FifoStep
    BY <2>1, StillFifo DEF HidInv
  <2>3. EndpointTypes'
    BY <1>3, <2>1 DEF HidInv, EndpointTypes
  <2>4. remote.key = NoKey
    BY <1>1, <1>4 DEF Repeated
  <2>5. ASSUME ~metBusy, NEW x \in Endpoints PROVE ToggleInv(x)' /\ ShownInv(x)'
    <3>1. ToggleInv(x) /\ ShownInv(x)
      BY <2>5 DEF HidInv, StickInv
    <3>2. Shown(x)' = Shown(x) /\ ToggleInv(x)'
      BY <2>1, <3>1 DEF Shown, ToggleInv, Busy
    <3>3. Shown(x) # NoKey => HeldKey(x)' = HeldKey(x)
      BY <1>3, <2>4, <3>1 DEF ShownInv, HeldKey
    <3> QED
      BY <2>1, <3>1, <3>2, <3>3 DEF ShownInv
  <2>6. StickInv'
    BY <2>1, <2>5 DEF HidInv, StickInv, fifoVars
  <2> QED
    BY <2>2, <2>3, <2>6 DEF HidInv
<1>5. CASE ~Repeated(key)
  <2>1. ReportOrRelease("KEYBOARD_IN", key)
    BY <1>1, <1>5
  <2>2. "KEYBOARD_IN" \in Endpoints /\ key \in CodesOf("KEYBOARD_IN") \cup {NoKey}
    BY DEF Endpoints, CodesOf
  <2>3. FifoInv' /\ FifoStep
    BY <2>1, <2>2, ReportOrReleaseFifo DEF HidInv
  <2>4. /\ ep' \in [Endpoints -> Held] /\ edp_toggle' \in [Endpoints -> {0, 1}]
        /\ notReleased' \in SUBSET Endpoints
        /\ ~metBusy' => /\ ~metBusy /\ ffPtr'.w = ffPtr'.r
                        /\ \A x \in Endpoints :
                             /\ ToggleInv(x)'
                             /\ Shown(x)' # NoKey =>
                                  /\ x \in notReleased'
                                  /\ Shown(x)' = IF x = "KEYBOARD_IN" THEN key ELSE Shown(x)
    BY <1>2, <2>1, <2>2, ReportSticks DEF HidInv
  <2>5. EndpointTypes'
    BY <1>2, <1>3, <2>4 DEF EndpointTypes
  <2>6. ASSUME ~metBusy', NEW x \in Endpoints, Shown(x)' # NoKey PROVE Shown(x)' = HeldKey(x)'
    <3>1. CASE x = "KEYBOARD_IN"
      BY <1>3, <2>4, <2>6, <3>1 DEF HeldKey
    <3>2. CASE x = "MOUSE"
      <4>1. Shown(x)' = Shown(x) /\ ShownInv(x)
        BY <2>4, <2>6, <3>2 DEF HidInv, StickInv
      <4> QED
        BY <1>3, <2>6, <3>2, <4>1 DEF HeldKey, ShownInv
    <3> QED
      BY <3>1, <3>2 DEF Endpoints
  <2>7. StickInv'
    BY <2>4, <2>6 DEF StickInv, ShownInv
  <2> QED
    BY <2>3, <2>5, <2>7 DEF HidInv
<1> QED
  BY <1>4, <1>5

(* A report of the consumer keys, and the release that follows an ordinary key *)
LEMMA MediaKept ==
  ASSUME HidInv, NEW key \in MediaKeys \cup {NoKey}, ReportOrRelease("MOUSE", key),
         key = NoKey \/ remote'.media = key,
         remote'.key = remote.key, UNCHANGED <<usbHost, busReset>>,
         remote' \in [key : Keys \cup {NoKey}, media : MediaKeys \cup {NoKey}]
  PROVE  HidInv' /\ FifoStep
<1>1. "MOUSE" \in Endpoints /\ key \in CodesOf("MOUSE") \cup {NoKey}
  BY DEF Endpoints, CodesOf
<1>2. FifoInv' /\ FifoStep
  BY <1>1, ReportOrReleaseFifo DEF HidInv
<1>3. /\ ep' \in [Endpoints -> Held] /\ edp_toggle' \in [Endpoints -> {0, 1}]
      /\ notReleased' \in SUBSET Endpoints
      /\ ~metBusy' => /\ ~metBusy /\ ffPtr'.w = ffPtr'.r
                      /\ \A x \in Endpoints :
                           /\ ToggleInv(x)'
                           /\ Shown(x)' # NoKey =>
                                /\ x \in notReleased'
                                /\ Shown(x)' = IF x = "MOUSE" THEN key ELSE Shown(x)
  BY <1>1, ReportSticks DEF HidInv
<1>4. EndpointTypes'
  BY <1>3 DEF EndpointTypes, HidInv
<1>5. ASSUME ~metBusy', NEW x \in Endpoints, Shown(x)' # NoKey PROVE Shown(x)' = HeldKey(x)'
  <2>1. CASE x = "MOUSE"
    BY <1>3, <1>5, <2>1 DEF HeldKey
  <2>2. CASE x = "KEYBOARD_IN"
    <3>1. Shown(x)' = Shown(x) /\ ShownInv(x)
      BY <1>3, <1>5, <2>2 DEF HidInv, StickInv
    <3> QED
      BY <1>5, <2>2, <3>1 DEF HeldKey, ShownInv
  <2> QED
    BY <2>1, <2>2 DEF Endpoints
<1>6. StickInv'
  BY <1>3, <1>5 DEF StickInv, ShownInv
<1> QED
  BY <1>2, <1>4, <1>6 DEF HidInv

(* The FIFO is served only after a report met a busy endpoint. *)
LEMMA ProcKept ==
  ASSUME HidInv, FifoProc
  PROVE  HidInv' /\ FifoStep
<1> DEFINE oldest == usb_fifo[Slot(ffPtr.r)]
<1>1. /\ WriteEndpoint(oldest.ep, oldest.code)
      /\ UNCHANGED <<notReleased, remote, usbHost, metBusy>> /\ ffPtr.w # ffPtr.r
  BY DEF FifoProc
<1>2. /\ usb_fifo \in [Slots -> Reports] /\ ffPtr.r \in Int
  BY DEF HidInv, FifoInv, Ptrs
<1>3. oldest \in Reports
  BY <1>2, SlotTyped
<1> HIDE DEF oldest
<1>4. oldest.ep \in Endpoints /\ oldest.code \in CodesOf(oldest.ep) \cup {NoKey}
  BY <1>3 DEF Reports, Endpoints, CodesOf
<1>5. ep' \in [Endpoints -> Held] /\ edp_toggle' \in [Endpoints -> {0, 1}]
  BY <1>1, <1>4, WriteSticks DEF HidInv
<1>6. EndpointTypes'
  BY <1>1, <1>5 DEF HidInv, EndpointTypes
<1>7. StickInv'
  BY <1>1 DEF HidInv, StickInv
<1> QED
  BY <1>6, <1>7, ProcFifo DEF HidInv

LEMMA HandleResetKept ==
  ASSUME HidInv, HandleReset
  PROVE  HidInv' /\ FifoStep
<1>1. /\ busReset /\ busReset' = FALSE
      /\ ep' = [e \in Endpoints |-> <<>>] /\ edp_toggle' = [e \in Endpoints |-> 0]
      /\ UNCHANGED <<fifoVars, notReleased, remote, usbHost, metBusy>>
  BY DEF HandleReset
<1>2. FifoInv' /\ FifoStep
  BY <1>1, StillFifo DEF HidInv
<1>3. EndpointTypes'
  <2>1. <<>> \in Held
    BY DEF Held
  <2> QED
    BY <1>1, <2>1 DEF HidInv, EndpointTypes
<1>4. ASSUME ~metBusy, NEW x \in Endpoints PROVE ToggleInv(x)' /\ ShownInv(x)'
  <2>1. usbHost[x] = [code |-> NoKey, toggle |-> 0]
    BY <1>1, <1>4 DEF HidInv, StickInv, ToggleInv
  <2>2. ep'[x] = <<>> /\ edp_toggle'[x] = 0 /\ usbHost'[x] = [code |-> NoKey, toggle |-> 0]
    BY <1>1, <2>1
  <2>3. Shown(x)' = NoKey
    BY <1>1, <2>2 DEF Shown, Busy
  <2> QED
    BY <1>1, <2>2, <2>3 DEF ToggleInv, ShownInv, Busy
<1>5. StickInv'
  BY <1>1, <1>4 DEF HidInv, StickInv, fifoVars
<1> QED
  BY <1>2, <1>3, <1>5 DEF HidInv

(* The host takes a report whose toggle it expects, and that is every one. *)
LEMMA HostFetchKept ==
  ASSUME HidInv, NEW e \in Endpoints, HostFetch(e)
  PROVE  HidInv' /\ FifoStep
<1>1. /\ Busy(e) /\ ~busReset /\ ep' = [ep EXCEPT ![e] = <<>>]
      /\ UNCHANGED <<fifoVars, edp_toggle, notReleased, remote, busReset, metBusy>>
  BY DEF HostFetch
<1>2. FifoInv' /\ FifoStep
  BY <1>1, StillFifo DEF HidInv
<1>3. /\ ep \in [Endpoints -> Held] /\ usbHost \in [Endpoints -> Known]
      /\ edp_toggle \in [Endpoints -> {0, 1}]
  BY DEF HidInv, EndpointTypes
<1>4. PICK c \in Known : ep[e] = <<c>>
  BY <1>1, <1>3 DEF Held, Busy
<1>5. PICK k \in Known : k = [code |-> c.code, toggle |-> 1 - usbHost[e].toggle]
  <2>1. usbHost[e].toggle \in {0, 1} /\ c.code \in Codes
    BY <1>3, <1>4 DEF Known
  <2>2. 1 - usbHost[e].toggle \in {0, 1}
    BY <2>1
  <2>3. [code |-> c.code, toggle |-> 1 - usbHost[e].toggle] \in Known
    BY <2>1, <2>2 DEF Known
  <2> QED
    BY <2>3
<1>6. usbHost' = IF c.toggle = usbHost[e].toggle THEN [usbHost EXCEPT ![e] = k] ELSE usbHost
  <2>1. ep[e][1] = c
    BY <1>4
  <2>2. usbHost' = IF ep[e][1].toggle = usbHost[e].toggle
                   THEN [usbHost EXCEPT ![e] = [code |-> ep[e][1].code,
                                                toggle |-> 1 - usbHost[e].toggle]]
                   ELSE usbHost
    BY <1>3 DEF HostFetch
  <2> QED
    BY <1>5, <2>1, <2>2
<1>7. usbHost' \in [Endpoints -> Known]
  BY <1>3, <1>5, <1>6
<1>8. ep' \in [Endpoints -> Held]
  <2>1. <<>> \in Held
    BY DEF Held
  <2> QED
    BY <1>1, <1>3, <2>1
<1>9. EndpointTypes'
  BY <1>1, <1>7, <1>8 DEF HidInv, EndpointTypes
<1>10. ASSUME ~metBusy, NEW x \in Endpoints PROVE ToggleInv(x)' /\ ShownInv(x)'
  <2>1. ToggleInv(x) /\ ShownInv(x) /\ ToggleInv(e) /\ ShownInv(e)
    BY <1>10 DEF HidInv, StickInv
  <2>2. ~busReset' /\ HeldKey(x)' = HeldKey(x)
    BY <1>1 DEF HeldKey
  <2>3. CASE x = e
    <3>1. c.toggle = usbHost[e].toggle /\ edp_toggle[e] = 1 - usbHost[e].toggle
      BY <1>1, <1>4, <2>1 DEF ToggleInv
    <3>2. usbHost'[e] = k
      BY <1>3, <1>6, <3>1
    <3>3. usbHost'[e].code = c.code /\ usbHost'[e].toggle = edp_toggle'[e]
      BY <1>1, <1>5, <3>1, <3>2
    <3>4. ~Busy(e)'
      BY <1>1, <1>3 DEF Busy
    <3>5. Shown(e)' = Shown(e)
      BY <1>1, <1>4, <2>2, <3>3, <3>4 DEF Shown
    <3>6. ToggleInv(e)'
      BY <2>2, <3>3, <3>4 DEF ToggleInv
    <3> QED
      BY <1>1, <2>1, <2>2, <2>3, <3>5, <3>6 DEF ShownInv
  <2>4. CASE x # e
    <3>1. ep'[x] = ep[x] /\ usbHost'[x] = usbHost[x]
      BY <1>1, <1>3, <1>6, <2>4
    <3>2. Shown(x)' = Shown(x) /\ ToggleInv(x)'
      BY <1>1, <2>1, <3>1 DEF Shown, ToggleInv, Busy
    <3> QED
      BY <1>1, <2>1, <2>2, <3>2 DEF ShownInv
  <2> QED
    BY <2>3, <2>4
<1>11. StickInv'
  BY <1>1, <1>10 DEF HidInv, StickInv, fifoVars
<1> QED
  BY <1>2, <1>9, <1>11 DEF HidInv

LEMMA HostResetKept ==
  ASSUME HidInv, HostReset
  PROVE  HidInv' /\ FifoStep
<1>1. /\ busReset' = TRUE
      /\ usbHost' = [e \in Endpoints |-> [code |-> NoKey, toggle |-> 0]]
      /\ UNCHANGED <<fifoVars, ep, edp_toggle, notReleased, remote, metBusy>>
  BY DEF HostReset
<1>2. FifoInv' /\ FifoStep
  BY <1>1, StillFifo DEF HidInv
<1>3. EndpointTypes'
  <2>1. [code |-> NoKey, toggle |-> 0] \in Known
    BY DEF Known, Codes
  <2> QED
    BY <1>1, <2>1 DEF HidInv, EndpointTypes
<1>4. StickInv'
  BY <1>1 DEF HidInv, StickInv, ToggleInv, ShownInv, Shown, fifoVars
<1> QED
  BY <1>2, <1>3, <1>4 DEF HidInv

-----------------------------------------------------------------------------
LEMMA HidInvInit == HidInit => HidInv
<1> SUFFICES ASSUME HidInit PROVE HidInv
  OBVIOUS
<1>1. /\ usb_fifo = [i \in 0 .. USB_FIFO_NUM - 1 |-> Empty]
      /\ ffPtr = [w |-> 0, r |-> 0]
      /\ ep = [e \in Endpoints |-> <<>>] /\ edp_toggle = [e \in Endpoints |-> 0]
      /\ notReleased = {} /\ remote = [key |-> NoKey, media |-> NoKey]
      /\ usbHost = [e \in Endpoints |-> [code |-> NoKey, toggle |-> 0]]
      /\ busReset = FALSE
  BY DEF HidInit
<1>2. FifoInv
  <2>1. Empty \in Reports
    BY DEF Empty, Report, Reports
  <2>2. 0 \in Ptrs /\ 0 <= USB_FIFO_NUM
    BY Pointers DEF Ptrs
  <2>3. UsedOf(0, 0) = 0
    <3>1. 0 - 0 = 0 /\ FifoPtrVals \in Nat \ {0} /\ 0 \in 0 .. FifoPtrVals - 1
      BY Pointers
    <3>2. 0 % FifoPtrVals = 0
      BY <3>1, SmallRemainder
    <3> QED
      BY <3>1, <3>2 DEF UsedOf
  <2> QED
    BY <1>1, <2>1, <2>2, <2>3 DEF FifoInv, Slots
<1>3. EndpointTypes
  <2>1. <<>> \in Held /\ [code |-> NoKey, toggle |-> 0] \in Known
    BY DEF Held, Known, Codes
  <2> QED
    BY <1>1, <2>1 DEF EndpointTypes
<1>4. StickInv
  BY <1>1 DEF StickInv, ToggleInv, ShownInv, Shown, Busy
<1> QED
  BY <1>2, <1>3, <1>4 DEF HidInv

LEMMA HidInvNext == HidInv /\ [HidNext]_hidVars => HidInv' /\ FifoStep
<1> SUFFICES ASSUME HidInv, [HidNext]_hidVars PROVE HidInv' /\ FifoStep
  OBVIOUS
<1>1. CASE KeyboardReport
  BY <1>1, KeyboardKept
<1>2. CASE KeyboardReportMedia
  <2>1. ReportOrRelease("MOUSE", NoKey) /\ UNCHANGED <<remote, usbHost, busReset>>
    BY <1>2 DEF KeyboardReportMedia, ReportOrRelease
  <2> QED
    BY <2>1, MediaKept DEF HidInv, EndpointTypes
<1>3. CASE ConsumerReport
  <2>1. PICK key \in MediaKeys \cup {NoKey} :
          remote' = [remote EXCEPT !.media = key] /\ ReportOrRelease("MOUSE", key)
    BY <1>3 DEF ConsumerReport
  <2>2. UNCHANGED <<usbHost, busReset>>
    BY <1>3 DEF ConsumerReport
  <2>3. /\ remote' \in [key : Keys \cup {NoKey}, media : MediaKeys \cup {NoKey}]
        /\ remote'.media = key /\ remote'.key = remote.key
    BY <2>1 DEF HidInv, EndpointTypes
  <2> QED
    BY <2>1, <2>2, <2>3, MediaKept
<1>4. CASE FifoProc
  BY <1>4, ProcKept
<1>5. CASE HandleReset
  BY <1>5, HandleResetKept
<1>6. CASE \E e \in Endpoints : HostFetch(e)
  BY <1>6, HostFetchKept
<1>7. CASE HostReset
  BY <1>7, HostResetKept
<1>8. CASE UNCHANGED hidVars
  <2>1. UNCHANGED <<fifoVars, ep, edp_toggle, notReleased, remote, usbHost, busReset, metBusy>>
    BY <1>8 DEF hidVars, fifoVars
  <2>2. FifoInv' /\ FifoStep
    BY <2>1, StillFifo DEF HidInv
  <2>3. EndpointTypes'
    BY <2>1 DEF HidInv, EndpointTypes
  <2>4. ASSUME NEW x \in Endpoints, ~metBusy PROVE ToggleInv(x)' /\ ShownInv(x)'
    <3>1. ToggleInv(x) /\ ShownInv(x)
      BY <2>4 DEF HidInv, StickInv
    <3> QED
      BY <2>1, <3>1 DEF ToggleInv, ShownInv, Shown, HeldKey, Busy
  <2>5. StickInv'
    BY <2>1, <2>4 DEF HidInv, StickInv, fifoVars
  <2> QED
    BY <2>2, <2>3, <2>5 DEF HidInv
<1> QED
  BY <1>1, <1>2, <1>3, <1>4, <1>5, <1>6, <1>7, <1>8 DEF HidNext

LEMMA HidInvAlways == HidSpec => []HidInv
<1>1. HidInv /\ [HidNext]_hidVars => HidInv'
  BY HidInvNext
<1> QED
  BY HidInvInit, <1>1, PTL DEF HidSpec

(* Once all reports are fetched the host shows no key that is not held. *)
THEOREM KeysAreReleased == HidSpec => []NoKeySticks
<1>1. HidInv => NoKeySticks
  <2> SUFFICES ASSUME HidInv, Settled, ~metBusy PROVE NoKeySticks
    BY DEF NoKeySticks
  <2>1. ASSUME NEW e \in Endpoints PROVE usbHost[e].code \in {NoKey, HeldKey(e)}
    <3>1. Shown(e) = usbHost[e].code
      BY <2>1 DEF Shown, Settled
    <3> QED
      BY <2>1, <3>1 DEF HidInv, StickInv, ShownInv
  <2>2. "KEYBOARD_IN" \in Endpoints /\ "MOUSE" \in Endpoints
    BY DEF Endpoints
  <2>3. HeldKey("KEYBOARD_IN") = remote.key /\ HeldKey("MOUSE") = remote.media
    BY DEF HeldKey
  <2> QED
    BY <2>1, <2>2, <2>3 DEF NoKeySticks
<1> QED
  BY <1>1, HidInvAlways, PTL

(* The FIFO is a queue that forgets its oldest report when a new one finds it
   full, wherever the pointers stand.                                      *)
THEOREM FifoIsQueue == HidSpec => FifoKeepsNewest
<1>1. HidInv /\ [HidNext]_hidVars =>
        [ \/ Waiting' = Waiting
          \/ \E r \in Reports : Busy(r.ep) /\ Waiting' = Newest(Append(Waiting, r))
          \/ /\ Waiting # <<>> /\ Waiting' = Tail(Waiting)
             /\ ep'[Head(Waiting).ep][1].code = Head(Waiting).code ]_hidVars
  BY HidInvNext DEF FifoStep
<1> QED
  BY <1>1, HidInvAlways, PTL DEF HidSpec, FifoKeepsNewest

-----------------------------------------------------------------------------
(* Software timers: sums of multiples, and remainders that are known *)
(* Multiples add up. *)
LEMMA Multiples ==
  ASSUME NEW x \in Int, NEW y \in Int, NEW m \in Nat \ {0}, IsMultiple(x, m), IsMultiple(y, m)
  PROVE  IsMultiple(x + y, m) /\ IsMultiple(x - y, m)
<1>1. PICK k \in Int : x = m * k
  BY DEF IsMultiple
<1>2. PICK l \in Int : y = m * l
  BY DEF IsMultiple
<1>3. k + l \in Int /\ k - l \in Int /\ m * k \in Int /\ m * l \in Int
  OBVIOUS
<1>4. x + y = m * (k + l) /\ x - y = m * (k - l)
  BY <1>1, <1>2, <1>3
<1> QED
  BY <1>3, <1>4 DEF IsMultiple

LEMMA RemainderOff ==
  ASSUME NEW x \in Int, NEW m \in Nat \ {0}
  PROVE  /\ IsMultiple(x - (x % m), m) /\ IsMultiple(m, m) /\ IsMultiple(0, m)
         /\ x % m \in 0 .. m - 1
<1> DEFINE k == x \div m
<1>1. x = (m * k) + (x % m) /\ x % m \in 0 .. m - 1 /\ k \in Int
  BY Quotient
<1> HIDE DEF k
<1>2. m * k \in Int
  BY <1>1
<1>3. x - (x % m) = m * k
  BY <1>1, <1>2
<1>4. m = m * 1 /\ 0 = m * 0
  OBVIOUS
<1>5. IsMultiple(m, m) /\ IsMultiple(0, m)
  BY <1>4 DEF IsMultiple
<1>6. IsMultiple(x - (x % m), m)
  BY <1>1, <1>3 DEF IsMultiple
<1> QED
  BY <1>1, <1>5, <1>6

(* Numbers below m that differ by a multiple of it are the same. *)
LEMMA RemainderIs ==
  ASSUME NEW x \in Int, NEW m \in Nat \ {0}, NEW r \in 0 .. m - 1, IsMultiple(x - r, m)
  PROVE  x % m = r
<1>1. r \in Int /\ r % m = r
  BY SmallRemainder
<1>2. x % m = r % m
  BY <1>1, SameRemainder
<1> QED
  BY <1>1, <1>2

-----------------------------------------------------------------------------
(* The ticks by which a time is ahead of the clock, below zero when it is behind;
   a time counts as behind in the window of Expired at most.                 *)
Times == 0 .. ClockVals - 1
Ahead(c, t) == ((t - c + SAFE_MARGIN_POST) % ClockVals) - SAFE_MARGIN_POST
Near == 1 - SAFE_MARGIN_POST .. COMPARE_RANGE - SAFE_MARGIN_POST
Clocked(x) == IsMultiple(x, ClockVals)

LEMMA TimerConstants ==
  /\ ClockVals \in Nat \ {0} /\ COMPARE_RANGE \in Nat \ {0} /\ SAFE_MARGIN_PRE \in Nat \ {0}
  /\ SAFE_MARGIN_POST \in Nat \ {0} /\ WAKEUP_RANGE \in Nat \ {0}
  /\ MAX_TIMER_NUM \in Nat \ {0} /\ Gap \in Nat \ {0} /\ Intervals \subseteq Nat \ {0}
  /\ 4 * COMPARE_RANGE <= ClockVals
  /\ \A i \in Intervals : i + SAFE_MARGIN_POST <= COMPARE_RANGE
  /\ Intervals # {} => SAFE_MARGIN_POST < COMPARE_RANGE
  /\ SAFE_MARGIN_PRE < SAFE_MARGIN_POST
<1>1. {MAX_TIMER_NUM, ClockVals, COMPARE_RANGE, SAFE_MARGIN_PRE, SAFE_MARGIN_POST,
       WAKEUP_RANGE, Gap} \subseteq Nat \ {0}
  BY TimerAssumption
<1>2. MAX_TIMER_NUM * Gap >= 1 /\ MAX_TIMER_NUM * Gap \in Int
  BY <1>1
<1>3. SAFE_MARGIN_PRE < SAFE_MARGIN_POST
  BY <1>1, <1>2, GapAssumption
<1>4. Intervals \subseteq Nat \ {0} /\ \A i \in Intervals : i + SAFE_MARGIN_POST <= COMPARE_RANGE
  BY TimerAssumption
<1>5. ASSUME NEW i \in Intervals PROVE SAFE_MARGIN_POST < COMPARE_RANGE
  BY <1>1, <1>4
<1> QED
  BY <1>1, <1>3, <1>4, <1>5, TimerAssumption

(* A sum that wraps *)
LEMMA PlusWraps ==
  ASSUME NEW c \in Int, NEW d \in Int
  PROVE  Plus(c, d) \in Times /\ Plus(c, d) \in Int /\ Clocked((c + d) - Plus(c, d))
<1>1. PICK m \in Nat \ {0}, x \in Int : m = ClockVals /\ x = c + d
  BY TimerConstants
<1>2. IsMultiple(x - (x % m), m) /\ x % m \in 0 .. m - 1
  BY RemainderOff
<1>2a. x % m \in Int
  BY <1>2
<1>3. Plus(c, d) = x % m
  BY <1>1 DEF Plus
<1> QED
  BY <1>1, <1>2, <1>2a, <1>3 DEF Times, Clocked

LEMMA AheadTyped ==
  ASSUME NEW c \in Int, NEW t \in Int
  PROVE  /\ Ahead(c, t) \in -SAFE_MARGIN_POST .. ClockVals - SAFE_MARGIN_POST - 1
         /\ Clocked(t - (c + Ahead(c, t)))
<1>1. PICK m \in Nat \ {0}, w \in Nat \ {0}, x \in Int :
        m = ClockVals /\ w = SAFE_MARGIN_POST /\ x = t - c + w
  BY TimerConstants
<1>2. IsMultiple(x - (x % m), m) /\ x % m \in 0 .. m - 1
  BY RemainderOff
<1>3. Ahead(c, t) = (x % m) - w
  BY <1>1 DEF Ahead
<1>4. t - (c + Ahead(c, t)) = x - (x % m)
  BY <1>1, <1>2, <1>3
<1>5. Ahead(c, t) \in -w .. m - w - 1
  BY <1>2, <1>3
<1> QED
  BY <1>1, <1>2, <1>4, <1>5 DEF Clocked

LEMMA AheadIs ==
  ASSUME NEW c \in Int, NEW t \in Int,
         NEW d \in -SAFE_MARGIN_POST .. ClockVals - SAFE_MARGIN_POST - 1,
         Clocked(t - (c + d))
  PROVE  Ahead(c, t) = d
<1>1. PICK m \in Nat \ {0}, w \in Nat \ {0}, x \in Int :
        m = ClockVals /\ w = SAFE_MARGIN_POST /\ x = t - c + w
  BY TimerConstants
<1>2. PICK r \in 0 .. m - 1 : r = d + w
  BY <1>1
<1>3. x - r = t - (c + d)
  BY <1>1, <1>2
<1>4. IsMultiple(x - r, m)
  BY <1>1, <1>3 DEF Clocked
<1>5. x % m = r
  BY <1>4, RemainderIs
<1> QED
  BY <1>1, <1>2, <1>5 DEF Ahead

(* The distance between two times near the clock *)
LEMMA DistanceIs ==
  ASSUME NEW x \in Int, NEW y \in Int, NEW d \in Int, Clocked((y - x) - d),
         -ClockVals <= d, d < ClockVals
  PROVE  Distance(x, y) = IF d >= 0 THEN d ELSE d + ClockVals
<1>1. PICK m \in Nat \ {0}, z \in Int : m = ClockVals /\ z = y - x
  BY TimerConstants
<1>2. PICK r \in 0 .. m - 1 : r = IF d >= 0 THEN d ELSE d + m
  BY <1>1
<1>3. IsMultiple(z - d, m) /\ IsMultiple(m, m) /\ z - d \in Int
  BY <1>1, RemainderOff DEF Clocked
<1>4. IsMultiple((z - d) - m, m)
  BY <1>3, Multiples
<1>5. z - r = z - d \/ z - r = (z - d) - m
  BY <1>1, <1>2
<1>6. z % m = r
  BY <1>3, <1>4, <1>5, RemainderIs
<1> QED
  BY <1>1, <1>2, <1>6 DEF Distance

(* What the code computes of times near the clock *)
LEMMA NearTimes ==
  ASSUME NEW c \in Int, NEW t \in Int, NEW u \in Int, Ahead(c, t) \in Near, Ahead(c, u) \in Near
  PROVE  /\ Distance(u, t) = IF Ahead(c, t) >= Ahead(c, u) THEN Ahead(c, t) - Ahead(c, u)
                             ELSE (Ahead(c, t) - Ahead(c, u)) + ClockVals
         /\ Distance(u, t) < COMPARE_RANGE <=> Ahead(c, t) >= Ahead(c, u)
<1>1. PICK a \in Int, b \in Int : a = Ahead(c, t) /\ b = Ahead(c, u)
  BY TimerConstants DEF Near
<1>2. Clocked(t - (c + a)) /\ Clocked(u - (c + b))
  BY <1>1, AheadTyped
<1>3. t - (c + a) \in Int /\ u - (c + b) \in Int /\ ClockVals \in Nat \ {0}
  BY TimerConstants
<1>4. Clocked((t - (c + a)) - (u - (c + b)))
  BY <1>2, <1>3, Multiples DEF Clocked
<1>5. (t - (c + a)) - (u - (c + b)) = (t - u) - (a - b)
  OBVIOUS
<1>6. PICK d \in Int :
        /\ d = a - b /\ d < COMPARE_RANGE /\ -COMPARE_RANGE < d /\ COMPARE_RANGE \in Nat
        /\ ClockVals \in Nat /\ 4 * COMPARE_RANGE <= ClockVals
  <2>1. /\ a \in 1 - SAFE_MARGIN_POST .. COMPARE_RANGE - SAFE_MARGIN_POST
        /\ b \in 1 - SAFE_MARGIN_POST .. COMPARE_RANGE - SAFE_MARGIN_POST
    BY <1>1 DEF Near
  <2> QED
    BY <2>1, TimerConstants
<1>7. -ClockVals <= d /\ d < ClockVals
  BY <1>6
<1>8. Distance(u, t) = IF d >= 0 THEN d ELSE d + ClockVals
  BY <1>4, <1>5, <1>6, <1>7, DistanceIs
<1>9. Distance(u, t) < COMPARE_RANGE <=> d >= 0
  BY <1>6, <1>8
<1>10. d >= 0 <=> a >= b
  BY <1>6
<1> QED
  BY <1>1, <1>6, <1>8, <1>9, <1>10

(* The distance of a time from the clock *)
LEMMA NearDistance ==
  ASSUME Intervals # {}, NEW c \in Times, NEW t \in Times, NEW a \in Near, a = Ahead(c, t)
  PROVE  Distance(c, t) = IF a >= 0 THEN a ELSE a + ClockVals
<1>1. /\ c \in Int /\ t \in Int /\ a \in Int /\ ClockVals \in Nat \ {0}
      /\ SAFE_MARGIN_POST \in Nat \ {0} /\ COMPARE_RANGE \in Nat \ {0}
      /\ 4 * COMPARE_RANGE <= ClockVals /\ SAFE_MARGIN_POST < COMPARE_RANGE
  BY TimerConstants DEF Times, Near
<1>2. a >= 1 - SAFE_MARGIN_POST /\ a <= COMPARE_RANGE - SAFE_MARGIN_POST
  BY <1>1 DEF Near
<1>3. Clocked(t - (c + a))
  BY <1>1, AheadTyped
<1>4. (t - c) - a = t - (c + a)
  BY <1>1
<1>5. -ClockVals <= a /\ a < ClockVals
  BY <1>1, <1>2
<1> QED
  BY <1>1, <1>3, <1>4, <1>5, DistanceIs

(* What a timer that is d ticks ahead looks like to blt_soft_timer_process: near
   its time it is expired, and WakeupFor sees how far it is ahead.           *)
LEMMA NearClock ==
  ASSUME Intervals # {}, clock \in Times, NEW t \in Times, NEW a \in Near, a = Ahead(clock, t)
  PROVE  /\ Distance(clock, t) = IF a >= 0 THEN a ELSE a + ClockVals
         /\ a >= 1 + SAFE_MARGIN_PRE - SAFE_MARGIN_POST => (Expired(t) <=> a <= SAFE_MARGIN_PRE)
<1>1. /\ clock \in Int /\ t \in Int /\ a \in Int /\ ClockVals \in Nat \ {0}
      /\ SAFE_MARGIN_PRE \in Nat \ {0} /\ SAFE_MARGIN_POST \in Nat \ {0}
      /\ COMPARE_RANGE \in Nat \ {0} /\ 4 * COMPARE_RANGE <= ClockVals
      /\ SAFE_MARGIN_PRE < SAFE_MARGIN_POST /\ SAFE_MARGIN_POST < COMPARE_RANGE
  BY TimerConstants DEF Times, Near
<1>2. a >= 1 - SAFE_MARGIN_POST /\ a <= COMPARE_RANGE - SAFE_MARGIN_POST
  BY <1>1 DEF Near
<1>3. Clocked(t - (clock + a))
  BY <1>1, AheadTyped
<1>4. Distance(clock, t) = IF a >= 0 THEN a ELSE a + ClockVals
  BY NearDistance
<1>5. PICK p \in Int : p = Plus(clock, SAFE_MARGIN_PRE)
  <2>1. clock \in Int /\ SAFE_MARGIN_PRE \in Int
    BY <1>1
  <2>2. Plus(clock, SAFE_MARGIN_PRE) \in Int
    BY <2>1, PlusWraps
  <2> QED
    BY <2>2
<1>6. Clocked((clock + SAFE_MARGIN_PRE) - p)
  BY <1>1, <1>5, PlusWraps
<1>7. PICK d \in Int : d = SAFE_MARGIN_PRE - a
  BY <1>1
<1>8. Clocked((t - (clock + a)) + ((clock + SAFE_MARGIN_PRE) - p))
  <2>1. t - (clock + a) \in Int /\ (clock + SAFE_MARGIN_PRE) - p \in Int
    BY <1>1
  <2> QED
    BY <1>1, <1>3, <1>6, <2>1, Multiples DEF Clocked
<1>9. Clocked((p - t) - d)
  <2>1. PICK x \in Int : x = (p - t) - d
    BY <1>1, <1>5, <1>7
  <2>2. (t - (clock + a)) + ((clock + SAFE_MARGIN_PRE) - p) = 0 - x
    BY <1>1, <1>7, <2>1
  <2>3. Clocked(0 - x) /\ Clocked(0)
    BY <1>1, <1>8, <2>2, RemainderOff DEF Clocked
  <2>4. Clocked(0 - (0 - x))
    BY <1>1, <2>3, Multiples DEF Clocked
  <2>5. 0 - (0 - x) = x
    OBVIOUS
  <2> QED
    BY <2>1, <2>4, <2>5
<1>10. -ClockVals <= d /\ d < ClockVals /\ d + ClockVals > SAFE_MARGIN_POST
  BY <1>1, <1>2, <1>7
<1>11. Distance(t, p) = IF d >= 0 THEN d ELSE d + ClockVals
  BY <1>1, <1>9, <1>10, DistanceIs
<1>12. a >= 1 + SAFE_MARGIN_PRE - SAFE_MARGIN_POST => (Expired(t) <=> a <= SAFE_MARGIN_PRE)
  <2>1. Expired(t) <=> Distance(t, p) < SAFE_MARGIN_POST
    BY <1>5 DEF Expired
  <2> QED
    BY <1>1, <1>7, <1>10, <1>11, <2>1
<1> QED
  BY <1>4, <1>12

(* The clock goes on. *)
LEMMA AheadTicks ==
  ASSUME NEW c \in Times, NEW t \in Times, Ahead(c, t) > -SAFE_MARGIN_POST
  PROVE  Plus(c, 1) \in Times /\ Ahead(Plus(c, 1), t) = Ahead(c, t) - 1
<1>1. /\ c \in Int /\ t \in Int /\ c + 1 \in Int /\ ClockVals \in Nat \ {0}
      /\ SAFE_MARGIN_POST \in Nat
  BY TimerConstants DEF Times
<1>2. PICK p \in Int : p = Plus(c, 1)
  <2>1. c \in Int /\ 1 \in Int
    BY <1>1
  <2>2. Plus(c, 1) \in Int
    BY <2>1, PlusWraps
  <2> QED
    BY <2>2
<1>3. p \in Times /\ Clocked((c + 1) - p)
  BY <1>1, <1>2, PlusWraps
<1>4. PICK a \in Int : a = Ahead(c, t)
  BY <1>1, AheadTyped
<1>5. Clocked(t - (c + a)) /\ a \in -SAFE_MARGIN_POST .. ClockVals - SAFE_MARGIN_POST - 1
  BY <1>1, <1>4, AheadTyped
<1>6. Clocked((t - (c + a)) + ((c + 1) - p))
  <2>1. t - (c + a) \in Int /\ (c + 1) - p \in Int
    BY <1>1
  <2> QED
    BY <1>1, <1>3, <1>5, <2>1, Multiples DEF Clocked
<1>7. PICK d \in -SAFE_MARGIN_POST .. ClockVals - SAFE_MARGIN_POST - 1 : d = a - 1
  BY <1>1, <1>4, <1>5
<1>8. (t - (c + a)) + ((c + 1) - p) = t - (p + d)
  BY <1>1, <1>7
<1>9. Ahead(p, t) = d
  BY <1>1, <1>6, <1>8, AheadIs
<1> QED
  BY <1>2, <1>3, <1>4, <1>7, <1>9

(* A timer that is started is its interval ahead. *)
LEMMA AheadStarted ==
  ASSUME NEW c \in Times, NEW i \in Intervals
  PROVE  /\ Plus(c, i) \in Times /\ Ahead(c, Plus(c, i)) = i
         /\ i >= 1 /\ i \in Near
<1>1. /\ c \in Int /\ i \in Nat \ {0} /\ c + i \in Int /\ ClockVals \in Nat \ {0}
      /\ SAFE_MARGIN_POST \in Nat \ {0} /\ COMPARE_RANGE \in Nat \ {0}
      /\ 4 * COMPARE_RANGE <= ClockVals /\ i + SAFE_MARGIN_POST <= COMPARE_RANGE
  BY TimerConstants DEF Times
<1>2. PICK p \in Int : p = Plus(c, i)
  BY <1>1, PlusWraps
<1>3. p \in Times /\ Clocked((c + i) - p)
  BY <1>1, <1>2, PlusWraps
<1>4. Clocked(0 - ((c + i) - p))
  <2>1. Clocked(0) /\ (c + i) - p \in Int
    BY <1>1, RemainderOff DEF Clocked
  <2> QED
    BY <1>1, <1>3, <2>1, Multiples DEF Clocked
<1>5. 0 - ((c + i) - p) = p - (c + i)
  BY <1>1
<1>6. PICK d \in -SAFE_MARGIN_POST .. ClockVals - SAFE_MARGIN_POST - 1 : d = i
  BY <1>1
<1>7. Ahead(c, p) = d
  BY <1>1, <1>4, <1>5, <1>6, AheadIs
<1>8. i \in Near
  BY <1>1 DEF Near
<1> QED
  BY <1>1, <1>2, <1>3, <1>6, <1>7, <1>8

(* A set of numbers that is not empty has a least one. *)
LEMMA LeastExists ==
  ASSUME NEW S \in SUBSET Nat, S # {}
  PROVE  \E m \in S : \A k \in S : m <= k
<1> DEFINE R == {ss \in Nat \X Nat : ss[1] < ss[2]}
<1>1. OpToRel(<, Nat) = R
  BY Zenon DEF OpToRel
<1>2. IsWellFoundedOn(R, Nat)
  BY <1>1, NatLessThanWellFounded, Zenon
<1>3. \A k, m \in S : ~(<<k, m>> \in R) => m <= k
  OBVIOUS
<1> HIDE DEF R
<1>4. \E m \in S : \A k \in S : ~(<<k, m>> \in R)
  BY <1>2, WFMin
<1> QED
  BY <1>3, <1>4

(* A set that 0 is in and that goes on to n *)
LEMMA SetInduction ==
  ASSUME NEW n \in Nat, NEW A, 0 \in A, \A k \in 0 .. n - 1 : k \in A => k + 1 \in A
  PROVE  0 .. n \subseteq A
<1> DEFINE Bad == {k \in 0 .. n : k \notin A}
<1>1. SUFFICES ASSUME Bad # {} PROVE FALSE
  OBVIOUS
<1>2. Bad \in SUBSET Nat
  OBVIOUS
<1>3. PICK m \in Bad : \A k \in Bad : m <= k
  <2> HIDE DEF Bad
  <2> QED
    BY <1>1, <1>2, LeastExists
<1>4. m \in 0 .. n /\ m # 0 /\ m \notin A
  OBVIOUS
<1>5. m - 1 \in 0 .. n - 1 /\ m - 1 \in 0 .. n /\ (m - 1) + 1 = m /\ ~(m <= m - 1)
  BY <1>4
<1>6. m - 1 \in A
  BY <1>3, <1>5
<1> QED
  BY <1>4, <1>5, <1>6

(* A loop of k turns from a: turn j makes of the last state the next one. *)
LoopTo(k, f, S, a, G) ==
  /\ f \in [0 .. k -> S] /\ f[0] = a
  /\ \A j \in 1 .. k : f[j] = G[<<f[j - 1], j>>]

LEMMA LoopExists ==
  ASSUME NEW n \in Nat, NEW S, NEW a \in S, NEW G \in [S \X (1 .. n) -> S]
  PROVE  \E f : LoopTo(n, f, S, a, G)
<1> DEFINE A == {k \in 0 .. n : \E f : LoopTo(k, f, S, a, G)}
<1>1. 0 \in A
  <2>1. LoopTo(0, [j \in 0 .. 0 |-> a], S, a, G)
    BY DEF LoopTo
  <2> QED
    BY <2>1
<1>2. ASSUME NEW k \in 0 .. n - 1, k \in A PROVE k + 1 \in A
  <2>1. PICK f : LoopTo(k, f, S, a, G)
    BY <1>2
  <2>2. /\ k \in Nat /\ k + 1 \in 1 .. n /\ k + 1 \in 0 .. n /\ (k + 1) - 1 = k
        /\ k \in 0 .. k /\ ~(k + 1 <= k) /\ 0 \in 0 .. k
    OBVIOUS
  <2>3. f \in [0 .. k -> S] /\ f[0] = a /\ \A j \in 1 .. k : f[j] = G[<<f[j - 1], j>>]
    BY <2>1 DEF LoopTo
  <2> DEFINE h == [j \in 0 .. k + 1 |-> IF j <= k THEN f[j] ELSE G[<<f[k], k + 1>>]]
  <2>4. G[<<f[k], k + 1>>] \in S
    BY <2>2, <2>3
  <2>5. h \in [0 .. k + 1 -> S]
    BY <2>2, <2>3, <2>4
  <2>6. h[0] = a
    BY <2>2, <2>3
  <2>7. ASSUME NEW j \in 1 .. k + 1 PROVE h[j] = G[<<h[j - 1], j>>]
    <3>1. j - 1 \in 0 .. k + 1 /\ j - 1 <= k /\ j \in 0 .. k + 1
      BY <2>2
    <3>2. h[j - 1] = f[j - 1]
      BY <3>1
    <3>3. CASE j <= k
      <4>1. j \in 1 .. k /\ h[j] = f[j]
        BY <2>2, <3>1, <3>3
      <4> QED
        BY <2>3, <3>2, <4>1
    <3>4. CASE j = k + 1
      BY <2>2, <3>1, <3>2, <3>4
    <3> QED
      BY <2>2, <3>3, <3>4
  <2>8. LoopTo(k + 1, h, S, a, G)
    <3> HIDE DEF h
    <3> QED
      BY <2>5, <2>6, <2>7 DEF LoopTo
  <2> QED
    BY <2>2, <2>8
<1>3. 0 .. n \subseteq A
  <2> HIDE DEF A
  <2> QED
    BY <1>1, <1>2, SetInduction
<1> QED
  BY <1>3

-----------------------------------------------------------------------------
(* The entries near the clock c, and tables of n of them *)
Entry == [cb : CallBacks, t : Times, interval : Intervals]
Key(c, e) == Ahead(c, e.t)
EntryNear(c) == {e \in Entry : Key(c, e) \in Near /\ Key(c, e) <= e.interval}
Tables(c, n) == [1 .. n -> EntryNear(c)]

LEMMA KeyTyped ==
  ASSUME NEW c \in Times, NEW e \in EntryNear(c)
  PROVE  /\ Key(c, e) \in Near /\ Key(c, e) \in Int /\ Key(c, e) <= e.interval
         /\ e \in Entry /\ e.t \in Times /\ e.interval \in Intervals /\ e.interval \in Int
<1>1. /\ Key(c, e) \in Near /\ Key(c, e) <= e.interval /\ e \in Entry
      /\ e.t \in Times /\ e.interval \in Intervals
  BY DEF EntryNear, Entry
<1>2. Key(c, e) \in Int
  BY <1>1, TimerConstants DEF Near
<1>3. Intervals \subseteq Int
  BY TimerConstants
<1> QED
  BY <1>1, <1>2, <1>3

(* One comparison puts two neighbours in order. *)
LEMMA StepOrders ==
  ASSUME NEW c \in Times, NEW n \in Nat, NEW s \in Tables(c, n), NEW j \in 1 .. n - 1
  PROVE  /\ BubbleStep(s, j) \in Tables(c, n)
         /\ \A k \in 1 .. n : k # j /\ k # j + 1 => BubbleStep(s, j)[k] = s[k]
         /\ \/ /\ BubbleStep(s, j)[j] = s[j] /\ BubbleStep(s, j)[j + 1] = s[j + 1]
               /\ Key(c, s[j]) <= Key(c, s[j + 1])
            \/ /\ BubbleStep(s, j)[j] = s[j + 1] /\ BubbleStep(s, j)[j + 1] = s[j]
               /\ Key(c, s[j + 1]) <= Key(c, s[j])
<1>1. j \in 1 .. n /\ j + 1 \in 1 .. n /\ j # j + 1 /\ DOMAIN s = 1 .. n
  BY DEF Tables
<1>2. s[j] \in EntryNear(c) /\ s[j + 1] \in EntryNear(c)
  BY <1>1 DEF Tables
<1>3. TIME_COMPARE_BIG(s[j].t, s[j + 1].t) <=> Key(c, s[j]) >= Key(c, s[j + 1])
  <2>1. c \in Int /\ s[j].t \in Int /\ s[j + 1].t \in Int
    BY <1>2, KeyTyped, TimerConstants DEF Times
  <2>2. Ahead(c, s[j].t) \in Near /\ Ahead(c, s[j + 1].t) \in Near
    BY <1>2, KeyTyped DEF Key
  <2>3. Distance(s[j + 1].t, s[j].t) < COMPARE_RANGE <=> Ahead(c, s[j].t) >= Ahead(c, s[j + 1].t)
    BY <2>1, <2>2, NearTimes
  <2> QED
    BY <2>3 DEF TIME_COMPARE_BIG, Key
<1>4. Key(c, s[j]) \in Int /\ Key(c, s[j + 1]) \in Int
  BY <1>2, KeyTyped
<1>5. CASE TIME_COMPARE_BIG(s[j].t, s[j + 1].t)
  <2>1. BubbleStep(s, j) = [s EXCEPT ![j] = s[j + 1], ![j + 1] = s[j]]
    BY <1>5 DEF BubbleStep
  <2>2. BubbleStep(s, j) \in Tables(c, n)
    BY <1>1, <1>2, <2>1 DEF Tables
  <2>3. BubbleStep(s, j)[j] = s[j + 1] /\ BubbleStep(s, j)[j + 1] = s[j]
    BY <1>1, <2>1
  <2>4. \A k \in 1 .. n : k # j /\ k # j + 1 => BubbleStep(s, j)[k] = s[k]
    BY <1>1, <2>1
  <2>5. Key(c, s[j + 1]) <= Key(c, s[j])
    BY <1>3, <1>4, <1>5
  <2> QED
    BY <2>2, <2>3, <2>4, <2>5
<1>6. CASE ~TIME_COMPARE_BIG(s[j].t, s[j + 1].t)
  <2>1. BubbleStep(s, j) = s
    BY <1>6 DEF BubbleStep
  <2>2. Key(c, s[j]) <= Key(c, s[j + 1])
    BY <1>3, <1>4, <1>6
  <2> QED
    BY <2>1, <2>2
<1> QED
  BY <1>5, <1>6

(* The states of the loop of a pass over the first m + 1 entries *)
PassLoop(f, c, n, s, m) ==
  /\ f \in [0 .. m -> Tables(c, n)] /\ f[0] = s /\ f[m] = BubblePass(s, m)
  /\ \A j \in 1 .. m : f[j] = BubbleStep(f[j - 1], j)

(* The loop of a pass: its recursive definition has a solution, and so its equations
   hold.                                                                   *)
LEMMA PassIs ==
  ASSUME NEW c \in Times, NEW n \in Nat, NEW s \in Tables(c, n), NEW m \in 0 .. n - 1
  PROVE  \E f : PassLoop(f, c, n, s, m)
<1> DEFINE S == Tables(c, n)
           G == [p \in S \X (1 .. m) |-> BubbleStep(p[1], p[2])]
           F(f) == [j \in 0 .. m |-> IF j = 0 THEN s ELSE BubbleStep(f[j - 1], j)]
<1>1. \A q \in S : \A j \in 1 .. m : BubbleStep(q, j) \in S
  <2>1. \A j \in 1 .. m : j \in 1 .. n - 1
    OBVIOUS
  <2> QED
    BY <2>1, StepOrders
<1>2. G \in [S \X (1 .. m) -> S] /\ s \in S /\ m \in Nat
  <2> HIDE DEF S
  <2>1. s \in S
    BY DEF S
  <2> QED
    BY <1>1, <2>1
<1>3. PICK f : LoopTo(m, f, S, s, G)
  <2> HIDE DEF S, G
  <2> QED
    BY <1>2, LoopExists
<1>4. /\ f \in [0 .. m -> S] /\ f[0] = s
      /\ \A j \in 1 .. m : f[j] = BubbleStep(f[j - 1], j)
  <2> HIDE DEF S
  <2>1. f \in [0 .. m -> S] /\ f[0] = s /\ \A j \in 1 .. m : f[j] = G[<<f[j - 1], j>>]
    BY <1>3 DEF LoopTo
  <2>2. ASSUME NEW j \in 1 .. m PROVE f[j] = BubbleStep(f[j - 1], j)
    <3>1. f[j - 1] \in S
      BY <2>1
    <3>2. <<f[j - 1], j>> \in S \X (1 .. m)
      BY <3>1
    <3> QED
      BY <2>1, <3>2
  <2> QED
    BY <2>1, <2>2
<1> HIDE DEF S, G
<1>5. f = F(f)
  <2>1. \A j \in 0 .. m : f[j] = F(f)[j]
    <3>1. \A j \in 0 .. m : j = 0 \/ j \in 1 .. m
      OBVIOUS
    <3> QED
      BY <1>4, <3>1
  <2> QED
    BY <1>4, <2>1
<1> DEFINE g == CHOOSE h : h = F(h)
<1>6. BubblePass(s, m) = g[m]
  BY DEF BubblePass
<1>7. g = F(g)
  <2> HIDE DEF F
  <2> QED
    BY <1>5
<1> HIDE DEF g
<1>8. g = f
  <2> DEFINE A == {j \in 0 .. m : g[j] = f[j]}
  <2>1. \A j \in 0 .. m : g[j] = IF j = 0 THEN s ELSE BubbleStep(g[j - 1], j)
    BY <1>7
  <2>2. 0 \in A
    BY <1>2, <1>4, <2>1
  <2>3. ASSUME NEW k \in 0 .. m - 1, k \in A PROVE k + 1 \in A
    <3>1. k + 1 \in 0 .. m /\ k + 1 # 0 /\ (k + 1) - 1 = k /\ k + 1 \in 1 .. m
      OBVIOUS
    <3>2. g[k + 1] = BubbleStep(g[k], k + 1)
      BY <2>1, <3>1
    <3>3. f[k + 1] = BubbleStep(f[k], k + 1)
      BY <1>4, <3>1
    <3> QED
      BY <2>3, <3>1, <3>2, <3>3
  <2>4. 0 .. m \subseteq A
    <3> HIDE DEF A
    <3> QED
      BY <1>2, <2>2, <2>3, SetInduction
  <2>5. DOMAIN g = 0 .. m
    BY <1>7
  <2>6. DOMAIN f = 0 .. m
    BY <1>4
  <2>7. g = [j \in 0 .. m |-> g[j]]
    BY <1>7
  <2>8. f = [j \in 0 .. m |-> f[j]]
    BY <1>4
  <2> QED
    BY <2>4, <2>7, <2>8
<1> QED
  BY <1>4, <1>6, <1>8 DEF S, PassLoop

(* Above place m the table is in order, and nothing below comes later.
   Each entry has a lower bound that grows with its place.                 *)
TailSorted(c, n, q, m) ==
  \A i, k \in 1 .. n : i < k /\ m < k => Key(c, q[i]) <= Key(c, q[k])
Grows(n, L) == L \in [1 .. n -> Int] /\ \A j \in 1 .. n - 1 : L[j] <= L[j + 1]
Above(c, n, q, L) == \A k \in 1 .. n : L[k] <= Key(c, q[k])

(* A comparison keeps the bounds. *)
LEMMA StepAbove ==
  ASSUME NEW c \in Times, NEW n \in Nat, NEW s \in Tables(c, n), NEW j \in 1 .. n - 1,
         NEW L, Grows(n, L), Above(c, n, s, L)
  PROVE  Above(c, n, BubbleStep(s, j), L)
<1> DEFINE q == BubbleStep(s, j)
<1>1. /\ q \in Tables(c, n)
      /\ \A k \in 1 .. n : k # j /\ k # j + 1 => q[k] = s[k]
      /\ \/ /\ q[j] = s[j] /\ q[j + 1] = s[j + 1]
            /\ Key(c, s[j]) <= Key(c, s[j + 1])
         \/ /\ q[j] = s[j + 1] /\ q[j + 1] = s[j]
            /\ Key(c, s[j + 1]) <= Key(c, s[j])
  BY StepOrders
<1> HIDE DEF q
<1>2. j \in 1 .. n /\ j + 1 \in 1 .. n
  OBVIOUS
<1>3. /\ L[j] \in Int /\ L[j + 1] \in Int /\ L[j] <= L[j + 1]
      /\ L[j] <= Key(c, s[j]) /\ L[j + 1] <= Key(c, s[j + 1])
  BY <1>2 DEF Grows, Above
<1>4. Key(c, s[j]) \in Int /\ Key(c, s[j + 1]) \in Int
  BY <1>2, KeyTyped DEF Tables
<1>5. L[j] <= Key(c, q[j]) /\ L[j + 1] <= Key(c, q[j + 1])
  BY <1>1, <1>3, <1>4
<1>6. ASSUME NEW k \in 1 .. n PROVE L[k] <= Key(c, q[k])
  <2>1. CASE k = j \/ k = j + 1
    BY <1>5, <2>1
  <2>2. CASE k # j /\ k # j + 1
    BY <1>1, <2>2 DEF Above
  <2> QED
    BY <2>1, <2>2
<1> QED
  BY <1>6 DEF Above, q

(* A comparison below m leaves what is above m in order. *)
LEMMA StepTail ==
  ASSUME NEW c \in Times, NEW n \in Nat, NEW s \in Tables(c, n), NEW j \in 1 .. n - 1,
         NEW m \in 1 .. n, j + 1 <= m, TailSorted(c, n, s, m)
  PROVE  TailSorted(c, n, BubbleStep(s, j), m)
<1> DEFINE q == BubbleStep(s, j)
<1>1. /\ q \in Tables(c, n)
      /\ \A k \in 1 .. n : k # j /\ k # j + 1 => q[k] = s[k]
      /\ \/ q[j] = s[j] /\ q[j + 1] = s[j + 1]
         \/ q[j] = s[j + 1] /\ q[j + 1] = s[j]
  BY StepOrders
<1> HIDE DEF q
<1>2. ASSUME NEW i \in 1 .. n, NEW k \in 1 .. n, i < k, m < k PROVE Key(c, q[i]) <= Key(c, q[k])
  <2>1. j \in 1 .. n /\ j + 1 \in 1 .. n /\ j < k /\ j + 1 < k /\ q[k] = s[k]
    BY <1>1, <1>2
  <2>2. \E h \in 1 .. n : h < k /\ q[i] = s[h]
    <3>1. CASE i = j \/ i = j + 1
      BY <1>1, <2>1, <3>1
    <3>2. CASE i # j /\ i # j + 1
      BY <1>1, <1>2, <3>2
    <3> QED
      BY <3>1, <3>2
  <2>3. PICK h \in 1 .. n : h < k /\ q[i] = s[h]
    BY <2>2
  <2>4. Key(c, s[h]) <= Key(c, s[k])
    BY <1>2, <2>3 DEF TailSorted
  <2> QED
    BY <2>1, <2>3, <2>4
<1> QED
  BY <1>2 DEF TailSorted, q

(* A pass over the first m entries brings the latest of them to place m. *)
LEMMA PassOrders ==
  ASSUME NEW c \in Times, NEW n \in Nat, NEW s \in Tables(c, n), NEW m \in 1 .. n,
         TailSorted(c, n, s, m), NEW L, Grows(n, L), Above(c, n, s, L)
  PROVE  /\ BubblePass(s, m - 1) \in Tables(c, n)
         /\ TailSorted(c, n, BubblePass(s, m - 1), m - 1)
         /\ Above(c, n, BubblePass(s, m - 1), L)
<1>0. m - 1 \in 0 .. n - 1 /\ m - 1 \in Nat
  OBVIOUS
<1>1. PICK f \in [0 .. m - 1 -> Tables(c, n)] :
        /\ f[0] = s /\ f[m - 1] = BubblePass(s, m - 1)
        /\ \A j \in 1 .. m - 1 : f[j] = BubbleStep(f[j - 1], j)
  <2>1. PICK f : PassLoop(f, c, n, s, m - 1)
    BY <1>0, PassIs
  <2> QED
    BY <2>1 DEF PassLoop
<1> DEFINE Done(j) == /\ TailSorted(c, n, f[j], m) /\ Above(c, n, f[j], L)
                      /\ \A k \in 1 .. j : Key(c, f[j][k]) <= Key(c, f[j][j + 1])
           A == {j \in 0 .. m - 1 : Done(j)}
<1>2. 0 \in A
  BY <1>1
<1>3. ASSUME NEW j \in 0 .. (m - 1) - 1, j \in A PROVE j + 1 \in A
  <2>1. /\ j + 1 \in 1 .. m - 1 /\ j + 1 \in 0 .. m - 1 /\ (j + 1) - 1 = j
        /\ j + 1 \in 1 .. n - 1 /\ (j + 1) + 1 <= m /\ j \in 0 .. m - 1
        /\ (j + 1) + 1 \in 1 .. n /\ j + 1 \in 1 .. n
    OBVIOUS
  <2>2. PICK p, q : p = f[j] /\ q = f[j + 1]
    OBVIOUS
  <2>3. p \in Tables(c, n) /\ q = BubbleStep(p, j + 1)
    BY <1>1, <2>1, <2>2
  <2>4. /\ TailSorted(c, n, p, m) /\ Above(c, n, p, L)
        /\ \A k \in 1 .. j : Key(c, p[k]) <= Key(c, p[j + 1])
    BY <1>3, <2>2
  <2>5. TailSorted(c, n, q, m)
    BY <2>1, <2>3, <2>4, StepTail
  <2>6. Above(c, n, q, L)
    BY <2>1, <2>3, <2>4, StepAbove
  <2>7. /\ q \in Tables(c, n)
        /\ \A k \in 1 .. n : k # j + 1 /\ k # (j + 1) + 1 => q[k] = p[k]
        /\ \/ /\ q[j + 1] = p[j + 1] /\ q[(j + 1) + 1] = p[(j + 1) + 1]
              /\ Key(c, p[j + 1]) <= Key(c, p[(j + 1) + 1])
           \/ /\ q[j + 1] = p[(j + 1) + 1] /\ q[(j + 1) + 1] = p[j + 1]
              /\ Key(c, p[(j + 1) + 1]) <= Key(c, p[j + 1])
    BY <2>1, <2>3, StepOrders
  <2>8. \A k \in 1 .. n : Key(c, p[k]) \in Int
    BY <2>3, KeyTyped DEF Tables
  <2>9. ASSUME NEW k \in 1 .. j + 1 PROVE Key(c, q[k]) <= Key(c, q[(j + 1) + 1])
    <3>1. CASE k = j + 1
      BY <2>1, <2>7, <3>1
    <3>2. CASE k # j + 1
      <4>1. k \in 1 .. j /\ k \in 1 .. n /\ k # (j + 1) + 1
        BY <2>1, <3>2
      <4>2. q[k] = p[k] /\ Key(c, p[k]) <= Key(c, p[j + 1])
        BY <2>4, <2>7, <3>2, <4>1
      <4>3. Key(c, p[k]) \in Int /\ Key(c, p[j + 1]) \in Int /\ Key(c, p[(j + 1) + 1]) \in Int
        BY <2>1, <2>8, <4>1
      <4> QED
        BY <2>7, <4>2, <4>3
    <3> QED
      BY <3>1, <3>2
  <2>10. Done(j + 1)
    BY <2>2, <2>5, <2>6, <2>9
  <2> QED
    BY <2>1, <2>10
<1>4. m - 1 \in A
  <2> HIDE DEF A
  <2>1. 0 .. m - 1 \subseteq A
    BY <1>0, <1>2, <1>3, SetInduction
  <2> QED
    BY <1>0, <2>1
<1>5. PICK q : q = BubblePass(s, m - 1)
  OBVIOUS
<1>6. /\ q \in Tables(c, n) /\ TailSorted(c, n, q, m) /\ Above(c, n, q, L)
      /\ \A k \in 1 .. m - 1 : Key(c, q[k]) <= Key(c, q[(m - 1) + 1])
  <2>1. q = f[m - 1] /\ m - 1 \in 0 .. m - 1
    BY <1>0, <1>1, <1>5
  <2>2. Done(m - 1)
    BY <1>4
  <2> QED
    BY <1>1, <2>1, <2>2
<1>7. (m - 1) + 1 = m
  OBVIOUS
<1>8. ASSUME NEW i \in 1 .. n, NEW k \in 1 .. n, i < k, m - 1 < k
      PROVE  Key(c, q[i]) <= Key(c, q[k])
  <2>1. CASE k = m
    <3>1. i \in 1 .. m - 1
      BY <1>8, <2>1
    <3> QED
      BY <1>6, <1>7, <2>1, <3>1
  <2>2. CASE k # m
    <3>1. m < k
      BY <1>8, <2>2
    <3> QED
      BY <1>6, <1>8, <3>1 DEF TailSorted
  <2> QED
    BY <2>1, <2>2
<1>9. TailSorted(c, n, q, m - 1)
  BY <1>8 DEF TailSorted
<1> QED
  BY <1>5, <1>6, <1>9

(* The passes: as above *)
LEMMA SortedIs ==
  ASSUME NEW c \in Times, NEW n \in Nat, NEW s \in Tables(c, n), Len(s) = n
  PROVE  \E f \in [0 .. n -> Tables(c, n)] :
           /\ f[0] = s /\ f[n] = Sorted(s)
           /\ \A i \in 1 .. n : f[i] = BubblePass(f[i - 1], n - i)
<1> DEFINE S == Tables(c, n)
           G == [p \in S \X (1 .. n) |-> BubblePass(p[1], n - p[2])]
           F(f) == [i \in 0 .. n |-> IF i = 0 THEN s ELSE BubblePass(f[i - 1], n - i)]
<1>1. ASSUME NEW q \in S, NEW i \in 1 .. n PROVE BubblePass(q, n - i) \in S
  <2>1. PICK r \in 0 .. n - 1 : r = n - i
    OBVIOUS
  <2>2. PICK f : PassLoop(f, c, n, q, r)
    BY PassIs
  <2>3. f \in [0 .. r -> S] /\ f[r] = BubblePass(q, r)
    BY <2>2 DEF PassLoop
  <2>4. r \in 0 .. r
    OBVIOUS
  <2> HIDE DEF S
  <2> QED
    BY <2>1, <2>3, <2>4
<1>2. G \in [S \X (1 .. n) -> S] /\ s \in S
  <2>1. s \in S
    OBVIOUS
  <2> HIDE DEF S
  <2> QED
    BY <1>1, <2>1
<1>3. PICK f : LoopTo(n, f, S, s, G)
  <2> HIDE DEF S, G
  <2> QED
    BY <1>2, LoopExists
<1>4. /\ f \in [0 .. n -> S] /\ f[0] = s
      /\ \A i \in 1 .. n : f[i] = BubblePass(f[i - 1], n - i)
  <2> HIDE DEF S
  <2>1. f \in [0 .. n -> S] /\ f[0] = s /\ \A i \in 1 .. n : f[i] = G[<<f[i - 1], i>>]
    BY <1>3 DEF LoopTo
  <2>2. ASSUME NEW i \in 1 .. n PROVE f[i] = BubblePass(f[i - 1], n - i)
    <3>1. f[i - 1] \in S
      BY <2>1
    <3>2. <<f[i - 1], i>> \in S \X (1 .. n)
      BY <3>1
    <3> QED
      BY <2>1, <3>2
  <2> QED
    BY <2>1, <2>2
<1> HIDE DEF S, G
<1>5. f = F(f)
  <2>1. \A i \in 0 .. n : f[i] = F(f)[i]
    <3>1. \A i \in 0 .. n : i = 0 \/ i \in 1 .. n
      OBVIOUS
    <3> QED
      BY <1>4, <3>1
  <2> QED
    BY <1>4, <2>1
<1> DEFINE g == CHOOSE h : h = F(h)
<1>6. Sorted(s) = g[n]
  BY DEF Sorted
<1>7. g = F(g)
  <2> HIDE DEF F
  <2> QED
    BY <1>5
<1> HIDE DEF g
<1>8. g = f
  <2> DEFINE A == {i \in 0 .. n : g[i] = f[i]}
  <2>1. \A i \in 0 .. n : g[i] = IF i = 0 THEN s ELSE BubblePass(g[i - 1], n - i)
    BY <1>7
  <2>2. 0 \in A
    BY <1>4, <2>1
  <2>3. ASSUME NEW k \in 0 .. n - 1, k \in A PROVE k + 1 \in A
    <3>1. k + 1 \in 0 .. n /\ k + 1 # 0 /\ (k + 1) - 1 = k /\ k + 1 \in 1 .. n
      OBVIOUS
    <3>2. g[k + 1] = BubblePass(g[k], n - (k + 1))
      BY <2>1, <3>1
    <3>3. f[k + 1] = BubblePass(f[k], n - (k + 1))
      BY <1>4, <3>1
    <3> QED
      BY <2>3, <3>1, <3>2, <3>3
  <2>4. 0 .. n \subseteq A
    <3> HIDE DEF A
    <3> QED
      BY <2>2, <2>3, SetInduction
  <2>5. g = [i \in 0 .. n |-> g[i]]
    BY <1>7
  <2>6. f = [i \in 0 .. n |-> f[i]]
    BY <1>4
  <2> QED
    BY <2>4, <2>5, <2>6
<1> QED
  BY <1>4, <1>6, <1>8 DEF S

(* blt_soft_timer_sort puts a table whose times are near the clock in order, and keeps
   the bounds.                                                             *)
LEMMA SortOrders ==
  ASSUME NEW c \in Times, NEW n \in Nat, NEW s \in Tables(c, n), Len(s) = n,
         NEW L, Grows(n, L), Above(c, n, s, L)
  PROVE  /\ Sorted(s) \in Tables(c, n)
         /\ \A i, j \in 1 .. n : i < j => Key(c, Sorted(s)[i]) <= Key(c, Sorted(s)[j])
         /\ Above(c, n, Sorted(s), L)
<1>1. PICK f \in [0 .. n -> Tables(c, n)] :
        /\ f[0] = s /\ f[n] = Sorted(s)
        /\ \A i \in 1 .. n : f[i] = BubblePass(f[i - 1], n - i)
  BY SortedIs
<1> DEFINE Done(i) == TailSorted(c, n, f[i], n - i) /\ Above(c, n, f[i], L)
           A == {i \in 0 .. n : Done(i)}
<1>2. 0 \in A
  <2>1. TailSorted(c, n, s, n - 0)
    BY DEF TailSorted
  <2> QED
    BY <1>1, <2>1
<1>3. ASSUME NEW i \in 0 .. n - 1, i \in A PROVE i + 1 \in A
  <2>1. /\ i + 1 \in 1 .. n /\ i + 1 \in 0 .. n /\ (i + 1) - 1 = i /\ i \in 0 .. n
        /\ n - (i + 1) = (n - i) - 1 /\ n - i \in 1 .. n
    OBVIOUS
  <2>2a. PICK m \in 1 .. n : m = n - i
    BY <2>1
  <2>2b. PICK p, q : p = f[i] /\ q = f[i + 1]
    OBVIOUS
  <2>2. p = f[i] /\ q = f[i + 1] /\ m = n - i
    BY <2>2a, <2>2b
  <2>3. p \in Tables(c, n) /\ q = BubblePass(p, m - 1) /\ n - (i + 1) = m - 1
    BY <1>1, <2>1, <2>2
  <2>4. TailSorted(c, n, p, m) /\ Above(c, n, p, L)
    BY <1>3, <2>2
  <2>5. TailSorted(c, n, q, m - 1) /\ Above(c, n, q, L)
    BY <2>3, <2>4, PassOrders
  <2>6. Done(i + 1)
    BY <2>2, <2>3, <2>5
  <2> QED
    BY <2>1, <2>6
<1>4. n \in A
  <2> HIDE DEF A
  <2>1. 0 .. n \subseteq A
    BY <1>2, <1>3, SetInduction
  <2> QED
    BY <2>1
<1>5. Sorted(s) \in Tables(c, n)
  BY <1>1
<1>6. TailSorted(c, n, Sorted(s), n - n) /\ Above(c, n, Sorted(s), L)
  BY <1>1, <1>4
<1>7. \A i, j \in 1 .. n : i < j => Key(c, Sorted(s)[i]) <= Key(c, Sorted(s)[j])
  <2>1. \A j \in 1 .. n : n - n < j
    OBVIOUS
  <2> QED
    BY <1>6, <2>1 DEF TailSorted
<1> QED
  BY <1>5, <1>6, <1>7

(* The least a timer at place k is ahead when the call that has to look at it is d
   ticks back: it has been passed over in one call for each that was behind it.  *)
Low(k, d) == 1 - d - (MAX_TIMER_NUM - k) * Gap

LEMMA LowIs ==
  ASSUME NEW k \in 1 .. MAX_TIMER_NUM, NEW d \in 0 .. Gap
  PROVE  /\ Low(k, d) \in Int /\ Low(k, d) = Low(k, 0) - d /\ Low(k, d) <= 1
         /\ Low(k + 1, d) = Low(k, d) + Gap
         /\ Low(k, d) >= 1 + SAFE_MARGIN_PRE - SAFE_MARGIN_POST
         /\ d < Gap => Low(k, d + 1) = Low(k, d) - 1
<1>1. PICK m \in Nat \ {0}, g \in Nat \ {0} : m = MAX_TIMER_NUM /\ g = Gap
  BY TimerConstants
<1>2. m - k \in Nat /\ k \in Int /\ d \in Int /\ 0 <= d /\ d <= g /\ 1 <= k
  BY <1>1
<1>3. PICK x \in Nat : x = m - k
  BY <1>2
<1>4. PICK y \in Nat : y = x * g
  OBVIOUS
<1>5. Low(k, d) = 1 - d - y /\ Low(k, 0) = 1 - 0 - y /\ Low(k, d + 1) = 1 - (d + 1) - y
  BY <1>1, <1>3, <1>4 DEF Low
<1>6. m - (k + 1) = x - 1
  BY <1>2, <1>3
<1>7. (x - 1) * g = y - g
  BY <1>4
<1>8. Low(k + 1, d) = 1 - d - (y - g)
  BY <1>1, <1>6, <1>7 DEF Low
<1>9. y <= m * g - g
  <2>1. x <= m - 1
    BY <1>2, <1>3
  <2>2. x * g <= (m - 1) * g
    BY <1>1, <2>1
  <2>3. (m - 1) * g = m * g - g
    BY <1>1
  <2> QED
    BY <1>4, <2>2, <2>3
<1>10. PICK z \in Nat : z = m * g
  BY <1>1
<1>11. SAFE_MARGIN_PRE + z <= SAFE_MARGIN_POST /\ SAFE_MARGIN_PRE \in Nat /\ SAFE_MARGIN_POST \in Nat
  BY <1>1, <1>10, GapAssumption, TimerConstants
<1>12. 1 - d - y >= 1 - z
  BY <1>2, <1>9, <1>10
<1> QED
  BY <1>1, <1>2, <1>5, <1>8, <1>10, <1>11, <1>12

(* A table is a sequence. *)
LEMMA TableSeq ==
  ASSUME NEW c, NEW n \in Nat, NEW s \in Tables(c, n)
  PROVE  /\ s \in Seq(EntryNear(c)) /\ Len(s) = n /\ DOMAIN s = 1 .. n
         /\ s = <<>> <=> n = 0
<1>1. s \in Seq(EntryNear(c)) /\ DOMAIN s = 1 .. n
  BY SeqDef DEF Tables
<1>2. Len(s) = n
  BY <1>1, LenProperties
<1> QED
  BY <1>1, <1>2, EmptySeq

LEMMA SeqTable ==
  ASSUME NEW c, NEW s \in Seq(EntryNear(c))
  PROVE  Len(s) \in Nat /\ s \in Tables(c, Len(s))
BY LenProperties DEF Tables

(* An entry is added at the end, *)
LEMMA AppendedTable ==
  ASSUME NEW c, NEW n \in Nat, NEW s \in Tables(c, n), NEW e \in EntryNear(c)
  PROVE  /\ Append(s, e) \in Tables(c, n + 1) /\ Len(Append(s, e)) = n + 1
         /\ \A k \in 1 .. n : Append(s, e)[k] = s[k]
         /\ Append(s, e)[n + 1] = e
<1>1. s \in Seq(EntryNear(c)) /\ Len(s) = n
  BY TableSeq
<1>2. /\ Append(s, e) \in Seq(EntryNear(c)) /\ Len(Append(s, e)) = n + 1
      /\ \A k \in 1 .. n : Append(s, e)[k] = s[k]
      /\ Append(s, e)[n + 1] = e
  BY <1>1, AppendProperties
<1> QED
  BY <1>2, SeqTable

(* or is removed from place i. *)
LEMMA RemovedTable ==
  ASSUME NEW c, NEW n \in Nat, NEW s \in Tables(c, n), NEW i \in 1 .. n
  PROVE  /\ RemoveAt(s, i) \in Tables(c, n - 1) /\ Len(RemoveAt(s, i)) = n - 1
         /\ \A k \in 1 .. n - 1 : RemoveAt(s, i)[k] = IF k < i THEN s[k] ELSE s[k + 1]
<1> DEFINE E == EntryNear(c)
           a == SubSeq(s, 1, i - 1)
           b == SubSeq(s, i + 1, Len(s))
<1>1. s \in Seq(E) /\ Len(s) = n /\ \A k \in 1 .. n : s[k] \in E
  BY TableSeq DEF Tables
<1> HIDE DEF E
<1>2. /\ a \in Seq(E) /\ Len(a) = i - 1 /\ \A k \in 1 .. i - 1 : a[k] = s[k]
  BY <1>1, SubSeqProperties
<1>3. /\ b \in Seq(E) /\ Len(b) = n - i /\ \A k \in 1 .. n - i : b[k] = s[i + k]
  BY <1>1, SubSeqProperties
<1>4. RemoveAt(s, i) = a \o b
  BY DEF RemoveAt
<1> HIDE DEF a, b
<1>5a. /\ a \o b \in Seq(E) /\ Len(a \o b) = Len(a) + Len(b)
       /\ \A k \in 1 .. Len(a) + Len(b) : (a \o b)[k] = IF k <= Len(a) THEN a[k] ELSE b[k - Len(a)]
  BY <1>2, <1>3, ConcatProperties
<1>5. /\ a \o b \in Seq(E) /\ Len(a \o b) = (i - 1) + (n - i)
      /\ \A k \in 1 .. (i - 1) + (n - i) : (a \o b)[k] = IF k <= i - 1 THEN a[k] ELSE b[k - (i - 1)]
  BY <1>2, <1>3, <1>5a
<1>6. (i - 1) + (n - i) = n - 1
  OBVIOUS
<1>7. ASSUME NEW k \in 1 .. n - 1 PROVE (a \o b)[k] = IF k < i THEN s[k] ELSE s[k + 1]
  <2>1. CASE k < i
    BY <1>2, <1>5, <1>6, <2>1
  <2>2. CASE ~(k < i)
    <3>1. k - (i - 1) \in 1 .. n - i /\ i + (k - (i - 1)) = k + 1 /\ ~(k <= i - 1)
      BY <2>2
    <3>2. (a \o b)[k] = b[k - (i - 1)]
      BY <1>5, <1>6, <3>1
    <3> QED
      BY <1>3, <2>2, <3>1, <3>2
  <2> QED
    BY <2>1, <2>2
<1>8. RemoveAt(s, i) \in Seq(E) /\ Len(RemoveAt(s, i)) = n - 1
  BY <1>4, <1>5, <1>6
<1> QED
  BY <1>4, <1>7, <1>8, SeqTable DEF E

-----------------------------------------------------------------------------
(* The ticks since the call that looked at the timer at place k last *)
Since(k) == IF process.on /\ k < process.i THEN 0 ELSE idle

LoopInv ==
  /\ process \in [on : BOOLEAN, i : 1 .. MAX_TIMER_NUM + 1, change_flg : BOOLEAN]
  /\ ~process.on => process = NoLoop
  /\ idle \in 0 .. Gap
TableInv ==
  /\ clock \in Times /\ Len(timers) \in 0 .. MAX_TIMER_NUM
  /\ timers \in Tables(clock, Len(timers))
WindowInv == \A k \in 1 .. Len(timers) : Low(k, Since(k)) <= Key(clock, timers[k])
OrderInv ==
  ~process.change_flg =>
    \A i, j \in 1 .. Len(timers) : i < j => Key(clock, timers[i]) <= Key(clock, timers[j])

TimerInv == LoopInv /\ TableInv /\ WindowInv /\ OrderInv /\ WakeupIsFront

(* What the code finds of a timer of the table *)
LEMMA TimerIs ==
  ASSUME TimerInv, NEW k \in 1 .. Len(timers)
  PROVE  /\ k \in 1 .. MAX_TIMER_NUM /\ Since(k) \in 0 .. Gap
         /\ Key(clock, timers[k]) \in Int /\ Key(clock, timers[k]) <= timers[k].interval
         /\ Key(clock, timers[k]) >= 1 + SAFE_MARGIN_PRE - SAFE_MARGIN_POST
         /\ Low(k, Since(k)) <= Key(clock, timers[k])
         /\ timers[k] \in EntryNear(clock) /\ Intervals # {}
         /\ Expired(timers[k].t) <=> Key(clock, timers[k]) <= SAFE_MARGIN_PRE
         /\ Distance(clock, timers[k].t) = IF Key(clock, timers[k]) >= 0 THEN Key(clock, timers[k])
                                           ELSE Key(clock, timers[k]) + ClockVals
<1>1. k \in 1 .. MAX_TIMER_NUM /\ timers[k] \in EntryNear(clock) /\ clock \in Times
  BY TimerConstants DEF TimerInv, TableInv, Tables
<1>2. Since(k) \in 0 .. Gap
  BY TimerConstants DEF Since, TimerInv, LoopInv
<1>3. /\ Key(clock, timers[k]) \in Int /\ Key(clock, timers[k]) <= timers[k].interval
      /\ Key(clock, timers[k]) \in Near /\ timers[k].t \in Times /\ Intervals # {}
  BY <1>1, KeyTyped
<1>4. Low(k, Since(k)) <= Key(clock, timers[k])
  BY DEF TimerInv, WindowInv
<1>5. Low(k, Since(k)) \in Int /\ Low(k, Since(k)) >= 1 + SAFE_MARGIN_PRE - SAFE_MARGIN_POST
  BY <1>1, <1>2, LowIs
<1>6. Key(clock, timers[k]) >= 1 + SAFE_MARGIN_PRE - SAFE_MARGIN_POST
  BY <1>3, <1>4, <1>5, TimerConstants
<1>7. PICK a \in Near, t \in Times : a = Key(clock, timers[k]) /\ t = timers[k].t
  BY <1>3
<1>8. a = Ahead(clock, t)
  BY <1>7 DEF Key
<1>9. /\ Distance(clock, t) = IF a >= 0 THEN a ELSE a + ClockVals
      /\ a >= 1 + SAFE_MARGIN_PRE - SAFE_MARGIN_POST => (Expired(t) <=> a <= SAFE_MARGIN_PRE)
  BY <1>1, <1>3, <1>8, NearClock
<1> QED
  BY <1>1, <1>2, <1>3, <1>4, <1>6, <1>7, <1>9

(* The wake-up is set for a timer that is not overdue and was not started for longer. *)
LEMMA WakeupSet ==
  ASSUME clock \in Times, NEW e \in EntryNear(clock), e.interval < WAKEUP_RANGE,
         Distance(clock, e.t) < COMPARE_RANGE
  PROVE  WakeupFor(e) = e.t
<1>1. PICK a \in Near, t \in Times : a = Key(clock, e) /\ t = e.t
  BY KeyTyped
<1>2. a <= e.interval /\ Intervals # {} /\ a \in Int /\ e.interval \in Int
  <2>1. /\ Key(clock, e) \in Int /\ Key(clock, e) <= e.interval
        /\ e.interval \in Intervals /\ e.interval \in Int
    BY KeyTyped
  <2> QED
    BY <1>1, <2>1
<1>3. Distance(clock, t) = IF a >= 0 THEN a ELSE a + ClockVals
  <2>1. a = Ahead(clock, t)
    BY <1>1 DEF Key
  <2> QED
    BY <1>2, <2>1, NearClock
<1>4. a + ClockVals >= COMPARE_RANGE
  <2>1. a >= 1 - SAFE_MARGIN_POST
    BY TimerConstants DEF Near
  <2> QED
    BY <1>2, <2>1, TimerConstants
<1>5. a >= 0 /\ Distance(clock, t) = a
  BY <1>1, <1>2, <1>3, <1>4, TimerConstants
<1>6. Distance(clock, e.t) < WAKEUP_RANGE
  BY <1>1, <1>2, <1>5, TimerConstants
<1> QED
  BY <1>6 DEF WakeupFor

(* The table sorted *)
LEMMA SortedTable ==
  ASSUME clock \in Times, NEW n \in 0 .. MAX_TIMER_NUM, NEW s \in Tables(clock, n), NEW d \in 0 .. Gap,
         \A k \in 1 .. n : Low(k, d) <= Key(clock, s[k])
  PROVE  /\ Sorted(s) \in Tables(clock, n) /\ Len(Sorted(s)) = n
         /\ \A i, j \in 1 .. n : i < j => Key(clock, Sorted(s)[i]) <= Key(clock, Sorted(s)[j])
         /\ \A k \in 1 .. n : Low(k, d) <= Key(clock, Sorted(s)[k])
<1> DEFINE L == [k \in 1 .. n |-> Low(k, d)]
<1>1. n \in Nat /\ Len(s) = n /\ Gap \in Nat
  BY TableSeq, TimerConstants
<1>2. \A k \in 1 .. n : k \in 1 .. MAX_TIMER_NUM
  BY TimerConstants
<1>3. Grows(n, L)
  <2>1. \A k \in 1 .. n : L[k] \in Int
    BY <1>2, LowIs
  <2>2. ASSUME NEW k \in 1 .. n - 1 PROVE L[k] <= L[k + 1]
    <3>1. k \in 1 .. n /\ k + 1 \in 1 .. n
      OBVIOUS
    <3>2. Low(k + 1, d) = Low(k, d) + Gap /\ Low(k, d) \in Int
      BY <1>2, <3>1, LowIs
    <3> QED
      BY <1>1, <3>1, <3>2
  <2>3. L = [k \in 1 .. n |-> L[k]]
    OBVIOUS
  <2> QED
    BY <2>1, <2>2 DEF Grows
<1>4. Above(clock, n, s, L)
  BY DEF Above
<1> HIDE DEF L
<1>5. /\ Sorted(s) \in Tables(clock, n)
      /\ \A i, j \in 1 .. n : i < j => Key(clock, Sorted(s)[i]) <= Key(clock, Sorted(s)[j])
      /\ Above(clock, n, Sorted(s), L)
  BY <1>1, <1>3, <1>4, SortOrders
<1>6. Len(Sorted(s)) = n
  BY <1>1, <1>5, TableSeq
<1>7. \A k \in 1 .. n : Low(k, d) <= Key(clock, Sorted(s)[k])
  BY <1>5 DEF Above, L
<1> QED
  BY <1>5, <1>6, <1>7

(* A timer that is started *)
LEMMA StartedIs ==
  ASSUME clock \in Times, NEW cb \in CallBacks, NEW interval \in Intervals
  PROVE  /\ Started(cb, interval) \in EntryNear(clock) /\ Key(clock, Started(cb, interval)) >= 1
         /\ Key(clock, Started(cb, interval)) \in Int
<1>1. /\ Plus(clock, interval) \in Times /\ Ahead(clock, Plus(clock, interval)) = interval
      /\ interval >= 1 /\ interval \in Near
  BY AheadStarted
<1>2. interval \in Int
  BY TimerConstants
<1>3. /\ Started(cb, interval).t = Plus(clock, interval)
      /\ Started(cb, interval).interval = interval
      /\ Started(cb, interval) \in Entry
  BY <1>1 DEF Started, Entry
<1>4. Key(clock, Started(cb, interval)) = interval
  BY <1>1, <1>3 DEF Key
<1> QED
  BY <1>1, <1>2, <1>3, <1>4 DEF EntryNear

(* The loop is not running: nothing of the table was looked at. *)
LEMMA NoLoopIs ==
  ASSUME TimerInv, ~process.on
  PROVE  /\ process = NoLoop /\ ~process.change_flg /\ \A k \in Int : Since(k) = idle
         /\ idle \in 0 .. Gap
BY DEF TimerInv, LoopInv, NoLoop, Since

LEMMA AddKept == TimerInv /\ TimerAdd => TimerInv'
<1> SUFFICES ASSUME TimerInv, TimerAdd PROVE TimerInv'
  OBVIOUS
<1>1. PICK cb \in CallBacks, interval \in Intervals :
        timers' = Sorted(Append(timers, Started(cb, interval)))
  BY DEF TimerAdd
<1>2. /\ ~process.on /\ Len(timers) < MAX_TIMER_NUM /\ wakeup' = timers'[1].t
      /\ clock' = clock /\ process' = process /\ idle' = idle
  BY DEF TimerAdd
<1>3. PICK n \in Nat : n = Len(timers)
  BY DEF TimerInv, TableInv
<1>4. clock \in Times /\ timers \in Tables(clock, n) /\ n + 1 \in 0 .. MAX_TIMER_NUM
  BY <1>2, <1>3, TimerConstants DEF TimerInv, TableInv
<1>5. PICK e \in EntryNear(clock) :
        e = Started(cb, interval) /\ Key(clock, e) >= 1 /\ Key(clock, e) \in Int
  BY <1>4, StartedIs
<1>6. PICK s \in Tables(clock, n + 1) :
        /\ s = Append(timers, e) /\ \A k \in 1 .. n : s[k] = timers[k]
        /\ s[n + 1] = e
  <2>1. /\ Append(timers, e) \in Tables(clock, n + 1)
        /\ \A k \in 1 .. n : Append(timers, e)[k] = timers[k]
        /\ Append(timers, e)[n + 1] = e
    BY <1>4, AppendedTable
  <2> QED
    BY <2>1
<1>7. \A k \in 1 .. n + 1 : Low(k, idle) <= Key(clock, s[k])
  <2>1. ASSUME NEW k \in 1 .. n PROVE Low(k, idle) <= Key(clock, s[k])
    <3>1. Since(k) = idle
      BY <1>2, NoLoopIs
    <3> QED
      BY <1>3, <1>6, <3>1 DEF TimerInv, WindowInv
  <2>2. Low(n + 1, idle) <= 1 /\ Low(n + 1, idle) \in Int
    <3>1. n + 1 \in 1 .. MAX_TIMER_NUM
      BY <1>4
    <3> QED
      BY <1>2, <3>1, NoLoopIs, LowIs
  <2>3. Low(n + 1, idle) <= Key(clock, s[n + 1])
    BY <1>5, <1>6, <2>2
  <2>4. \A k \in 1 .. n + 1 : k \in 1 .. n \/ k = n + 1
    OBVIOUS
  <2> QED
    BY <2>1, <2>3, <2>4
<1>8. idle \in 0 .. Gap
  BY <1>2, NoLoopIs
<1>9. timers' = Sorted(s)
  BY <1>1, <1>5, <1>6
<1>10. PICK m \in 0 .. MAX_TIMER_NUM : m = n + 1
  BY <1>4
<1>11. /\ Sorted(s) \in Tables(clock, m) /\ Len(Sorted(s)) = m
       /\ \A i, j \in 1 .. m : i < j => Key(clock, Sorted(s)[i]) <= Key(clock, Sorted(s)[j])
       /\ \A k \in 1 .. m : Low(k, idle) <= Key(clock, Sorted(s)[k])
  BY <1>4, <1>7, <1>8, <1>10, SortedTable
<1>12. LoopInv'
  BY <1>2 DEF TimerInv, LoopInv
<1>13. TableInv'
  BY <1>2, <1>4, <1>9, <1>11 DEF TableInv
<1>14. WindowInv'
  <2>1. \A k \in 1 .. m : Since(k)' = idle
    BY <1>2, NoLoopIs DEF Since
  <2> QED
    BY <1>2, <1>9, <1>11, <2>1 DEF WindowInv
<1>15. OrderInv'
  BY <1>2, <1>9, <1>11 DEF OrderInv
<1>16. WakeupIsFront'
  BY <1>2 DEF WakeupIsFront
<1> QED
  BY <1>12, <1>13, <1>14, <1>15, <1>16 DEF TimerInv

(* The table without the timer at place i: the ones behind it move up, and the bound
   of a place is not above that of the next.                               *)
LEMMA WithoutIs ==
  ASSUME TimerInv, NEW i \in 1 .. Len(timers), timers' = Without(i), clock' = clock
  PROVE  /\ TableInv' /\ Len(timers') = Len(timers) - 1
         /\ \A k \in 1 .. Len(timers') :
              /\ timers'[k] = IF k < i THEN timers[k] ELSE timers[k + 1]
              /\ Low(k, Since(IF k < i THEN k ELSE k + 1)) <= Key(clock, timers'[k])
         /\ ~process.change_flg =>
              \A j, k \in 1 .. Len(timers') : j < k => Key(clock, timers'[j]) <= Key(clock, timers'[k])
<1>1. PICK n \in Nat : n = Len(timers)
  BY DEF TimerInv, TableInv
<1>2. clock \in Times /\ timers \in Tables(clock, n) /\ n \in 0 .. MAX_TIMER_NUM /\ i \in 1 .. n
  BY <1>1 DEF TimerInv, TableInv
<1>3. /\ timers' \in Tables(clock, n - 1) /\ Len(timers') = n - 1
      /\ \A k \in 1 .. n - 1 : timers'[k] = IF k < i THEN timers[k] ELSE timers[k + 1]
  BY <1>2, RemovedTable DEF Without
<1>4. n - 1 \in 0 .. MAX_TIMER_NUM
  BY <1>2, TimerConstants
<1>5. TableInv'
  BY <1>2, <1>3, <1>4 DEF TableInv
<1>6. ASSUME NEW k \in 1 .. n - 1
      PROVE  Low(k, Since(IF k < i THEN k ELSE k + 1)) <= Key(clock, timers'[k])
  <2>1. k \in 1 .. n /\ k + 1 \in 1 .. n
    OBVIOUS
  <2>2. CASE k < i
    <3>1. Low(k, Since(k)) <= Key(clock, timers[k])
      BY <1>1, <2>1, TimerIs
    <3> QED
      BY <1>3, <2>2, <3>1
  <2>3. CASE ~(k < i)
    <3>1. PICK d \in 0 .. Gap : d = Since(k + 1)
      BY <1>1, <2>1, TimerIs
    <3>2. Low(k + 1, d) <= Key(clock, timers[k + 1]) /\ Key(clock, timers[k + 1]) \in Int
      BY <1>1, <2>1, <3>1, TimerIs
    <3>3. Low(k + 1, d) = Low(k, d) + Gap /\ Low(k, d) \in Int /\ Gap \in Nat
      BY <1>1, <2>1, LowIs, TimerIs, TimerConstants
    <3>4. Low(k, d) <= Key(clock, timers[k + 1])
      BY <3>2, <3>3
    <3> QED
      BY <1>3, <2>3, <3>1, <3>4
  <2> QED
    BY <2>2, <2>3
<1>7. ASSUME ~process.change_flg, NEW j \in 1 .. n - 1, NEW k \in 1 .. n - 1, j < k
      PROVE  Key(clock, timers'[j]) <= Key(clock, timers'[k])
  <2>1. PICK a \in 1 .. n : a = IF j < i THEN j ELSE j + 1
    OBVIOUS
  <2>2. PICK b \in 1 .. n : b = IF k < i THEN k ELSE k + 1
    OBVIOUS
  <2>3. a < b /\ timers'[j] = timers[a] /\ timers'[k] = timers[b]
    BY <1>3, <1>7, <2>1, <2>2
  <2> QED
    BY <1>1, <1>7, <2>3 DEF TimerInv, OrderInv
<1> QED
  BY <1>1, <1>3, <1>5, <1>6, <1>7

(* The table as it is written *)
LEMMA TableIs ==
  ASSUME TimerInv
  PROVE  /\ Len(timers) \in Nat /\ Len(timers) <= MAX_TIMER_NUM /\ DOMAIN timers = 1 .. Len(timers)
         /\ timers \in Seq(EntryNear(clock)) /\ clock \in Times
         /\ timers = <<>> <=> Len(timers) = 0
<1>1. Len(timers) \in Nat /\ Len(timers) <= MAX_TIMER_NUM /\ clock \in Times
  BY TimerConstants DEF TimerInv, TableInv
<1>2. timers \in Tables(clock, Len(timers))
  BY DEF TimerInv, TableInv
<1> QED
  BY <1>1, <1>2, TableSeq

(* blt_soft_timer_delete: when it was the front one, the wake-up is set for the next. *)
LEMMA DeleteKept == TimerInv /\ TimerDelete => TimerInv'
<1> SUFFICES ASSUME TimerInv, TimerDelete PROVE TimerInv'
  OBVIOUS
<1>1. PICK i \in 1 .. Len(timers) : timers' = Without(i) /\ wakeup' = WakeupAfterDelete(i)
  BY TableIs DEF TimerDelete
<1>2. ~process.on /\ clock' = clock /\ process' = process /\ idle' = idle
  BY DEF TimerDelete
<1>3. /\ TableInv' /\ Len(timers') = Len(timers) - 1
      /\ \A k \in 1 .. Len(timers') :
           /\ timers'[k] = IF k < i THEN timers[k] ELSE timers[k + 1]
           /\ Low(k, Since(IF k < i THEN k ELSE k + 1)) <= Key(clock, timers'[k])
      /\ ~process.change_flg =>
           \A j, k \in 1 .. Len(timers') : j < k => Key(clock, timers'[j]) <= Key(clock, timers'[k])
  BY <1>1, <1>2, WithoutIs
<1>4. LoopInv'
  BY <1>2 DEF TimerInv, LoopInv
<1>5. WindowInv'
  <2>1. ASSUME NEW k \in 1 .. Len(timers') PROVE (Low(k, Since(k)) <= Key(clock, timers[k]))'
    <3>1. k \in Int /\ k + 1 \in Int
      OBVIOUS
    <3>2. Since(IF k < i THEN k ELSE k + 1) = idle /\ Since(k)' = idle
      BY <1>2, <3>1, NoLoopIs DEF Since
    <3> QED
      BY <1>2, <1>3, <3>2
  <2> QED
    BY <2>1 DEF WindowInv
<1>6. OrderInv'
  BY <1>2, <1>3 DEF OrderInv
<1>7. WakeupIsFront'
  <2> SUFFICES ASSUME timers' # <<>>, timers'[1].interval < WAKEUP_RANGE,
                      Distance(clock, timers'[1].t) < COMPARE_RANGE
               PROVE  wakeup' = timers'[1].t
    BY <1>2 DEF WakeupIsFront
  <2>1. /\ timers' \in Seq(EntryNear(clock)) /\ Len(timers') \in Nat /\ 1 \in 1 .. Len(timers')
        /\ timers'[1] \in EntryNear(clock)
    <3>1. timers' \in Tables(clock, Len(timers')) /\ Len(timers') \in Nat
      BY <1>2, <1>3, TimerConstants DEF TableInv
    <3>2. timers' \in Seq(EntryNear(clock)) /\ Len(timers') # 0
      BY <3>1, TableSeq
    <3>3. 1 \in 1 .. Len(timers')
      BY <3>1, <3>2
    <3> QED
      BY <3>1, <3>2, <3>3 DEF Tables
  <2>2. CASE i = 1
    <3>1. (timers' \o timers)[1] = timers'[1]
      <4>1. timers \in Seq(EntryNear(clock)) /\ Len(timers) \in Nat
        BY TableIs
      <4> QED
        BY <2>1, <4>1, ConcatProperties
    <3>2. wakeup' = WakeupFor(timers'[1])
      BY <1>1, <2>2, <3>1 DEF WakeupAfterDelete
    <3> QED
      BY <2>1, <3>2, TableIs, WakeupSet
  <2>3. CASE i # 1
    <3>1. wakeup' = wakeup /\ timers'[1] = timers[1] /\ timers # <<>>
      BY <1>1, <1>3, <2>1, <2>3, TableIs DEF WakeupAfterDelete
    <3> QED
      BY <1>2, <3>1 DEF TimerInv, WakeupIsFront
  <2> QED
    BY <2>2, <2>3
<1> QED
  BY <1>3, <1>4, <1>5, <1>6, <1>7 DEF TimerInv

(* When the front timer is not expired, none is: nothing has to be looked at. *)
LEMMA NothingKept == TimerInv /\ ProcessNothing => TimerInv'
<1> SUFFICES ASSUME TimerInv, ProcessNothing PROVE TimerInv'
  OBVIOUS
<1>1. ~process.on /\ idle' = 0 /\ clock' = clock /\ timers' = timers /\ process' = process
  BY DEF ProcessNothing
<1>2. LoopInv' /\ TableInv' /\ OrderInv'
  BY <1>1, TimerConstants DEF TimerInv, LoopInv, TableInv, OrderInv
<1>3. CASE timers = <<>>
  <2>1. Len(timers) = 0
    BY <1>3, TableIs
  <2>2. WindowInv' /\ WakeupIsFront'
    BY <1>1, <1>3, <2>1 DEF WindowInv, WakeupIsFront
  <2> QED
    BY <1>2, <2>2 DEF TimerInv
<1>4. CASE timers # <<>> /\ ~Expired(timers[1].t) /\ wakeup' = wakeup
  <2>1. 1 \in 1 .. Len(timers)
    BY <1>4, TableIs
  <2>2. Key(clock, timers[1]) > SAFE_MARGIN_PRE /\ Key(clock, timers[1]) \in Int
    BY <1>4, <2>1, TimerIs, TimerConstants
  <2>3. ASSUME NEW k \in 1 .. Len(timers) PROVE (Low(k, Since(k)) <= Key(clock, timers[k]))'
    <3>1. Key(clock, timers[1]) <= Key(clock, timers[k])
      <4>1. CASE k = 1
        BY <2>2, <4>1
      <4>2. CASE k # 1
        <5>1. 1 < k
          BY <4>2
        <5> QED
          BY <1>1, <2>1, <5>1, NoLoopIs DEF TimerInv, OrderInv
      <4> QED
        BY <4>1, <4>2
    <3>2. Low(k, 0) \in Int /\ Low(k, 0) <= 1 /\ Key(clock, timers[k]) \in Int
      <4>1. 0 \in 0 .. Gap
        BY TimerConstants
      <4> QED
        BY <4>1, TimerIs, LowIs
    <3>3. Since(k)' = 0
      BY <1>1 DEF Since
    <3>4. Low(k, 0) <= Key(clock, timers[k])
      BY <2>2, <3>1, <3>2, TimerConstants
    <3> QED
      BY <1>1, <3>3, <3>4
  <2>4. WindowInv' /\ WakeupIsFront'
    BY <1>1, <1>4, <2>3 DEF WindowInv, WakeupIsFront, TimerInv
  <2> QED
    BY <1>2, <2>4 DEF TimerInv
<1> QED
  BY <1>3, <1>4 DEF ProcessNothing

LEMMA StartKept == TimerInv /\ ProcessStart => TimerInv'
<1> SUFFICES ASSUME TimerInv, ProcessStart PROVE TimerInv'
  OBVIOUS
<1>1. /\ ~process.on /\ clock' = clock /\ timers' = timers /\ wakeup' = wakeup /\ idle' = idle
      /\ process' = [NoLoop EXCEPT !.on = TRUE]
  BY DEF ProcessStart
<1>2. process' = [on |-> TRUE, i |-> 1, change_flg |-> FALSE]
  BY <1>1 DEF NoLoop
<1>3. LoopInv'
  BY <1>1, <1>2, TimerConstants DEF TimerInv, LoopInv
<1>4. TableInv'
  BY <1>1 DEF TimerInv, TableInv
<1>5. WindowInv'
  <2>1. \A k \in 1 .. Len(timers) : Since(k)' = idle /\ Since(k) = idle
    BY <1>1, <1>2 DEF Since
  <2> QED
    BY <1>1, <2>1 DEF TimerInv, WindowInv
<1>6. OrderInv'
  BY <1>1, NoLoopIs DEF TimerInv, OrderInv
<1>7. WakeupIsFront'
  BY <1>2 DEF WakeupIsFront
<1> QED
  BY <1>3, <1>4, <1>5, <1>6, <1>7 DEF TimerInv

(* A turn of the loop goes on to the next place. *)
LEMMA TurnGoesOn ==
  ASSUME TimerInv, Turn, NEW changed \in BOOLEAN, Next1(changed), idle' = idle
  PROVE  /\ LoopInv' /\ process'.on /\ process'.i = process.i + 1
         /\ process'.change_flg = (process.change_flg \/ changed)
         /\ process.i \in 1 .. Len(timers) /\ WakeupIsFront'
         /\ \A k \in Int : Since(k) = (IF k < process.i THEN 0 ELSE idle)
         /\ \A k \in Int : Since(k)' = (IF k <= process.i THEN 0 ELSE idle)
<1>1. /\ process \in [on : BOOLEAN, i : 1 .. MAX_TIMER_NUM + 1, change_flg : BOOLEAN]
      /\ idle \in 0 .. Gap /\ process.on /\ process.i <= Len(timers)
  BY DEF TimerInv, LoopInv, Turn
<1>2. Len(timers) \in Nat /\ Len(timers) <= MAX_TIMER_NUM /\ process.i \in Int /\ process.i >= 1
  BY <1>1, TableIs, TimerConstants
<1>3. process' = [process EXCEPT !.i = @ + 1, !.change_flg = @ \/ changed]
  BY DEF Next1
<1>4. process'.on /\ process'.i = process.i + 1 /\ process'.change_flg = (process.change_flg \/ changed)
  BY <1>1, <1>3
<1>5. process.i + 1 \in 1 .. MAX_TIMER_NUM + 1
  BY <1>1, <1>2, TimerConstants
<1>6. process' \in [on : BOOLEAN, i : 1 .. MAX_TIMER_NUM + 1, change_flg : BOOLEAN]
  BY <1>1, <1>3, <1>5
<1>7. LoopInv'
  BY <1>1, <1>4, <1>6 DEF LoopInv
<1>8. WakeupIsFront'
  BY <1>4 DEF WakeupIsFront
<1>9. \A k \in Int : Since(k) = (IF k < process.i THEN 0 ELSE idle)
  BY <1>1 DEF Since
<1>10. \A k \in Int : Since(k)' = (IF k <= process.i THEN 0 ELSE idle)
  BY <1>2, <1>4 DEF Since
<1> QED
  BY <1>1, <1>2, <1>4, <1>7, <1>8, <1>9, <1>10

LEMMA NotExpiredKept == TimerInv /\ NotExpired => TimerInv'
<1> SUFFICES ASSUME TimerInv, NotExpired PROVE TimerInv'
  OBVIOUS
<1>1. /\ Turn /\ ~Expired(timers[process.i].t) /\ Next1(FALSE)
      /\ clock' = clock /\ timers' = timers /\ wakeup' = wakeup /\ idle' = idle
  BY DEF NotExpired, This
<1>2. /\ LoopInv' /\ process'.on /\ process'.i = process.i + 1
      /\ process'.change_flg = (process.change_flg \/ FALSE)
      /\ process.i \in 1 .. Len(timers) /\ WakeupIsFront'
      /\ \A k \in Int : Since(k) = (IF k < process.i THEN 0 ELSE idle)
      /\ \A k \in Int : Since(k)' = (IF k <= process.i THEN 0 ELSE idle)
  BY <1>1, TurnGoesOn
<1>3. TableInv' /\ OrderInv'
  BY <1>1, <1>2 DEF TimerInv, TableInv, OrderInv
<1>4. ASSUME NEW k \in 1 .. Len(timers) PROVE Low(k, Since(k)') <= Key(clock, timers[k])
  <2>1. CASE k = process.i
    <3>1. Key(clock, timers[k]) > SAFE_MARGIN_PRE /\ Key(clock, timers[k]) \in Int
      BY <1>1, <2>1, TimerIs, TimerConstants
    <3>2. Low(k, 0) <= 1 /\ Low(k, 0) \in Int
      <4>1. 0 \in 0 .. Gap
        BY TimerConstants
      <4> QED
        BY <4>1, TimerIs, LowIs
    <3>3. Since(k)' = 0
      BY <1>2, <2>1
    <3> QED
      BY <3>1, <3>2, <3>3, TimerConstants
  <2>2. CASE k # process.i
    <3>1. Since(k)' = Since(k)
      BY <1>2, <2>2
    <3> QED
      BY <3>1, TimerIs
  <2> QED
    BY <2>1, <2>2
<1>5. WindowInv'
  BY <1>1, <1>4 DEF WindowInv
<1> QED
  BY <1>2, <1>3, <1>5 DEF TimerInv

(* The timer that takes the place of a deleted one is passed over: it has one more
   call to wait for, and one place less to move up.                        *)
LEMMA CallBackDeletesKept == TimerInv /\ CallBackDeletes => TimerInv'
<1> SUFFICES ASSUME TimerInv, CallBackDeletes PROVE TimerInv'
  OBVIOUS
<1>1. /\ Turn /\ Next1(FALSE) /\ timers' = Without(process.i)
      /\ clock' = clock /\ wakeup' = wakeup /\ idle' = idle
  BY DEF CallBackDeletes
<1>2. /\ LoopInv' /\ process'.on /\ process'.i = process.i + 1
      /\ process'.change_flg = (process.change_flg \/ FALSE)
      /\ process.i \in 1 .. Len(timers) /\ WakeupIsFront'
      /\ \A k \in Int : Since(k) = (IF k < process.i THEN 0 ELSE idle)
      /\ \A k \in Int : Since(k)' = (IF k <= process.i THEN 0 ELSE idle)
  BY <1>1, TurnGoesOn
<1>3. PICK i \in 1 .. Len(timers) : i = process.i
  BY <1>2
<1>4. /\ TableInv' /\ Len(timers') = Len(timers) - 1
      /\ \A k \in 1 .. Len(timers') :
           /\ timers'[k] = IF k < i THEN timers[k] ELSE timers[k + 1]
           /\ Low(k, Since(IF k < i THEN k ELSE k + 1)) <= Key(clock, timers'[k])
      /\ ~process.change_flg =>
           \A j, k \in 1 .. Len(timers') : j < k => Key(clock, timers'[j]) <= Key(clock, timers'[k])
  BY <1>1, <1>3, WithoutIs
<1>5. OrderInv'
  BY <1>1, <1>2, <1>4 DEF OrderInv
<1>6. ASSUME NEW k \in 1 .. Len(timers') PROVE Low(k, Since(k)') <= Key(clock, timers'[k])
  <2>1. k \in 1 .. Len(timers) /\ k + 1 \in 1 .. Len(timers) /\ k \in Int
    BY <1>4, TableIs
  <2>2. CASE k < i
    <3>1. Since(IF k < i THEN k ELSE k + 1) = Since(k)' /\ k \in Int
      BY <1>2, <1>3, <2>1, <2>2
    <3> QED
      BY <1>4, <3>1
  <2>3. CASE k > i
    <3>1. Since(IF k < i THEN k ELSE k + 1) = Since(k)'
      BY <1>2, <1>3, <2>1, <2>3
    <3> QED
      BY <1>4, <3>1
  <2>4. CASE k = i
    <3>1. Since(k + 1) = idle /\ Since(k)' = 0 /\ timers'[k] = timers[k + 1] /\ idle \in 0 .. Gap
      BY <1>2, <1>3, <1>4, <2>1, <2>4 DEF TimerInv, LoopInv
    <3>2. Low(k + 1, idle) <= Key(clock, timers[k + 1]) /\ Key(clock, timers[k + 1]) \in Int
      BY <2>1, <3>1, TimerIs
    <3>3. k \in 1 .. MAX_TIMER_NUM
      BY <2>1, TimerIs
    <3>4. Low(k + 1, idle) = Low(k, idle) + Gap /\ Low(k, idle) = Low(k, 0) - idle
      BY <3>1, <3>3, LowIs
    <3>5. Low(k, 0) \in Int
      <4>1. 0 \in 0 .. Gap
        BY TimerConstants
      <4> QED
        BY <3>3, <4>1, LowIs
    <3>6. Low(k, 0) <= Low(k + 1, idle) /\ Low(k + 1, idle) \in Int
      BY <3>1, <3>4, <3>5, TimerConstants
    <3> QED
      BY <3>1, <3>2, <3>5, <3>6
  <2> QED
    BY <2>1, <2>2, <2>3, <2>4
<1>7. WindowInv'
  BY <1>1, <1>6 DEF WindowInv
<1> QED
  BY <1>2, <1>4, <1>5, <1>7 DEF TimerInv

LEMMA CallBackRestartsKept == TimerInv /\ CallBackRestarts => TimerInv'
<1> SUFFICES ASSUME TimerInv, CallBackRestarts PROVE TimerInv'
  OBVIOUS
<1>1. /\ Turn /\ Next1(TRUE) /\ clock' = clock /\ wakeup' = wakeup /\ idle' = idle
  BY DEF CallBackRestarts
<1>2. /\ LoopInv' /\ process'.on /\ process'.i = process.i + 1
      /\ process'.change_flg = (process.change_flg \/ TRUE)
      /\ process.i \in 1 .. Len(timers) /\ WakeupIsFront'
      /\ \A k \in Int : Since(k) = (IF k < process.i THEN 0 ELSE idle)
      /\ \A k \in Int : Since(k)' = (IF k <= process.i THEN 0 ELSE idle)
  BY <1>1, TurnGoesOn
<1>3. PICK interval \in Intervals :
        timers' = [timers EXCEPT ![process.i] = Started(timers[process.i].cb, interval)]
  BY DEF CallBackRestarts
<1>4a. PICK n \in Nat : n = Len(timers)
  BY TableIs
<1>4b. PICK i \in 1 .. n : i = process.i
  BY <1>2, <1>4a
<1>4. n = Len(timers) /\ i = process.i
  BY <1>4a, <1>4b
<1>5. timers \in Tables(clock, n) /\ timers[i] \in Entry /\ clock \in Times /\ n \in 0 .. MAX_TIMER_NUM
  <2>1. timers \in Tables(clock, n) /\ clock \in Times /\ n \in 0 .. MAX_TIMER_NUM
    BY <1>4 DEF TimerInv, TableInv
  <2>2. timers[i] \in EntryNear(clock)
    BY <2>1 DEF Tables
  <2> QED
    BY <2>1, <2>2, KeyTyped
<1>6. PICK e \in EntryNear(clock) :
        e = Started(timers[i].cb, interval) /\ Key(clock, e) >= 1 /\ Key(clock, e) \in Int
  <2>1. timers[i].cb \in CallBacks
    BY <1>5 DEF Entry
  <2> QED
    BY <1>5, <2>1, StartedIs
<1>7. timers' = [timers EXCEPT ![i] = e]
  BY <1>3, <1>4, <1>6
<1>8. timers' \in Tables(clock, n) /\ \A k \in 1 .. n : timers'[k] = IF k = i THEN e ELSE timers[k]
  BY <1>5, <1>7 DEF Tables
<1>9. Len(timers') = n
  BY <1>8, TableSeq
<1>10. TableInv'
  BY <1>1, <1>5, <1>8, <1>9 DEF TableInv
<1>11. OrderInv'
  BY <1>2 DEF OrderInv
<1>12. ASSUME NEW k \in 1 .. n PROVE Low(k, Since(k)') <= Key(clock, timers'[k])
  <2>1. CASE k = i
    <3>1. Low(k, 0) <= 1 /\ Low(k, 0) \in Int
      <4>1. 0 \in 0 .. Gap
        BY TimerConstants
      <4> QED
        BY <1>4, <4>1, TimerIs, LowIs
    <3>2. Since(k)' = 0 /\ timers'[k] = e
      BY <1>2, <1>4, <1>8, <2>1
    <3> QED
      BY <1>6, <3>1, <3>2
  <2>2. CASE k # i
    <3>1. Since(k)' = Since(k) /\ timers'[k] = timers[k]
      BY <1>2, <1>4, <1>8, <2>2
    <3> QED
      BY <1>4, <3>1, TimerIs
  <2> QED
    BY <2>1, <2>2
<1>13. WindowInv'
  BY <1>1, <1>9, <1>12 DEF WindowInv
<1> QED
  BY <1>2, <1>10, <1>11, <1>13 DEF TimerInv

(* The loop has looked at every timer: those in place are not behind. *)
LEMMA EndKept == TimerInv /\ ProcessEnd => TimerInv'
<1> SUFFICES ASSUME TimerInv, ProcessEnd PROVE TimerInv'
  OBVIOUS
<1>1. /\ process.on /\ process.i > Len(timers) /\ process' = NoLoop /\ idle' = 0 /\ clock' = clock
      /\ timers' = IF process.change_flg THEN Sorted(timers) ELSE timers
      /\ wakeup' = IF timers = <<>> THEN Off ELSE WakeupFor(timers'[1])
  BY DEF ProcessEnd
<1>2. PICK n \in 0 .. MAX_TIMER_NUM : n = Len(timers)
  BY DEF TimerInv, TableInv
<1>3. timers \in Tables(clock, n) /\ clock \in Times /\ 0 \in 0 .. Gap /\ n \in Nat
  BY <1>2, TimerConstants DEF TimerInv, TableInv
<1>4. \A k \in 1 .. n : Low(k, 0) <= Key(clock, timers[k])
  <2>1. \A k \in 1 .. n : Since(k) = 0
    BY <1>1, <1>2 DEF Since, TimerInv, LoopInv
  <2> QED
    BY <1>2, <2>1 DEF TimerInv, WindowInv
<1>5. PICK s \in Tables(clock, n) :
        /\ s = timers' /\ Len(s) = n
        /\ \A i, j \in 1 .. n : i < j => Key(clock, s[i]) <= Key(clock, s[j])
        /\ \A k \in 1 .. n : Low(k, 0) <= Key(clock, s[k])
  <2>1. CASE process.change_flg
    BY <1>1, <1>3, <1>4, <2>1, SortedTable
  <2>2. CASE ~process.change_flg
    BY <1>1, <1>2, <1>3, <1>4, <2>2 DEF TimerInv, OrderInv
  <2> QED
    BY <2>1, <2>2
<1>6. LoopInv'
  BY <1>1, TimerConstants DEF LoopInv, NoLoop
<1>7. TableInv'
  BY <1>1, <1>3, <1>5 DEF TableInv
<1>8. WindowInv'
  <2>1. \A k \in 1 .. n : Since(k)' = 0
    BY <1>1 DEF Since, NoLoop
  <2> QED
    BY <1>1, <1>5, <2>1 DEF WindowInv
<1>9. OrderInv'
  BY <1>1, <1>5 DEF OrderInv
<1>10. WakeupIsFront'
  <2> SUFFICES ASSUME timers' # <<>>, timers'[1].interval < WAKEUP_RANGE,
                      Distance(clock, timers'[1].t) < COMPARE_RANGE
               PROVE  wakeup' = timers'[1].t
    BY <1>1 DEF WakeupIsFront
  <2>1. n # 0
    BY <1>3, <1>5, TableSeq
  <2>2. timers # <<>>
    BY <1>3, <2>1, TableSeq
  <2>3. timers'[1] \in EntryNear(clock)
    BY <1>3, <1>5, <2>1 DEF Tables
  <2> QED
    BY <1>1, <1>3, <2>2, <2>3, WakeupSet
<1> QED
  BY <1>6, <1>7, <1>8, <1>9, <1>10 DEF TimerInv

LEMMA TickKept == TimerInv /\ Tick => TimerInv'
<1> SUFFICES ASSUME TimerInv, Tick PROVE TimerInv'
  OBVIOUS
<1>1. /\ ~process.on /\ idle < Gap /\ clock' = Plus(clock, 1) /\ idle' = idle + 1
      /\ timers' = timers /\ wakeup' = wakeup /\ process' = process
  BY DEF Tick
<1>2. PICK n \in 0 .. MAX_TIMER_NUM : n = Len(timers)
  BY DEF TimerInv, TableInv
<1>3. timers \in Tables(clock, n) /\ clock \in Times /\ idle \in 0 .. Gap /\ idle + 1 \in 0 .. Gap
  BY <1>1, <1>2, TimerConstants DEF TimerInv, TableInv, LoopInv
<1>4. ASSUME NEW k \in 1 .. n
      PROVE  /\ Plus(clock, 1) \in Times /\ Key(Plus(clock, 1), timers[k]) = Key(clock, timers[k]) - 1
             /\ Low(k, idle + 1) <= Key(clock, timers[k]) - 1
             /\ timers[k] \in EntryNear(Plus(clock, 1))
  <2>1. /\ timers[k] \in EntryNear(clock) /\ Key(clock, timers[k]) \in Int /\ k \in 1 .. MAX_TIMER_NUM
        /\ Low(k, Since(k)) <= Key(clock, timers[k])
    BY <1>2, TimerIs
  <2>2. Since(k) = idle
    BY <1>1 DEF Since
  <2>3. Low(k, idle + 1) = Low(k, idle) - 1 /\ Low(k, idle) \in Int
    BY <1>1, <1>3, <2>1, LowIs
  <2>4. Low(k, idle + 1) >= 1 + SAFE_MARGIN_PRE - SAFE_MARGIN_POST
    BY <1>3, <2>1, LowIs
  <2>5. Low(k, idle + 1) <= Key(clock, timers[k]) - 1
    BY <2>1, <2>2, <2>3
  <2>6. PICK a \in Int : a = Key(clock, timers[k])
    BY <2>1
  <2>7. a - 1 >= 1 + SAFE_MARGIN_PRE - SAFE_MARGIN_POST
    BY <2>3, <2>4, <2>5, <2>6, TimerConstants
  <2>8. /\ timers[k] \in Entry /\ timers[k].t \in Times /\ a \in Near /\ a <= timers[k].interval
        /\ timers[k].interval \in Int
    BY <1>3, <2>1, <2>6, KeyTyped
  <2>9. a > -SAFE_MARGIN_POST /\ a - 1 \in Near /\ a - 1 <= timers[k].interval
    BY <2>7, <2>8, TimerConstants DEF Near
  <2>10. Plus(clock, 1) \in Times /\ Ahead(Plus(clock, 1), timers[k].t) = a - 1
    BY <1>3, <2>6, <2>8, <2>9, AheadTicks DEF Key
  <2>11. Key(Plus(clock, 1), timers[k]) = a - 1
    BY <2>10 DEF Key
  <2> QED
    BY <2>5, <2>6, <2>8, <2>9, <2>10, <2>11 DEF EntryNear
<1>5. clock' \in Times
  BY <1>1, <1>3, PlusWraps, TimerConstants DEF Times
<1>6. LoopInv'
  BY <1>1, <1>3 DEF TimerInv, LoopInv
<1>7. timers \in Tables(clock', n)
  BY <1>1, <1>3, <1>4 DEF Tables
<1>8. TableInv'
  BY <1>1, <1>2, <1>5, <1>7 DEF TableInv
<1>9. WindowInv'
  <2>1. \A k \in 1 .. n : Since(k)' = idle + 1
    BY <1>1 DEF Since
  <2> QED
    BY <1>1, <1>2, <1>4, <2>1 DEF WindowInv
<1>10. OrderInv'
  <2>1. \A k \in 1 .. n : Key(clock, timers[k]) \in Int
    BY <1>2, TimerIs
  <2>2. \A k \in 1 .. n : Key(clock', timers[k]) = Key(clock, timers[k]) - 1
    BY <1>1, <1>4
  <2>3. \A i, j \in 1 .. n : i < j => Key(clock, timers[i]) <= Key(clock, timers[j])
    BY <1>1, <1>2, NoLoopIs DEF TimerInv, OrderInv
  <2>4. \A i, j \in 1 .. n : i < j => Key(clock', timers[i]) <= Key(clock', timers[j])
    BY <2>1, <2>2, <2>3
  <2> QED
    BY <1>1, <1>2, <2>4 DEF OrderInv
<1>11. WakeupIsFront'
  <2> SUFFICES ASSUME timers # <<>>, timers[1].interval < WAKEUP_RANGE,
                      Distance(clock', timers[1].t) < COMPARE_RANGE
               PROVE  wakeup = timers[1].t
    BY <1>1 DEF WakeupIsFront
  <2>1. 1 \in 1 .. n
    BY <1>2, TableIs
  <2>2. PICK a \in Int : a = Key(clock, timers[1])
    BY <1>2, <2>1, TimerIs
  <2>3. /\ Intervals # {} /\ a <= COMPARE_RANGE - SAFE_MARGIN_POST
        /\ Distance(clock, timers[1].t) = IF a >= 0 THEN a ELSE a + ClockVals
    <3>1. timers[1] \in EntryNear(clock) /\ Intervals # {}
      BY <1>2, <2>1, TimerIs
    <3>2. a \in Near
      BY <1>3, <2>2, <3>1, KeyTyped
    <3> QED
      BY <1>2, <2>1, <2>2, <3>1, <3>2, TimerIs, TimerConstants DEF Near
  <2>4. Distance(clock', timers[1].t) = IF a - 1 >= 0 THEN a - 1 ELSE (a - 1) + ClockVals
    <3>1. timers[1] \in EntryNear(clock') /\ Key(clock', timers[1]) = a - 1
      BY <1>1, <1>4, <2>1, <2>2
    <3>2. PICK t \in Times, b \in Near : t = timers[1].t /\ b = a - 1
      BY <1>5, <3>1, KeyTyped
    <3>3. b = Ahead(clock', t)
      BY <3>1, <3>2 DEF Key
    <3>4. Distance(clock', t) = IF b >= 0 THEN b ELSE b + ClockVals
      BY <1>5, <2>3, <3>3, NearDistance
    <3> QED
      BY <3>2, <3>4
  <2>5. a >= -SAFE_MARGIN_POST
    <3>1. a >= 1 + SAFE_MARGIN_PRE - SAFE_MARGIN_POST
      BY <1>2, <2>1, <2>2, TimerIs
    <3> QED
      BY <2>2, <3>1, TimerConstants
  <2>6. a - 1 >= 0
    BY <2>3, <2>4, <2>5, TimerConstants
  <2>7. Distance(clock, timers[1].t) < COMPARE_RANGE
    BY <2>3, <2>6, TimerConstants
  <2> QED
    BY <1>1, <2>7 DEF TimerInv, WakeupIsFront
<1> QED
  BY <1>6, <1>8, <1>9, <1>10, <1>11 DEF TimerInv

LEMMA TimerInvInit == TimerInit => TimerInv
<1> SUFFICES ASSUME TimerInit PROVE TimerInv
  OBVIOUS
<1>1. /\ clock \in {0, ClockVals - 1} /\ timers = <<>> /\ wakeup = Off /\ process = NoLoop /\ idle = 0
  BY DEF TimerInit
<1>2. clock \in Times /\ Len(timers) = 0 /\ Len(timers) \in 0 .. MAX_TIMER_NUM
  BY <1>1, TimerConstants DEF Times
<1>3. timers \in Tables(clock, 0)
  <2>1. timers \in Seq(EntryNear(clock))
    BY <1>1
  <2> QED
    BY <1>2, <2>1, SeqTable
<1>4. TableInv
  BY <1>2, <1>3 DEF TableInv
<1>5. LoopInv
  BY <1>1, TimerConstants DEF LoopInv, NoLoop
<1>6. WindowInv /\ OrderInv
  BY <1>2 DEF WindowInv, OrderInv
<1>7. WakeupIsFront
  BY <1>1 DEF WakeupIsFront
<1> QED
  BY <1>4, <1>5, <1>6, <1>7 DEF TimerInv

LEMMA TimerInvNext == TimerInv /\ [TimerNext]_timerVars => TimerInv'
<1> SUFFICES ASSUME TimerInv, [TimerNext]_timerVars PROVE TimerInv'
  OBVIOUS
<1>1. CASE TimerAdd
  BY <1>1, AddKept
<1>2. CASE TimerDelete
  BY <1>2, DeleteKept
<1>3. CASE ProcessNothing
  BY <1>3, NothingKept
<1>4. CASE ProcessStart
  BY <1>4, StartKept
<1>5. CASE NotExpired
  BY <1>5, NotExpiredKept
<1>6. CASE CallBackDeletes
  BY <1>6, CallBackDeletesKept
<1>7. CASE CallBackRestarts
  BY <1>7, CallBackRestartsKept
<1>8. CASE ProcessEnd
  BY <1>8, EndKept
<1>9. CASE Tick
  BY <1>9, TickKept
<1>10. CASE UNCHANGED timerVars
  <2>1. LoopInv' /\ TableInv' /\ OrderInv' /\ WakeupIsFront'
    BY <1>10 DEF timerVars, TimerInv, LoopInv, TableInv, OrderInv, WakeupIsFront
  <2>2. \A k \in 1 .. Len(timers) : Since(k)' = Since(k)
    BY <1>10 DEF timerVars, Since
  <2>3. WindowInv'
    BY <1>10, <2>2 DEF timerVars, TimerInv, WindowInv
  <2> QED
    BY <2>1, <2>3 DEF TimerInv
<1> QED
  BY <1>1, <1>2, <1>3, <1>4, <1>5, <1>6, <1>7, <1>8, <1>9, <1>10 DEF TimerNext

LEMMA TimerInvAlways == TimerSpec => []TimerInv
BY TimerInvInit, TimerInvNext, PTL DEF TimerSpec

(* The table is in the order of the expiry times between two calls, for any size of
   it, also when the clock has wrapped (blt_soft_timer_sort).              *)
THEOREM TableIsSorted == TimerSpec => []TimersInOrder
<1>1. TimerInv => TimersInOrder
  <2> SUFFICES ASSUME TimerInv, ~process.on, NEW i \in DOMAIN timers, NEW j \in DOMAIN timers, i < j
               PROVE  Distance(timers[i].t, timers[j].t) < COMPARE_RANGE
    BY DEF TimersInOrder
  <2>1. i \in 1 .. Len(timers) /\ j \in 1 .. Len(timers) /\ clock \in Times
    BY TableIs
  <2>2. Key(clock, timers[i]) <= Key(clock, timers[j])
    BY <2>1, NoLoopIs DEF TimerInv, OrderInv
  <2>3. timers[i] \in EntryNear(clock) /\ timers[j] \in EntryNear(clock)
    BY <2>1, TimerIs
  <2>4. PICK t \in Times, u \in Times : t = timers[i].t /\ u = timers[j].t
    BY <2>1, <2>3, KeyTyped
  <2>5. /\ Ahead(clock, t) \in Near /\ Ahead(clock, u) \in Near
        /\ Ahead(clock, t) <= Ahead(clock, u)
    BY <2>1, <2>2, <2>3, <2>4, KeyTyped DEF Key
  <2>6. t \in Int /\ u \in Int /\ clock \in Int /\ Near \subseteq Int
    BY <2>1, TimerConstants DEF Times, Near
  <2>7. Distance(t, u) < COMPARE_RANGE <=> Ahead(clock, u) >= Ahead(clock, t)
    BY <2>5, <2>6, NearTimes
  <2> QED
    BY <2>4, <2>5, <2>6, <2>7
<1> QED
  BY <1>1, TimerInvAlways, PTL

(* No timer leaves the window in which the next call runs its call-back, whatever is
   deleted, restarted and passed over (blt_soft_timer_process).            *)
THEOREM NoTimerIsMissed == TimerSpec => []NeverMissed
<1>1. TimerInv => NeverMissed
  <2> SUFFICES ASSUME TimerInv, NEW i \in DOMAIN timers
               PROVE  \/ Distance(clock, timers[i].t) <= timers[i].interval
                      \/ Expired(timers[i].t)
    BY DEF NeverMissed
  <2>1. i \in 1 .. Len(timers)
    BY TableIs
  <2>2. PICK a \in Int : a = Key(clock, timers[i])
    BY <2>1, TimerIs
  <2>3. /\ a <= timers[i].interval /\ timers[i].interval \in Int
        /\ Expired(timers[i].t) <=> a <= SAFE_MARGIN_PRE
        /\ Distance(clock, timers[i].t) = IF a >= 0 THEN a ELSE a + ClockVals
    BY <2>1, <2>2, TableIs, TimerIs, KeyTyped
  <2> QED
    BY <2>2, <2>3, TimerConstants
<1> QED
  BY <1>1, TimerInvAlways, PTL

(* The wake-up of a sleeping chip is set for the front timer, unless that one is overdue
   or was started for WAKEUP_RANGE or more.                                *)
THEOREM FrontWakes == TimerSpec => []WakeupIsFront
<1>1. TimerInv => WakeupIsFront
  BY DEF TimerInv
<1> QED
  BY <1>1, TimerInvAlways, PTL
=============================================================================
