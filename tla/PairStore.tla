------------------------------ MODULE PairStore ------------------------------
(***************************************************************************)
(* vendor/common/custom_pair.c: the bonds of a build without SMP, kept in  *)
(* a table in RAM and in units of a flash sector.  Units are written one   *)
(* after the other and never reused before the sector is erased, which     *)
(* happens only at start-up; a bond is removed by clearing its mark.       *)
(*                                                                         *)
(* Power may be lost between any two flash writes and within one.  An      *)
(* operation is therefore given as the sequence of its writes: it either   *)
(* completes or ends in a power loss after some of them.  Erasing the      *)
(* sector is taken to be atomic, and a page write to go up in address.     *)
(***************************************************************************)
EXTENDS Integers, SequencesExt

CONSTANTS
  SlaveMacs,                \* addresses of slaves
  Blank,                    \* a unit whose mark is 0xff
  Erased,                   \* a unit whose mark is neither 0xff nor 0x5A
  Unknown,                  \* a unit with mark 0x5A and the wrong address
  UNITS,                    \* FLASH_CUSTOM_PAIRING_MAX_SIZE / 8
  USER_PAIR_SLAVE_MAX_NUM   \* bonds kept

ASSUME PairAssumption ==
  /\ UNITS \in Nat /\ USER_PAIR_SLAVE_MAX_NUM \in Nat \ {0}
  /\ USER_PAIR_SLAVE_MAX_NUM <= UNITS \div 2
  /\ Cardinality({Blank, Erased, Unknown}) = 3
  /\ SlaveMacs \cap {Blank, Erased, Unknown} = {}

VARIABLES
  flash,    \* the sector: what each unit holds
  table,    \* user_tbl_slaveMac: unit and peer of each bond, oldest first
  cfg_idx,  \* user_bond_slave_flash_cfg_idx: last unit in use, or -1
  power     \* the device is off, on, or in the endless loop of its start-up

vars == <<flash, table, cfg_idx, power>>

Units == 0 .. UNITS - 1
Bonds == SlaveMacs \cup {Unknown}
Cells == Bonds \cup {Blank, Erased}
EmptySector == [u \in Units |-> Blank]

-----------------------------------------------------------------------------
(* Flash bits are only ever cleared, so a unit takes a bond right only when
   it is blank.                                                            *)
Write(u, c) == [unit |-> u, cell |-> c]

Programmed(old, new) ==
  CASE new = Erased -> Erased
    [] old = Blank  -> new
    [] old = Erased -> Erased
    [] OTHER        -> Unknown

After(f, writes) ==
  [u \in Units |-> IF \E w \in Range(writes) : w.unit = u
                   THEN Programmed(f[u], (CHOOSE w \in Range(writes) : w.unit = u).cell)
                   ELSE f[u]]

(* A write broken by a power loss: the mark may be incomplete, or complete
   and the address not.                                                    *)
Broken(w) == {Write(w.unit, c) : c \in IF w.cell = Erased THEN {Erased} ELSE {Erased, Unknown}}

(* What a power loss may leave of the writes. *)
Interrupted(f, writes) ==
  {After(f, SubSeq(writes, 1, k)) : k \in 0 .. Len(writes)} \cup
  UNION {{After(f, Append(SubSeq(writes, 1, k - 1), w)) : w \in Broken(writes[k])}
           : k \in 1 .. Len(writes)}

PowerOff ==
  /\ power' = "off"
  /\ table' = <<>> /\ cfg_idx' = 0

-----------------------------------------------------------------------------
(* user_master_host_pairing_flash_init reads the units up to the first blank
   one.                                                                    *)
End(f) == IF \E u \in Units : f[u] = Blank
          THEN CHOOSE u \in Units : f[u] = Blank /\ \A v \in 0 .. u - 1 : f[v] # Blank
          ELSE UNITS

Marked(f) == {u \in 0 .. End(f) - 1 : f[u] \in Bonds}

(* The i-th of them. *)
Nth(S, i) == CHOOSE u \in S : Cardinality({v \in S : v < u}) = i - 1

Scanned(f) ==
  [i \in 1 .. Cardinality(Marked(f)) |-> [unit |-> Nth(Marked(f), i),
                                          peer |-> f[Nth(Marked(f), i)]]]

LastUsed(f) == End(f) - 1

(* user_bond_slave_flash_clean: the bonds go to the start of the sector. *)
Moved(t) == [i \in DOMAIN t |-> [t[i] EXCEPT !.unit = i - 1]]
Rewrites(t) == [i \in DOMAIN t |-> Write(i - 1, t[i].peer)]
NeedsClean == LastUsed(flash) >= UNITS \div 2

Start ==
  /\ power = "off"
  /\ IF Len(Scanned(flash)) > USER_PAIR_SLAVE_MAX_NUM
     THEN power' = "hung" /\ UNCHANGED <<flash, table, cfg_idx>>
     ELSE /\ power' = "on"
          /\ IF NeedsClean
             THEN /\ flash' = After(EmptySector, Rewrites(Scanned(flash)))
                  /\ table' = Moved(Scanned(flash))
                  /\ cfg_idx' = Len(Scanned(flash)) - 1
             ELSE /\ table' = Scanned(flash)
                  /\ cfg_idx' = LastUsed(flash)
                  /\ UNCHANGED flash

StartInterrupted ==
  /\ power = "off" /\ NeedsClean
  /\ Len(Scanned(flash)) <= USER_PAIR_SLAVE_MAX_NUM
  /\ flash' \in Interrupted(EmptySector, Rewrites(Scanned(flash)))
  /\ UNCHANGED <<table, cfg_idx, power>>

-----------------------------------------------------------------------------
(* user_tbl_slave_mac_add.  The application adds a peer that
   user_tbl_slave_mac_search has not found.                                *)
Fits == cfg_idx + 1 < UNITS
FullLate == Len(table) > USER_PAIR_SLAVE_MAX_NUM  \* mutant
Full == Len(table) >= USER_PAIR_SLAVE_MAX_NUM

DropOldest == IF Full THEN <<Write(table[1].unit, Erased)>> ELSE <<>>
StoreNew(p) == IF Fits THEN <<Write(cfg_idx + 1, p)>> ELSE <<>>
AddWritesSwapped(p) == StoreNew(p) \o DropOldest  \* mutant: store, then make room
AddWrites(p) == DropOldest \o StoreNew(p)

KeptBondsNewest == IF Full THEN SubSeq(table, 1, Len(table) - 1) ELSE table  \* mutant
KeptBonds == IF Full THEN Tail(table) ELSE table

(* The index is counted up even when the sector is used up; beyond it, all its
   values are the same to the code.                                        *)
Add(p) ==
  /\ power = "on"
  /\ \A i \in DOMAIN table : table[i].peer # p
  /\ flash' = After(flash, AddWrites(p))
  /\ table' = IF Fits THEN Append(KeptBonds, [unit |-> cfg_idx + 1, peer |-> p]) ELSE KeptBonds
  /\ cfg_idx' = IF Fits THEN cfg_idx + 1 ELSE UNITS
  /\ UNCHANGED power

AddInterrupted(p) ==
  /\ power = "on"
  /\ \A i \in DOMAIN table : table[i].peer # p
  /\ flash' \in Interrupted(flash, AddWrites(p))
  /\ PowerOff

Positions(p) == {i \in DOMAIN table : table[i].peer = p}
FirstPosition(p) == CHOOSE i \in Positions(p) : \A j \in Positions(p) : i <= j

RemoveLast(t, i) == SubSeq(t, 1, Len(t) - 1)  \* mutant: the table is not moved up
TableWithout(t, i) == RemoveAt(t, i)

(* user_tbl_slave_mac_delete_by_adr: one write. *)
DeleteByAdr(p) ==
  /\ power = "on" /\ Positions(p) # {}
  /\ LET i == FirstPosition(p)
     IN  /\ flash' = After(flash, <<Write(table[i].unit, Erased)>>)
         /\ table' = TableWithout(table, i)
  /\ UNCHANGED <<cfg_idx, power>>

(* user_tbl_slave_mac_delete_all: one write for each bond. *)
EraseAll == [i \in DOMAIN table |-> Write(table[i].unit, Erased)]

DeleteAll ==
  /\ power = "on" /\ table # <<>>
  /\ flash' = After(flash, EraseAll)
  /\ table' = <<>>
  /\ UNCHANGED <<cfg_idx, power>>

DeleteAllInterrupted ==
  /\ power = "on" /\ table # <<>>
  /\ flash' \in Interrupted(flash, EraseAll)
  /\ PowerOff

PowerLoss ==
  /\ power # "off"
  /\ PowerOff
  /\ UNCHANGED flash

-----------------------------------------------------------------------------
Init ==
  /\ flash = EmptySector
  /\ table = <<>>
  /\ cfg_idx = 0
  /\ power = "off"

Next ==
  \/ Start \/ StartInterrupted
  \/ \E p \in SlaveMacs : Add(p)
  \/ \E p \in SlaveMacs : AddInterrupted(p)
  \/ \E p \in SlaveMacs : DeleteByAdr(p)
  \/ DeleteAll \/ DeleteAllInterrupted
  \/ PowerLoss

Spec == Init /\ [][Next]_vars

-----------------------------------------------------------------------------
(* Every variable has its type; the table never outgrows its array. *)
TypeOK ==
  /\ flash \in [Units -> Cells]
  /\ table \in Seq([unit : Units, peer : Bonds])
  /\ Len(table) <= USER_PAIR_SLAVE_MAX_NUM
  /\ cfg_idx \in -1 .. UNITS
  /\ power \in {"off", "on", "hung"}

(* "slave mac in flash more than max, we think it's code bug": whatever the
   order of operations and power losses, the start-up never finds more valid
   marks than the table has entries, where it would loop for ever.         *)
NeverHangs == power # "hung"

(* The table is what a start-up would read from the sector now, in the same
   order, and the index is where it would go on: RAM and flash are changed
   apart in every operation.                                               *)
TableIsFlash ==
  power = "on" =>
    /\ table = Scanned(flash)
    /\ cfg_idx = LastUsed(flash) \/ (cfg_idx = UNITS /\ End(flash) = UNITS)

(* The bonds a start-up would find are a BondList: a bond goes only when it is
   unbonded, as the oldest of a full list, or in a power loss within one of the
   operations that write more than one unit.                               *)
Stored == INSTANCE BondList WITH
            bonds <- [i \in DOMAIN Scanned(flash) |-> Scanned(flash)[i].peer],
            on <- (power = "on")

ImplementsBondList == Stored!BSpec

(* "if exceed this max num ... method 1: overwrite the oldest one": an add
   replaces a bond and never only removes one.  The code does not keep this
   when the sector is used up: it makes room first.                        *)
AddLosesNothing ==
  [][ \A p \in SlaveMacs : Add(p) => Len(table') >= Len(table) ]_vars
=============================================================================
