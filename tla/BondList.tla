------------------------------ MODULE BondList ------------------------------
(***************************************************************************)
(* What custom_pair.c promises: a list of bonded peers, oldest first, that *)
(* survives power losses.  A loss during an operation leaves the list      *)
(* before it, after it, or what the operation's earlier writes made of it; *)
(* the write it breaks may leave an unknown address.                       *)
(***************************************************************************)
EXTENDS Integers, SequencesExt

CONSTANTS
  SlaveMacs,                \* addresses that may be bonded
  Unknown,                  \* an address left by a broken write
  USER_PAIR_SLAVE_MAX_NUM   \* bonds kept

VARIABLES
  bonds,  \* the bonded peers, oldest first
  on      \* the device is running

-----------------------------------------------------------------------------
BInit == bonds = <<>> /\ on = FALSE

(* A full list makes room by dropping its oldest bond. *)
Kept == IF Len(bonds) < USER_PAIR_SLAVE_MAX_NUM THEN bonds ELSE Tail(bonds)

IsNew(p) == \A i \in DOMAIN bonds : bonds[i] # p

(* The store may be used up, which is found when room has been made. *)
Bond(p) ==
  /\ on /\ UNCHANGED on
  /\ IsNew(p)
  /\ bonds' \in {Append(Kept, p), Kept}

(* A peer is bonded once. *)
Unbond(p) ==
  /\ on /\ UNCHANGED on
  /\ \E i \in DOMAIN bonds : bonds[i] = p /\ bonds' = RemoveAt(bonds, i)
  /\ IsNew(p)'

UnbondAll ==
  /\ on /\ UNCHANGED on
  /\ bonds' = <<>>

PowerOn == ~on /\ on' = TRUE /\ UNCHANGED bonds

(* Nothing was running, or a bond was being stored. *)
PowerLoss ==
  /\ on /\ on' = FALSE
  /\ \/ bonds' \in {bonds, Kept, Append(Kept, Unknown)}
     \/ \E p \in SlaveMacs : IsNew(p) /\ bonds' = Append(Kept, p)

(* All bonds were being removed: the oldest are gone. *)
PowerLossInUnbondAll ==
  /\ on /\ on' = FALSE
  /\ \E k \in 0 .. Len(bonds) : bonds' = SubSeq(bonds, k + 1, Len(bonds))

(* The store was being cleaned up before the device was running: the newest
   are gone.                                                               *)
PowerLossInStart ==
  /\ ~on /\ UNCHANGED on
  /\ \E k \in 0 .. Len(bonds) :
       \/ bonds' = SubSeq(bonds, 1, k)
       \/ k < Len(bonds) /\ bonds' = Append(SubSeq(bonds, 1, k), Unknown)

BNext ==
  \/ \E p \in SlaveMacs : Bond(p) \/ Unbond(p)
  \/ UnbondAll \/ PowerOn
  \/ PowerLoss \/ PowerLossInUnbondAll \/ PowerLossInStart

BSpec == BInit /\ [][BNext]_<<bonds, on>>
=============================================================================
