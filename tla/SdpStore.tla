------------------------------ MODULE SdpStore ------------------------------
(***************************************************************************)
(* vendor/common/simple_sdp.c: the ATT handles found by a discovery, kept  *)
(* in flash by peer (FLASH_SDP_ATT_ADRRESS).  A unit is written address    *)
(* first, then the handles, its mark last; a deletion overwrites the mark. *)
(* Nothing is ever erased.                                                 *)
(*                                                                         *)
(* Flash bits are only cleared: a field that was written more than once    *)
(* holds what all its values have in common.  It is therefore given as the *)
(* set of the values written to it, whole or in part.  Power may be lost   *)
(* between two writes and within one.                                      *)
(***************************************************************************)
EXTENDS Integers, FiniteSets

CONSTANTS
  SdpPeers,   \* addresses of slaves
  AttHandles, \* what a discovery may find (the handles it stores, as one)
  SDP_UNITS   \* FLASH_SDP_ATT_MAX_SIZE / sizeof(dev_att_t)

ASSUME SdpAssumption == SDP_UNITS \in Nat /\ IsFiniteSet(SdpPeers)

VARIABLES
  att,       \* the units: mark, address and handles
  storing,   \* the store under way: its unit, peer, handles and next write
  discovered \* ghost: per peer, unit and handles of the record that is in force

sdpStoreVars == <<att, storing, discovered>>

SdpUnits == 0 .. SDP_UNITS - 1
NoStore == [step |-> "none"]
NoRecord == [unit |-> -1]
BlankUnit == [mark |-> "blank", addr |-> {}, handles |-> {}]

-----------------------------------------------------------------------------
(* A unit whose mark is blank is taken for the end of the list by a search, and
   for a free one by a store.                                              *)
IsBlank(u) == att[u].mark = "blank"
BeforeEnd(u) == \A v \in 0 .. u : ~IsBlank(v)
Holds(u, p) == att[u].mark = "bond" /\ att[u].addr = {p}
FirstOf(U) == CHOOSE u \in U : \A v \in U : u <= v

(* dev_char_info_search_peer_att_handle_by_peer_mac *)
Search(p) == {u \in SdpUnits : BeforeEnd(u) /\ Holds(u, p)}
FoundHandles(p) == att[FirstOf(Search(p))].handles

(* dev_char_info_store_peer_att_handle, called at the end of a discovery, which
   is made for a peer that a search did not find.                          *)
BlankAfterFirst == {u \in SdpUnits : IsBlank(u) /\ u > 0}  \* mutant
BlankUnits == {u \in SdpUnits : IsBlank(u)}

StoreStart ==
  /\ storing = NoStore /\ BlankUnits # {}
  /\ \E p \in SdpPeers, h \in AttHandles :
       /\ Search(p) = {}
       /\ storing' = [step |-> "addr", unit |-> FirstOf(BlankUnits), peer |-> p, handles |-> h]
  /\ UNCHANGED <<att, discovered>>

(* Without a blank unit nothing is stored, from then on for ever. *)
StoreFull == storing = NoStore /\ BlankUnits = {} /\ UNCHANGED sdpStoreVars

Clear(u, field, value) == att' = [att EXCEPT ![u][field] = @ \cup {value}]

StoreAddr ==
  /\ storing.step = "addr"
  /\ Clear(storing.unit, "addr", storing.peer)
  /\ storing' = [storing EXCEPT !.step = "handles"]
  /\ UNCHANGED discovered

StoreHandles ==
  /\ storing.step = "handles"
  /\ Clear(storing.unit, "handles", storing.handles)
  /\ storing' = [storing EXCEPT !.step = "mark"]
  /\ UNCHANGED discovered

StoreMark ==
  /\ storing.step = "mark"
  /\ att' = [att EXCEPT ![storing.unit].mark = "bond"]
  /\ storing' = NoStore
  /\ discovered' = [discovered EXCEPT
       ![storing.peer] = [unit |-> storing.unit, handles |-> storing.handles]]

(* dev_char_info_delete_peer_att_handle_by_peer_mac, when a peer is unpaired *)
SdpDelete ==
  /\ storing = NoStore
  /\ \E p \in SdpPeers :
       /\ Search(p) # {}
       /\ att' = [att EXCEPT ![FirstOf(Search(p))].mark = "erased"]
       /\ discovered' = [discovered EXCEPT ![p] = NoRecord]
  /\ UNCHANGED storing

(* Power is lost: a write under way has cleared some of its bits.  A mark
   written in part is neither blank nor one of the two marks.              *)
SdpPowerLoss ==
  /\ storing # NoStore /\ storing' = NoStore
  /\ \/ UNCHANGED att
     \/ storing.step = "addr" /\ Clear(storing.unit, "addr", storing.peer)
     \/ storing.step = "handles" /\ Clear(storing.unit, "handles", storing.handles)
     \/ storing.step = "mark" /\ att' = [att EXCEPT ![storing.unit].mark = "erased"]
  /\ UNCHANGED discovered

-----------------------------------------------------------------------------
SdpInit ==
  /\ att = [u \in SdpUnits |-> BlankUnit]
  /\ storing = NoStore
  /\ discovered = [p \in SdpPeers |-> NoRecord]

SdpNext ==
  \/ StoreStart \/ StoreFull \/ StoreAddr \/ StoreHandles \/ StoreMark
  \/ SdpDelete \/ SdpPowerLoss

SdpSpec == SdpInit /\ [][SdpNext]_sdpStoreVars

-----------------------------------------------------------------------------
(* A unit written over the rest of a store that power cut short *)
Spoiled(u) == Cardinality(att[u].addr) > 1 \/ Cardinality(att[u].handles) > 1

(* A search finds the handles of the last discovery of the peer, and no others,
   until the peer is unpaired: a store or a power loss in one unit never hides
   or changes another.  Only a unit that was written over the rest of a store
   cut short may be lost or wrong, and then only itself
   (simple_sdp.c:447-470, 503-530, 566-578).                               *)
FoundIsDiscovered ==
  \A p \in SdpPeers :
    /\ Search(p) # {} => \/ Spoiled(FirstOf(Search(p)))
                         \/ FoundHandles(p) = {discovered[p].handles}
    /\ discovered[p] # NoRecord => \/ Spoiled(discovered[p].unit)
                                   \/ Search(p) = {discovered[p].unit}
=============================================================================
