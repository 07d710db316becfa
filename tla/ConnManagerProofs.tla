------------------------- MODULE ConnManagerProofs -------------------------
(***************************************************************************)
(* First the connection list of DeviceManage, then what holds of the demo  *)
(* application, for any numbers of connections, any peers and any bounds:  *)
(* its types; that it uses the connection list as DeviceManage allows;     *)
(* that one un_pair flow runs at a time; that the list follows the         *)
(* controller and the marks name connections of it; and, when a pass of    *)
(* the stack's loop delivers all that is waiting, that the connection in   *)
(* its security process is the marked one, that ATT handles stay with the  *)
(* peer they were read from, and that a response is taken only while its   *)
(* discovery runs.                                                         *)
(***************************************************************************)
EXTENDS ConnManager, WellFoundedInduction, FiniteSetTheorems, SequenceTheorems, TLAPS

USE DeviceAssumption

-----------------------------------------------------------------------------
(* The connection list of DeviceManage keeps its counters, its roles and its
   entries, for any numbers of slots and any set of peers, whatever functions
   of device_manage.c are called and in whatever order.                    *)

(* A list as DevTypeOK wants it, and its connected entries. *)
ListOK(l) == /\ l \in [Slots -> Entry]
             /\ \A i \in Slots : l[i].conn_state = 1 => i \in SlotsOf(l[i].conn_role)
UsedIn(l, S) == {i \in S : l[i].conn_state = 1}

(* Two lists hold the same connections; their ATT handles may differ. *)
SameConnections(l, m) ==
  \A i \in Slots : /\ m[i].conn_state = l[i].conn_state
                   /\ m[i].conn_handle = l[i].conn_handle
                   /\ m[i].conn_role = l[i].conn_role
                   /\ m[i].peer = l[i].peer

DevInv == DevTypeOK /\ CountsMatch

(* A set of numbers that is not empty has a least one. *)
LEMMA LeastExists ==
  ASSUME NEW S \in SUBSET Nat, S # {}
  PROVE  \E m \in S : \A k \in S : m <= k
<1> DEFINE R == {ss \in Nat \X Nat : ss[1] < ss[2]}
<1>1. OpToRel(<, Nat) = R
  BY Zenon DEF OpToRel
<1>2. IsWellFoundedOn(R, Nat)
  BY <1>1, NatLessThanWellFounded, Zenon
<1>3. \A k, m \in S : ~(<<k, m>> \in R) => m <= k
  OBVIOUS
<1> HIDE DEF R
<1>4. \E m \in S : \A k \in S : ~(<<k, m>> \in R)
  BY <1>2, WFMin
<1> QED
  BY <1>3, <1>4

(* A set of slots that is not empty has a least one. *)
LEMMA LeastMember ==
  ASSUME NEW S \in SUBSET Nat, S # {}
  PROVE  Least(S) \in S
BY LeastExists DEF Least

(* The two halves of the list are finite, disjoint, and sets of numbers. *)
LEMMA SlotFacts ==
  /\ Slots \subseteq Nat /\ MasterSlots \subseteq Slots /\ SlaveSlots \subseteq Slots
  /\ MasterSlots \cap SlaveSlots = {}
  /\ IsFiniteSet(MasterSlots) /\ IsFiniteSet(SlaveSlots)
<1>1. IsFiniteSet(MasterSlots) /\ IsFiniteSet(SlaveSlots)
  BY FS_Interval DEF MasterSlots, SlaveSlots
<1> QED
  BY <1>1 DEF Slots, MasterSlots, SlaveSlots

(* The handles of a role and the entries made for them have their types. *)
LEMMA NewEntryType ==
  ASSUME NEW h \in Handles, NEW role \in Roles, NEW p \in Peers
  PROVE  NewEntry(h, role, p) \in Entry
BY DEF NewEntry, Entry, Roles, PeersOrNone, HandleOrNone

LEMMA EmptyEntryType == EmptyEntry \in Entry
BY DEF EmptyEntry, Entry, Roles, PeersOrNone, HandleOrNone

LEMMA RoleOfType == \A h \in Handles : RoleOf(h) \in Roles
BY DEF RoleOf, Roles

(* dev_char_info_insert_*: the list stays well formed, the connected entries
   of the role grow by InsertedNum, those of the other role stay.          *)
LEMMA InsertedListOK ==
  ASSUME DevTypeOK, NEW h \in Handles, NEW role \in Roles, NEW p \in Peers,
         NEW l, l = InsertedList(h, role, p)
  PROVE  /\ ListOK(l)
         /\ Cardinality(UsedIn(l, SlotsOf(role)))
              = Cardinality(Used(SlotsOf(role))) + InsertedNum(role)
         /\ \A r \in Roles \ {role} : UsedIn(l, SlotsOf(r)) = Used(SlotsOf(r))
         /\ \A i \in Slots : conn_dev_list[i].conn_state = 1 => l[i] = conn_dev_list[i]
<1> DEFINE free == Free(SlotsOf(role))
<1>1. /\ free \subseteq SlotsOf(role) /\ SlotsOf(role) \subseteq Slots
      /\ IsFiniteSet(SlotsOf(role)) /\ free \in SUBSET Nat
  BY SlotFacts DEF Free, SlotsOf
<1>2. CASE free = {}
  <2>1. l = conn_dev_list /\ InsertedNum(role) = 0
    BY <1>2 DEF InsertedList, InsertedNum
  <2>2. IsFiniteSet(Used(SlotsOf(role))) /\ Cardinality(Used(SlotsOf(role))) \in Nat
    BY <1>1, FS_Subset, FS_CardinalityType DEF Used
  <2> QED
    BY <2>1, <2>2 DEF ListOK, UsedIn, Used, DevTypeOK
<1>3. CASE free # {}
  <2> DEFINE i == Least(free)
  <2>1. i \in free /\ i \in SlotsOf(role) /\ i \in Slots
    BY <1>1, <1>3, LeastMember
  <2>2. l = [conn_dev_list EXCEPT ![i] = NewEntry(h, role, p)] /\ InsertedNum(role) = 1
    BY <1>3 DEF InsertedList, InsertedNum
  <2>3. /\ conn_dev_list \in [Slots -> Entry]
        /\ \A j \in Slots : conn_dev_list[j].conn_state = 1
                              => j \in SlotsOf(conn_dev_list[j].conn_role)
    BY DEF DevTypeOK
  <2> HIDE DEF i
  <2>4. /\ NewEntry(h, role, p).conn_state = 1 /\ NewEntry(h, role, p).conn_role = role
        /\ conn_dev_list[i].conn_state = 0
    BY <2>1 DEF NewEntry, Free
  <2>5. ListOK(l)
    BY <2>1, <2>2, <2>3, <2>4, NewEntryType DEF ListOK
  <2>6. UsedIn(l, SlotsOf(role)) = Used(SlotsOf(role)) \cup {i} /\ i \notin Used(SlotsOf(role))
    BY <1>1, <2>1, <2>2, <2>3, <2>4 DEF UsedIn, Used
  <2>7. IsFiniteSet(Used(SlotsOf(role))) /\ Cardinality(Used(SlotsOf(role))) \in Nat
    BY <1>1, FS_Subset, FS_CardinalityType DEF Used
  <2>8. \A r \in Roles \ {role} : UsedIn(l, SlotsOf(r)) = Used(SlotsOf(r))
    <3> SUFFICES ASSUME NEW r \in Roles \ {role}
                 PROVE  UsedIn(l, SlotsOf(r)) = Used(SlotsOf(r))
      OBVIOUS
    <3>1. i \notin SlotsOf(r) /\ SlotsOf(r) \subseteq Slots
      BY <2>1, SlotFacts DEF SlotsOf, Roles
    <3> QED
      BY <3>1, <2>2, <2>3, <2>1 DEF UsedIn, Used
  <2>9. Cardinality(UsedIn(l, SlotsOf(role))) = Cardinality(Used(SlotsOf(role))) + 1
    BY <2>6, <2>7, FS_AddElement
  <2>10. \A j \in Slots : conn_dev_list[j].conn_state = 1 => l[j] = conn_dev_list[j]
    BY <2>1, <2>2, <2>3, <2>4
  <2> QED
    BY <2>2, <2>5, <2>8, <2>9, <2>10
<1> QED
  BY <1>2, <1>3

(* Adding ATT handles changes no connection. *)
LEMMA WithAttHandleSame ==
  ASSUME NEW l, ListOK(l), NEW num, NEW h, NEW c \in PeersOrNone
  PROVE  /\ ListOK(WithAttHandle(l, num, h, c))
         /\ SameConnections(l, WithAttHandle(l, num, h, c))
<1> DEFINE match == {i \in Slots : i < num /\ l[i].conn_handle = h}
           m == WithAttHandle(l, num, h, c)
<1>1. CASE match = {}
  BY <1>1 DEF WithAttHandle, SameConnections
<1>2. CASE match # {}
  <2> DEFINE i == Least(match)
  <2>1. i \in Slots
    BY <1>2, LeastMember, SlotFacts
  <2>2. m = [l EXCEPT ![i].char_handle = c]
    BY <1>2 DEF WithAttHandle
  <2>3. l \in [Slots -> Entry]
    BY DEF ListOK
  <2> HIDE DEF i, m
  <2>4. \A j \in Slots : m[j] = IF j = i THEN [l[j] EXCEPT !.char_handle = c] ELSE l[j]
    BY <2>1, <2>2, <2>3
  <2>5. \A j \in Slots : [l[j] EXCEPT !.char_handle = c] \in Entry
    BY <2>3 DEF Entry
  <2>6. SameConnections(l, m)
    BY <2>3, <2>4 DEF SameConnections, Entry
  <2>7. m \in [Slots -> Entry]
    BY <2>1, <2>2, <2>3, <2>5
  <2>8. ListOK(m)
    BY <2>6, <2>7 DEF ListOK, SameConnections
  <2> QED
    BY <2>6, <2>8 DEF m
<1> QED
  BY <1>1, <1>2

LEMMA SameConnectionsUsed ==
  ASSUME NEW l, NEW m, SameConnections(l, m), NEW S \in SUBSET Slots
  PROVE  UsedIn(m, S) = UsedIn(l, S)
BY DEF SameConnections, UsedIn

-----------------------------------------------------------------------------
(* The invariant in the words of the lemmas above. *)
LEMMA InvAsList ==
  DevInv' <=> /\ ListOK(conn_dev_list')
              /\ conn_master_num' \in Nat /\ conn_slave_num' \in Nat
              /\ conn_master_num' = Cardinality(UsedIn(conn_dev_list', MasterSlots))
              /\ conn_slave_num' = Cardinality(UsedIn(conn_dev_list', SlaveSlots))
BY DEF DevInv, DevTypeOK, CountsMatch, ListOK, UsedIn, Used

(* Connections that were in the list and still have a connected entry there
   have the entry they had.                                                *)
Kept ==
  \A i \in Slots :
    conn_dev_list[i].conn_state = 1 /\ conn_dev_list'[i].conn_state = 1
      => /\ conn_dev_list'[i].conn_handle = conn_dev_list[i].conn_handle
         /\ conn_dev_list'[i].peer = conn_dev_list[i].peer

(* Both forms of insertion: the new list holds the connections of
   InsertedList, and the counter of the role moves with them.              *)
LEMMA InsertStep ==
  ASSUME DevInv, NEW h \in Handles, NEW role \in Roles, NEW p \in Peers,
         CountAdd(role, InsertedNum(role)),
         ListOK(conn_dev_list'), SameConnections(InsertedList(h, role, p), conn_dev_list')
  PROVE  DevInv' /\ Kept
<1> DEFINE l == InsertedList(h, role, p)
<1>1. /\ ListOK(l)
      /\ Cardinality(UsedIn(l, SlotsOf(role)))
           = Cardinality(Used(SlotsOf(role))) + InsertedNum(role)
      /\ \A r \in Roles \ {role} : UsedIn(l, SlotsOf(r)) = Used(SlotsOf(r))
      /\ \A i \in Slots : conn_dev_list[i].conn_state = 1 => l[i] = conn_dev_list[i]
  BY InsertedListOK DEF DevInv
<1> HIDE DEF l
<1>2. SameConnections(l, conn_dev_list')
  BY DEF l
<1>3. \A S \in SUBSET Slots : UsedIn(conn_dev_list', S) = UsedIn(l, S)
  BY <1>2 DEF SameConnections, UsedIn
<1>4. /\ conn_master_num \in Nat /\ conn_slave_num \in Nat
      /\ conn_master_num = Cardinality(Used(MasterSlots))
      /\ conn_slave_num = Cardinality(Used(SlaveSlots))
      /\ InsertedNum(role) \in {0, 1}
  BY DEF DevInv, DevTypeOK, CountsMatch, InsertedNum
<1>5. Kept
  BY <1>1, <1>2 DEF Kept, SameConnections
<1>6. CASE role = "master"
  <2>1. /\ Cardinality(UsedIn(conn_dev_list', MasterSlots))
             = Cardinality(Used(MasterSlots)) + InsertedNum(role)
        /\ UsedIn(conn_dev_list', SlaveSlots) = Used(SlaveSlots)
    BY <1>1, <1>3, <1>6, SlotFacts DEF SlotsOf, Roles
  <2>2. conn_master_num' = conn_master_num + InsertedNum(role) /\ conn_slave_num' = conn_slave_num
    BY <1>6 DEF CountAdd
  <2> QED
    BY <1>4, <1>5, <2>1, <2>2, InvAsList
<1>7. CASE role = "slave"
  <2>1. /\ Cardinality(UsedIn(conn_dev_list', SlaveSlots))
             = Cardinality(Used(SlaveSlots)) + InsertedNum(role)
        /\ UsedIn(conn_dev_list', MasterSlots) = Used(MasterSlots)
    BY <1>1, <1>3, <1>7, SlotFacts DEF SlotsOf, Roles
  <2>2. conn_slave_num' = conn_slave_num + InsertedNum(role) /\ conn_master_num' = conn_master_num
    BY <1>7 DEF CountAdd
  <2> QED
    BY <1>4, <1>5, <2>1, <2>2, InvAsList
<1> QED
  BY <1>6, <1>7 DEF Roles

(* dev_char_info_delete_*: the entry's own role says which counter goes down,
   and the halves of the list make that the right one.                     *)
LEMMA DeleteStep ==
  ASSUME DevInv, NEW match \in SUBSET Used(Slots), DeleteFirst(match)
  PROVE  DevInv' /\ Kept
<1>1. CASE match = {}
  BY <1>1 DEF DeleteFirst, DevInv, DevTypeOK, CountsMatch, Used, Kept, devVars
<1>2. CASE match # {}
  <2> DEFINE i == Least(match)
             role == conn_dev_list[i].conn_role
  <2>1. i \in Slots /\ conn_dev_list[i].conn_state = 1
    BY <1>2, LeastMember, SlotFacts DEF Used
  <2>2. /\ conn_dev_list' = [conn_dev_list EXCEPT ![i] = EmptyEntry]
        /\ CountAdd(role, -1)
    BY <1>2 DEF DeleteFirst
  <2> HIDE DEF i
  <2>3. /\ conn_dev_list \in [Slots -> Entry]
        /\ \A j \in Slots : conn_dev_list[j].conn_state = 1
                              => j \in SlotsOf(conn_dev_list[j].conn_role)
        /\ conn_master_num \in Nat /\ conn_slave_num \in Nat
        /\ conn_master_num = Cardinality(Used(MasterSlots))
        /\ conn_slave_num = Cardinality(Used(SlaveSlots))
    BY DEF DevInv, DevTypeOK, CountsMatch
  <2>4. i \in SlotsOf(role) /\ role \in Roles /\ EmptyEntry.conn_state = 0
    BY <2>1, <2>3 DEF Entry, EmptyEntry
  <2> HIDE DEF role
  <2>5. /\ \A j \in Slots : conn_dev_list'[j] = IF j = i THEN EmptyEntry ELSE conn_dev_list[j]
        /\ conn_dev_list' \in [Slots -> Entry]
    BY <2>1, <2>2, <2>3, EmptyEntryType
  <2>6. ListOK(conn_dev_list') /\ Kept
    BY <2>3, <2>4, <2>5 DEF ListOK, Kept
  <2>7. \A S \in SUBSET Slots : UsedIn(conn_dev_list', S) = Used(S) \ {i}
    BY <2>4, <2>5 DEF UsedIn, Used
  <2>8. /\ IsFiniteSet(Used(MasterSlots)) /\ IsFiniteSet(Used(SlaveSlots))
        /\ IsFiniteSet(Used(SlotsOf(role)) \ {i})
    BY SlotFacts, FS_Subset DEF Used, SlotsOf
  <2>9. /\ Cardinality(Used(SlotsOf(role)) \ {i}) \in Nat
        /\ i \in Used(SlotsOf(role))
    BY <2>1, <2>4, <2>8, FS_CardinalityType DEF Used
  <2>10. CASE role = "master"
    <3>1. SlotsOf(role) = MasterSlots
      BY <2>10 DEF SlotsOf
    <3>2. Used(SlaveSlots) \ {i} = Used(SlaveSlots)
      BY <2>4, <3>1, SlotFacts DEF Used
    <3>3. Cardinality(Used(MasterSlots) \ {i}) = conn_master_num - 1
      BY <2>3, <2>8, <2>9, <3>1, FS_RemoveElement
    <3>4. conn_master_num - 1 \in Nat
      BY <2>9, <3>1, <3>3
    <3>5. conn_master_num' = conn_master_num - 1 /\ conn_slave_num' = conn_slave_num
      BY <2>2, <2>3, <2>10 DEF CountAdd
    <3> QED
      BY <2>3, <2>6, <2>7, <3>2, <3>3, <3>4, <3>5, SlotFacts, InvAsList
  <2>11. CASE role = "slave"
    <3>1. SlotsOf(role) = SlaveSlots
      BY <2>11 DEF SlotsOf
    <3>2. Used(MasterSlots) \ {i} = Used(MasterSlots)
      BY <2>4, <3>1, SlotFacts DEF Used
    <3>3. Cardinality(Used(SlaveSlots) \ {i}) = conn_slave_num - 1
      BY <2>3, <2>8, <2>9, <3>1, FS_RemoveElement
    <3>4. conn_slave_num - 1 \in Nat
      BY <2>9, <3>1, <3>3
    <3>5. conn_slave_num' = conn_slave_num - 1 /\ conn_master_num' = conn_master_num
      BY <2>2, <2>3, <2>11 DEF CountAdd
    <3> QED
      BY <2>3, <2>6, <2>7, <3>2, <3>3, <3>4, <3>5, SlotFacts, InvAsList
  <2> QED
    BY <2>4, <2>10, <2>11 DEF Roles
<1> QED
  BY <1>1, <1>2

(* dev_char_info_add_peer_att_handle: no connection and no counter changes. *)
LEMMA AddHandleStep ==
  ASSUME DevInv, NEW h, NEW c \in PeersOrNone, AddPeerAttHandle(h, c)
  PROVE  DevInv' /\ Kept
<1>1. ListOK(conn_dev_list)
  BY DEF DevInv, DevTypeOK, ListOK
<1>2. ListOK(conn_dev_list') /\ SameConnections(conn_dev_list, conn_dev_list')
  BY <1>1, WithAttHandleSame DEF AddPeerAttHandle
<1>3. /\ UsedIn(conn_dev_list', MasterSlots) = Used(MasterSlots)
      /\ UsedIn(conn_dev_list', SlaveSlots) = Used(SlaveSlots)
  BY <1>2, SlotFacts DEF SameConnections, UsedIn, Used
<1>4. Kept
  BY <1>2 DEF SameConnections, Kept
<1> QED
  BY <1>2, <1>3, <1>4, InvAsList DEF DevInv, DevTypeOK, CountsMatch, AddPeerAttHandle

-----------------------------------------------------------------------------
LEMMA InitInv == DevInit => DevInv
<1> SUFFICES ASSUME DevInit PROVE DevInv
  OBVIOUS
<1>0. EmptyEntry.conn_state = 0
  BY DEF EmptyEntry
<1>1. Used(MasterSlots) = {} /\ Used(SlaveSlots) = {}
  <2>1. \A i \in Slots : conn_dev_list[i].conn_state = 0
    BY <1>0 DEF DevInit
  <2>2. ASSUME NEW S \in SUBSET Slots PROVE Used(S) = {}
    BY <2>1 DEF Used
  <2> QED
    BY <2>2, SlotFacts
<1>2. CountsMatch
  BY <1>1, FS_EmptySet DEF CountsMatch, DevInit
<1>3. DevTypeOK
  BY <1>0, EmptyEntryType DEF DevTypeOK, DevInit
<1> QED
  BY <1>2, <1>3 DEF DevInv

LEMMA StepInv == DevInv /\ [DevNext]_devVars => DevInv' /\ (Kept \/ UNCHANGED devVars)
<1> SUFFICES ASSUME DevInv, DevNext \/ UNCHANGED devVars
             PROVE  DevInv' /\ (Kept \/ UNCHANGED devVars)
  OBVIOUS
<1>0. \A h \in MasterHandles : h \in Handles /\ "master" \in Roles
  BY DEF Handles, Roles
<1>1. ASSUME NEW h \in Handles, NEW p \in Peers, InsertByConnEvent(h, RoleOf(h), p)
      PROVE  DevInv' /\ Kept
  <2>1. ListOK(conn_dev_list')
    BY <1>1, RoleOfType, InsertedListOK DEF InsertByConnEvent, DevInv
  <2>2. SameConnections(InsertedList(h, RoleOf(h), p), conn_dev_list')
    BY <1>1 DEF InsertByConnEvent, SameConnections
  <2> QED
    BY <1>1, <2>1, <2>2, RoleOfType, InsertStep DEF InsertByConnEvent
<1>2. ASSUME NEW h \in MasterHandles, NEW p \in Peers, NEW c \in Peers,
             InsertWithAttHandle(h, p, c)
      PROVE  DevInv' /\ Kept
  <2>1. ListOK(InsertedList(h, "master", p))
    BY <1>0, InsertedListOK DEF DevInv
  <2>2. /\ ListOK(conn_dev_list')
        /\ SameConnections(InsertedList(h, "master", p), conn_dev_list')
    <3> DEFINE l == InsertedList(h, "master", p)
               n == conn_master_num + InsertedNum("master")
    <3>1. conn_dev_list' = WithAttHandle(l, n, h, c) /\ ListOK(l) /\ c \in PeersOrNone
      BY <1>2, <2>1 DEF InsertWithAttHandle, PeersOrNone
    <3> HIDE DEF l, n
    <3>2. ListOK(conn_dev_list') /\ SameConnections(l, conn_dev_list')
      BY <3>1, WithAttHandleSame
    <3> QED
      BY <3>2 DEF l
  <2> QED
    BY <1>0, <1>2, <2>2, InsertStep DEF InsertWithAttHandle
<1>3. ASSUME NEW h \in Handles, DeleteByConnhandle(h)
      PROVE  DevInv' /\ Kept
  BY <1>3, DeleteStep DEF DeleteByConnhandle, SlotsWithHandle, Used
<1>4. ASSUME NEW p \in Peers, DeleteByPeerMac(p)
      PROVE  DevInv' /\ Kept
  BY <1>4, DeleteStep DEF DeleteByPeerMac, SlotsWithPeer, Used
<1>5. ASSUME NEW h \in HandleOrNone, NEW c \in PeersOrNone, AddPeerAttHandle(h, c)
      PROVE  DevInv' /\ Kept
  BY <1>5, AddHandleStep
<1>6. CASE UNCHANGED devVars
  BY <1>6 DEF devVars, DevInv, DevTypeOK, CountsMatch, Used
<1> QED
  BY <1>1, <1>2, <1>3, <1>4, <1>5, <1>6 DEF DevNext

(* The list has its types, and connected entries are in the half of their
   role, whatever is called.                                               *)
THEOREM ListTyped == DevSpec => []DevTypeOK
<1>1. DevInv => DevTypeOK
  BY DEF DevInv
<1> QED
  BY InitInv, StepInv, <1>1, PTL DEF DevSpec

(* conn_master_num and conn_slave_num always count the connected entries. *)
THEOREM CountersCount == DevSpec => []CountsMatch
<1>1. DevInv => CountsMatch
  BY DEF DevInv
<1> QED
  BY InitInv, StepInv, <1>1, PTL DEF DevSpec

(* No entry of a connection is ever taken over by another connection. *)
THEOREM EntriesKept == DevSpec => EntriesNotOverwritten
<1>1. DevInv /\ [DevNext]_devVars => [Kept]_devVars
  BY StepInv
<1> QED
  BY InitInv, StepInv, <1>1, PTL DEF DevSpec, EntriesNotOverwritten, Kept

-----------------------------------------------------------------------------
(* The application *)
USE ConnAssumption

ConnInv == TypeOK /\ CountsMatch

LEMMA HandleFacts ==
  /\ MasterHandles \subseteq Handles /\ SlaveHandles \subseteq Handles
  /\ Handles \subseteq HandleOrNone /\ MasterHandleOrNone \subseteq HandleOrNone
  /\ NoHandle \notin Handles
  /\ \A h \in MasterHandles : RoleOf(h) = "master"
  /\ \A h \in SlaveHandles : RoleOf(h) = "slave"
BY DEF MasterHandles, SlaveHandles, Handles, HandleOrNone, MasterHandleOrNone, NoHandle, RoleOf

(* What an event in the queue may carry. *)
LEMMA EventFacts ==
  ASSUME NEW e \in Events
  PROVE  /\ e.type = "adv" => e.peer \in Peers
         /\ e.type = "conn" => e.handle \in Handles /\ e.peer \in Peers
         /\ e.type = "disc" => e.handle \in Handles
         /\ e.type = "att" => e.handle \in MasterHandles /\ e.peer \in PeersOrNone
BY DEF Events, AdvEvent, ConnEvent, DiscEvent, AttEvent

LEMMA EventTypes ==
  /\ \A p \in Peers : AdvEvent(p) \in Events
  /\ \A h \in Handles, p \in Peers : ConnEvent(h, p) \in Events
  /\ \A h \in Handles : DiscEvent(h) \in Events
  /\ \A h \in MasterHandles, p \in PeersOrNone : AttEvent(h, p) \in Events
BY DEF Events

LEMMA HeadIsEvent ==
  ASSUME CtlTypeOK, NEW t, Deliver(t)
  PROVE  /\ Head(evq) \in Events /\ Head(evq).type = t
         /\ Tail(evq) \in Seq(Events) /\ evq' \in Seq(Events)
BY HeadTailProperties DEF CtlTypeOK, Deliver

-----------------------------------------------------------------------------
(* Every step of the application is a step of the connection list. *)
LEMMA ListStep ==
  ASSUME TypeOK, [Next]_vars
  PROVE  [DevNext]_devVars
<1> USE DEF TypeOK
<1>1. CASE UNCHANGED vars
  BY <1>1 DEF vars
<1>2. CASE Controller
  BY <1>2 DEF Controller, Advertise, EstablishMaster, EstablishSlave, LinkLoss, AnswerAtt,
              ClockExpires
<1>3. CASE OnAdvReport
  BY <1>3 DEF OnAdvReport
<1>4. CASE OnConnCompleteSlave
  <2>1. Head(evq).handle \in Handles /\ Head(evq).peer \in Peers
    BY <1>4, HeadIsEvent, EventFacts DEF OnConnCompleteSlave
  <2>2. RoleOf(Head(evq).handle) = "slave"
    BY <1>4, HandleFacts DEF OnConnCompleteSlave
  <2>3. InsertByConnEvent(Head(evq).handle, RoleOf(Head(evq).handle), Head(evq).peer)
    BY <1>4, <2>2 DEF OnConnCompleteSlave
  <2> QED
    BY <2>1, <2>3 DEF DevNext
<1>5. CASE OnConnCompleteMaster
  <2> DEFINE e == Head(evq)
  <2>1. e.handle \in MasterHandles /\ e.handle \in Handles /\ e.peer \in Peers
    BY <1>5, HeadIsEvent, EventFacts DEF OnConnCompleteMaster
  <2>2. RoleOf(e.handle) = "master"
    BY <2>1, HandleFacts
  <2>3. \/ att_flash[e.peer] # NoPeer /\ InsertWithAttHandle(e.handle, e.peer, att_flash[e.peer])
        \/ InsertByConnEvent(e.handle, "master", e.peer)
    BY <1>5 DEF OnConnCompleteMaster
  <2>4. att_flash[e.peer] # NoPeer => att_flash[e.peer] \in Peers
    BY <2>1 DEF AppTypeOK, PeersOrNone
  <2> HIDE DEF e
  <2> QED
    BY <2>1, <2>2, <2>3, <2>4 DEF DevNext
<1>6. CASE OnDisconnect
  <2>1. Head(evq).handle \in Handles
    BY <1>6, HeadIsEvent, EventFacts DEF OnDisconnect
  <2>2. DeleteByConnhandle(Head(evq).handle)
    BY <1>6 DEF OnDisconnect
  <2> QED
    BY <2>1, <2>2 DEF DevNext
<1>7. CASE OnAttData
  BY <1>7 DEF OnAttData
<1>8. CASE \E h \in Handles : SecurityDone(h) \/ PairingFail(h)
  BY <1>8 DEF SecurityDone, PairingFail
<1>9. CASE StackReturns \/ Keyboard \/ ProcUnpair
  BY <1>9 DEF StackReturns, Keyboard, KeysIgnored, PressVolume, PressPair, PressUnpair,
              ReleaseKeys, KeyScan, ProcUnpair
<1>10. CASE Service
  <2>1. CASE FinishDiscovery
    <3>1. cur_sdp_device.conn_handle \in HandleOrNone /\ discovery.source \in PeersOrNone
      BY HandleFacts DEF AppTypeOK, Discoveries
    <3> QED
      BY <2>1, <3>1 DEF FinishDiscovery, DevNext
  <2>2. CASE NoService \/ StartDiscovery \/ WaitResponse \/ DiscoveryTimeout \/ NextRequest
    BY <2>2 DEF NoService, StartDiscovery, WaitResponse, DiscoveryTimeout, NextRequest
  <2> QED
    BY <1>10, <2>1, <2>2 DEF Service
<1> QED
  BY <1>1, <1>2, <1>3, <1>4, <1>5, <1>6, <1>7, <1>8, <1>9, <1>10
     DEF Next, Callbacks, MainLoop

-----------------------------------------------------------------------------
(* The entry of a connected handle is one of the list. *)
LEMMA EntryOfType ==
  ASSUME DevTypeOK, NEW h, Connected(h)
  PROVE  EntryOf(h) \in Entry
<1>1. SlotsWithHandle(h) \in SUBSET Nat /\ SlotsWithHandle(h) # {}
  BY SlotFacts DEF SlotsWithHandle, Connected
<1>2. Least(SlotsWithHandle(h)) \in Slots
  BY <1>1, LeastMember DEF SlotsWithHandle
<1> QED
  BY <1>2 DEF EntryOf, DevTypeOK

LEMMA ChosenType ==
  ASSUME TypeOK
  PROVE  ChosenForUnpair \in HandleOrNone
<1>1. CASE Used(MasterSlots) # {}
  <2>1. Least(Used(MasterSlots)) \in Slots
    BY <1>1, LeastMember, SlotFacts DEF Used
  <2> QED
    BY <2>1 DEF ChosenForUnpair, TypeOK, DevTypeOK, AppTypeOK, Entry
<1>2. CASE Used(MasterSlots) = {}
  BY <1>2 DEF ChosenForUnpair, TypeOK, AppTypeOK
<1> QED
  BY <1>1, <1>2

(* An event joins the queue. *)
LEMMA EnqueueType ==
  ASSUME CtlTypeOK, NEW e \in Events, Enqueue(e)
  PROVE  evq' \in Seq(Events)
BY AppendProperties DEF Enqueue, CtlTypeOK

LEMMA ControllerTyped ==
  ASSUME TypeOK, Controller
  PROVE  AppTypeOK' /\ CtlTypeOK'
<1> USE DEF TypeOK
<1>1. ASSUME NEW p \in Peers, Advertise(p)
      PROVE  AppTypeOK' /\ CtlTypeOK'
  <2>1. evq' \in Seq(Events)
    BY <1>1, EventTypes, EnqueueType DEF Advertise
  <2> QED
    BY <1>1, <2>1 DEF Advertise, AppTypeOK, CtlTypeOK, pendVars, uiVars, sdpVars, reqVars, storeVars
<1>2. ASSUME NEW h \in Handles, EstablishMaster(h)
      PROVE  AppTypeOK' /\ CtlTypeOK'
  <2>1. initiating \in Peers
    BY <1>2 DEF EstablishMaster, CtlTypeOK, PeersOrNone
  <2>2. evq' \in Seq(Events)
    BY <1>2, <2>1, EventTypes, EnqueueType DEF EstablishMaster
  <2> QED
    BY <1>2, <2>1, <2>2 DEF EstablishMaster, AppTypeOK, CtlTypeOK, pendVars, uiVars, sdpVars,
                            reqVars, storeVars, PeersOrNone
<1>3. ASSUME NEW h \in Handles, NEW p \in Peers, EstablishSlave(h, p)
      PROVE  AppTypeOK' /\ CtlTypeOK'
  <2>1. evq' \in Seq(Events)
    BY <1>3, EventTypes, EnqueueType DEF EstablishSlave
  <2> QED
    BY <1>3, <2>1 DEF EstablishSlave, AppTypeOK, CtlTypeOK, pendVars, uiVars, sdpVars,
                      reqVars, storeVars, PeersOrNone
<1>4. ASSUME NEW h \in Handles, LinkLoss(h)
      PROVE  AppTypeOK' /\ CtlTypeOK'
  <2>1. evq' \in Seq(Events)
    BY <1>4, EventTypes, EnqueueType DEF LinkLoss
  <2> QED
    BY <1>4, <2>1 DEF LinkLoss, AppTypeOK, CtlTypeOK, pendVars, uiVars, sdpVars, reqVars, storeVars,
                      PeersOrNone, MasterHandleOrNone
<1>5. ASSUME NEW h \in MasterHandles, AnswerAtt(h)
      PROVE  AppTypeOK' /\ CtlTypeOK'
  <2>1. link[h] \in PeersOrNone
    BY HandleFacts DEF CtlTypeOK
  <2>2. evq' \in Seq(Events)
    BY <1>5, <2>1, EventTypes, EnqueueType DEF AnswerAtt
  <2> QED
    BY <1>5, <2>2 DEF AnswerAtt, AppTypeOK, CtlTypeOK, pendVars, uiVars, sdpVars, reqVars,
                      storeVars, MasterHandleOrNone
<1>6. CASE ClockExpires
  BY <1>6 DEF ClockExpires, AppTypeOK, CtlTypeOK, pendVars, uiVars, reqVars, storeVars, ctlVars,
              Discoveries
<1> QED
  BY <1>1, <1>2, <1>3, <1>4, <1>5, <1>6 DEF Controller

(* What the handler of a response makes of the discovery. *)
LEMMA CopiedType ==
  ASSUME discovery \in Discoveries, NEW opcode \in AttOpcodes, NEW p \in PeersOrNone
  PROVE  /\ Copied(opcode, p) \in Discoveries
         /\ Copied(opcode, p).handle = discovery.handle
         /\ Copied(opcode, p).source = IF discovery.source = NoPeer THEN p ELSE discovery.source
BY DEF Discoveries, Copied

LEMMA CallbacksTyped ==
  ASSUME TypeOK, Callbacks
  PROVE  AppTypeOK' /\ CtlTypeOK'
<1> USE DEF TypeOK
<1>1. CASE OnAdvReport
  <2>1. Head(evq).peer \in Peers /\ evq' \in Seq(Events)
    BY <1>1, HeadIsEvent, EventFacts DEF OnAdvReport
  <2> QED
    BY <1>1, <2>1 DEF OnAdvReport, Deliver, AppTypeOK, CtlTypeOK, PeersOrNone, pendVars, uiVars,
                      sdpVars, reqVars, storeVars
<1>2. CASE OnConnCompleteSlave
  <2>1. evq' \in Seq(Events)
    BY <1>2, HeadIsEvent DEF OnConnCompleteSlave
  <2> QED
    BY <1>2, <2>1 DEF OnConnCompleteSlave, Deliver, AppTypeOK, CtlTypeOK, pendVars, uiVars,
                      sdpVars, reqVars, storeVars
<1>3. CASE OnConnCompleteMaster
  <2> DEFINE e == Head(evq)
  <2>1. e.handle \in MasterHandles /\ e.peer \in Peers /\ evq' \in Seq(Events)
    BY <1>3, HeadIsEvent, EventFacts DEF OnConnCompleteMaster
  <2>2. /\ \/ master_smp_pending' = e.handle /\ securing' = securing \cup {e.handle}
           \/ UNCHANGED <<master_smp_pending, securing>>
        /\ \/ UNCHANGED <<manual_pair, bonded>>
           \/ manual_pair' = NoPeer /\ bonded' \in BondTableAdd(bonded, e.peer)
        /\ cur_sdp_device' = [conn_handle |-> e.handle, peer |-> e.peer]
        /\ \/ UNCHANGED <<master_sdp_pending, main_service>>
           \/ master_sdp_pending' = e.handle /\ main_service' = (main_service \/ ~SmpEnable)
        /\ UNCHANGED <<uiVars, discovery, reqVars, att_flash, link, requested, initiating,
                       att_request, master_disconnect_connhandle, loop>>
    BY <1>3 DEF OnConnCompleteMaster, Deliver
  <2> HIDE DEF e
  <2>3. bonded \subseteq Peers => \A b \in BondTableAdd(bonded, e.peer) : b \subseteq Peers
    BY <2>1 DEF BondTableAdd
  <2>4. /\ master_smp_pending' \in MasterHandleOrNone /\ securing' \subseteq MasterHandles
        /\ manual_pair' \in PeersOrNone /\ bonded' \subseteq Peers
        /\ cur_sdp_device' \in [conn_handle : MasterHandleOrNone, peer : PeersOrNone]
        /\ master_sdp_pending' \in MasterHandleOrNone /\ main_service' \in BOOLEAN
    BY <2>1, <2>2, <2>3 DEF AppTypeOK, MasterHandleOrNone, PeersOrNone
  <2> QED
    BY <2>1, <2>2, <2>4 DEF AppTypeOK, CtlTypeOK, uiVars, reqVars
<1>4. CASE OnDisconnect
  <2>1. evq' \in Seq(Events)
    BY <1>4, HeadIsEvent DEF OnDisconnect
  <2> QED
    BY <1>4, <2>1 DEF OnDisconnect, Deliver, ClearMark, AppTypeOK, CtlTypeOK, uiVars, sdpVars,
                      reqVars, storeVars, MasterHandleOrNone, HandleOrNone
<1>5. CASE OnAttData
  <2>1. Head(evq).peer \in PeersOrNone /\ evq' \in Seq(Events)
    BY <1>5, HeadIsEvent, EventFacts DEF OnAttData
  <2>2. /\ host_att_req_busy' \in {host_att_req_busy, NoHandle}
        /\ host_att_req_op' \in {host_att_req_op, "none"}
        /\ \/ discovery' = discovery
           \/ \E opcode \in AttOpcodes : discovery' = Copied(opcode, Head(evq).peer)
    BY <1>5 DEF OnAttData
  <2>3. discovery \in Discoveries
    BY DEF AppTypeOK
  <2>4. UNCHANGED <<pendVars, uiVars, storeVars, main_service, p_att_response,
                    master_disconnect_connhandle, manual_pair, loop, securing>>
    BY <1>5 DEF OnAttData, Deliver
  <2>5. /\ host_att_req_busy' \in MasterHandleOrNone
        /\ host_att_req_op' \in Requests \cup {"none"}
        /\ discovery' \in Discoveries
    <3>1. \A opcode \in AttOpcodes : Copied(opcode, Head(evq).peer) \in Discoveries
      BY <2>1, <2>3, CopiedType
    <3> QED
      BY <2>2, <2>3, <3>1 DEF AppTypeOK, MasterHandleOrNone
  <2>6. AppTypeOK'
    BY <2>4, <2>5 DEF AppTypeOK, pendVars, uiVars, storeVars
  <2>7. CtlTypeOK'
    BY <1>5, <2>1 DEF OnAttData, Deliver, CtlTypeOK
  <2> QED
    BY <2>6, <2>7
<1>6. ASSUME NEW h \in Handles, SecurityDone(h)
      PROVE  AppTypeOK' /\ CtlTypeOK'
  <2>1. link[h] \in Peers
    BY <1>6 DEF SecurityDone, CtlTypeOK, PeersOrNone
  <2>2. /\ master_smp_pending' \in {master_smp_pending, NoHandle}
        /\ bonded' = bonded \cup {link[h]} /\ securing' = securing \ {h}
    BY <1>6 DEF SecurityDone
  <2>3. main_service' \in BOOLEAN
    BY <1>6 DEF SecurityDone, AppTypeOK
  <2>4. UNCHANGED <<master_sdp_pending, cur_sdp_device, uiVars, discovery, reqVars, att_flash,
                    master_disconnect_connhandle, manual_pair, loop>>
    BY <1>6 DEF SecurityDone
  <2>5. /\ master_smp_pending' \in MasterHandleOrNone
        /\ bonded' \subseteq Peers /\ securing' \subseteq MasterHandles
    BY <2>1, <2>2 DEF AppTypeOK, MasterHandleOrNone
  <2>6. AppTypeOK'
    BY <2>3, <2>4, <2>5 DEF AppTypeOK, uiVars, reqVars
  <2>7. CtlTypeOK'
    BY <1>6 DEF SecurityDone, CtlTypeOK, ctlVars
  <2> QED
    BY <2>6, <2>7
<1>7. ASSUME NEW h \in Handles, PairingFail(h)
      PROVE  AppTypeOK' /\ CtlTypeOK'
  BY <1>7 DEF PairingFail, AppTypeOK, CtlTypeOK, uiVars, sdpVars, reqVars, storeVars, ctlVars,
              MasterHandleOrNone
<1> QED
  BY <1>1, <1>2, <1>3, <1>4, <1>5, <1>6, <1>7 DEF Callbacks

LEMMA KeyboardTyped ==
  ASSUME TypeOK, Keyboard
  PROVE  AppTypeOK' /\ CtlTypeOK'
<1> USE DEF TypeOK, AppTypeOK, CtlTypeOK, KeyScan, pendVars, sdpVars, reqVars, storeVars, ctlVars
<1>1. CASE KeysIgnored
  BY <1>1 DEF KeysIgnored
<1>2. CASE PressVolume \/ PressPair
  BY <1>2 DEF PressVolume, PressPair
<1>3. CASE PressUnpair
  BY <1>3, ChosenType DEF PressUnpair
<1>4. CASE ReleaseKeys
  BY <1>4 DEF ReleaseKeys, HandleOrNone
<1> QED
  BY <1>1, <1>2, <1>3, <1>4 DEF Keyboard

LEMMA UnpairTyped ==
  ASSUME TypeOK, ProcUnpair
  PROVE  AppTypeOK' /\ CtlTypeOK'
BY DEF TypeOK, AppTypeOK, CtlTypeOK, ProcUnpair, pendVars, sdpVars, reqVars, ctlVars, HandleOrNone,
       PeersOrNone

LEMMA NoDiscoveryType == NoDiscovery \in Discoveries
BY ConnAssumption DEF NoDiscovery, Discoveries, MasterHandleOrNone, PeersOrNone

LEMMA SendTyped ==
  ASSUME TypeOK, NEW h \in MasterHandles, NEW op \in Requests, NEW n \in 0 .. ATT_DB_UUID16_NUM,
         NEW p \in PeersOrNone, SendRequest(h, op, n, p)
  PROVE  /\ UNCHANGED <<main_service, pendVars>> /\ discovery' \in Discoveries
         /\ host_att_req_busy' \in MasterHandleOrNone
         /\ host_att_req_op' \in Requests \cup {"none"}
         /\ p_att_response' \in BOOLEAN
         /\ att_request' \in MasterHandleOrNone
<1>1. discovery' \in Discoveries
  BY DEF SendRequest, Discoveries, MasterHandleOrNone
<1>2. p_att_response' \in BOOLEAN
  BY Zenon DEF SendRequest
<1>3. att_request \in MasterHandleOrNone
  BY DEF TypeOK, CtlTypeOK
<1> QED
  BY <1>1, <1>2, <1>3 DEF SendRequest, MasterHandleOrNone

(* What a discovery goes on with. *)
LEMMA NextSends ==
  ASSUME TypeOK, NextRequest
  PROVE  /\ discovery.handle \in MasterHandles /\ discovery.source \in PeersOrNone
         /\ \E op \in Requests : \E n \in 0 .. ATT_DB_UUID16_NUM :
              SendRequest(discovery.handle, op, n, discovery.source)
BY DEF NextRequest, TypeOK, AppTypeOK, Discoveries, Discovering, MasterHandleOrNone

LEMMA ServiceTyped ==
  ASSUME TypeOK, Service
  PROVE  AppTypeOK' /\ CtlTypeOK'
<1> USE DEF TypeOK, ServiceFrame, uiVars, pendVars
<1>0. ASSUME NEW h \in MasterHandles, NEW op \in Requests, NEW n \in 0 .. ATT_DB_UUID16_NUM,
             NEW p \in PeersOrNone, SendRequest(h, op, n, p), ServiceFrame,
             UNCHANGED <<devVars, att_flash>>
      PROVE  AppTypeOK' /\ CtlTypeOK'
  <2>1. /\ UNCHANGED <<main_service, pendVars>> /\ discovery' \in Discoveries
        /\ host_att_req_busy' \in MasterHandleOrNone
        /\ host_att_req_op' \in Requests \cup {"none"}
        /\ p_att_response' \in BOOLEAN
        /\ att_request' \in MasterHandleOrNone
    BY <1>0, SendTyped
  <2> QED
    BY <1>0, <2>1 DEF AppTypeOK, CtlTypeOK, PeersOrNone
<1> USE DEF AppTypeOK, CtlTypeOK, sdpVars, reqVars, MasterHandleOrNone, PeersOrNone
<1>1. CASE NoService
  <2>1. main_service' \in BOOLEAN
    BY <1>1, Zenon DEF NoService
  <2> QED
    BY <1>1, <2>1 DEF NoService
<1>2. CASE StartDiscovery
  <2>1. /\ master_sdp_pending \in MasterHandles /\ "type" \in Requests /\ NoPeer \in PeersOrNone
        /\ 0 \in 0 .. ATT_DB_UUID16_NUM
    BY <1>2, ConnAssumption DEF StartDiscovery, Requests
  <2>2. SendRequest(master_sdp_pending, "type", 0, NoPeer) /\ ServiceFrame
        /\ UNCHANGED <<devVars, att_flash>>
    BY <1>2 DEF StartDiscovery
  <2> HIDE DEF TypeOK, ServiceFrame, AppTypeOK, CtlTypeOK, MasterHandleOrNone, PeersOrNone
  <2> QED
    BY <1>0, <2>1, <2>2
<1>3. CASE WaitResponse
  BY <1>3 DEF WaitResponse
<1>4. CASE DiscoveryTimeout
  <2>1. main_service' \in BOOLEAN
    BY <1>4, Zenon DEF DiscoveryTimeout, EndDiscovery
  <2> QED
    BY <1>4, <2>1, NoDiscoveryType DEF DiscoveryTimeout, EndDiscovery
<1>5. CASE NextRequest
  <2>1. ServiceFrame /\ UNCHANGED <<devVars, att_flash>>
    BY <1>5 DEF NextRequest
  <2> HIDE DEF TypeOK, ServiceFrame, AppTypeOK, CtlTypeOK, MasterHandleOrNone, PeersOrNone
  <2> QED
    BY <1>0, <1>5, <2>1, NextSends
<1>6. CASE FinishDiscovery
  <2>1. main_service' \in BOOLEAN
    BY <1>6, Zenon DEF FinishDiscovery, EndDiscovery
  <2>2. discovery.source \in PeersOrNone
    BY DEF Discoveries
  <2> QED
    BY <1>6, <2>1, <2>2, NoDiscoveryType DEF FinishDiscovery, EndDiscovery
<1> QED
  BY <1>1, <1>2, <1>3, <1>4, <1>5, <1>6 DEF Service

-----------------------------------------------------------------------------
LEMMA InitTyped == Init => ConnInv
<1> SUFFICES ASSUME Init PROVE ConnInv
  OBVIOUS
<1>1. DevInv
  BY InitInv DEF Init
<1>2. /\ main_service \in BOOLEAN /\ master_pairing_enable \in BOOLEAN
      /\ p_att_response \in BOOLEAN
  BY Zenon DEF Init
<1>3. discovery \in Discoveries
  BY NoDiscoveryType DEF Init
<1>4. AppTypeOK
  BY <1>2, <1>3 DEF Init, AppTypeOK, MasterHandleOrNone, HandleOrNone, PeersOrNone
<1>5. CtlTypeOK
  BY EmptySeq DEF Init, CtlTypeOK, MasterHandleOrNone, PeersOrNone
<1> QED
  BY <1>1, <1>4, <1>5 DEF ConnInv, TypeOK, DevInv

LEMMA StepTyped == ConnInv /\ [Next]_vars => ConnInv' /\ [DevNext]_devVars
<1> SUFFICES ASSUME ConnInv, [Next]_vars PROVE ConnInv' /\ [DevNext]_devVars
  OBVIOUS
<1>1. [DevNext]_devVars
  BY ListStep DEF ConnInv
<1>2. DevInv'
  BY <1>1, StepInv DEF ConnInv, TypeOK, DevInv
<1>3. AppTypeOK' /\ CtlTypeOK'
  <2>1. CASE Next
    <3>1. CASE StackReturns
      BY <3>1 DEF StackReturns, ConnInv, TypeOK, AppTypeOK, CtlTypeOK, pendVars, uiVars, sdpVars,
                  reqVars, storeVars, ctlVars
    <3> QED
      BY <2>1, <3>1, ControllerTyped, CallbacksTyped, KeyboardTyped, UnpairTyped, ServiceTyped
         DEF ConnInv, Next, MainLoop
  <2>2. CASE UNCHANGED vars
    BY <2>2 DEF vars, ConnInv, TypeOK, AppTypeOK, CtlTypeOK, pendVars, uiVars, sdpVars,
                reqVars, storeVars, ctlVars
  <2> QED
    BY <2>1, <2>2
<1> QED
  BY <1>1, <1>2, <1>3 DEF ConnInv, TypeOK, DevInv

(* Every variable keeps its type: no handle of the wrong role is ever marked,
   no event is malformed, no discovery counts more reports than it has room for. *)
THEOREM Typed == Spec => []TypeOK
<1>1. ConnInv => TypeOK
  BY DEF ConnInv
<1> QED
  BY InitTyped, StepTyped, <1>1, PTL DEF Spec

(* The application uses the connection list only as the list's own
   specification allows, whatever the order of the callbacks.              *)
THEOREM UsesList == Spec => DevSpec
<1>1. Init => DevInit
  BY DEF Init
<1> QED
  BY InitTyped, StepTyped, <1>1, PTL DEF Spec, DevSpec

(* Hence the counters are right for the application too. *)
THEOREM AppCountersCount == Spec => []CountsMatch
BY UsesList, CountersCount

(* An un_pair flow is never chosen while another is being disconnected. *)
THEOREM OneUnpair == Spec => []OneUnpairAtATime
<1>1. Init => OneUnpairAtATime
  BY DEF Init, OneUnpairAtATime
<1>2. OneUnpairAtATime /\ [Next]_vars => OneUnpairAtATime'
  <2> SUFFICES ASSUME OneUnpairAtATime, [Next]_vars PROVE OneUnpairAtATime'
    OBVIOUS
  <2> USE DEF OneUnpairAtATime
  <2>1. CASE UNCHANGED vars
    BY <2>1 DEF vars, uiVars
  <2>2. CASE Controller
    BY <2>2 DEF Controller, Advertise, EstablishMaster, EstablishSlave, LinkLoss, AnswerAtt,
                ClockExpires, uiVars
  <2>3. CASE Callbacks
    BY <2>3 DEF Callbacks, OnAdvReport, OnConnCompleteSlave, OnConnCompleteMaster, OnAttData,
                OnDisconnect, ClearMark, SecurityDone, PairingFail, uiVars
  <2>4. CASE Keyboard
    BY <2>4 DEF Keyboard, KeysIgnored, PressVolume, PressPair, PressUnpair, ReleaseKeys, KeyScan,
                ChosenForUnpair
  <2>5. CASE StackReturns \/ ProcUnpair
    BY <2>5 DEF StackReturns, ProcUnpair, uiVars
  <2>6. CASE Service
    BY <2>6 DEF Service, NoService, StartDiscovery, WaitResponse, DiscoveryTimeout, NextRequest,
                FinishDiscovery, ServiceFrame, uiVars
  <2> QED
    BY <2>1, <2>2, <2>3, <2>4, <2>5, <2>6 DEF Next, MainLoop
<1> QED
  BY <1>1, <1>2, PTL DEF Spec

-----------------------------------------------------------------------------
(***************************************************************************)
(* One connection at a time.  The marks are looked at when an advertising  *)
(* report is handled, and set when the connection it led to is reported.   *)
(* In between the handler may run again.  That it finds nothing to accept  *)
(* then is not kept by the marks but by the controller, which reports no   *)
(* advertising while it is initiating, and by a pass of the stack's loop   *)
(* leaving no report behind in its queue (DrainsEvents).                   *)
(***************************************************************************)
Waiting == 1 .. Len(evq)
MasterConnAt(j) == evq[j].type = "conn" /\ evq[j].handle \in MasterHandles
AdvAt(j) == evq[j].type = "adv"

OneComing ==
  /\ requested = NoPeer \/ initiating = NoPeer
  /\ Initiating => \A j \in Waiting : ~MasterConnAt(j)
  /\ \A i, j \in Waiting : MasterConnAt(i) /\ MasterConnAt(j) => i = j

NoStaleReport ==
  /\ \A i, j \in Waiting : AdvAt(i) /\ MasterConnAt(j) => j < i
  /\ initiating # NoPeer \/ (requested # NoPeer /\ loop # "stack")
       => \A j \in Waiting : ~AdvAt(j)

NoMarkYet ==
  Initiating \/ (\E j \in Waiting : MasterConnAt(j))
    => master_smp_pending = NoHandle /\ master_sdp_pending = NoHandle

SmpOff == SmpEnable \/ master_smp_pending = NoHandle

ComingInv == OneComing /\ NoStaleReport /\ NoMarkYet /\ SmpOff /\ SecuringIsMarked

LEMMA TailFacts ==
  ASSUME CtlTypeOK, NEW t, Deliver(t)
  PROVE  /\ Len(evq) \in Nat \ {0} /\ evq[1] = Head(evq) /\ evq[1].type = t
         /\ Len(evq') = Len(evq) - 1
         /\ \A i \in Waiting' : i + 1 \in Waiting /\ evq'[i] = evq[i + 1]
<1>1. evq \in Seq(Events) /\ evq # <<>> /\ evq' = Tail(evq)
  BY DEF CtlTypeOK, Deliver
<1>2. Len(evq) \in Nat \ {0}
  BY <1>1, EmptySeq
<1>3. Len(evq') = Len(evq) - 1 /\ \A i \in 1 .. Len(evq') : evq'[i] = evq[i + 1]
  BY <1>1, HeadTailProperties
<1>4. evq[1] = Head(evq)
  BY <1>1
<1> QED
  BY <1>2, <1>3, <1>4 DEF Waiting, Deliver

LEMMA AppendFacts ==
  ASSUME CtlTypeOK, NEW e \in Events, Enqueue(e)
  PROVE  /\ Len(evq) \in Nat /\ Len(evq') = Len(evq) + 1
         /\ \A i \in Waiting : i \in Waiting' /\ evq'[i] = evq[i]
         /\ evq'[Len(evq')] = e
<1>1. evq \in Seq(Events) /\ evq' = Append(evq, e)
  BY DEF CtlTypeOK, Enqueue
<1>2. Len(evq) \in Nat
  BY <1>1
<1> QED
  BY <1>1, <1>2, AppendProperties DEF Waiting

LEMMA ComingController ==
  ASSUME TypeOK, ComingInv, Controller
  PROVE  ComingInv'
<1> USE DEF TypeOK, ComingInv, OneComing, NoStaleReport, NoMarkYet, SmpOff, SecuringIsMarked,
            Waiting, MasterConnAt, AdvAt, Initiating, pendVars
<1>1. ASSUME NEW p \in Peers, Advertise(p)
      PROVE  ComingInv'
  <2>1. /\ Len(evq) \in Nat /\ Len(evq') = Len(evq) + 1
        /\ \A i \in Waiting : evq'[i] = evq[i]
        /\ evq'[Len(evq')].type = "adv"
    BY <1>1, EventTypes, AppendFacts DEF Advertise, AdvEvent
  <2> QED
    BY <1>1, <2>1 DEF Advertise
<1>2. ASSUME NEW h \in Handles, EstablishMaster(h)
      PROVE  ComingInv'
  <2>1. initiating \in Peers
    BY <1>2 DEF EstablishMaster, CtlTypeOK, PeersOrNone
  <2>2. /\ Len(evq) \in Nat /\ Len(evq') = Len(evq) + 1
        /\ \A i \in Waiting : evq'[i] = evq[i]
        /\ evq'[Len(evq')].type = "conn"
    BY <1>2, <2>1, EventTypes, AppendFacts DEF EstablishMaster, ConnEvent
  <2> QED
    BY <1>2, <2>2 DEF EstablishMaster
<1>3. ASSUME NEW h \in Handles, NEW p \in Peers, EstablishSlave(h, p)
      PROVE  ComingInv'
  <2>1. /\ Len(evq) \in Nat /\ Len(evq') = Len(evq) + 1
        /\ \A i \in Waiting : evq'[i] = evq[i]
        /\ evq'[Len(evq')].type = "conn" /\ evq'[Len(evq')].handle = h
    BY <1>3, EventTypes, AppendFacts DEF EstablishSlave, ConnEvent
  <2>2. h \notin MasterHandles
    BY <1>3 DEF EstablishSlave, SlaveHandles, MasterHandles
  <2> QED
    BY <1>3, <2>1, <2>2 DEF EstablishSlave
<1>4. ASSUME NEW h \in Handles, LinkLoss(h)
      PROVE  ComingInv'
  <2>1. /\ Len(evq) \in Nat /\ Len(evq') = Len(evq) + 1
        /\ \A i \in Waiting : evq'[i] = evq[i]
        /\ evq'[Len(evq')].type = "disc"
    BY <1>4, EventTypes, AppendFacts DEF LinkLoss, DiscEvent
  <2> QED
    BY <1>4, <2>1 DEF LinkLoss
<1>5. ASSUME NEW h \in MasterHandles, AnswerAtt(h)
      PROVE  ComingInv'
  <2>1. link[h] \in PeersOrNone
    BY HandleFacts DEF CtlTypeOK
  <2>2. /\ Len(evq) \in Nat /\ Len(evq') = Len(evq) + 1
        /\ \A i \in Waiting : evq'[i] = evq[i]
        /\ evq'[Len(evq')].type = "att"
    BY <1>5, <2>1, EventTypes, AppendFacts DEF AnswerAtt, AttEvent
  <2>3. UNCHANGED <<requested, initiating, master_smp_pending, master_sdp_pending, securing, loop>>
    BY <1>5 DEF AnswerAtt
  <2> QED
    BY <2>2, <2>3, SMTT(30)
<1>6. CASE ClockExpires
  BY <1>6 DEF ClockExpires, ctlVars
<1> QED
  BY <1>1, <1>2, <1>3, <1>4, <1>5, <1>6 DEF Controller

(* What is left of the queue when its first event is taken was in it before. *)
LEMMA TailClaims ==
  ASSUME TypeOK, ComingInv, NEW t, Deliver(t)
  PROVE  /\ \A i, j \in Waiting' : MasterConnAt(i)' /\ MasterConnAt(j)' => i = j
         /\ \A i, j \in Waiting' : AdvAt(i)' /\ MasterConnAt(j)' => j < i
         /\ \A j \in Waiting' : MasterConnAt(j)' => \E m \in Waiting : MasterConnAt(m)
         /\ \A j \in Waiting' : AdvAt(j)' => \E m \in Waiting : AdvAt(m)
<1>1. ASSUME NEW i \in Waiting'
      PROVE  \E k \in Waiting : i \in Nat /\ k = i + 1 /\ evq'[i] = evq[k]
  <2>1. i + 1 \in Waiting /\ evq'[i] = evq[i + 1]
    BY TailFacts DEF TypeOK
  <2>2. i \in Nat
    BY DEF Waiting
  <2> QED
    BY <2>1, <2>2
<1>2. ASSUME NEW i \in Waiting', NEW j \in Waiting', MasterConnAt(i)', MasterConnAt(j)'
      PROVE  i = j
  <2>1. PICK k \in Waiting : i \in Nat /\ k = i + 1 /\ evq'[i] = evq[k]
    BY <1>1
  <2>2. PICK m \in Waiting : j \in Nat /\ m = j + 1 /\ evq'[j] = evq[m]
    BY <1>1
  <2>3. MasterConnAt(k) /\ MasterConnAt(m)
    BY <1>2, <2>1, <2>2 DEF MasterConnAt
  <2>4. k = m
    BY <2>3 DEF ComingInv, OneComing
  <2> QED
    BY <2>1, <2>2, <2>4
<1>3. ASSUME NEW i \in Waiting', NEW j \in Waiting', AdvAt(i)', MasterConnAt(j)'
      PROVE  j < i
  <2>1. PICK k \in Waiting : i \in Nat /\ k = i + 1 /\ evq'[i] = evq[k]
    BY <1>1
  <2>2. PICK m \in Waiting : j \in Nat /\ m = j + 1 /\ evq'[j] = evq[m]
    BY <1>1
  <2>3. AdvAt(k) /\ MasterConnAt(m)
    BY <1>3, <2>1, <2>2 DEF AdvAt, MasterConnAt
  <2>4. m < k
    BY <2>3 DEF ComingInv, NoStaleReport
  <2> QED
    BY <2>1, <2>2, <2>4
<1>4. ASSUME NEW j \in Waiting'
      PROVE  \E m \in Waiting : (MasterConnAt(j)' => MasterConnAt(m)) /\ (AdvAt(j)' => AdvAt(m))
  <2>1. PICK m \in Waiting : evq'[j] = evq[m]
    BY <1>1
  <2> QED
    BY <2>1 DEF MasterConnAt, AdvAt
<1> QED
  BY <1>2, <1>3, <1>4

(* An event whose handler leaves the connections under way as they are *)
LEMMA ComingTail ==
  ASSUME TypeOK, ComingInv, NEW t, Deliver(t), UNCHANGED <<initiating, requested, securing>>,
         UNCHANGED <<master_smp_pending, master_sdp_pending>>
  PROVE  ComingInv'
<1>1. loop' = loop /\ (Initiating' <=> Initiating)
  BY DEF Deliver, Initiating
<1>2. OneComing'
  BY <1>1, TailClaims DEF ComingInv, OneComing
<1>3. NoStaleReport'
  BY <1>1, TailClaims DEF ComingInv, NoStaleReport
<1>4. NoMarkYet'
  BY <1>1, TailClaims DEF ComingInv, NoMarkYet
<1>5. SmpOff' /\ SecuringIsMarked'
  BY DEF ComingInv, SmpOff, SecuringIsMarked
<1> QED
  BY <1>2, <1>3, <1>4, <1>5 DEF ComingInv

(* A report that is delivered and answered with a connection command: none was
   under way, and the stack's loop has not returned yet.                     *)
LEMMA ComingReport ==
  ASSUME TypeOK, ComingInv, OnAdvReport
  PROVE  ComingInv'
<1>1. Deliver("adv") /\ loop = "stack" /\ loop' = "stack"
  BY DEF OnAdvReport, Deliver
<1>2. AdvAt(1) /\ 1 \in Waiting
  BY <1>1, TailFacts DEF TypeOK, AdvAt, Waiting
<1>3. \A m \in Waiting : ~MasterConnAt(m)
  <2>1. \A m \in Waiting : MasterConnAt(m) => m < 1
    BY <1>2 DEF ComingInv, NoStaleReport
  <2> QED
    BY <2>1 DEF Waiting
<1>4. initiating = NoPeer
  BY <1>2 DEF ComingInv, NoStaleReport
<1>5. UNCHANGED <<initiating, master_smp_pending, master_sdp_pending, securing>>
  BY DEF OnAdvReport, pendVars
<1>6. requested' # requested => master_smp_pending = NoHandle /\ master_sdp_pending = NoHandle
  <2>1. requested' # requested => ~ConnectionBusy
    BY DEF OnAdvReport
  <2> QED
    BY <2>1 DEF ConnectionBusy, ComingInv, SmpOff
<1>7. \A j \in Waiting' : ~MasterConnAt(j)'
  BY <1>1, <1>3, TailClaims
<1>8. OneComing'
  BY <1>4, <1>5, <1>7 DEF OneComing
<1>9. NoStaleReport'
  BY <1>1, <1>4, <1>5, <1>7 DEF NoStaleReport
<1>10. NoMarkYet'
  BY <1>5, <1>6, <1>7 DEF ComingInv, NoMarkYet, Initiating
<1>11. SmpOff' /\ SecuringIsMarked'
  BY <1>5 DEF ComingInv, SmpOff, SecuringIsMarked
<1> QED
  BY <1>8, <1>9, <1>10, <1>11 DEF ComingInv

(* The callbacks, with the event each of them takes *)
LEMMA ComingCallbacks ==
  ASSUME TypeOK, ComingInv, Callbacks
  PROVE  ComingInv'
<1> USE DEF TypeOK, ComingInv, OneComing, NoStaleReport, NoMarkYet, SmpOff, SecuringIsMarked,
            Waiting, MasterConnAt, AdvAt, Initiating, pendVars
<1>1. CASE OnAdvReport
  BY <1>1, ComingReport
<1>2. CASE OnConnCompleteSlave
  <2>1. Deliver("conn") /\ UNCHANGED <<initiating, requested, securing>>
    BY <1>2 DEF OnConnCompleteSlave
  <2>2. UNCHANGED <<master_smp_pending, master_sdp_pending>>
    BY <1>2 DEF OnConnCompleteSlave
  <2> QED
    BY <2>1, <2>2, ComingTail
<1>3. CASE OnConnCompleteMaster
  <2>1. /\ Len(evq) \in Nat \ {0} /\ evq[1] = Head(evq) /\ evq[1].type = "conn"
        /\ Len(evq') = Len(evq) - 1
        /\ \A i \in Waiting' : i + 1 \in Waiting /\ evq'[i] = evq[i + 1]
    BY <1>3, TailFacts DEF OnConnCompleteMaster
  <2>2. MasterConnAt(1) /\ 1 \in Waiting
    BY <1>3, <2>1 DEF OnConnCompleteMaster
  <2>3. ~Initiating /\ master_smp_pending = NoHandle /\ UNCHANGED <<requested, initiating, loop>>
    BY <1>3, <2>2 DEF OnConnCompleteMaster, Deliver
  <2>4. securing = {}
    BY <2>3, HandleFacts DEF AppTypeOK
  <2>5. \A j \in Waiting' : ~MasterConnAt(j)'
    BY <2>1, <2>2
  <2>6. SecuringIsMarked' /\ SmpOff'
    BY <1>3, <2>3, <2>4 DEF OnConnCompleteMaster
  <2> QED
    BY <2>3, <2>5, <2>6
<1>4. CASE OnDisconnect
  <2>1. /\ Len(evq) \in Nat \ {0} /\ Len(evq') = Len(evq) - 1
        /\ \A i \in Waiting' : i + 1 \in Waiting /\ evq'[i] = evq[i + 1]
    BY <1>4, TailFacts DEF OnDisconnect
  <2>2. SecuringIsMarked'
    BY <1>4 DEF OnDisconnect, ClearMark
  <2> QED
    BY <1>4, <2>1, <2>2 DEF OnDisconnect, Deliver, ClearMark
<1>5. CASE OnAttData
  <2>1. Deliver("att") /\ UNCHANGED <<initiating, requested, securing>>
    BY <1>5 DEF OnAttData
  <2>2. UNCHANGED <<master_smp_pending, master_sdp_pending>>
    BY <1>5 DEF OnAttData
  <2> QED
    BY <2>1, <2>2, ComingTail
<1>6. ASSUME NEW h \in Handles, SecurityDone(h) \/ PairingFail(h)
      PROVE  ComingInv'
  BY <1>6 DEF SecurityDone, PairingFail, ctlVars
<1> QED
  BY <1>1, <1>2, <1>3, <1>4, <1>5, <1>6 DEF Callbacks

LEMMA ComingMainLoop ==
  ASSUME DrainsEvents, TypeOK, ComingInv, MainLoop
  PROVE  ComingInv'
<1> USE DEF TypeOK, ComingInv, OneComing, NoStaleReport, NoMarkYet, SmpOff, SecuringIsMarked,
            Waiting, MasterConnAt, AdvAt, Initiating, pendVars, ctlVars
<1>1. CASE StackReturns
  <2>1. Waiting = {} /\ UNCHANGED <<pendVars, ctlVars, securing>>
    BY <1>1 DEF StackReturns
  <2> QED
    BY <2>1
<1>2. CASE Keyboard \/ ProcUnpair
  BY <1>2 DEF Keyboard, KeysIgnored, PressVolume, PressPair, PressUnpair, ReleaseKeys, KeyScan,
              ProcUnpair
<1>3. CASE Service
  <2>1. /\ loop = "service" /\ loop' = "stack" /\ UNCHANGED <<evq, securing>>
        /\ initiating' = IF requested # NoPeer THEN requested ELSE initiating
        /\ requested' = NoPeer
    BY <1>3 DEF Service, NoService, StartDiscovery, WaitResponse, DiscoveryTimeout, NextRequest,
                FinishDiscovery, ServiceFrame
  <2>2. /\ master_smp_pending' = master_smp_pending
        /\ master_sdp_pending' \in {master_sdp_pending, NoHandle}
    BY <1>3 DEF Service, NoService, StartDiscovery, WaitResponse, DiscoveryTimeout, NextRequest,
                FinishDiscovery, SendRequest, EndDiscovery
  <2> QED
    BY <2>1, <2>2
<1> QED
  BY <1>1, <1>2, <1>3 DEF MainLoop

LEMMA ComingInit == Init => ComingInv
BY DEF Init, ComingInv, OneComing, NoStaleReport, NoMarkYet, SmpOff, SecuringIsMarked,
       Waiting, Initiating

LEMMA ComingStep ==
  ASSUME DrainsEvents, ConnInv, ComingInv, [Next]_vars
  PROVE  ComingInv'
<1>1. CASE UNCHANGED vars
  BY <1>1 DEF vars, pendVars, ctlVars, ComingInv, OneComing, NoStaleReport, NoMarkYet, SmpOff,
              SecuringIsMarked, Waiting, MasterConnAt, AdvAt, Initiating
<1> QED
  BY <1>1, ComingController, ComingCallbacks, ComingMainLoop DEF Next, ConnInv

(* Two security processes never run together and no mark is overwritten: the
   connection whose process runs is always the one that is marked.         *)
THEOREM OneSecuring ==
  ASSUME DrainsEvents
  PROVE  Spec => []SecuringIsMarked
<1>1. ConnInv /\ ComingInv /\ [Next]_vars => ComingInv'
  BY ComingStep
<1>2. ComingInv => SecuringIsMarked
  BY DEF ComingInv
<1> QED
  BY InitTyped, StepTyped, ComingInit, <1>1, <1>2, PTL DEF Spec

-----------------------------------------------------------------------------
(***************************************************************************)
(* The list and the controller.  The events of a handle that wait in the   *)
(* queue lead from what the list has for it to what the controller has:    *)
(* connections and disconnections in turn, the first one fitting the list, *)
(* the last one the link.                                                  *)
(***************************************************************************)
(* Event e tells that handle h has been connected or that its link has ended. *)
IsChange(e, h) == e.handle = h /\ e.type \in {"conn", "disc"}
Changes(q, h) == {j \in 1 .. Len(q) : IsChange(q[j], h)}

IsFirst(C, j) == \A k \in C : j <= k
IsLast(C, j) == \A k \in C : k <= j
Adjacent(C, i, j) == i < j /\ \A k \in C : ~(i < k /\ k < j)

(* The changes of h in queue q turn peer a of h into peer b. *)
LeadsTo(q, h, a, b) ==
  LET C == Changes(q, h)
  IN  /\ C = {} => a = b
      /\ \A j \in C : IsFirst(C, j) => (q[j].type = "conn" <=> a = NoPeer)
      /\ \A i, j \in C : Adjacent(C, i, j) => q[i].type # q[j].type
      /\ \A j \in C : IsLast(C, j) => q[j].peer = b

(* A disconnection carries no peer, a connection one. *)
LEMMA ChangePeer ==
  ASSUME NEW e \in Events, NEW h, IsChange(e, h)
  PROVE  (e.type = "conn" <=> e.peer # NoPeer) /\ (e.type = "disc" <=> e.type # "conn")
<1>1. CASE e.type = "conn"
  <2>1. e.peer \in Peers
    BY <1>1, EventFacts
  <2> QED
    BY <1>1, <2>1
<1>2. CASE e.type = "disc"
  <2>1. e.peer = NoPeer
    BY <1>2 DEF Events, AdvEvent, ConnEvent, DiscEvent, AttEvent
  <2> QED
    BY <1>2, <2>1
<1> QED
  BY <1>1, <1>2 DEF IsChange

(* The changes of a handle when an event joins the queue, and when the first one
   leaves it.                                                              *)
GrownBy(q, e, h, r) ==
  /\ \A j \in Changes(q, h) : r[j] = q[j]
  /\ r[Len(q) + 1] = e
  /\ Changes(r, h) = Changes(q, h) \cup (IF IsChange(e, h) THEN {Len(q) + 1} ELSE {})

LEMMA ChangesOfAppend ==
  ASSUME NEW q \in Seq(Events), NEW e \in Events, NEW h, NEW r, r = Append(q, e)
  PROVE  /\ Len(q) \in Nat /\ Changes(q, h) \subseteq 1 .. Len(q)
         /\ GrownBy(q, e, h, r)
<1> DEFINE n == Len(q)
<1>1. n \in Nat
  OBVIOUS
<1>2. Len(r) = n + 1 /\ r[n + 1] = e /\ \A j \in 1 .. n : r[j] = q[j]
  BY AppendProperties
<1> HIDE DEF n
<1>3. Changes(q, h) = {j \in 1 .. n : IsChange(q[j], h)}
  BY DEF Changes, n
<1>4. Changes(r, h) = {j \in 1 .. n + 1 : IsChange(r[j], h)}
  BY <1>2 DEF Changes
<1>5. 1 .. n + 1 = (1 .. n) \cup {n + 1}
  BY <1>1
<1>6. Changes(r, h) = Changes(q, h) \cup (IF IsChange(e, h) THEN {n + 1} ELSE {})
  BY <1>1, <1>2, <1>3, <1>4, <1>5
<1> QED
  BY <1>1, <1>2, <1>3, <1>6 DEF n, GrownBy

(* A queue with changes has a last one. *)
LEMMA LastChange ==
  ASSUME NEW q \in Seq(Events), NEW h, Changes(q, h) # {}
  PROVE  \E j \in Changes(q, h) : IsLast(Changes(q, h), j)
<1> DEFINE n == Len(q)
           S == {i \in Nat : \E j \in Changes(q, h) : i = n - j}
<1>1. n \in Nat
  OBVIOUS
<1>2. Changes(q, h) \subseteq 1 .. n
  BY DEF Changes
<1> HIDE DEF n
<1>3. \A j \in Changes(q, h) : n - j \in S
  BY <1>1, <1>2
<1>4. S \in SUBSET Nat /\ S # {}
  BY <1>3
<1> HIDE DEF S
<1>5. PICK m \in S : \A i \in S : m <= i
  BY <1>4, LeastExists
<1>6. PICK j \in Changes(q, h) : m = n - j
  BY <1>5 DEF S
<1>7. \A k \in Changes(q, h) : n - j <= n - k
  BY <1>3, <1>5, <1>6
<1> QED
  BY <1>1, <1>2, <1>6, <1>7 DEF IsLast

(* An event that is no change of the handle joins the queue. *)
LEMMA LeadsAppendOther ==
  ASSUME NEW q \in Seq(Events), NEW e \in Events, NEW h, NEW a, NEW b,
         LeadsTo(q, h, a, b), ~IsChange(e, h), NEW r, r = Append(q, e)
  PROVE  LeadsTo(r, h, a, b)
<1> DEFINE C == Changes(q, h)
           D == Changes(r, h)
<1>1. C = D /\ \A j \in C : q[j] = r[j]
  <2>1. GrownBy(q, e, h, r)
    BY ChangesOfAppend
  <2>2. D = C
    BY <2>1 DEF GrownBy
  <2>3. \A j \in C : r[j] = q[j]
    BY <2>1 DEF GrownBy
  <2> QED
    BY <2>2, <2>3
<1>2. /\ C = {} => a = b
      /\ \A j \in C : IsFirst(C, j) => (q[j].type = "conn" <=> a = NoPeer)
      /\ \A i, j \in C : Adjacent(C, i, j) => q[i].type # q[j].type
      /\ \A j \in C : IsLast(C, j) => q[j].peer = b
  BY DEF LeadsTo
<1> HIDE DEF C, D
<1>3. \A j \in D : IsFirst(D, j) => (r[j].type = "conn" <=> a = NoPeer)
  BY <1>1, <1>2
<1>4. \A i, j \in D : Adjacent(D, i, j) => r[i].type # r[j].type
  <2> SUFFICES ASSUME NEW i \in D, NEW j \in D, Adjacent(D, i, j) PROVE r[i].type # r[j].type
    OBVIOUS
  <2>1. q[i].type # q[j].type
    BY <1>1, <1>2
  <2> QED
    BY <1>1, <2>1
<1>5. \A j \in D : IsLast(D, j) => r[j].peer = b
  BY <1>1, <1>2
<1>6. D = {} => a = b
  BY <1>1, <1>2
<1> QED
  BY <1>3, <1>4, <1>5, <1>6 DEF LeadsTo, D

(* The controller connects a handle that has no link, or ends a link. *)
LEMMA LeadsAppendChange ==
  ASSUME NEW q \in Seq(Events), NEW e \in Events, NEW h, NEW a, NEW b,
         LeadsTo(q, h, a, b), IsChange(e, h), e.type = "conn" <=> b = NoPeer,
         NEW r, r = Append(q, e)
  PROVE  LeadsTo(r, h, a, e.peer)
<1> DEFINE n == Len(q) + 1
           C == Changes(q, h)
           D == Changes(r, h)
<1>1. /\ n \in Nat /\ D = C \cup {n} /\ r[n] = e /\ n \notin C
      /\ \A j \in C : r[j] = q[j] /\ j \in Nat /\ j < n /\ q[j] \in Events /\ IsChange(q[j], h)
  <2>1. /\ Len(q) \in Nat /\ C \subseteq 1 .. Len(q)
        /\ \A j \in C : q[j] \in Events /\ IsChange(q[j], h)
    BY ElementOfSeq DEF Changes
  <2>2. GrownBy(q, e, h, r)
    BY ChangesOfAppend
  <2>3. D = C \cup {n}
    BY <2>2 DEF GrownBy
  <2>4. (\A j \in C : r[j] = q[j]) /\ r[n] = e
    BY <2>2 DEF GrownBy
  <2> HIDE DEF D
  <2>5. n \in Nat /\ \A j \in C : j \in Nat /\ j < n
    BY <2>1
  <2> QED
    BY <2>1, <2>3, <2>4, <2>5
<1>2. /\ C = {} => a = b
      /\ \A j \in C : IsFirst(C, j) => (q[j].type = "conn" <=> a = NoPeer)
      /\ \A i, j \in C : Adjacent(C, i, j) => q[i].type # q[j].type
      /\ \A j \in C : IsLast(C, j) => q[j].peer = b
  BY DEF LeadsTo
<1>3. C # {} => \E j \in C : IsLast(C, j)
  BY LastChange
<1> HIDE DEF n, C, D
<1>4. \A j \in D : IsFirst(D, j) => (r[j].type = "conn" <=> a = NoPeer)
  <2> SUFFICES ASSUME NEW j \in D, IsFirst(D, j)
               PROVE  r[j].type = "conn" <=> a = NoPeer
    OBVIOUS
  <2>1. CASE C = {}
    BY <1>1, <1>2, <2>1
  <2>2. CASE C # {}
    <3>1. j \in C /\ IsFirst(C, j)
      BY <1>1, <2>2 DEF IsFirst
    <3>2. q[j].type = "conn" <=> a = NoPeer
      BY <1>2, <3>1
    <3> QED
      BY <1>1, <3>1, <3>2
  <2> QED
    BY <2>1, <2>2
<1>5. \A i, j \in D : Adjacent(D, i, j) => r[i].type # r[j].type
  <2> SUFFICES ASSUME NEW i \in D, NEW j \in D, Adjacent(D, i, j)
               PROVE  r[i].type # r[j].type
    OBVIOUS
  <2>1. i \in C
    BY <1>1 DEF Adjacent
  <2>2. CASE j \in C
    <3>1. Adjacent(C, i, j)
      BY <1>1 DEF Adjacent
    <3>2. q[i].type # q[j].type
      BY <1>2, <2>1, <2>2, <3>1
    <3> QED
      BY <1>1, <2>1, <2>2, <3>2
  <2>3. CASE j = n
    <3>1. IsLast(C, i)
      BY <1>1, <2>1, <2>3 DEF Adjacent, IsLast
    <3>2. q[i].peer = b
      BY <1>2, <2>1, <3>1
    <3>3. q[i].type = "conn" <=> b # NoPeer
      BY <1>1, <2>1, <3>2, ChangePeer
    <3>4. (q[i].type = "disc" <=> q[i].type # "conn") /\ (e.type = "disc" <=> e.type # "conn")
      BY <1>1, <2>1, ChangePeer
    <3>5. r[i] = q[i] /\ r[j] = e
      BY <1>1, <2>1, <2>3
    <3> QED
      BY <3>3, <3>4, <3>5
  <2> QED
    BY <1>1, <2>2, <2>3
<1>6. \A j \in D : IsLast(D, j) => r[j].peer = e.peer
  <2>1. \A j \in D : IsLast(D, j) => j = n
    BY <1>1 DEF IsLast
  <2> QED
    BY <1>1, <2>1
<1>7. D # {}
  BY <1>1
<1> QED
  BY <1>4, <1>5, <1>6, <1>7 DEF LeadsTo, D

LEMMA ChangesOfTail ==
  ASSUME NEW q \in Seq(Events), q # <<>>, NEW h, NEW r, r = Tail(q)
  PROVE  /\ Changes(q, h) \subseteq Nat \ {0} /\ Changes(r, h) \subseteq Nat \ {0}
         /\ q[1] = Head(q)
         /\ 1 \in Changes(q, h) => IsChange(Head(q), h)
         /\ IsChange(Head(q), h) => 1 \in Changes(q, h)
         /\ \A j \in Nat \ {0} : j \in Changes(r, h) <=> j + 1 \in Changes(q, h)
         /\ \A j \in Changes(r, h) : r[j] = q[j + 1]
<1> DEFINE n == Len(q)
<1>1. n \in Nat \ {0} /\ q[1] = Head(q)
  BY EmptySeq
<1>2. Len(r) = n - 1 /\ \A j \in 1 .. n - 1 : r[j] = q[j + 1]
  BY HeadTailProperties
<1> HIDE DEF n
<1>3. Changes(q, h) = {j \in 1 .. n : IsChange(q[j], h)}
  BY DEF Changes, n
<1>4. Changes(r, h) = {j \in 1 .. n - 1 : IsChange(r[j], h)}
  BY <1>2 DEF Changes
<1>5. \A j \in Nat \ {0} : j \in 1 .. n - 1 <=> j + 1 \in 1 .. n
  BY <1>1 DEF IsFirst, IsLast, Adjacent
<1>6. \A j \in Nat \ {0} : j \in Changes(r, h) <=> j + 1 \in Changes(q, h)
  BY <1>2, <1>3, <1>4, <1>5
<1> QED
  BY <1>1, <1>2, <1>3, <1>4, <1>6

MovedUp(q, h, r) == \A j \in Changes(r, h) : r[j] = q[j + 1]

(* The last fact alone. *)
LEMMA TailMovesUp ==
  ASSUME NEW q \in Seq(Events), q # <<>>, NEW h, NEW r, r = Tail(q)
  PROVE  MovedUp(q, h, r)
<1>1. /\ Len(q) \in Nat \ {0}
      /\ Len(r) = Len(q) - 1 /\ \A j \in 1 .. Len(q) - 1 : r[j] = q[j + 1]
  BY EmptySeq, HeadTailProperties
<1> QED
  BY <1>1 DEF MovedUp, Changes

(* The first change, two that follow one another and the last one are so in the
   tail too.                                                               *)
LEMMA ShiftedOrder ==
  ASSUME NEW C \in SUBSET (Nat \ {0}), NEW D \in SUBSET (Nat \ {0}),
         \A j \in Nat \ {0} : j \in D <=> j + 1 \in C
  PROVE  /\ \A k \in C : k # 1 => k - 1 \in D
         /\ \A j \in D : j + 1 \in C
         /\ \A j \in D : 1 \notin C /\ IsFirst(D, j) => IsFirst(C, j + 1)
         /\ \A j \in D : 1 \in C /\ IsFirst(D, j) => Adjacent(C, 1, j + 1)
         /\ \A i, j \in D : Adjacent(D, i, j) => Adjacent(C, i + 1, j + 1)
         /\ \A j \in D : IsLast(D, j) => IsLast(C, j + 1)
<1>1. ASSUME NEW k \in C, k # 1 PROVE k - 1 \in D
  <2>1. k - 1 \in Nat \ {0} /\ (k - 1) + 1 = k
    BY <1>1
  <2> QED
    BY <2>1
<1>2. ASSUME NEW j \in D PROVE j + 1 \in C /\ j \in Nat /\ j > 0
  OBVIOUS
<1>3. ASSUME NEW j \in D, IsFirst(D, j), NEW k \in C, k # 1 PROVE j + 1 <= k
  <2>1. j <= k - 1 /\ k \in Nat
    BY <1>1, <1>3 DEF IsFirst
  <2> QED
    BY <1>2, <2>1
<1>4. ASSUME NEW j \in D, 1 \notin C, IsFirst(D, j) PROVE IsFirst(C, j + 1)
  BY <1>3, <1>4 DEF IsFirst
<1>5. ASSUME NEW j \in D, 1 \in C, IsFirst(D, j) PROVE Adjacent(C, 1, j + 1)
  <2>1. 1 < j + 1
    BY <1>2
  <2>2. ASSUME NEW k \in C, 1 < k, k < j + 1 PROVE FALSE
    <3>1. j + 1 <= k
      BY <1>3, <1>5, <2>2
    <3> QED
      BY <1>2, <2>2, <3>1
  <2> QED
    BY <2>1, <2>2 DEF Adjacent
<1>6. ASSUME NEW i \in D, NEW j \in D, Adjacent(D, i, j) PROVE Adjacent(C, i + 1, j + 1)
  <2>1. i + 1 < j + 1
    BY <1>2, <1>6 DEF Adjacent
  <2>2. ASSUME NEW k \in C, i + 1 < k, k < j + 1 PROVE FALSE
    <3>1. k # 1 /\ i < k - 1 /\ k - 1 < j
      BY <1>2, <2>2
    <3> QED
      BY <1>1, <1>6, <3>1 DEF Adjacent
  <2> QED
    BY <2>1, <2>2 DEF Adjacent
<1>7. ASSUME NEW j \in D, IsLast(D, j) PROVE IsLast(C, j + 1)
  <2>1. ASSUME NEW k \in C PROVE k <= j + 1
    <3>1. k # 1 => k - 1 <= j
      BY <1>1, <1>7 DEF IsLast
    <3> QED
      BY <1>2, <3>1
  <2> QED
    BY <2>1 DEF IsLast
<1> QED
  BY <1>1, <1>2, <1>4, <1>5, <1>6, <1>7

(* An event that is no change of the handle leaves the queue. *)
LEMMA LeadsTailOther ==
  ASSUME NEW q \in Seq(Events), q # <<>>, NEW h, NEW a, NEW b,
         LeadsTo(q, h, a, b), ~IsChange(Head(q), h), NEW r, r = Tail(q)
  PROVE  LeadsTo(r, h, a, b)
<1> DEFINE C == Changes(q, h)
           D == Changes(r, h)
<1>1. C \in SUBSET (Nat \ {0}) /\ D \in SUBSET (Nat \ {0}) /\ 1 \notin C
  BY ChangesOfTail
<1>2. \A j \in Nat \ {0} : j \in D <=> j + 1 \in C
  BY ChangesOfTail
<1>3. \A j \in D : r[j] = q[j + 1]
  <2>1. MovedUp(q, h, r)
    BY TailMovesUp
  <2> QED
    BY <2>1 DEF MovedUp
<1>4. /\ C = {} => a = b
      /\ \A j \in C : IsFirst(C, j) => (q[j].type = "conn" <=> a = NoPeer)
      /\ \A i, j \in C : Adjacent(C, i, j) => q[i].type # q[j].type
      /\ \A j \in C : IsLast(C, j) => q[j].peer = b
  BY DEF LeadsTo
<1> HIDE DEF C, D
<1>5. /\ \A k \in C : k # 1 => k - 1 \in D
      /\ \A j \in D : j + 1 \in C
      /\ \A j \in D : IsFirst(D, j) => IsFirst(C, j + 1)
      /\ \A i, j \in D : Adjacent(D, i, j) => Adjacent(C, i + 1, j + 1)
      /\ \A j \in D : IsLast(D, j) => IsLast(C, j + 1)
  BY <1>1, <1>2, ShiftedOrder
<1>6. D = {} => a = b
  BY <1>1, <1>4, <1>5
<1>7. \A j \in D : IsFirst(D, j) => (r[j].type = "conn" <=> a = NoPeer)
  <2> SUFFICES ASSUME NEW j \in D, IsFirst(D, j)
               PROVE  r[j].type = "conn" <=> a = NoPeer
    OBVIOUS
  <2>1. j + 1 \in C /\ IsFirst(C, j + 1)
    BY <1>5
  <2>2. q[j + 1].type = "conn" <=> a = NoPeer
    BY <1>4, <2>1
  <2> QED
    BY <1>3, <2>2
<1>8. \A i, j \in D : Adjacent(D, i, j) => r[i].type # r[j].type
  <2> SUFFICES ASSUME NEW i \in D, NEW j \in D, Adjacent(D, i, j)
               PROVE  r[i].type # r[j].type
    OBVIOUS
  <2>1. i + 1 \in C /\ j + 1 \in C /\ Adjacent(C, i + 1, j + 1)
    BY <1>5
  <2>2. q[i + 1].type # q[j + 1].type
    BY <1>4, <2>1
  <2> QED
    BY <1>3, <2>2
<1>9. \A j \in D : IsLast(D, j) => r[j].peer = b
  <2> SUFFICES ASSUME NEW j \in D, IsLast(D, j)
               PROVE  r[j].peer = b
    OBVIOUS
  <2>1. j + 1 \in C /\ IsLast(C, j + 1)
    BY <1>5
  <2>2. q[j + 1].peer = b
    BY <1>4, <2>1
  <2> QED
    BY <1>3, <2>2
<1> QED
  BY <1>6, <1>7, <1>8, <1>9 DEF LeadsTo, D

(* The list takes over the first change. *)
LEMMA LeadsTailChange ==
  ASSUME NEW q \in Seq(Events), q # <<>>, NEW h, NEW a, NEW b,
         LeadsTo(q, h, a, b), IsChange(Head(q), h), NEW r, r = Tail(q)
  PROVE  /\ Head(q).type = "conn" <=> a = NoPeer
         /\ LeadsTo(r, h, Head(q).peer, b)
<1> DEFINE C == Changes(q, h)
           D == Changes(r, h)
           e == Head(q)
<1>1. C \in SUBSET (Nat \ {0}) /\ D \in SUBSET (Nat \ {0}) /\ 1 \in C /\ q[1] = e
  BY ChangesOfTail
<1>2. \A j \in Nat \ {0} : j \in D <=> j + 1 \in C
  BY ChangesOfTail
<1>3. \A j \in D : r[j] = q[j + 1]
  <2>1. MovedUp(q, h, r)
    BY TailMovesUp
  <2> QED
    BY <2>1 DEF MovedUp
<1>4. /\ \A j \in C : IsFirst(C, j) => (q[j].type = "conn" <=> a = NoPeer)
      /\ \A i, j \in C : Adjacent(C, i, j) => q[i].type # q[j].type
      /\ \A j \in C : IsLast(C, j) => q[j].peer = b
  BY DEF LeadsTo
<1>5. e \in Events /\ \A j \in C : IsChange(q[j], h)
  BY HeadTailProperties DEF Changes
<1>6. e.type = "conn" <=> e.peer # NoPeer
  BY <1>5, ChangePeer
<1>7. \A j \in C : q[j].type = "conn" \/ q[j].type = "disc"
  BY <1>5 DEF IsChange
<1> HIDE DEF C, D, e
<1>8. /\ \A k \in C : k # 1 => k - 1 \in D
      /\ \A j \in D : j + 1 \in C
      /\ \A j \in D : IsFirst(D, j) => Adjacent(C, 1, j + 1)
      /\ \A i, j \in D : Adjacent(D, i, j) => Adjacent(C, i + 1, j + 1)
      /\ \A j \in D : IsLast(D, j) => IsLast(C, j + 1)
  BY <1>1, <1>2, ShiftedOrder
<1>9. e.type = "conn" <=> a = NoPeer
  <2>1. IsFirst(C, 1)
    BY <1>1 DEF IsFirst
  <2> QED
    BY <1>1, <1>4, <2>1
<1>10. D = {} => e.peer = b
  <2>1. D = {} => IsLast(C, 1)
    BY <1>1, <1>8 DEF IsLast
  <2> QED
    BY <1>1, <1>4, <2>1
<1>11. \A j \in D : IsFirst(D, j) => (r[j].type = "conn" <=> e.peer = NoPeer)
  <2> SUFFICES ASSUME NEW j \in D, IsFirst(D, j)
               PROVE  r[j].type = "conn" <=> e.peer = NoPeer
    OBVIOUS
  <2>1. j + 1 \in C /\ Adjacent(C, 1, j + 1)
    BY <1>8
  <2>2. q[j + 1].type # e.type
    BY <1>1, <1>4, <2>1
  <2>3. \/ q[j + 1].type = "conn" /\ e.type = "disc"
        \/ q[j + 1].type = "disc" /\ e.type = "conn"
    BY <1>1, <1>7, <2>1, <2>2
  <2> QED
    BY <1>3, <1>6, <2>3
<1>12. \A i, j \in D : Adjacent(D, i, j) => r[i].type # r[j].type
  <2> SUFFICES ASSUME NEW i \in D, NEW j \in D, Adjacent(D, i, j)
               PROVE  r[i].type # r[j].type
    OBVIOUS
  <2>1. i + 1 \in C /\ j + 1 \in C /\ Adjacent(C, i + 1, j + 1)
    BY <1>8
  <2>2. q[i + 1].type # q[j + 1].type
    BY <1>4, <2>1
  <2> QED
    BY <1>3, <2>2
<1>13. \A j \in D : IsLast(D, j) => r[j].peer = b
  <2> SUFFICES ASSUME NEW j \in D, IsLast(D, j)
               PROVE  r[j].peer = b
    OBVIOUS
  <2>1. j + 1 \in C /\ IsLast(C, j + 1)
    BY <1>8
  <2>2. q[j + 1].peer = b
    BY <1>4, <2>1
  <2> QED
    BY <1>3, <2>2
<1>14. LeadsTo(r, h, e.peer, b)
  BY <1>10, <1>11, <1>12, <1>13 DEF LeadsTo, D
<1> QED
  BY <1>9, <1>14 DEF e

-----------------------------------------------------------------------------
(* What a list has for a handle. *)
Occupied(l, h) == {i \in Slots : l[i].conn_handle = h /\ l[i].conn_state = 1}
PeerIn(l, h) == IF Occupied(l, h) = {} THEN NoPeer ELSE l[CHOOSE i \in Occupied(l, h) : TRUE].peer

(* Every connection has one entry, in the half of its role; entries that are not
   connected have no handle.                                               *)
InPlace(l) ==
  \A i \in Slots : l[i].conn_state = 1 =>
    /\ l[i].conn_handle \in Handles /\ l[i].peer \in Peers
    /\ i \in MasterSlots <=> l[i].conn_handle \in MasterHandles
Unique(l) ==
  \A i, j \in Slots : l[i].conn_state = 1 /\ l[j].conn_state = 1
                      /\ l[i].conn_handle = l[j].conn_handle => i = j
NoneInEmpty(l) == \A i \in Slots : l[i].conn_state # 1 => l[i].conn_handle = NoHandle
OneEach(l) == InPlace(l) /\ Unique(l) /\ NoneInEmpty(l)

(* The list m has p for handle h and what l has for the others. *)
Differs(l, m, h, p) == PeerIn(m, h) = p /\ \A g \in Handles \ {h} : PeerIn(m, g) = PeerIn(l, g)

LEMMA PeerOfSlot ==
  ASSUME NEW l, OneEach(l), NEW i \in Slots, l[i].conn_state = 1
  PROVE  /\ Occupied(l, l[i].conn_handle) = {i}
         /\ PeerIn(l, l[i].conn_handle) = l[i].peer /\ l[i].peer \in Peers
<1>1. Occupied(l, l[i].conn_handle) = {i} /\ l[i].peer \in Peers
  BY DEF Occupied, OneEach, InPlace, Unique, NoneInEmpty
<1> QED
  BY <1>1 DEF PeerIn

LEMMA PeerFacts ==
  ASSUME NEW l, OneEach(l), NEW h
  PROVE  /\ PeerIn(l, h) \in PeersOrNone
         /\ PeerIn(l, h) # NoPeer <=> Occupied(l, h) # {}
<1>1. CASE Occupied(l, h) = {}
  BY <1>1 DEF PeerIn, PeersOrNone
<1>2. CASE Occupied(l, h) # {}
  <2>1. PICK i \in Slots : l[i].conn_state = 1 /\ l[i].conn_handle = h
    BY <1>2 DEF Occupied
  <2>2. PeerIn(l, h) \in Peers
    BY <2>1, PeerOfSlot
  <2> QED
    BY <1>2, <2>2 DEF PeersOrNone
<1> QED
  BY <1>1, <1>2

LEMMA SamePeers ==
  ASSUME NEW l, NEW m, OneEach(l), SameConnections(l, m)
  PROVE  OneEach(m) /\ \A h : PeerIn(m, h) = PeerIn(l, h)
<1>1. OneEach(m)
  BY DEF OneEach, InPlace, Unique, NoneInEmpty, SameConnections
<1>2. ASSUME NEW h PROVE PeerIn(m, h) = PeerIn(l, h)
  <2>1. Occupied(m, h) = Occupied(l, h)
    BY DEF Occupied, SameConnections
  <2>2. ASSUME NEW i \in Occupied(l, h) PROVE m[i].peer = l[i].peer
    BY DEF Occupied, SameConnections
  <2> QED
    BY <2>1, <2>2 DEF PeerIn
<1> QED
  BY <1>1, <1>2

(* A list in which the entry of one slot is another connection's, or none. *)
LEMMA PeersOfNew ==
  ASSUME NEW l, OneEach(l), NEW m, NEW i \in Slots, NEW h \in Handles, NEW p \in Peers,
         \A j \in Slots \ {i} : m[j] = l[j],
         l[i].conn_state # 1, Occupied(l, h) = {},
         m[i].conn_state = 1, m[i].conn_handle = h, m[i].peer = p,
         i \in MasterSlots <=> h \in MasterHandles
  PROVE  OneEach(m) /\ Differs(l, m, h, p)
<1>1. \A j \in Slots : l[j].conn_state = 1 => l[j].conn_handle # h /\ m[j] = l[j]
  BY DEF Occupied
<1>2. OneEach(m)
  BY <1>1 DEF OneEach, InPlace, Unique, NoneInEmpty
<1>3. PeerIn(m, h) = p
  BY <1>2, PeerOfSlot
<1>4. ASSUME NEW g \in Handles \ {h} PROVE PeerIn(m, g) = PeerIn(l, g)
  <2>1. Occupied(m, g) = Occupied(l, g)
    BY <1>1 DEF Occupied
  <2>2. ASSUME NEW j \in Occupied(l, g) PROVE m[j].peer = l[j].peer
    BY <1>1 DEF Occupied
  <2> QED
    BY <2>1, <2>2 DEF PeerIn
<1> QED
  BY <1>2, <1>3, <1>4 DEF Differs

LEMMA PeersOfEmptied ==
  ASSUME NEW l, OneEach(l), NEW m, NEW i \in Slots, NEW h \in Handles,
         \A j \in Slots \ {i} : m[j] = l[j],
         l[i].conn_state = 1, l[i].conn_handle = h, m[i] = EmptyEntry
  PROVE  OneEach(m) /\ Differs(l, m, h, NoPeer)
<1>1. m[i].conn_state = 0 /\ m[i].conn_handle = NoHandle
  BY DEF EmptyEntry
<1>2. OneEach(m)
  <2>1. \A j \in Slots : m[j].conn_state = 1 => j # i /\ m[j] = l[j] /\ l[j].conn_state = 1
    BY <1>1
  <2>2. \A j \in Slots : m[j].conn_state # 1 => m[j].conn_handle = NoHandle
    BY <1>1 DEF OneEach, InPlace, Unique, NoneInEmpty
  <2>3. ASSUME NEW j \in Slots, m[j].conn_state = 1
        PROVE  /\ m[j].conn_handle \in Handles /\ m[j].peer \in Peers
               /\ j \in MasterSlots <=> m[j].conn_handle \in MasterHandles
    <3>1. m[j] = l[j] /\ l[j].conn_state = 1
      BY <2>1, <2>3
    <3>2. /\ l[j].conn_handle \in Handles /\ l[j].peer \in Peers
          /\ j \in MasterSlots <=> l[j].conn_handle \in MasterHandles
      BY <3>1 DEF OneEach, InPlace, Unique, NoneInEmpty
    <3> QED
      BY <3>1, <3>2
  <2>4. ASSUME NEW j \in Slots, NEW k \in Slots, m[j].conn_state = 1, m[k].conn_state = 1,
               m[j].conn_handle = m[k].conn_handle
        PROVE  j = k
    <3>1. m[j] = l[j] /\ m[k] = l[k] /\ l[j].conn_state = 1 /\ l[k].conn_state = 1
      BY <2>1, <2>4
    <3> QED
      BY <2>4, <3>1 DEF OneEach, InPlace, Unique, NoneInEmpty
  <2>5. InPlace(m)
    BY <2>3 DEF InPlace
  <2>6. Unique(m)
    BY <2>4 DEF Unique
  <2> QED
    BY <2>2, <2>5, <2>6 DEF OneEach, NoneInEmpty
<1>3. Occupied(l, h) = {i}
  BY PeerOfSlot
<1>4. Occupied(m, h) = {}
  BY <1>1, <1>3 DEF Occupied
<1>5. ASSUME NEW g \in Handles \ {h} PROVE PeerIn(m, g) = PeerIn(l, g)
  <2>1. Occupied(m, g) = Occupied(l, g)
    BY <1>1 DEF Occupied
  <2>2. ASSUME NEW j \in Occupied(l, g) PROVE m[j].peer = l[j].peer
    <3>1. j # i /\ j \in Slots
      BY DEF Occupied
    <3> QED
      BY <3>1
  <2> QED
    BY <2>1, <2>2 DEF PeerIn
<1> QED
  BY <1>2, <1>4, <1>5 DEF Differs, PeerIn

(* A role has as many handles as slots: a handle that is not in the list finds
   a free slot.                                                            *)
LEMMA RoomFor ==
  ASSUME DevTypeOK, OneEach(conn_dev_list), NEW h \in Handles, Occupied(conn_dev_list, h) = {}
  PROVE  Free(SlotsOf(RoleOf(h))) # {}
<1> DEFINE l == conn_dev_list
           S == SlotsOf(RoleOf(h))
           H == IF h \in MasterHandles THEN MasterHandles ELSE SlaveHandles
           T == H \ {h}
           f == [i \in S |-> l[i].conn_handle]
<1>1. SUFFICES ASSUME Free(S) = {} PROVE FALSE
  OBVIOUS
<1>2. S \subseteq Slots /\ IsFiniteSet(S)
  BY SlotFacts DEF SlotsOf
<1>3. /\ IsFiniteSet(H) /\ h \in H /\ Cardinality(H) \in Nat
      /\ Cardinality(H) = Cardinality(S)
  <2>1. CASE h \in MasterHandles
    <3>1. S = 0 .. MASTER_MAX_NUM - 1 /\ H = 1 .. MASTER_MAX_NUM
      BY <2>1 DEF SlotsOf, RoleOf, MasterSlots, MasterHandles
    <3>2. /\ IsFiniteSet(1 .. MASTER_MAX_NUM)
          /\ Cardinality(1 .. MASTER_MAX_NUM)
               = IF 1 > MASTER_MAX_NUM THEN 0 ELSE MASTER_MAX_NUM - 1 + 1
          /\ Cardinality(0 .. MASTER_MAX_NUM - 1)
               = IF 0 > MASTER_MAX_NUM - 1 THEN 0 ELSE MASTER_MAX_NUM - 1 - 0 + 1
      BY FS_Interval
    <3> QED
      BY <2>1, <3>1, <3>2
  <2>2. CASE h \notin MasterHandles
    <3> DEFINE a == MASTER_MAX_NUM
               b == SLAVE_MAX_NUM
    <3>1. S = a .. a + b - 1 /\ H = a + 1 .. a + b /\ h \in SlaveHandles
      BY <2>2 DEF SlotsOf, RoleOf, SlaveSlots, SlaveHandles, Handles
    <3>2. /\ IsFiniteSet(a + 1 .. a + b)
          /\ Cardinality(a + 1 .. a + b) = IF a + 1 > a + b THEN 0 ELSE a + b - (a + 1) + 1
          /\ Cardinality(a .. a + b - 1) = IF a > a + b - 1 THEN 0 ELSE a + b - 1 - a + 1
      BY FS_Interval
    <3>3. h \in H
      BY <2>2, <3>1
    <3> QED
      BY <3>1, <3>2, <3>3
  <2> QED
    BY <2>1, <2>2
<1>4. IsFiniteSet(T) /\ Cardinality(T) = Cardinality(H) - 1
  BY <1>3, FS_RemoveElement
<1>5. \A i \in S : l[i].conn_state = 1
  <2>1. \A i \in S : l[i].conn_state \in {0, 1}
    BY <1>2 DEF DevTypeOK, Entry
  <2> QED
    BY <1>1, <2>1 DEF Free
<1>6. ASSUME NEW i \in S PROVE l[i].conn_handle \in T
  <2>1. l[i].conn_handle # h
    BY <1>2, <1>5 DEF Occupied
  <2>2. l[i].conn_handle \in Handles /\ (i \in MasterSlots <=> l[i].conn_handle \in MasterHandles)
    BY <1>2, <1>5 DEF OneEach, InPlace, Unique, NoneInEmpty
  <2>3. CASE h \in MasterHandles
    <3>1. i \in MasterSlots
      BY <2>3 DEF SlotsOf, RoleOf
    <3> QED
      BY <2>1, <2>2, <2>3, <3>1
  <2>4. CASE h \notin MasterHandles
    <3>1. i \in SlaveSlots /\ i \notin MasterSlots
      BY <2>4, SlotFacts DEF SlotsOf, RoleOf
    <3> QED
      BY <2>1, <2>2, <2>4, <3>1 DEF Handles
  <2> QED
    BY <2>3, <2>4
<1>7. f \in [S -> T]
  BY <1>6
<1>8. \A i, j \in S : f[i] = f[j] => i = j
  BY <1>2, <1>5 DEF OneEach, InPlace, Unique, NoneInEmpty
<1> HIDE DEF S, H, T, f
<1>9. Cardinality(T) < Cardinality(S)
  BY <1>3, <1>4
<1> QED
  BY <1>2, <1>4, <1>7, <1>8, <1>9, FS_PigeonHole

(* The two calls of the connection complete handler enter the connection. *)
LEMMA InsertTracked ==
  ASSUME DevTypeOK, OneEach(conn_dev_list), NEW h \in Handles, NEW p \in Peers,
         PeerIn(conn_dev_list, h) = NoPeer,
         \/ InsertByConnEvent(h, RoleOf(h), p)
         \/ \E c \in PeersOrNone : RoleOf(h) = "master" /\ InsertWithAttHandle(h, p, c)
  PROVE  OneEach(conn_dev_list') /\ Differs(conn_dev_list, conn_dev_list', h, p)
<1> DEFINE l == conn_dev_list
           role == RoleOf(h)
           m == InsertedList(h, role, p)
           i == Least(Free(SlotsOf(role)))
<1>1. Occupied(l, h) = {}
  BY PeerFacts
<1>2. Free(SlotsOf(role)) # {}
  BY <1>1, RoomFor
<1>3. i \in SlotsOf(role) /\ i \in Slots /\ l[i].conn_state = 0
  <2>1. Free(SlotsOf(role)) \subseteq SlotsOf(role) /\ SlotsOf(role) \subseteq Slots
    BY SlotFacts DEF Free, SlotsOf
  <2>2. i \in Free(SlotsOf(role))
    BY <1>2, <2>1, SlotFacts, LeastMember
  <2> QED
    BY <2>1, <2>2 DEF Free
<1>4. m = [l EXCEPT ![i] = NewEntry(h, role, p)]
  BY <1>2 DEF InsertedList
<1>5. i \in MasterSlots <=> h \in MasterHandles
  BY <1>3, SlotFacts DEF SlotsOf, RoleOf
<1>6. ListOK(m)
  BY RoleOfType, InsertedListOK
<1>7. /\ NewEntry(h, role, p).conn_state = 1 /\ NewEntry(h, role, p).conn_handle = h
      /\ NewEntry(h, role, p).peer = p
  BY DEF NewEntry
<1>8. l \in [Slots -> Entry]
  BY DEF DevTypeOK
<1> HIDE DEF l, role, m, i
<1>9. m[i] = NewEntry(h, role, p) /\ \A j \in Slots \ {i} : m[j] = l[j]
  BY <1>3, <1>4, <1>8
<1>10. OneEach(m) /\ Differs(l, m, h, p)
  <2>1. OneEach(l)
    BY DEF l
  <2> QED
    BY <1>1, <1>3, <1>5, <1>7, <1>9, <2>1, PeersOfNew
<1>11. SameConnections(m, conn_dev_list')
  <2>1. CASE InsertByConnEvent(h, RoleOf(h), p)
    BY <2>1 DEF InsertByConnEvent, SameConnections, m, role
  <2>2. ASSUME NEW c \in PeersOrNone, role = "master", InsertWithAttHandle(h, p, c)
        PROVE  SameConnections(m, conn_dev_list')
    <3> DEFINE n == conn_master_num + InsertedNum("master")
    <3>1. conn_dev_list' = WithAttHandle(m, n, h, c)
      BY <2>2 DEF InsertWithAttHandle, m
    <3> HIDE DEF n
    <3> QED
      BY <1>6, <3>1, WithAttHandleSame
  <2> QED
    BY <2>1, <2>2 DEF role
<1>12. OneEach(conn_dev_list') /\ \A g : PeerIn(conn_dev_list', g) = PeerIn(m, g)
  BY <1>10, <1>11, SamePeers
<1> QED
  BY <1>10, <1>12 DEF Differs, l

(* The call of the disconnection handler takes the entry out. *)
LEMMA DeleteTracked ==
  ASSUME DevTypeOK, OneEach(conn_dev_list), NEW h \in Handles,
         PeerIn(conn_dev_list, h) # NoPeer, DeleteByConnhandle(h)
  PROVE  OneEach(conn_dev_list') /\ Differs(conn_dev_list, conn_dev_list', h, NoPeer)
<1>1. SlotsWithHandle(h) = Occupied(conn_dev_list, h)
  BY DEF SlotsWithHandle, Occupied
<1>2. SlotsWithHandle(h) # {}
  BY <1>1, PeerFacts
<1> DEFINE i == Least(SlotsWithHandle(h))
<1>3. i \in Slots /\ conn_dev_list[i].conn_state = 1 /\ conn_dev_list[i].conn_handle = h
  <2>1. i \in SlotsWithHandle(h)
    BY <1>2, SlotFacts, LeastMember DEF SlotsWithHandle
  <2> QED
    BY <2>1 DEF SlotsWithHandle
<1>4. conn_dev_list' = [conn_dev_list EXCEPT ![i] = EmptyEntry]
  BY <1>2 DEF DeleteByConnhandle, DeleteFirst
<1> HIDE DEF i
<1>5. conn_dev_list'[i] = EmptyEntry /\ \A j \in Slots \ {i} : conn_dev_list'[j] = conn_dev_list[j]
  BY <1>3, <1>4 DEF DevTypeOK
<1> QED
  BY <1>3, <1>5, PeersOfEmptied

-----------------------------------------------------------------------------
(* The list has one entry for each connection, and the waiting events lead from
   the list to the links.                                                  *)
TrackInv ==
  /\ OneEach(conn_dev_list)
  /\ \A h \in Handles : LeadsTo(evq, h, PeerIn(conn_dev_list, h), link[h])

(* A step that keeps the list's connections, the queue and the links. *)
LEMMA TrackSame ==
  ASSUME TrackInv, SameConnections(conn_dev_list, conn_dev_list'), UNCHANGED <<evq, link>>
  PROVE  TrackInv'
<1>1. OneEach(conn_dev_list') /\ \A h : PeerIn(conn_dev_list', h) = PeerIn(conn_dev_list, h)
  BY SamePeers DEF TrackInv
<1> QED
  BY <1>1 DEF TrackInv

(* The controller reports something that is no change of a connection. *)
LEMMA TrackReport ==
  ASSUME CtlTypeOK, TrackInv, UNCHANGED <<conn_dev_list, link>>, NEW e \in Events,
         e.type \notin {"conn", "disc"}, Enqueue(e)
  PROVE  TrackInv'
<1>1. ASSUME NEW h \in Handles PROVE LeadsTo(evq', h, PeerIn(conn_dev_list, h), link[h])
  <2>1. ~IsChange(e, h)
    BY DEF IsChange
  <2>2. LeadsTo(evq, h, PeerIn(conn_dev_list, h), link[h]) /\ evq \in Seq(Events)
    BY DEF TrackInv, CtlTypeOK
  <2> QED
    BY <2>1, <2>2, LeadsAppendOther DEF Enqueue
<1> QED
  BY <1>1 DEF TrackInv

(* The controller reports that it has connected a handle or ended its link. *)
LEMMA TrackChange ==
  ASSUME CtlTypeOK, TrackInv, UNCHANGED conn_dev_list, NEW h \in Handles, NEW e \in Events,
         IsChange(e, h), e.type = "conn" <=> link[h] = NoPeer,
         link' = [link EXCEPT ![h] = e.peer], Enqueue(e)
  PROVE  TrackInv'
<1>1. ASSUME NEW g \in Handles PROVE LeadsTo(evq', g, PeerIn(conn_dev_list, g), link'[g])
  <2>1. /\ LeadsTo(evq, g, PeerIn(conn_dev_list, g), link[g])
        /\ evq \in Seq(Events) /\ evq' = Append(evq, e)
        /\ link'[g] = IF g = h THEN e.peer ELSE link[g]
    BY DEF TrackInv, CtlTypeOK, Enqueue
  <2>2. CASE g = h
    BY <2>1, <2>2, LeadsAppendChange
  <2>3. CASE g # h
    <3>1. ~IsChange(e, g)
      BY <2>3 DEF IsChange
    <3> QED
      BY <2>1, <2>3, <3>1, LeadsAppendOther
  <2> QED
    BY <2>2, <2>3
<1> QED
  BY <1>1 DEF TrackInv

(* The host is told something else. *)
LEMMA TrackOther ==
  ASSUME CtlTypeOK, TrackInv, UNCHANGED <<conn_dev_list, link>>,
         NEW t, t \notin {"conn", "disc"}, Deliver(t)
  PROVE  TrackInv'
<1>1. ASSUME NEW h \in Handles PROVE LeadsTo(evq', h, PeerIn(conn_dev_list, h), link[h])
  <2>1. ~IsChange(Head(evq), h)
    BY DEF IsChange, Deliver
  <2>2. /\ LeadsTo(evq, h, PeerIn(conn_dev_list, h), link[h])
        /\ evq \in Seq(Events) /\ evq # <<>> /\ evq' = Tail(evq)
    BY DEF TrackInv, CtlTypeOK, Deliver
  <2> QED
    BY <2>1, <2>2, LeadsTailOther
<1> QED
  BY <1>1 DEF TrackInv

(* Before it is told of a change of a handle, its list fits the change. *)
LEMMA HeadFits ==
  ASSUME CtlTypeOK, TrackInv, NEW t \in {"conn", "disc"}, Deliver(t)
  PROVE  /\ Head(evq) \in Events /\ Head(evq).handle \in Handles
         /\ t = "conn" => /\ Head(evq).peer \in Peers
                          /\ PeerIn(conn_dev_list, Head(evq).handle) = NoPeer
         /\ t = "disc" => /\ Head(evq).peer = NoPeer
                          /\ PeerIn(conn_dev_list, Head(evq).handle) # NoPeer
<1> DEFINE e == Head(evq)
           h == e.handle
<1>1. e \in Events /\ e.type = t
  BY HeadIsEvent
<1>2. h \in Handles /\ IsChange(e, h)
  BY <1>1, EventFacts DEF IsChange
<1>3. evq \in Seq(Events) /\ evq # <<>> /\ evq' = Tail(evq)
  BY DEF CtlTypeOK, Deliver
<1>4. LeadsTo(evq, h, PeerIn(conn_dev_list, h), link[h])
  BY <1>2 DEF TrackInv
<1>5. e.type = "conn" <=> PeerIn(conn_dev_list, h) = NoPeer
  BY <1>2, <1>3, <1>4, LeadsTailChange
<1>6. (e.type = "conn" <=> e.peer # NoPeer) /\ (t = "conn" => e.peer \in Peers)
  BY <1>1, <1>2, ChangePeer, EventFacts
<1> QED
  BY <1>1, <1>2, <1>5, <1>6

(* The host has followed the change. *)
LEMMA TrackFollowed ==
  ASSUME CtlTypeOK, TrackInv, UNCHANGED link, NEW t \in {"conn", "disc"}, Deliver(t),
         OneEach(conn_dev_list'),
         Differs(conn_dev_list, conn_dev_list', Head(evq).handle, Head(evq).peer)
  PROVE  TrackInv'
<1> DEFINE e == Head(evq)
           h == e.handle
<1>1. h \in Handles /\ IsChange(e, h)
  BY HeadFits, HeadIsEvent DEF IsChange
<1>2. evq \in Seq(Events) /\ evq # <<>> /\ evq' = Tail(evq)
  BY DEF CtlTypeOK, Deliver
<1>3. ASSUME NEW g \in Handles PROVE LeadsTo(evq', g, PeerIn(conn_dev_list', g), link[g])
  <2>1. LeadsTo(evq, g, PeerIn(conn_dev_list, g), link[g])
    BY DEF TrackInv
  <2>2. CASE g = h
    <3>1. PeerIn(conn_dev_list', g) = e.peer
      BY <2>2 DEF Differs
    <3>2. LeadsTo(evq', h, e.peer, link[h])
      BY <1>1, <1>2, <2>1, <2>2, LeadsTailChange
    <3> QED
      BY <2>2, <3>1, <3>2
  <2>3. CASE g # h
    <3>1. PeerIn(conn_dev_list', g) = PeerIn(conn_dev_list, g)
      BY <2>3 DEF Differs
    <3>2. ~IsChange(e, g)
      BY <2>3 DEF IsChange
    <3> QED
      BY <1>2, <2>1, <3>1, <3>2, LeadsTailOther
  <2> QED
    BY <2>2, <2>3
<1> QED
  BY <1>3 DEF TrackInv

(* Hence what the handlers of the connection events do to the list ... *)
LEMMA CompleteEffect ==
  ASSUME ConnInv, TrackInv, OnConnCompleteSlave \/ OnConnCompleteMaster
  PROVE  /\ Deliver("conn") /\ UNCHANGED link
         /\ Head(evq).handle \in Handles /\ Head(evq).peer \in Peers
         /\ PeerIn(conn_dev_list, Head(evq).handle) = NoPeer
         /\ OneEach(conn_dev_list')
         /\ Differs(conn_dev_list, conn_dev_list', Head(evq).handle, Head(evq).peer)
<1> USE DEF ConnInv, TypeOK
<1> DEFINE e == Head(evq)
<1>1. Deliver("conn") /\ UNCHANGED link
  BY DEF OnConnCompleteSlave, OnConnCompleteMaster
<1>2. e.handle \in Handles /\ e.peer \in Peers /\ PeerIn(conn_dev_list, e.handle) = NoPeer
  BY <1>1, HeadFits
<1>3. CASE OnConnCompleteSlave
  <2>1. e.handle \in SlaveHandles /\ InsertByConnEvent(e.handle, "slave", e.peer)
    BY <1>3 DEF OnConnCompleteSlave
  <2>2. RoleOf(e.handle) = "slave"
    BY <2>1, HandleFacts
  <2>3. OneEach(conn_dev_list') /\ Differs(conn_dev_list, conn_dev_list', e.handle, e.peer)
    BY <1>2, <2>1, <2>2, InsertTracked DEF TrackInv
  <2> QED
    BY <1>1, <1>2, <2>3
<1>4. CASE OnConnCompleteMaster
  <2>1. e.handle \in MasterHandles
    BY <1>4 DEF OnConnCompleteMaster
  <2>2. RoleOf(e.handle) = "master"
    BY <2>1, HandleFacts
  <2>3. \/ InsertWithAttHandle(e.handle, e.peer, att_flash[e.peer])
        \/ InsertByConnEvent(e.handle, "master", e.peer)
    BY <1>4 DEF OnConnCompleteMaster
  <2>4. att_flash[e.peer] \in PeersOrNone
    BY <1>2 DEF AppTypeOK
  <2>5. OneEach(conn_dev_list') /\ Differs(conn_dev_list, conn_dev_list', e.handle, e.peer)
    BY <1>2, <2>2, <2>3, <2>4, InsertTracked DEF TrackInv
  <2> QED
    BY <1>1, <1>2, <2>5
<1> QED
  BY <1>3, <1>4

LEMMA DisconnectEffect ==
  ASSUME ConnInv, TrackInv, OnDisconnect
  PROVE  /\ Deliver("disc") /\ UNCHANGED link
         /\ Head(evq).handle \in Handles /\ Head(evq).peer = NoPeer
         /\ PeerIn(conn_dev_list, Head(evq).handle) # NoPeer
         /\ OneEach(conn_dev_list')
         /\ Differs(conn_dev_list, conn_dev_list', Head(evq).handle, NoPeer)
<1> USE DEF ConnInv, TypeOK
<1> DEFINE e == Head(evq)
<1>1. Deliver("disc") /\ DeleteByConnhandle(e.handle) /\ UNCHANGED link
  BY DEF OnDisconnect
<1>2. /\ e.handle \in Handles /\ e.peer = NoPeer
      /\ PeerIn(conn_dev_list, e.handle) # NoPeer
  BY <1>1, HeadFits
<1>3. OneEach(conn_dev_list') /\ Differs(conn_dev_list, conn_dev_list', e.handle, NoPeer)
  BY <1>1, <1>2, DeleteTracked DEF TrackInv
<1> QED
  BY <1>1, <1>2, <1>3

(* ... and that nothing else changes a connection of it. *)
LEMMA OtherEffect ==
  ASSUME ConnInv, [Next]_vars, ~OnConnCompleteSlave, ~OnConnCompleteMaster, ~OnDisconnect
  PROVE  SameConnections(conn_dev_list, conn_dev_list')
<1> USE DEF ConnInv, TypeOK
<1>0. ASSUME UNCHANGED conn_dev_list PROVE SameConnections(conn_dev_list, conn_dev_list')
  BY <1>0 DEF SameConnections
<1>1. CASE UNCHANGED vars
  BY <1>0, <1>1 DEF vars, devVars
<1>2. CASE Controller
  BY <1>0, <1>2 DEF Controller, Advertise, EstablishMaster, EstablishSlave, LinkLoss, AnswerAtt,
                    ClockExpires, devVars
<1>3. CASE OnAdvReport \/ OnAttData \/ \E h \in Handles : SecurityDone(h) \/ PairingFail(h)
  BY <1>0, <1>3 DEF OnAdvReport, OnAttData, SecurityDone, PairingFail, devVars
<1>4. CASE StackReturns \/ Keyboard \/ ProcUnpair
  BY <1>0, <1>4 DEF StackReturns, Keyboard, KeysIgnored, PressVolume, PressPair, PressUnpair,
                    ReleaseKeys, KeyScan, ProcUnpair, devVars
<1>5. CASE FinishDiscovery
  <2>1. ListOK(conn_dev_list) /\ discovery.source \in PeersOrNone
    BY DEF DevTypeOK, ListOK, AppTypeOK, Discoveries
  <2> QED
    BY <1>5, <2>1, WithAttHandleSame DEF FinishDiscovery, AddPeerAttHandle
<1>6. CASE NoService \/ StartDiscovery \/ WaitResponse \/ DiscoveryTimeout \/ NextRequest
  BY <1>0, <1>6 DEF NoService, StartDiscovery, WaitResponse, DiscoveryTimeout, NextRequest, devVars
<1> QED
  BY <1>1, <1>2, <1>3, <1>4, <1>5, <1>6 DEF Next, Callbacks, MainLoop, Service

LEMMA TrackStep ==
  ASSUME ConnInv, TrackInv, [Next]_vars
  PROVE  TrackInv'
<1> USE DEF ConnInv, TypeOK
<1>0. ASSUME UNCHANGED <<conn_dev_list, evq, link>> PROVE TrackInv'
  BY <1>0, TrackSame DEF SameConnections
<1>1. CASE UNCHANGED vars
  BY <1>0, <1>1 DEF vars, devVars, ctlVars
<1>2. ASSUME NEW p \in Peers, Advertise(p) PROVE TrackInv'
  <2>1. AdvEvent(p) \in Events /\ AdvEvent(p).type \notin {"conn", "disc"}
    BY EventTypes DEF AdvEvent
  <2> QED
    BY <1>2, <2>1, TrackReport DEF Advertise, devVars
<1>3. ASSUME NEW h \in Handles, EstablishMaster(h) PROVE TrackInv'
  <2> DEFINE e == ConnEvent(h, initiating)
  <2>1. initiating \in Peers /\ link[h] = NoPeer
    BY <1>3 DEF EstablishMaster, CtlTypeOK, PeersOrNone
  <2>2. e \in Events /\ IsChange(e, h) /\ e.type = "conn" /\ e.peer = initiating
    BY <2>1, EventTypes DEF ConnEvent, IsChange
  <2>3. link' = [link EXCEPT ![h] = e.peer] /\ Enqueue(e) /\ UNCHANGED conn_dev_list
    BY <1>3, <2>2 DEF EstablishMaster, devVars
  <2> HIDE DEF e
  <2> QED
    BY <2>1, <2>2, <2>3, TrackChange
<1>4. ASSUME NEW h \in Handles, NEW p \in Peers, EstablishSlave(h, p) PROVE TrackInv'
  <2> DEFINE e == ConnEvent(h, p)
  <2>1. link[h] = NoPeer
    BY <1>4 DEF EstablishSlave
  <2>2. e \in Events /\ IsChange(e, h) /\ e.type = "conn" /\ e.peer = p
    BY <2>1, EventTypes DEF ConnEvent, IsChange
  <2>3. link' = [link EXCEPT ![h] = e.peer] /\ Enqueue(e) /\ UNCHANGED conn_dev_list
    BY <1>4, <2>2 DEF EstablishSlave, devVars
  <2> HIDE DEF e
  <2> QED
    BY <2>1, <2>2, <2>3, TrackChange
<1>5. ASSUME NEW h \in Handles, LinkLoss(h) PROVE TrackInv'
  <2> DEFINE e == DiscEvent(h)
  <2>1. link[h] # NoPeer
    BY <1>5 DEF LinkLoss
  <2>2. e \in Events /\ IsChange(e, h) /\ e.type = "disc" /\ e.peer = NoPeer
    BY <2>1, EventTypes DEF DiscEvent, IsChange
  <2>3. link' = [link EXCEPT ![h] = e.peer] /\ Enqueue(e) /\ UNCHANGED conn_dev_list
    BY <1>5, <2>2 DEF LinkLoss, devVars
  <2> HIDE DEF e
  <2> QED
    BY <2>1, <2>2, <2>3, TrackChange
<1>6. ASSUME NEW h \in MasterHandles, AnswerAtt(h)
      PROVE  TrackInv'
  <2>1. link[h] \in PeersOrNone
    BY HandleFacts DEF CtlTypeOK
  <2>2. AttEvent(h, link[h]) \in Events /\ AttEvent(h, link[h]).type \notin {"conn", "disc"}
    BY <2>1, EventTypes DEF AttEvent
  <2> QED
    BY <1>6, <2>2, TrackReport DEF AnswerAtt, devVars
<1>7. CASE ClockExpires
  BY <1>0, <1>7 DEF ClockExpires, devVars, ctlVars
<1>8. CASE OnAdvReport
  BY <1>8, TrackOther DEF OnAdvReport, devVars
<1>9. CASE OnConnCompleteSlave \/ OnConnCompleteMaster
  BY <1>9, CompleteEffect, TrackFollowed
<1>10. CASE OnDisconnect
  BY <1>10, DisconnectEffect, TrackFollowed
<1>11. CASE OnAttData
  BY <1>11, TrackOther DEF OnAttData, devVars
<1>12. CASE \E h \in Handles : SecurityDone(h) \/ PairingFail(h)
  BY <1>0, <1>12 DEF SecurityDone, PairingFail, devVars, ctlVars
<1>13. CASE StackReturns \/ Keyboard \/ ProcUnpair
  BY <1>0, <1>13 DEF StackReturns, Keyboard, KeysIgnored, PressVolume, PressPair, PressUnpair,
                     ReleaseKeys, KeyScan, ProcUnpair, devVars, ctlVars
<1>14. CASE Service
  <2>1. UNCHANGED <<evq, link>>
    BY <1>14 DEF Service, NoService, StartDiscovery, WaitResponse, DiscoveryTimeout, NextRequest,
                 FinishDiscovery, ServiceFrame
  <2>2. ~OnConnCompleteSlave /\ ~OnConnCompleteMaster /\ ~OnDisconnect
    BY <1>14 DEF Service, NoService, StartDiscovery, WaitResponse, DiscoveryTimeout, NextRequest,
                 FinishDiscovery, ServiceFrame, OnConnCompleteSlave, OnConnCompleteMaster,
                 OnDisconnect, Deliver
  <2> QED
    BY <2>1, <2>2, OtherEffect, TrackSame
<1> QED
  BY <1>1, <1>2, <1>3, <1>4, <1>5, <1>6, <1>7, <1>8, <1>9, <1>10, <1>11, <1>12, <1>13,
     <1>14 DEF Next, Controller, Callbacks, MainLoop

-----------------------------------------------------------------------------
LEMMA TrackInit == Init => TrackInv
<1> SUFFICES ASSUME Init PROVE TrackInv
  OBVIOUS
<1>1. \A i \in Slots : conn_dev_list[i].conn_state = 0 /\ conn_dev_list[i].conn_handle = NoHandle
  BY DEF Init, DevInit, EmptyEntry
<1>2. OneEach(conn_dev_list)
  BY <1>1 DEF OneEach, InPlace, Unique, NoneInEmpty
<1>3. ASSUME NEW h \in Handles PROVE LeadsTo(evq, h, PeerIn(conn_dev_list, h), link[h])
  <2>1. Occupied(conn_dev_list, h) = {}
    BY <1>1 DEF Occupied
  <2>2. PeerIn(conn_dev_list, h) = NoPeer /\ link[h] = NoPeer
    BY <2>1 DEF PeerIn, Init
  <2>3. Changes(evq, h) = {}
    BY DEF Changes, Init
  <2> QED
    BY <2>2, <2>3 DEF LeadsTo
<1> QED
  BY <1>2, <1>3 DEF TrackInv

(* The application's list is the controller's set of connections, but for the
   events on their way.                                                    *)
LEMMA TrackedList == ConnInv /\ TrackInv => ListTracksController
<1> SUFFICES ASSUME ConnInv, TrackInv, NEW h \in Handles
             PROVE  LET n == Cardinality(SlotsWithHandle(h))
                        E == LinkEvents(h)
                        up == link[h] # NoPeer
                    IN  IF E = {}
                        THEN n = (IF up THEN 1 ELSE 0) /\ (up => EntryOf(h).peer = link[h])
                        ELSE /\ n = (IF evq[Least(E)].type = "disc" THEN 1 ELSE 0)
                             /\ up <=> \E j \in E : (\A k \in E : k <= j) /\ evq[j].type = "conn"
  BY DEF ListTracksController
<1> DEFINE l == conn_dev_list
           p == PeerIn(l, h)
           n == Cardinality(SlotsWithHandle(h))
           E == LinkEvents(h)
<1>1. SlotsWithHandle(h) = Occupied(l, h) /\ E = Changes(evq, h)
  BY DEF SlotsWithHandle, Occupied, LinkEvents, Changes, IsChange
<1>2. p = NoPeer => n = 0
  BY <1>1, PeerFacts, FS_EmptySet DEF TrackInv
<1>3. p # NoPeer => n = 1 /\ EntryOf(h).peer = p
  <2> HAVE p # NoPeer
  <2>1. PICK i \in Slots : l[i].conn_state = 1 /\ l[i].conn_handle = h
    BY PeerFacts DEF TrackInv, Occupied
  <2>2. SlotsWithHandle(h) = {i} /\ p = l[i].peer
    BY <1>1, <2>1, PeerOfSlot DEF TrackInv
  <2>3. Least({i}) = i
    BY <2>1, SlotFacts DEF Least
  <2> QED
    BY <2>2, <2>3, FS_Singleton DEF EntryOf
<1>4. LeadsTo(evq, h, p, link[h])
  BY DEF TrackInv
<1>5. E = {} => p = link[h]
  BY <1>1, <1>4 DEF LeadsTo
<1>6. evq \in Seq(Events) /\ \A j \in E : evq[j] \in Events /\ IsChange(evq[j], h)
  BY <1>1, ElementOfSeq DEF ConnInv, TypeOK, CtlTypeOK, Changes
<1>7. ASSUME E # {}
      PROVE  /\ n = (IF evq[Least(E)].type = "disc" THEN 1 ELSE 0)
             /\ link[h] # NoPeer <=> \E j \in E : (\A k \in E : k <= j) /\ evq[j].type = "conn"
  <2>1. E \in SUBSET Nat
    BY DEF LinkEvents
  <2>2. Least(E) \in E /\ \A k \in E : Least(E) <= k
    BY <1>7, <2>1, LeastExists DEF Least
  <2>3. evq[Least(E)].type = "conn" <=> p = NoPeer
    BY <1>1, <1>4, <2>2 DEF LeadsTo, IsFirst
  <2>4. evq[Least(E)].type = "disc" <=> evq[Least(E)].type # "conn"
    BY <1>6, <2>2, ChangePeer
  <2>5. n = (IF evq[Least(E)].type = "disc" THEN 1 ELSE 0)
    BY <1>2, <1>3, <2>3, <2>4
  <2>6. PICK m \in E : \A k \in E : k <= m
    BY <1>1, <1>6, <1>7, LastChange DEF IsLast
  <2>7. \A j \in E : (\A k \in E : k <= j) => evq[j].peer = link[h]
    BY <1>1, <1>4 DEF LeadsTo, IsLast
  <2>8. \A j \in E : evq[j].type = "conn" <=> evq[j].peer # NoPeer
    BY <1>6, ChangePeer
  <2>9. link[h] # NoPeer <=> \E j \in E : (\A k \in E : k <= j) /\ evq[j].type = "conn"
    <3>1. evq[m].peer = link[h] /\ (evq[m].type = "conn" <=> evq[m].peer # NoPeer)
      BY <2>6, <2>7, <2>8
    <3>2. link[h] # NoPeer => \E j \in E : (\A k \in E : k <= j) /\ evq[j].type = "conn"
      BY <2>6, <3>1
    <3>3. ASSUME NEW j \in E, \A k \in E : k <= j, evq[j].type = "conn"
          PROVE  link[h] # NoPeer
      BY <2>7, <2>8, <3>3
    <3> QED
      BY <3>2, <3>3
  <2> QED
    BY <2>5, <2>9
<1> HIDE DEF n, E, p
<1>8. CASE E = {}
  BY <1>2, <1>3, <1>5, <1>8 DEF n, E
<1>9. CASE E # {}
  BY <1>7, <1>9 DEF n, E
<1> QED
  BY <1>8, <1>9

(* What the list has for a handle and what the controller has agree as soon as
   no event of the handle waits, and until then differ by those events only. *)
THEOREM ListTracked == Spec => []ListTracksController
<1>1. ConnInv /\ TrackInv /\ [Next]_vars => TrackInv'
  BY TrackStep
<1> QED
  BY InitTyped, StepTyped, TrackInit, <1>1, TrackedList, PTL DEF Spec
-----------------------------------------------------------------------------
(* What the marks name. *)
(* List l has a master connection for handle h. *)
InList(l, h) == h \in MasterHandles /\ PeerIn(l, h) # NoPeer
MarksInList ==
  /\ SmpEnable \/ master_smp_pending = NoHandle
  /\ master_smp_pending # NoHandle => InList(conn_dev_list, master_smp_pending)
  /\ master_sdp_pending # NoHandle => InList(conn_dev_list, master_sdp_pending)
  /\ master_disconnect_connhandle # NoHandle => InList(conn_dev_list, master_disconnect_connhandle)
  /\ master_unpair_enable \in MasterHandleOrNone

(* A handle that a slot carries is the list's, and a master's if it is in the
   first half.                                                             *)
LEMMA MasterInList ==
  ASSUME ConnInv, TrackInv, NEW h \in HandleOrNone
  PROVE  /\ Connected(h) <=> PeerIn(conn_dev_list, h) # NoPeer
         /\ InList(conn_dev_list, h) => IsMaster(h)
         /\ IsMaster(h) => InList(conn_dev_list, h)
<1> DEFINE l == conn_dev_list
<1>1. SlotsWithHandle(h) = Occupied(l, h) /\ OneEach(l)
  BY DEF SlotsWithHandle, Occupied, TrackInv
<1>2. Connected(h) <=> PeerIn(l, h) # NoPeer
  BY <1>1, PeerFacts DEF Connected
<1>3. ASSUME Connected(h) PROVE h \in MasterHandles <=> EntryOf(h).conn_role = "master"
  <2>1. PICK i \in Slots : l[i].conn_state = 1 /\ l[i].conn_handle = h
    BY <1>1, <1>3 DEF Connected, Occupied
  <2>2. SlotsWithHandle(h) = {i}
    BY <1>1, <2>1, PeerOfSlot
  <2>3. Least({i}) = i
    BY <2>1, SlotFacts DEF Least
  <2>4. EntryOf(h) = l[i]
    BY <2>2, <2>3 DEF EntryOf
  <2>5. i \in MasterSlots <=> h \in MasterHandles
    BY <1>1, <2>1 DEF OneEach, InPlace
  <2>6. i \in SlotsOf(l[i].conn_role) /\ l[i].conn_role \in Roles
    BY <2>1 DEF ConnInv, TypeOK, DevTypeOK, Entry
  <2>7. i \in MasterSlots <=> l[i].conn_role = "master"
    BY <2>6, SlotFacts DEF SlotsOf, Roles
  <2> QED
    BY <2>4, <2>5, <2>7
<1> QED
  BY <1>2, <1>3 DEF InList, IsMaster

LEMMA ChosenIsMaster ==
  ASSUME ConnInv, TrackInv, Used(MasterSlots) # {}
  PROVE  conn_dev_list[Least(Used(MasterSlots))].conn_handle \in MasterHandles
<1>1. Least(Used(MasterSlots)) \in Used(MasterSlots)
  BY SlotFacts, LeastMember DEF Used
<1> QED
  BY <1>1, SlotFacts DEF Used, TrackInv, OneEach, InPlace

LEMMA MarksStep ==
  ASSUME ConnInv, TrackInv, MarksInList, [Next]_vars
  PROVE  MarksInList'
<1> USE DEF MarksInList
<1>1. CASE OnConnCompleteSlave \/ OnConnCompleteMaster
  <2> DEFINE e == Head(evq)
  <2>1. /\ e.handle \in Handles /\ e.peer \in Peers
        /\ Differs(conn_dev_list, conn_dev_list', e.handle, e.peer)
    BY <1>1, CompleteEffect
  <2>2. \A g : InList(conn_dev_list, g) => InList(conn_dev_list', g)
    BY <2>1, HandleFacts DEF InList, Differs
  <2>3. e.handle \in MasterHandles => InList(conn_dev_list', e.handle)
    <3>1. PeerIn(conn_dev_list', e.handle) = e.peer /\ e.peer # NoPeer
      BY <2>1, DeviceAssumption DEF Differs
    <3> HIDE DEF e
    <3> QED
      BY <3>1 DEF InList
  <2>4. CASE OnConnCompleteSlave
    BY <2>2, <2>4 DEF OnConnCompleteSlave, pendVars, uiVars
  <2>5. CASE OnConnCompleteMaster
    <3>1. /\ e.handle \in MasterHandles
          /\ \/ SmpEnable /\ master_smp_pending' = e.handle
             \/ UNCHANGED master_smp_pending
          /\ master_sdp_pending' = e.handle \/ UNCHANGED master_sdp_pending
          /\ UNCHANGED <<master_disconnect_connhandle, master_unpair_enable>>
      BY <2>5 DEF OnConnCompleteMaster, uiVars
    <3>2. master_smp_pending' # NoHandle => InList(conn_dev_list', master_smp_pending')
      BY <2>2, <2>3, <3>1
    <3>3. master_sdp_pending' # NoHandle => InList(conn_dev_list', master_sdp_pending')
      BY <2>2, <2>3, <3>1
    <3>4. master_disconnect_connhandle' # NoHandle
            => InList(conn_dev_list', master_disconnect_connhandle')
      BY <2>2, <3>1
    <3> HIDE DEF e
    <3> QED
      BY <3>1, <3>2, <3>3, <3>4
  <2> QED
    BY <1>1, <2>4, <2>5
<1>2. CASE OnDisconnect
  <2> DEFINE h == Head(evq).handle
  <2>1. h \in Handles /\ Differs(conn_dev_list, conn_dev_list', h, NoPeer)
    BY <1>2, DisconnectEffect
  <2>2. \A g : InList(conn_dev_list, g) /\ g # h => InList(conn_dev_list', g)
    BY <2>1, HandleFacts DEF InList, Differs
  <2>3. /\ master_smp_pending' = IF SmpEnable THEN ClearMark(master_smp_pending, h)
                                 ELSE master_smp_pending
        /\ master_sdp_pending' = ClearMark(master_sdp_pending, h)
        /\ master_disconnect_connhandle' = ClearMark(master_disconnect_connhandle, h)
        /\ UNCHANGED master_unpair_enable
    BY <1>2 DEF OnDisconnect, uiVars
  <2> HIDE DEF h
  <2> QED
    BY <2>2, <2>3 DEF ClearMark
<1>3. CASE ~OnConnCompleteSlave /\ ~OnConnCompleteMaster /\ ~OnDisconnect
  <2>1. \A g : InList(conn_dev_list', g) <=> InList(conn_dev_list, g)
    BY <1>3, OtherEffect, SamePeers DEF InList, TrackInv
  <2>2. CASE UNCHANGED vars
    BY <2>1, <2>2 DEF vars, pendVars, uiVars
  <2>3. CASE Controller
    BY <2>1, <2>3 DEF Controller, Advertise, EstablishMaster, EstablishSlave, LinkLoss, AnswerAtt,
                      ClockExpires, pendVars, uiVars
  <2>4. CASE OnAdvReport \/ OnAttData \/ \E h \in Handles : SecurityDone(h) \/ PairingFail(h)
    BY <2>1, <2>4 DEF OnAdvReport, OnAttData, SecurityDone, PairingFail, pendVars, uiVars
  <2>5. CASE StackReturns
    BY <2>1, <2>5 DEF StackReturns, pendVars, uiVars
  <2>6. CASE Keyboard
    <3>1. master_unpair_enable' \in MasterHandleOrNone
      BY <2>6, ChosenIsMaster
         DEF Keyboard, KeysIgnored, PressVolume, PressPair, PressUnpair, ReleaseKeys,
             ChosenForUnpair, MasterHandleOrNone
    <3>2. UNCHANGED <<pendVars, master_disconnect_connhandle>>
      BY <2>6 DEF Keyboard, KeysIgnored, PressVolume, PressPair, PressUnpair, ReleaseKeys, KeyScan
    <3> QED
      BY <2>1, <3>1, <3>2 DEF pendVars
  <2>7. CASE ProcUnpair
    <3>1. \/ UNCHANGED master_disconnect_connhandle
          \/ /\ master_disconnect_connhandle' = master_unpair_enable
             /\ master_unpair_enable # NoHandle /\ Connected(master_unpair_enable)
      BY <2>7 DEF ProcUnpair
    <3>2. master_unpair_enable' \in {master_unpair_enable, NoHandle} /\ UNCHANGED pendVars
      BY <2>7 DEF ProcUnpair
    <3>3. Connected(master_unpair_enable) /\ master_unpair_enable # NoHandle
            => InList(conn_dev_list, master_unpair_enable)
      BY MasterInList, HandleFacts DEF InList, MasterHandleOrNone
    <3> QED
      BY <2>1, <3>1, <3>2, <3>3 DEF pendVars, MasterHandleOrNone
  <2>8. CASE Service
    <3>1. /\ UNCHANGED <<master_smp_pending, master_disconnect_connhandle, master_unpair_enable>>
          /\ master_sdp_pending' \in {master_sdp_pending, NoHandle}
      BY <2>8 DEF Service, NoService, StartDiscovery, WaitResponse, DiscoveryTimeout, NextRequest,
                  FinishDiscovery, ServiceFrame, SendRequest, EndDiscovery, pendVars, uiVars
    <3> QED
      BY <2>1, <3>1
  <2> QED
    BY <1>3, <2>2, <2>3, <2>4, <2>5, <2>6, <2>7, <2>8 DEF Next, Callbacks, MainLoop
<1> QED
  BY <1>1, <1>2, <1>3

(* No mark outlives its connection: nothing stops new connections for good. *)
THEOREM MarksName == Spec => []PendingIsConnected
<1>1. Init => MarksInList
  BY DEF Init, MarksInList, MasterHandleOrNone
<1>2. ConnInv /\ TrackInv /\ MarksInList /\ [Next]_vars => TrackInv' /\ MarksInList'
  BY TrackStep, MarksStep
<1>3. ConnInv /\ TrackInv /\ MarksInList => PendingIsConnected
  <2> SUFFICES ASSUME ConnInv, TrackInv, MarksInList PROVE PendingIsConnected
    OBVIOUS
  <2>1. \A h : InList(conn_dev_list, h) => IsMaster(h)
    BY MasterInList, HandleFacts DEF InList
  <2> QED
    BY <2>1 DEF PendingIsConnected, MarksInList
<1> QED
  BY InitTyped, StepTyped, TrackInit, <1>1, <1>2, <1>3, PTL DEF Spec

-----------------------------------------------------------------------------
(***************************************************************************)
(* Requests and answers.  A request is outstanding only on a link the host *)
(* has been told everything of, and an answer reaches the host before it   *)
(* is told of the end of the connection it came on: an answer is always    *)
(* from the peer that the list has for its handle.                         *)
(***************************************************************************)
(* The answer at k in the queue is from the peer that list l has for its handle,
   and every change of that handle comes later.                            *)
AnswerFits(l, q, k) ==
  q[k].type = "att" =>
    /\ PeerIn(l, q[k].handle) = q[k].peer /\ q[k].peer # NoPeer
    /\ \A j \in Changes(q, q[k].handle) : k < j
AnswersFit(l, q) == \A k \in 1 .. Len(q) : AnswerFits(l, q, k)
NoAnswerFor(q, h) == \A k \in 1 .. Len(q) : ~(q[k].type = "att" /\ q[k].handle = h)

(* Two lists have the same for every handle of which e is no change. *)
KeptBut(l, m, e) == \A h \in MasterHandles : ~IsChange(e, h) => PeerIn(m, h) = PeerIn(l, h)

(* The outstanding request is on a live link of which nothing is still waiting. *)
RequestOnLink ==
  att_request # NoHandle => link[att_request] # NoPeer /\ Changes(evq, att_request) = {}

AnswerInv == RequestOnLink /\ AnswersFit(conn_dev_list, evq)

LEMMA NewChange ==
  ASSUME NEW q \in Seq(Events), NEW e \in Events, NEW r, r = Append(q, e), NEW h,
         NEW j \in Changes(r, h)
  PROVE  j \in Changes(q, h) \/ (j = Len(q) + 1 /\ IsChange(e, h))
<1>1. GrownBy(q, e, h, r)
  BY ChangesOfAppend
<1> QED
  BY <1>1 DEF GrownBy

LEMMA AnswersAppend ==
  ASSUME NEW l, NEW q \in Seq(Events), NEW e \in Events, NEW r, r = Append(q, e),
         AnswersFit(l, q),
         e.type = "att" => /\ PeerIn(l, e.handle) = e.peer /\ e.peer # NoPeer
                           /\ Changes(q, e.handle) = {}
  PROVE  AnswersFit(l, r)
<1> DEFINE n == Len(q)
<1>1. n \in Nat
  OBVIOUS
<1>2. Len(r) = n + 1 /\ r[n + 1] = e /\ \A j \in 1 .. n : r[j] = q[j]
  BY AppendProperties
<1>3. \A h : \A j \in Changes(r, h) : j \in Changes(q, h) \/ (j = n + 1 /\ IsChange(e, h))
  BY NewChange
<1> HIDE DEF n
<1>4. ASSUME NEW k \in 1 .. n PROVE AnswerFits(l, r, k)
  <2>1. AnswerFits(l, q, k) /\ r[k] = q[k]
    BY <1>2 DEF AnswersFit, n
  <2>2. \A j \in Changes(r, q[k].handle) : j \in Changes(q, q[k].handle) \/ k < j
    BY <1>1, <1>3
  <2> QED
    BY <2>1, <2>2 DEF AnswerFits
<1>5. AnswerFits(l, r, n + 1)
  <2> SUFFICES ASSUME e.type = "att" PROVE AnswerFits(l, r, n + 1)
    BY <1>2 DEF AnswerFits
  <2>1. Changes(r, e.handle) = {}
    BY <1>3 DEF IsChange
  <2> QED
    BY <1>2, <2>1 DEF AnswerFits
<1>6. ASSUME NEW k \in 1 .. n + 1 PROVE AnswerFits(l, r, k)
  <2>1. k \in 1 .. n \/ k = n + 1
    BY <1>1
  <2> QED
    BY <1>4, <1>5, <2>1
<1> QED
  BY <1>2, <1>6 DEF AnswersFit

(* The list may follow a change of a handle: no answer waits for that one. *)
LEMMA AnswersTail ==
  ASSUME NEW l, NEW m, NEW q \in Seq(Events), q # <<>>, NEW r, r = Tail(q),
         AnswersFit(l, q),
         KeptBut(l, m, Head(q))
  PROVE  AnswersFit(m, r)
<1>1. /\ Len(q) \in Nat /\ Len(r) = Len(q) - 1
      /\ \A j \in 1 .. Len(r) : r[j] = q[j + 1]
  BY EmptySeq, HeadTailProperties
<1>2. ASSUME NEW k \in 1 .. Len(r), r[k].type = "att" PROVE AnswerFits(m, r, k)
  <2> DEFINE h == q[k + 1].handle
  <2>1. k \in Nat /\ k + 1 \in 1 .. Len(q) /\ r[k] = q[k + 1]
    BY <1>1
  <2>2. AnswerFits(l, q, k + 1) /\ q[k + 1] \in Events /\ q[k + 1].type = "att"
    BY <1>2, <2>1, ElementOfSeq DEF AnswersFit
  <2>3. h \in MasterHandles
    BY <2>2, EventFacts
  <2>4. /\ PeerIn(l, h) = q[k + 1].peer /\ q[k + 1].peer # NoPeer
        /\ \A j \in Changes(q, h) : k + 1 < j
    BY <2>2 DEF AnswerFits
  <2> HIDE DEF h
  <2>5. ~IsChange(Head(q), h)
    <3>1. 1 \notin Changes(q, h)
      BY <2>1, <2>4
    <3> QED
      BY <3>1, ChangesOfTail
  <2>6. \A j \in Changes(r, h) : j \in Nat /\ j + 1 \in Changes(q, h)
    BY ChangesOfTail
  <2>7. \A j \in Changes(r, h) : k < j
    BY <2>1, <2>4, <2>6
  <2>8. r[k].handle = h
    BY <2>1 DEF h
  <2> QED
    BY <2>1, <2>3, <2>4, <2>5, <2>7, <2>8 DEF AnswerFits, KeptBut
<1>3. \A k \in 1 .. Len(r) : r[k].type # "att" => AnswerFits(m, r, k)
  BY DEF AnswerFits
<1> QED
  BY <1>2, <1>3 DEF AnswersFit

LEMMA NoChangesTail ==
  ASSUME NEW q \in Seq(Events), q # <<>>, NEW h, Changes(q, h) = {}
  PROVE  Changes(Tail(q), h) = {}
BY ChangesOfTail

(* On a live link no connection event can be the last change. *)
LEMMA NothingComing ==
  ASSUME ConnInv, TrackInv, NEW h \in MasterHandles, link[h] # NoPeer,
         \A j \in Waiting : ~MasterConnAt(j)
  PROVE  Changes(evq, h) = {}
<1> SUFFICES ASSUME Changes(evq, h) # {} PROVE FALSE
  OBVIOUS
<1>1. evq \in Seq(Events) /\ LeadsTo(evq, h, PeerIn(conn_dev_list, h), link[h])
  BY HandleFacts DEF ConnInv, TypeOK, CtlTypeOK, TrackInv
<1>2. PICK j \in Changes(evq, h) : IsLast(Changes(evq, h), j)
  BY <1>1, LastChange
<1>3. evq[j].peer = link[h]
  BY <1>1, <1>2 DEF LeadsTo
<1>4. j \in Waiting /\ IsChange(evq[j], h) /\ evq[j] \in Events
  BY <1>1, ElementOfSeq DEF Changes, Waiting
<1>5. evq[j].type = "conn" /\ evq[j].handle \in MasterHandles
  BY <1>3, <1>4, ChangePeer DEF IsChange
<1> QED
  BY <1>4, <1>5 DEF MasterConnAt

-----------------------------------------------------------------------------
(***************************************************************************)
(* The discovery.  It keeps no copy of the handle it runs for: a response  *)
(* is matched with the mark and used for cur_sdp_device, which another     *)
(* connection may have taken over in between.                              *)
(***************************************************************************)
(* The device of the last connection is the marked one, and the list has its
   peer for its handle.                                                    *)
CurFits ==
  cur_sdp_device.conn_handle \in MasterHandles =>
    PeerIn(conn_dev_list, cur_sdp_device.conn_handle) \in {NoPeer, cur_sdp_device.peer}
MarkIsCur ==
  master_sdp_pending # NoHandle => cur_sdp_device.conn_handle = master_sdp_pending
DiscoveryHasDevice == Discovering => cur_sdp_device.conn_handle # NoHandle

(* From the response a discovery has taken to the step that uses it, no other
   device takes the place of the one it came from.                          *)
ResponseRead ==
  Discovering /\ host_att_req_busy = NoHandle =>
    /\ initiating = NoPeer /\ \A j \in Waiting : ~MasterConnAt(j)
    /\ discovery.source \in {NoPeer, cur_sdp_device.peer}

(* What an earlier discovery has asked, or asked another peer, is not answered
   to a later mark.                                                         *)
SourceFits == Discovering /\ discovery.source \in {NoPeer, cur_sdp_device.peer}
NoOldAnswer ==
  ~SourceFits /\ master_sdp_pending # NoHandle =>
    att_request # master_sdp_pending /\ NoAnswerFor(evq, master_sdp_pending)

DiscoveryInv == CurFits /\ MarkIsCur /\ DiscoveryHasDevice /\ ResponseRead /\ NoOldAnswer

(* The inductive invariant of the host. *)
HostInv == ConnInv /\ TrackInv /\ MarksInList /\ ComingInv /\ AnswerInv /\ DiscoveryInv

(* What the list has for a handle changes with its own connection events only. *)
LEMMA PeerKept ==
  ASSUME ConnInv, TrackInv, [Next]_vars, NEW h \in Handles,
         Deliver("conn") => Head(evq).handle # h,
         Deliver("disc") => Head(evq).handle # h
  PROVE  PeerIn(conn_dev_list', h) = PeerIn(conn_dev_list, h)
<1>1. CASE OnConnCompleteSlave \/ OnConnCompleteMaster
  BY <1>1, CompleteEffect DEF Differs
<1>2. CASE OnDisconnect
  BY <1>2, DisconnectEffect DEF Differs
<1>3. CASE ~OnConnCompleteSlave /\ ~OnConnCompleteMaster /\ ~OnDisconnect
  BY <1>3, OtherEffect, SamePeers DEF TrackInv
<1> QED
  BY <1>1, <1>2, <1>3

(* A handler is called with the event at the head of the queue. *)
LEMMA DeliverStep ==
  ASSUME OnAdvReport \/ OnConnCompleteSlave \/ OnConnCompleteMaster \/ OnDisconnect \/ OnAttData
  PROVE  /\ UNCHANGED <<link, att_request, initiating>> /\ loop = "stack"
         /\ evq # <<>> /\ evq' = Tail(evq)
         /\ Deliver(Head(evq).type)
BY DEF OnAdvReport, OnConnCompleteSlave, OnConnCompleteMaster, OnDisconnect, OnAttData, Deliver

(* What a round's last step may ask: only when no connection is on its way. *)
LEMMA ServiceSends ==
  ASSUME HostInv, Service
  PROVE  /\ UNCHANGED <<evq, link, cur_sdp_device>> /\ loop = "service" /\ loop' = "stack"
         /\ att_request' # att_request =>
              /\ att_request' \in MasterHandles /\ link[att_request'] # NoPeer
              /\ \A j \in Waiting : ~MasterConnAt(j)
              /\ Discovering'
<1>1. UNCHANGED <<evq, link, cur_sdp_device>> /\ loop = "service" /\ loop' = "stack"
  BY DEF Service, NoService, StartDiscovery, WaitResponse, DiscoveryTimeout, NextRequest,
         FinishDiscovery, ServiceFrame, SendRequest, EndDiscovery, pendVars
<1>2. CASE StartDiscovery
  <2>1. /\ master_sdp_pending \in MasterHandles /\ discovery'.handle = master_sdp_pending
        /\ att_request' # att_request
             => att_request' = master_sdp_pending /\ link[master_sdp_pending] # NoPeer
    BY <1>2 DEF StartDiscovery, SendRequest, HostInv, ConnInv, TypeOK, AppTypeOK, MasterHandleOrNone
  <2>2. \A j \in Waiting : ~MasterConnAt(j)
    BY <1>2 DEF StartDiscovery, HostInv, ComingInv, NoMarkYet
  <2> QED
    BY <1>1, <2>1, <2>2, HandleFacts DEF Discovering
<1>3. CASE NextRequest
  <2>1. /\ discovery.handle \in MasterHandles /\ discovery'.handle = discovery.handle
        /\ att_request' # att_request
             => att_request' = discovery.handle /\ link[discovery.handle] # NoPeer
    <3>1. TypeOK /\ NextRequest
      BY <1>3 DEF HostInv, ConnInv
    <3>2. PICK op \in Requests :
            \E n \in 0 .. ATT_DB_UUID16_NUM : SendRequest(discovery.handle, op, n, discovery.source)
      BY <3>1, NextSends
    <3>3. PICK n \in 0 .. ATT_DB_UUID16_NUM :
            SendRequest(discovery.handle, op, n, discovery.source)
      BY <3>2
    <3>4. discovery.handle \in MasterHandles
      BY <3>1, NextSends
    <3> QED
      BY <3>3, <3>4 DEF SendRequest
  <2>2. \A j \in Waiting : ~MasterConnAt(j)
    BY <1>3 DEF NextRequest, HostInv, DiscoveryInv, ResponseRead
  <2> QED
    BY <1>1, <2>1, <2>2, HandleFacts DEF Discovering
<1>4. CASE NoService \/ WaitResponse \/ DiscoveryTimeout \/ FinishDiscovery
  <2>1. UNCHANGED att_request
    BY <1>4 DEF NoService, WaitResponse, DiscoveryTimeout, FinishDiscovery
  <2> QED
    BY <1>1, <2>1
<1> QED
  BY <1>2, <1>3, <1>4 DEF Service

(* The controller adds one event at most to the queue. *)
LEMMA AnswerController ==
  ASSUME ~UnaskedAnswers, HostInv, Controller
  PROVE  AnswerInv'
<1> DEFINE l == conn_dev_list
<1> USE DEF HostInv, ConnInv, TypeOK, AnswerInv
<1>0. evq \in Seq(Events) /\ UNCHANGED l
  BY DEF CtlTypeOK, Controller, Advertise, EstablishMaster, EstablishSlave, LinkLoss, AnswerAtt,
         ClockExpires, devVars
<1>1. ASSUME NEW e \in Events, Enqueue(e), e.type # "att", UNCHANGED att_request,
             IsChange(e, att_request) => att_request = NoHandle,
             att_request # NoHandle => link'[att_request] = link[att_request]
      PROVE  AnswerInv'
  <2>1. evq' = Append(evq, e)
    BY <1>1 DEF Enqueue
  <2>2. AnswersFit(l, evq')
    BY <1>0, <1>1, <2>1, AnswersAppend
  <2>3. RequestOnLink'
    <3>1. att_request # NoHandle => Changes(evq', att_request) = {}
      <4>1. \A j \in Changes(evq', att_request) :
              j \in Changes(evq, att_request) \/ IsChange(e, att_request)
        BY <1>0, <2>1, NewChange
      <4> QED
        BY <1>1, <4>1 DEF RequestOnLink
    <3> QED
      BY <1>1, <3>1 DEF RequestOnLink
  <2> QED
    BY <1>0, <2>2, <2>3
<1>2. ASSUME NEW p \in Peers, Advertise(p) PROVE AnswerInv'
  BY <1>1, <1>2, EventTypes DEF Advertise, AdvEvent, IsChange
<1>3. ASSUME NEW h \in Handles, EstablishMaster(h) PROVE AnswerInv'
  <2>1. initiating \in Peers /\ link[h] = NoPeer
    BY <1>3 DEF EstablishMaster, CtlTypeOK, PeersOrNone
  <2>2. att_request # NoHandle => att_request # h
    BY <2>1 DEF RequestOnLink
  <2>3. ConnEvent(h, initiating) \in Events
    BY <2>1, EventTypes
  <2> QED
    BY <1>1, <1>3, <2>2, <2>3 DEF EstablishMaster, ConnEvent, IsChange, CtlTypeOK
<1>4. ASSUME NEW h \in Handles, NEW p \in Peers, EstablishSlave(h, p) PROVE AnswerInv'
  <2>1. att_request # NoHandle => att_request # h
    BY <1>4 DEF RequestOnLink, EstablishSlave
  <2>2. ConnEvent(h, p) \in Events
    BY EventTypes
  <2> QED
    BY <1>1, <1>4, <2>1, <2>2 DEF EstablishSlave, ConnEvent, IsChange, CtlTypeOK
<1>5. ASSUME NEW h \in Handles, LinkLoss(h) PROVE AnswerInv'
  <2>1. Enqueue(DiscEvent(h)) /\ DiscEvent(h) \in Events /\ DiscEvent(h).type = "disc"
        /\ DiscEvent(h).handle = h
    BY <1>5, EventTypes DEF LinkLoss, DiscEvent
  <2>2. CASE att_request = h
    <3>1. att_request' = NoHandle
      BY <1>5, <2>2 DEF LinkLoss
    <3>2. AnswersFit(l, evq')
      BY <1>0, <2>1, AnswersAppend DEF Enqueue
    <3> QED
      BY <1>0, <3>1, <3>2 DEF RequestOnLink
  <2>3. CASE att_request # h
    BY <1>1, <1>5, <2>1, <2>3 DEF LinkLoss, IsChange, CtlTypeOK
  <2> QED
    BY <2>2, <2>3
<1>6. ASSUME NEW h \in MasterHandles, AnswerAtt(h) PROVE AnswerInv'
  <2> DEFINE e == AttEvent(h, link[h])
  <2>1. h = att_request /\ link[h] \in PeersOrNone /\ att_request' = NoHandle
        /\ evq' = Append(evq, e)
    BY <1>6, HandleFacts DEF AnswerAtt, Enqueue, CtlTypeOK
  <2>2. link[h] # NoPeer /\ Changes(evq, h) = {}
    BY <2>1, HandleFacts DEF RequestOnLink
  <2>3. LeadsTo(evq, h, PeerIn(l, h), link[h])
    BY <2>1, HandleFacts DEF TrackInv
  <2>4. PeerIn(l, h) = link[h]
    BY <2>2, <2>3 DEF LeadsTo
  <2>5. e \in Events /\ e.handle = h /\ e.peer = link[h]
    BY <2>1, EventTypes DEF AttEvent
  <2> HIDE DEF e
  <2>6. AnswersFit(l, evq')
    BY <1>0, <2>1, <2>2, <2>4, <2>5, AnswersAppend
  <2> QED
    BY <1>0, <2>1, <2>6 DEF RequestOnLink
<1>7. CASE ClockExpires
  BY <1>7 DEF ClockExpires, RequestOnLink, devVars, ctlVars
<1> QED
  BY <1>2, <1>3, <1>4, <1>5, <1>6, <1>7 DEF Controller

LEMMA AnswerStep ==
  ASSUME ~UnaskedAnswers, HostInv, [Next]_vars
  PROVE  AnswerInv'
<1> DEFINE l == conn_dev_list
<1> USE DEF HostInv, AnswerInv
<1>1. evq \in Seq(Events)
  BY DEF ConnInv, TypeOK, CtlTypeOK
<1>2. CASE OnAdvReport \/ OnConnCompleteSlave \/ OnConnCompleteMaster \/ OnDisconnect \/ OnAttData
  <2>1. /\ UNCHANGED <<link, att_request>> /\ evq # <<>> /\ evq' = Tail(evq)
        /\ Deliver(Head(evq).type)
    BY <1>2, DeliverStep
  <2>2. ASSUME NEW h \in MasterHandles, ~IsChange(Head(evq), h)
        PROVE  PeerIn(l', h) = PeerIn(l, h)
    <3>1. \A t \in {"conn", "disc"} : Deliver(t) => Head(evq).handle # h
      BY <2>2 DEF Deliver, IsChange
    <3> QED
      BY <3>1, HandleFacts, PeerKept
  <2>3. AnswersFit(l', evq')
    <3>1. AnswersFit(l, evq)
      OBVIOUS
    <3> HIDE DEF HostInv, AnswerInv, l
    <3>2. KeptBut(l, l', Head(evq))
      BY <2>2 DEF KeptBut
    <3> QED
      BY <1>1, <2>1, <3>1, <3>2, AnswersTail
  <2>4. RequestOnLink'
    <3>1. att_request # NoHandle => Changes(Tail(evq), att_request) = {}
      BY <1>1, <2>1, NoChangesTail DEF RequestOnLink
    <3> QED
      BY <2>1, <3>1 DEF RequestOnLink
  <2> QED
    BY <2>3, <2>4
<1>3. CASE /\ ~OnAdvReport /\ ~OnConnCompleteSlave /\ ~OnConnCompleteMaster
           /\ ~OnDisconnect /\ ~OnAttData /\ UNCHANGED evq
  <2>1. \A h : PeerIn(l', h) = PeerIn(l, h)
    BY <1>3, OtherEffect, SamePeers DEF TrackInv
  <2>2. AnswersFit(l', evq')
    BY <1>3, <2>1 DEF AnswersFit, AnswerFits
  <2>3. CASE Service
    <3>1. UNCHANGED link /\ (att_request' # att_request =>
              /\ att_request' \in MasterHandles /\ link[att_request'] # NoPeer
              /\ \A j \in Waiting : ~MasterConnAt(j))
      BY <2>3, ServiceSends
    <3>2. CASE att_request' # att_request
      <4>1. Changes(evq, att_request') = {}
        BY <3>1, <3>2, NothingComing
      <4> QED
        BY <1>3, <2>2, <3>1, <3>2, <4>1 DEF RequestOnLink
    <3>3. CASE att_request' = att_request
      BY <1>3, <2>2, <3>1, <3>3 DEF RequestOnLink
    <3> QED
      BY <3>2, <3>3
  <2>4. CASE UNCHANGED ctlVars
    BY <1>3, <2>2, <2>4 DEF RequestOnLink, ctlVars
  <2>5. CASE Controller
    BY <2>5, AnswerController
  <2>6. Service \/ UNCHANGED ctlVars \/ Controller
    BY <1>3 DEF Next, Callbacks, MainLoop, Keyboard, KeysIgnored, PressVolume, PressPair,
                PressUnpair, ReleaseKeys, KeyScan, ProcUnpair, StackReturns, SecurityDone,
                PairingFail, vars
  <2> QED
    BY <2>3, <2>4, <2>5, <2>6
<1>4. CASE Controller
  BY <1>4, AnswerController
<1>5. \/ OnAdvReport \/ OnConnCompleteSlave \/ OnConnCompleteMaster \/ OnDisconnect \/ OnAttData
      \/ UNCHANGED evq \/ Controller
  BY ServiceSends DEF Next, Callbacks, MainLoop, Keyboard, KeysIgnored, PressVolume, PressPair,
                      PressUnpair, ReleaseKeys, KeyScan, ProcUnpair, StackReturns, SecurityDone,
                      PairingFail, vars, ctlVars
<1> QED
  BY <1>2, <1>3, <1>4, <1>5

(* A queue without an answer for a handle, as events come and go. *)
LEMMA NoAnswerAppend ==
  ASSUME NEW q \in Seq(Events), NEW e \in Events, NEW h, NoAnswerFor(q, h),
         ~(e.type = "att" /\ e.handle = h)
  PROVE  NoAnswerFor(Append(q, e), h)
<1> DEFINE n == Len(q)
           r == Append(q, e)
<1>1. n \in Nat /\ Len(r) = n + 1 /\ r[n + 1] = e /\ \A j \in 1 .. n : r[j] = q[j]
  BY AppendProperties
<1>2. \A k \in 1 .. n : ~(q[k].type = "att" /\ q[k].handle = h)
  BY DEF NoAnswerFor
<1> HIDE DEF n, r
<1>3. \A k \in 1 .. n + 1 : k \in 1 .. n \/ k = n + 1
  BY <1>1
<1>4. \A k \in 1 .. Len(r) : ~(r[k].type = "att" /\ r[k].handle = h)
  BY <1>1, <1>2, <1>3
<1> QED
  BY <1>4 DEF NoAnswerFor, r

LEMMA NoAnswerTail ==
  ASSUME NEW q \in Seq(Events), q # <<>>, NEW h, NoAnswerFor(q, h)
  PROVE  NoAnswerFor(Tail(q), h)
<1>1. /\ Len(q) \in Nat /\ Len(Tail(q)) = Len(q) - 1
      /\ \A j \in 1 .. Len(Tail(q)) : Tail(q)[j] = q[j + 1]
  BY EmptySeq, HeadTailProperties
<1>2. \A j \in 1 .. Len(Tail(q)) : j + 1 \in 1 .. Len(q)
  BY <1>1
<1> QED
  BY <1>1, <1>2 DEF NoAnswerFor

LEMMA DiscoveryController ==
  ASSUME ~UnaskedAnswers, HostInv, Controller
  PROVE  DiscoveryInv'
<1> USE DEF HostInv, DiscoveryInv, ConnInv, TypeOK
<1>1. /\ UNCHANGED <<conn_dev_list, cur_sdp_device, master_sdp_pending, host_att_req_busy>>
      /\ discovery'.handle = discovery.handle /\ discovery'.source = discovery.source
      /\ att_request' \in {att_request, NoHandle}
      /\ initiating' # initiating => initiating # NoPeer
      /\ evq \in Seq(Events)
  <2>1. discovery'.handle = discovery.handle /\ discovery'.source = discovery.source
    BY DEF Controller, Advertise, EstablishMaster, EstablishSlave, LinkLoss, AnswerAtt,
           ClockExpires, sdpVars, AppTypeOK, Discoveries
  <2>2. /\ att_request' \in {att_request, NoHandle}
        /\ initiating' # initiating => initiating # NoPeer
    BY DEF Controller, Advertise, EstablishMaster, EstablishSlave, LinkLoss, AnswerAtt,
           ClockExpires, ctlVars
  <2>3. UNCHANGED <<conn_dev_list, cur_sdp_device, master_sdp_pending, host_att_req_busy>>
    BY DEF Controller, Advertise, EstablishMaster, EstablishSlave, LinkLoss, AnswerAtt,
           ClockExpires, devVars, pendVars, sdpVars, reqVars
  <2> QED
    BY <2>1, <2>2, <2>3 DEF CtlTypeOK
<1>2. CurFits' /\ MarkIsCur' /\ DiscoveryHasDevice'
  BY <1>1 DEF CurFits, MarkIsCur, DiscoveryHasDevice, Discovering
<1>3. \/ UNCHANGED evq
      \/ \E e \in Events :
           /\ Enqueue(e)
           /\ e.type = "conn" /\ e.handle \in MasterHandles => initiating # NoPeer
           /\ e.type = "att" => e.handle = att_request
  <2>1. ASSUME NEW p \in Peers, Advertise(p) PROVE Enqueue(AdvEvent(p)) /\ AdvEvent(p) \in Events
    BY <2>1, EventTypes DEF Advertise
  <2>2. ASSUME NEW h \in Handles, EstablishMaster(h)
        PROVE  /\ Enqueue(ConnEvent(h, initiating)) /\ ConnEvent(h, initiating) \in Events
               /\ initiating # NoPeer
    BY <2>2, EventTypes DEF EstablishMaster, CtlTypeOK, PeersOrNone
  <2>3. ASSUME NEW h \in Handles, NEW p \in Peers, EstablishSlave(h, p)
        PROVE  Enqueue(ConnEvent(h, p)) /\ ConnEvent(h, p) \in Events /\ h \notin MasterHandles
    BY <2>3, EventTypes DEF EstablishSlave, SlaveHandles, MasterHandles
  <2>4. ASSUME NEW h \in Handles, LinkLoss(h) PROVE Enqueue(DiscEvent(h)) /\ DiscEvent(h) \in Events
    BY <2>4, EventTypes DEF LinkLoss
  <2>5. ASSUME NEW h \in MasterHandles, AnswerAtt(h)
        PROVE  /\ Enqueue(AttEvent(h, link[h])) /\ AttEvent(h, link[h]) \in Events
               /\ h = att_request
    <3>1. link[h] \in PeersOrNone
      BY HandleFacts DEF CtlTypeOK
    <3> QED
      BY <2>5, <3>1, EventTypes DEF AnswerAtt
  <2>6. ClockExpires => UNCHANGED evq
    BY DEF ClockExpires, ctlVars
  <2>7. /\ \A p : AdvEvent(p).type = "adv"
        /\ \A h : DiscEvent(h).type = "disc"
        /\ \A h, p : ConnEvent(h, p).type = "conn" /\ ConnEvent(h, p).handle = h
        /\ \A h, p : AttEvent(h, p).type = "att" /\ AttEvent(h, p).handle = h
    BY DEF AdvEvent, DiscEvent, ConnEvent, AttEvent
  <2> QED
    BY <2>1, <2>2, <2>3, <2>4, <2>5, <2>6, <2>7 DEF Controller
<1>4. ResponseRead'
  <2> SUFFICES ASSUME Discovering', host_att_req_busy' = NoHandle
               PROVE  /\ initiating' = NoPeer /\ \A j \in Waiting' : ~MasterConnAt(j)'
                      /\ discovery'.source \in {NoPeer, cur_sdp_device'.peer}
    BY DEF ResponseRead
  <2>1. /\ initiating = NoPeer /\ \A j \in Waiting : ~MasterConnAt(j)
        /\ discovery.source \in {NoPeer, cur_sdp_device.peer}
    BY <1>1 DEF ResponseRead, Discovering
  <2>2. CASE UNCHANGED evq
    BY <1>1, <2>1, <2>2 DEF Waiting, MasterConnAt
  <2>3. ASSUME NEW e \in Events, Enqueue(e), ~(e.type = "conn" /\ e.handle \in MasterHandles)
        PROVE  \A j \in Waiting' : ~MasterConnAt(j)'
    <3>1. /\ Len(evq) \in Nat /\ Len(evq') = Len(evq) + 1
          /\ \A i \in Waiting : evq'[i] = evq[i]
          /\ evq'[Len(evq')] = e
      BY <2>3, AppendFacts
    <3> QED
      BY <2>1, <2>3, <3>1 DEF Waiting, MasterConnAt
  <2> QED
    BY <1>1, <1>3, <2>1, <2>2, <2>3
<1>5. NoOldAnswer'
  <2> SUFFICES ASSUME ~SourceFits', master_sdp_pending # NoHandle
               PROVE  att_request' # master_sdp_pending /\ NoAnswerFor(evq', master_sdp_pending)
    BY <1>1 DEF NoOldAnswer
  <2>1. att_request # master_sdp_pending /\ NoAnswerFor(evq, master_sdp_pending)
    BY <1>1 DEF NoOldAnswer, SourceFits, Discovering
  <2>2. NoAnswerFor(evq', master_sdp_pending)
    <3>1. ASSUME NEW e \in Events, Enqueue(e), e.type = "att" => e.handle = att_request
          PROVE  NoAnswerFor(evq', master_sdp_pending)
      BY <1>1, <2>1, <3>1, NoAnswerAppend DEF Enqueue
    <3> QED
      BY <1>3, <2>1, <3>1
  <2> QED
    BY <1>1, <2>1, <2>2
<1> QED
  BY <1>2, <1>4, <1>5

(* What holds of the queue when the host takes an event from it. *)
LEMMA DeliverKeeps ==
  ASSUME HostInv, evq # <<>>, evq' = Tail(evq)
  PROVE  /\ (\A j \in Waiting : ~MasterConnAt(j)) => \A j \in Waiting' : ~MasterConnAt(j)'
         /\ \A h : NoAnswerFor(evq, h) => NoAnswerFor(evq', h)
         /\ evq[1] = Head(evq) /\ 1 \in Waiting
<1>1. evq \in Seq(Events)
  BY DEF HostInv, ConnInv, TypeOK, CtlTypeOK
<1>2. /\ Len(evq) \in Nat \ {0} /\ Len(evq') = Len(evq) - 1 /\ evq[1] = Head(evq)
      /\ \A j \in 1 .. Len(evq') : evq'[j] = evq[j + 1]
  BY <1>1, EmptySeq, HeadTailProperties
<1>3. \A j \in 1 .. Len(evq') : j + 1 \in 1 .. Len(evq)
  BY <1>2
<1>4. (\A j \in Waiting : ~MasterConnAt(j)) => \A j \in Waiting' : ~MasterConnAt(j)'
  BY <1>2, <1>3 DEF Waiting, MasterConnAt
<1> QED
  BY <1>1, <1>2, <1>4, NoAnswerTail DEF Waiting

(* The current device's peer, when a step keeps the device and the list changes
   for another handle, or loses this one.                                   *)
LEMMA CurKept ==
  ASSUME HostInv, [Next]_vars, UNCHANGED cur_sdp_device, ~OnConnCompleteMaster
  PROVE  CurFits'
<1> DEFINE c == cur_sdp_device.conn_handle
<1> SUFFICES ASSUME c \in MasterHandles
             PROVE  PeerIn(conn_dev_list', c) \in {NoPeer, cur_sdp_device.peer}
  BY DEF CurFits
<1>1. PeerIn(conn_dev_list, c) \in {NoPeer, cur_sdp_device.peer} /\ c \in Handles
  BY HandleFacts DEF HostInv, DiscoveryInv, CurFits
<1>2. ConnInv /\ TrackInv
  BY DEF HostInv
<1>3. CASE OnConnCompleteSlave
  <2>1. Head(evq).handle \in SlaveHandles
    BY <1>3 DEF OnConnCompleteSlave
  <2>2. Head(evq).handle # c
    BY <2>1 DEF SlaveHandles, MasterHandles
  <2>3. Differs(conn_dev_list, conn_dev_list', Head(evq).handle, Head(evq).peer)
    BY <1>2, <1>3, CompleteEffect
  <2> QED
    BY <1>1, <2>2, <2>3 DEF Differs
<1>4. CASE OnDisconnect
  BY <1>1, <1>2, <1>4, DisconnectEffect DEF Differs
<1>5. CASE ~OnConnCompleteSlave /\ ~OnDisconnect
  BY <1>1, <1>2, <1>5, OtherEffect, SamePeers DEF TrackInv
<1> QED
  BY <1>3, <1>4, <1>5

LEMMA DiscoveryCallbacks ==
  ASSUME HostInv, Callbacks
  PROVE  DiscoveryInv'
<1> DEFINE e == Head(evq)
<1> USE DEF HostInv, DiscoveryInv
<1>0. [Next]_vars
  BY DEF Next
<1>1. CASE OnAdvReport \/ OnConnCompleteSlave \/ OnDisconnect
  <2>1. /\ UNCHANGED <<cur_sdp_device, sdpVars, initiating, att_request>>
        /\ master_sdp_pending' \in {master_sdp_pending, NoHandle}
    BY <1>1 DEF OnAdvReport, OnConnCompleteSlave, OnDisconnect, pendVars, ClearMark
  <2>2. evq # <<>> /\ evq' = Tail(evq)
    BY <1>1, DeliverStep
  <2>3. CurFits'
    <3>1. ~OnConnCompleteMaster
      <4>1. Head(evq).type = "conn" => ~OnAdvReport /\ ~OnDisconnect
        BY DEF OnAdvReport, OnDisconnect, Deliver
      <4>2. OnConnCompleteMaster => Head(evq).type = "conn" /\ e.handle \in MasterHandles
        BY DEF OnConnCompleteMaster, Deliver
      <4>3. OnConnCompleteSlave => e.handle \notin MasterHandles
        BY DEF OnConnCompleteSlave, SlaveHandles, MasterHandles
      <4> QED
        BY <1>1, <4>1, <4>2, <4>3
    <3> QED
      BY <1>0, <2>1, <3>1, CurKept
  <2>4. MarkIsCur' /\ DiscoveryHasDevice'
    BY <2>1 DEF MarkIsCur, DiscoveryHasDevice, Discovering, sdpVars
  <2>5. ResponseRead'
    BY <2>1, <2>2, DeliverKeeps DEF ResponseRead, Discovering, sdpVars, reqVars
  <2>6. NoOldAnswer'
    BY <2>1, <2>2, DeliverKeeps DEF NoOldAnswer, SourceFits, Discovering, sdpVars
  <2> QED
    BY <2>3, <2>4, <2>5, <2>6
<1>2. CASE OnConnCompleteMaster
  <2> DEFINE h == e.handle
  <2>1. evq # <<>> /\ evq' = Tail(evq) /\ UNCHANGED <<initiating, att_request>>
    BY <1>2, DeliverStep
  <2>2. evq[1] = e /\ 1 \in Waiting /\ e.type = "conn" /\ h \in MasterHandles
    BY <1>2, <2>1, DeliverKeeps DEF OnConnCompleteMaster, Deliver
  <2>3. /\ UNCHANGED <<discovery, host_att_req_busy>>
        /\ master_sdp_pending' \in {master_sdp_pending, h}
        /\ cur_sdp_device' = [conn_handle |-> h, peer |-> e.peer]
    BY <1>2 DEF OnConnCompleteMaster, reqVars
  <2>4. master_sdp_pending = NoHandle
    BY <2>2 DEF ComingInv, NoMarkYet, MasterConnAt
  <2>5. 1 \in Changes(evq, h)
    BY <2>2 DEF Changes, IsChange, Waiting
  <2>6. att_request # h
    BY <2>2, <2>5, HandleFacts DEF AnswerInv, RequestOnLink
  <2>7. NoAnswerFor(evq, h)
    <3> SUFFICES ASSUME NEW k \in 1 .. Len(evq), evq[k].type = "att", evq[k].handle = h
                 PROVE  FALSE
      BY DEF NoAnswerFor
    <3>1. AnswerFits(conn_dev_list, evq, k)
      BY DEF AnswerInv, AnswersFit
    <3>2. k < 1
      BY <2>5, <3>1 DEF AnswerFits
    <3> QED
      BY <3>2
  <2>8. NoAnswerFor(evq', h)
    BY <2>1, <2>7, DeliverKeeps
  <2>9. PeerIn(conn_dev_list', h) = e.peer
    BY <1>2, CompleteEffect DEF Differs
  <2> HIDE DEF e, h
  <2>10. CurFits' /\ MarkIsCur'
    BY <2>3, <2>4, <2>9 DEF CurFits, MarkIsCur
  <2>11. DiscoveryHasDevice'
    BY <2>2, <2>3, HandleFacts DEF DiscoveryHasDevice, Discovering
  <2>12. ResponseRead'
    <3>1. ~(Discovering /\ host_att_req_busy = NoHandle)
      BY <2>2 DEF ResponseRead, MasterConnAt, h
    <3> QED
      BY <2>3, <3>1 DEF ResponseRead, Discovering
  <2>13. NoOldAnswer'
    BY <2>1, <2>3, <2>4, <2>6, <2>8 DEF NoOldAnswer
  <2> QED
    BY <2>10, <2>11, <2>12, <2>13
<1>3. CASE OnAttData
  <2> DEFINE h == e.handle
  <2>1. evq # <<>> /\ evq' = Tail(evq) /\ UNCHANGED <<initiating, att_request>>
    BY <1>3, DeliverStep
  <2>2. UNCHANGED <<cur_sdp_device, master_sdp_pending>>
    BY <1>3 DEF OnAttData, pendVars
  <2>3. evq[1] = e /\ 1 \in Waiting /\ e.type = "att" /\ h \in MasterHandles
    <3>1. evq[1] = e /\ 1 \in Waiting
      BY <2>1, DeliverKeeps
    <3>2. CtlTypeOK /\ Deliver("att")
      BY <1>3 DEF OnAttData, ConnInv, TypeOK
    <3>3. e \in Events /\ e.type = "att"
      BY <3>2, HeadIsEvent
    <3> QED
      BY <3>1, <3>3, EventFacts
  <2>4. PeerIn(conn_dev_list, h) = e.peer /\ e.peer \in PeersOrNone
    <3>1. AnswerFits(conn_dev_list, evq, 1)
      BY <2>3 DEF AnswerInv, AnswersFit, Waiting
    <3>2. e.peer \in PeersOrNone
      BY <1>3, HeadIsEvent, EventFacts DEF OnAttData, ConnInv, TypeOK
    <3> QED
      BY <2>3, <3>1, <3>2 DEF AnswerFits
  <2>5. master_sdp_pending = h => /\ e.peer = cur_sdp_device.peer /\ initiating = NoPeer
                                  /\ \A j \in Waiting : ~MasterConnAt(j)
                                  /\ SourceFits
    <3> HAVE master_sdp_pending = h
    <3>0. e.peer # NoPeer
      BY <2>3 DEF AnswerInv, AnswersFit, AnswerFits, Waiting
    <3>1. h # NoHandle /\ cur_sdp_device.conn_handle = h
      BY <2>3, HandleFacts DEF MarkIsCur
    <3>2. e.peer = cur_sdp_device.peer
      BY <2>3, <2>4, <3>1, <3>0 DEF CurFits
    <3>3. ~Initiating /\ \A j \in Waiting : ~MasterConnAt(j)
      BY <3>1 DEF ComingInv, NoMarkYet
    <3>4. ~NoAnswerFor(evq, h)
      BY <2>3 DEF NoAnswerFor, Waiting
    <3>5. SourceFits
      BY <3>1, <3>4 DEF NoOldAnswer
    <3> QED
      BY <3>2, <3>3, <3>5 DEF Initiating
  <2>6. discovery \in Discoveries
    BY DEF ConnInv, TypeOK, AppTypeOK
  <2>7. \/ UNCHANGED <<discovery, host_att_req_busy>>
        \/ /\ master_sdp_pending = h
           /\ \/ UNCHANGED discovery
              \/ \E opcode \in AttOpcodes : discovery' = Copied(opcode, e.peer)
    BY <1>3 DEF OnAttData, ResponseTaken
  <2> HIDE DEF h, e
  <2>8. /\ discovery'.handle = discovery.handle
        /\ \/ discovery'.source = discovery.source
           \/ master_sdp_pending = h /\ discovery.source = NoPeer /\ discovery'.source = e.peer
    BY <2>4, <2>6, <2>7, CopiedType
  <2>9. CurFits'
    <3>1. ~OnConnCompleteMaster
      BY <1>3 DEF OnAttData, OnConnCompleteMaster, Deliver
    <3> QED
      BY <1>0, <2>2, <3>1, CurKept
  <2>10. MarkIsCur' /\ DiscoveryHasDevice'
    BY <2>2, <2>8 DEF MarkIsCur, DiscoveryHasDevice, Discovering
  <2>11. SourceFits => SourceFits'
    BY <2>2, <2>5, <2>8 DEF SourceFits, Discovering
  <2>12. ResponseRead'
    <3>1. ASSUME Discovering', host_att_req_busy' = NoHandle
          PROVE  /\ initiating = NoPeer /\ \A j \in Waiting : ~MasterConnAt(j)
                 /\ discovery'.source \in {NoPeer, cur_sdp_device.peer}
      <4>1. CASE master_sdp_pending = h
        BY <2>2, <2>5, <2>11, <4>1 DEF SourceFits
      <4>2. CASE master_sdp_pending # h
        BY <2>7, <3>1, <4>2 DEF ResponseRead, Discovering
      <4> QED
        BY <4>1, <4>2
    <3> QED
      BY <2>1, <2>2, <3>1, DeliverKeeps DEF ResponseRead
  <2>13. NoOldAnswer'
    BY <2>1, <2>2, <2>11, DeliverKeeps DEF NoOldAnswer
  <2> QED
    BY <2>9, <2>10, <2>12, <2>13
<1>4. CASE \E h \in Handles : SecurityDone(h) \/ PairingFail(h)
  <2>1. /\ UNCHANGED <<cur_sdp_device, master_sdp_pending, discovery, host_att_req_busy, evq,
                       initiating, att_request>>
    BY <1>4 DEF SecurityDone, PairingFail, ctlVars, sdpVars, reqVars
  <2>2. ~OnConnCompleteMaster
    <3>1. UNCHANGED devVars
      BY <1>4 DEF SecurityDone, PairingFail
    <3>2. OnConnCompleteMaster
            => PeerIn(conn_dev_list', Head(evq).handle) # PeerIn(conn_dev_list, Head(evq).handle)
      BY CompleteEffect, DeviceAssumption DEF Differs
    <3> QED
      BY <3>1, <3>2 DEF devVars
  <2>3. CurFits'
    BY <1>0, <2>1, <2>2, CurKept
  <2>4. MarkIsCur' /\ DiscoveryHasDevice'
    BY <2>1 DEF MarkIsCur, DiscoveryHasDevice, Discovering
  <2>5. ResponseRead' /\ NoOldAnswer'
    BY <2>1 DEF ResponseRead, NoOldAnswer, SourceFits, Discovering, Waiting, MasterConnAt
  <2> QED
    BY <2>3, <2>4, <2>5
<1> QED
  BY <1>1, <1>2, <1>3, <1>4 DEF Callbacks

LEMMA DiscoveryMainLoop ==
  ASSUME HostInv, MainLoop
  PROVE  DiscoveryInv'
<1> USE DEF HostInv, DiscoveryInv
<1>0. [Next]_vars /\ UNCHANGED cur_sdp_device
  BY ServiceSends DEF Next, MainLoop, StackReturns, Keyboard, KeysIgnored, PressVolume, PressPair,
     PressUnpair, ReleaseKeys, KeyScan, ProcUnpair, pendVars
<1>1. CurFits'
  <2>1. ~OnConnCompleteMaster
    BY ServiceSends DEF MainLoop, StackReturns, Keyboard, KeysIgnored, PressVolume, PressPair,
       PressUnpair, ReleaseKeys, KeyScan, ProcUnpair, OnConnCompleteMaster, Deliver
  <2> QED
    BY <1>0, <2>1, CurKept
<1>2. CASE StackReturns \/ Keyboard \/ ProcUnpair
  <2>1. UNCHANGED <<pendVars, discovery, host_att_req_busy, ctlVars>>
    BY <1>2 DEF StackReturns, Keyboard, KeysIgnored, PressVolume, PressPair,
       PressUnpair, ReleaseKeys, KeyScan, ProcUnpair, sdpVars, reqVars
  <2> QED
    BY <1>1, <2>1 DEF MarkIsCur, DiscoveryHasDevice, ResponseRead, NoOldAnswer, SourceFits,
       Discovering, Waiting, MasterConnAt, pendVars, ctlVars
<1>3. CASE Service
  <2>1. UNCHANGED <<evq, link, cur_sdp_device>>
    BY <1>3, ServiceSends
  <2>2. CASE NoService \/ WaitResponse
    <3>1. /\ UNCHANGED <<master_sdp_pending, discovery, host_att_req_busy, att_request>>
          /\ ~(Discovering /\ host_att_req_busy = NoHandle)
      BY <2>2 DEF NoService, WaitResponse, pendVars, sdpVars, reqVars
    <3> QED
      BY <1>1, <2>1, <3>1 DEF MarkIsCur, DiscoveryHasDevice, ResponseRead, NoOldAnswer, SourceFits,
                              Discovering
  <2>3. CASE StartDiscovery \/ NextRequest
    <3>1. UNCHANGED master_sdp_pending /\ host_att_req_busy' # NoHandle /\ SourceFits'
      <4>1. CASE StartDiscovery
        BY <2>1, <4>1 DEF StartDiscovery, SendRequest, SourceFits, Discovering, pendVars
      <4>2. CASE NextRequest
        <5>1. /\ discovery.handle # NoHandle
              /\ \E op \in Requests : \E n \in 0 .. ATT_DB_UUID16_NUM :
                   SendRequest(discovery.handle, op, n, discovery.source)
          BY <4>2, NextSends, HandleFacts DEF ConnInv
        <5>2. discovery.source \in {NoPeer, cur_sdp_device.peer}
          BY <4>2 DEF NextRequest, ResponseRead
        <5> QED
          BY <2>1, <5>1, <5>2 DEF SendRequest, SourceFits, Discovering, pendVars
      <4> QED
        BY <2>3, <4>1, <4>2
    <3>2. cur_sdp_device.conn_handle # NoHandle
      BY <2>3 DEF StartDiscovery, NextRequest, MarkIsCur, DiscoveryHasDevice
    <3> QED
      BY <1>1, <2>1, <3>1, <3>2 DEF MarkIsCur, DiscoveryHasDevice, ResponseRead, NoOldAnswer
  <2>4. CASE DiscoveryTimeout \/ FinishDiscovery
    <3>1. master_sdp_pending' = NoHandle /\ ~Discovering'
      BY <2>4 DEF DiscoveryTimeout, FinishDiscovery, EndDiscovery, Discovering, NoDiscovery
    <3> QED
      BY <1>1, <3>1 DEF MarkIsCur, DiscoveryHasDevice, ResponseRead, NoOldAnswer
  <2> QED
    BY <1>3, <2>2, <2>3, <2>4 DEF Service
<1> QED
  BY <1>2, <1>3 DEF MainLoop

-----------------------------------------------------------------------------
(* Every entry has the ATT handles of its own peer or none. *)
HandlesOwn(l) == \A i \in Slots : l[i].char_handle \in {NoPeer, l[i].peer}

LEMMA OwnWithAttHandle ==
  ASSUME NEW l, ListOK(l), OneEach(l), HandlesOwn(l),
         NEW num, NEW h \in Handles, NEW c \in PeersOrNone,
         c # NoPeer => PeerIn(l, h) \in {NoPeer, c}
  PROVE  HandlesOwn(WithAttHandle(l, num, h, c))
<1> DEFINE match == {i \in Slots : i < num /\ l[i].conn_handle = h}
           m == WithAttHandle(l, num, h, c)
<1>1. CASE match = {}
  BY <1>1 DEF WithAttHandle
<1>2. CASE match # {}
  <2> DEFINE i == Least(match)
  <2>1. i \in Slots /\ l[i].conn_handle = h
    <3>1. i \in match
      BY <1>2, LeastMember, SlotFacts
    <3> QED
      BY <3>1
  <2>2. m = [l EXCEPT ![i].char_handle = c]
    BY <1>2 DEF WithAttHandle
  <2>3. l \in [Slots -> Entry]
    BY DEF ListOK
  <2> HIDE DEF i, m
  <2>4. \A j \in Slots : /\ m[j].peer = l[j].peer
                         /\ m[j].char_handle = IF j = i THEN c ELSE l[j].char_handle
    BY <2>1, <2>2, <2>3 DEF Entry
  <2>5. l[i].conn_state = 1
    BY <2>1, HandleFacts DEF OneEach, NoneInEmpty
  <2>6. PeerIn(l, h) = l[i].peer /\ l[i].peer \in Peers
    BY <2>1, <2>5, PeerOfSlot
  <2>7. c \in {NoPeer, l[i].peer}
    BY <2>6, DeviceAssumption
  <2>8. \A j \in Slots : m[j].char_handle \in {NoPeer, m[j].peer}
    BY <2>4, <2>7 DEF HandlesOwn
  <2> QED
    BY <2>8 DEF HandlesOwn, m
<1> QED
  BY <1>1, <1>2

LEMMA OwnInserted ==
  ASSUME DevTypeOK, HandlesOwn(conn_dev_list),
         NEW h \in Handles, NEW role \in Roles, NEW p \in Peers
  PROVE  HandlesOwn(InsertedList(h, role, p))
<1>1. CASE Free(SlotsOf(role)) = {}
  BY <1>1 DEF InsertedList
<1>2. CASE Free(SlotsOf(role)) # {}
  <2> DEFINE i == Least(Free(SlotsOf(role)))
             m == InsertedList(h, role, p)
  <2>1. m = [conn_dev_list EXCEPT ![i] = NewEntry(h, role, p)]
    BY <1>2 DEF InsertedList
  <2> HIDE DEF i, m
  <2>2. \A j \in Slots : m[j] = conn_dev_list[j] \/ m[j] = NewEntry(h, role, p)
    BY <2>1 DEF DevTypeOK
  <2>3. NewEntry(h, role, p).char_handle = NoPeer
    BY DEF NewEntry
  <2> QED
    BY <2>2, <2>3 DEF HandlesOwn, m
<1> QED
  BY <1>1, <1>2

LEMMA HandlesStep ==
  ASSUME HostInv, HandlesBelongToPeer, [Next]_vars
  PROVE  HandlesBelongToPeer'
<1> DEFINE l == conn_dev_list
           e == Head(evq)
           Stored == \A p \in Peers : att_flash[p] \in {NoPeer, p}
<1> USE DEF HostInv, ConnInv, TypeOK
<1>0. HandlesOwn(l) /\ Stored /\ (HandlesOwn(l') /\ Stored' => HandlesBelongToPeer')
  BY DEF HandlesBelongToPeer, HandlesOwn
<1>1. CASE UNCHANGED <<conn_dev_list, att_flash>>
  BY <1>0, <1>1
<1>2. CASE OnConnCompleteSlave
  <2>1. e.handle \in Handles /\ e.peer \in Peers
    BY <1>2, CompleteEffect
  <2>2. l' = InsertedList(e.handle, "slave", e.peer) /\ UNCHANGED att_flash
    BY <1>2 DEF OnConnCompleteSlave, InsertByConnEvent, storeVars
  <2>3. HandlesOwn(l')
    BY <1>0, <2>1, <2>2, OwnInserted DEF Roles
  <2> QED
    BY <1>0, <2>2, <2>3
<1>3. CASE OnConnCompleteMaster
  <2> DEFINE m == InsertedList(e.handle, "master", e.peer)
             c == att_flash[e.peer]
             n == conn_master_num + InsertedNum("master")
  <2>1. e.handle \in MasterHandles /\ e.handle \in Handles /\ e.peer \in Peers
        /\ PeerIn(l, e.handle) = NoPeer
    BY <1>3, CompleteEffect DEF OnConnCompleteMaster
  <2>2. UNCHANGED att_flash /\ (l' = m \/ l' = WithAttHandle(m, n, e.handle, c))
    BY <1>3 DEF OnConnCompleteMaster, InsertByConnEvent, InsertWithAttHandle
  <2>3. HandlesOwn(m)
    BY <1>0, <2>1, OwnInserted DEF Roles
  <2>4. c \in {NoPeer, e.peer} /\ c \in PeersOrNone
    BY <1>0, <2>1 DEF PeersOrNone
  <2>5. ListOK(m)
    BY <2>1, InsertedListOK DEF Roles
  <2>6. OneEach(m) /\ PeerIn(m, e.handle) = e.peer
    <3>1. OneEach(l') /\ PeerIn(l', e.handle) = e.peer
      BY <1>3, CompleteEffect DEF Differs
    <3>2. SameConnections(m, l')
      <4>1. CASE l' = m
        BY <4>1 DEF SameConnections
      <4>2. CASE l' = WithAttHandle(m, n, e.handle, c)
        <5> HIDE DEF m, n, c
        <5> QED
          BY <2>4, <2>5, <4>2, WithAttHandleSame
      <4> QED
        BY <2>2, <4>1, <4>2
    <3>3. SameConnections(l', m)
      BY <3>2 DEF SameConnections
    <3> QED
      BY <3>1, <3>3, SamePeers
  <2> HIDE DEF m, n, c, e
  <2>7. HandlesOwn(WithAttHandle(m, n, e.handle, c))
    BY <2>1, <2>3, <2>4, <2>5, <2>6, OwnWithAttHandle
  <2> QED
    BY <1>0, <2>2, <2>3, <2>7
<1>4. CASE OnDisconnect
  <2>1. UNCHANGED att_flash /\ DeleteByConnhandle(e.handle)
    BY <1>4 DEF OnDisconnect, storeVars
  <2>2. \A i \in Slots : l'[i] = l[i] \/ l'[i] = EmptyEntry
    BY <2>1 DEF DeleteByConnhandle, DeleteFirst, DevTypeOK, devVars
  <2>3. EmptyEntry.char_handle = NoPeer
    BY DEF EmptyEntry
  <2>4. HandlesOwn(l')
    BY <1>0, <2>2, <2>3 DEF HandlesOwn
  <2> QED
    BY <1>0, <2>1, <2>4
<1>5. CASE ProcUnpair
  <2>1. UNCHANGED conn_dev_list /\ (\/ UNCHANGED att_flash
                                    \/ \E p : att_flash' = [att_flash EXCEPT ![p] = NoPeer])
    BY <1>5 DEF ProcUnpair, devVars
  <2>2. Stored'
    BY <1>0, <2>1 DEF AppTypeOK
  <2> QED
    BY <1>0, <2>1, <2>2
<1>6. CASE FinishDiscovery
  <2> DEFINE h == cur_sdp_device.conn_handle
             c == discovery.source
  <2>1. Discovering /\ host_att_req_busy = NoHandle
    BY <1>6 DEF FinishDiscovery
  <2>2. c \in {NoPeer, cur_sdp_device.peer} /\ c \in PeersOrNone
    BY <2>1 DEF DiscoveryInv, ResponseRead, AppTypeOK, Discoveries
  <2>3. h \in MasterHandles /\ h \in Handles
    BY <2>1, HandleFacts DEF DiscoveryInv, DiscoveryHasDevice, AppTypeOK, MasterHandleOrNone
  <2>4. PeerIn(l, h) \in {NoPeer, cur_sdp_device.peer}
    BY <2>3 DEF DiscoveryInv, CurFits
  <2>5. l' = WithAttHandle(l, conn_master_num, h, c)
    BY <1>6 DEF FinishDiscovery, AddPeerAttHandle
  <2>6. ListOK(l) /\ OneEach(l)
    BY DEF ListOK, DevTypeOK, TrackInv
  <2>7. HandlesOwn(l')
    <3>1. c # NoPeer => PeerIn(l, h) \in {NoPeer, c}
      BY <2>2, <2>4
    <3> HIDE DEF l, h, c
    <3> QED
      BY <1>0, <2>2, <2>3, <2>5, <2>6, <3>1, OwnWithAttHandle
  <2>8. \/ UNCHANGED att_flash
        \/ att_flash' = [att_flash EXCEPT ![cur_sdp_device.peer] = c]
    BY <1>6 DEF FinishDiscovery
  <2>9. Stored'
    BY <1>0, <2>2, <2>8 DEF AppTypeOK
  <2> QED
    BY <1>0, <2>7, <2>9
<1>7. \/ UNCHANGED <<conn_dev_list, att_flash>>
      \/ OnConnCompleteSlave \/ OnConnCompleteMaster \/ OnDisconnect
      \/ ProcUnpair \/ FinishDiscovery
  <2>1. UNCHANGED vars \/ Controller => UNCHANGED <<conn_dev_list, att_flash>>
    BY DEF vars, devVars, storeVars, Controller, Advertise, EstablishMaster, EstablishSlave,
           LinkLoss, AnswerAtt, ClockExpires
  <2>2. OnAdvReport \/ OnAttData \/ (\E h \in Handles : SecurityDone(h) \/ PairingFail(h))
          => UNCHANGED <<conn_dev_list, att_flash>>
    BY DEF devVars, storeVars, OnAdvReport, OnAttData, SecurityDone, PairingFail
  <2>3. StackReturns \/ Keyboard => UNCHANGED <<conn_dev_list, att_flash>>
    BY DEF devVars, storeVars, StackReturns, Keyboard, KeysIgnored, PressVolume, PressPair,
           PressUnpair, ReleaseKeys, KeyScan
  <2>4. NoService \/ StartDiscovery \/ WaitResponse \/ DiscoveryTimeout \/ NextRequest
          => UNCHANGED <<conn_dev_list, att_flash>>
    BY DEF devVars, NoService, StartDiscovery, WaitResponse, DiscoveryTimeout, NextRequest
  <2> QED
    BY <2>1, <2>2, <2>3, <2>4 DEF Next, Callbacks, MainLoop, Service
<1> QED
  BY <1>1, <1>2, <1>3, <1>4, <1>5, <1>6, <1>7

-----------------------------------------------------------------------------
LEMMA HostInit == Init => HostInv /\ HandlesBelongToPeer
<1> SUFFICES ASSUME Init PROVE HostInv /\ HandlesBelongToPeer
  OBVIOUS
<1>1. ConnInv /\ TrackInv
  BY InitTyped, TrackInit
<1>2. MarksInList
  BY DEF Init, MarksInList, MasterHandleOrNone
<1>3. ComingInv
  BY ComingInit
<1>4. AnswerInv
  BY DEF Init, AnswerInv, RequestOnLink, AnswersFit
<1>5. DiscoveryInv
  BY HandleFacts DEF Init, DiscoveryInv, CurFits, MarkIsCur, DiscoveryHasDevice, ResponseRead,
                     NoOldAnswer, SourceFits, Discovering, NoDiscovery
<1>6. HandlesBelongToPeer
  BY DEF Init, DevInit, EmptyEntry, HandlesBelongToPeer
<1> QED
  BY <1>1, <1>2, <1>3, <1>4, <1>5, <1>6 DEF HostInv

LEMMA HostStep ==
  ASSUME DrainsEvents, ~UnaskedAnswers, HostInv, [Next]_vars
  PROVE  HostInv'
<1> USE DEF HostInv
<1>1. ConnInv' /\ TrackInv' /\ MarksInList'
  BY StepTyped, TrackStep, MarksStep
<1>2. ComingInv'
  BY ComingStep
<1>3. AnswerInv'
  BY AnswerStep
<1>4. DiscoveryInv'
  <2>1. CASE UNCHANGED vars
    BY <2>1 DEF vars, devVars, pendVars, sdpVars, reqVars, ctlVars, DiscoveryInv, CurFits,
                MarkIsCur, DiscoveryHasDevice, ResponseRead, NoOldAnswer, SourceFits, Discovering,
                Waiting, MasterConnAt
  <2> QED
    BY <2>1, DiscoveryController, DiscoveryCallbacks, DiscoveryMainLoop DEF Next
<1> QED
  BY <1>1, <1>2, <1>3, <1>4

(* ATT handles are only ever used for and stored under the peer they were read
   from, as long as the peers answer what the discoveries ask.             *)
THEOREM HandlesKept ==
  ASSUME DrainsEvents, ~UnaskedAnswers
  PROVE  Spec => []HandlesBelongToPeer
<1>1. HostInv /\ HandlesBelongToPeer /\ [Next]_vars => HostInv' /\ HandlesBelongToPeer'
  BY HostStep, HandlesStep
<1> QED
  BY HostInit, <1>1, PTL DEF Spec

LEMMA AnswerTaken ==
  ASSUME HostInv, Deliver("att"), NEW opcode, ResponseTaken(Head(evq).handle, opcode)
  PROVE  Discovering
<1> DEFINE e == Head(evq)
<1>1. evq # <<>> /\ evq' = Tail(evq) /\ e.type = "att"
  BY DEF Deliver
<1>2. evq[1] = e /\ 1 \in 1 .. Len(evq)
  BY <1>1, DeliverKeeps DEF Waiting
<1>3. master_sdp_pending = e.handle /\ e.handle # NoHandle
  <2>1. CtlTypeOK
    BY DEF HostInv, ConnInv, TypeOK
  <2>2. e \in Events
    BY <2>1, HeadIsEvent
  <2> QED
    BY <1>1, <2>2, EventFacts, HandleFacts DEF ResponseTaken
<1>4. ~NoAnswerFor(evq, master_sdp_pending)
  BY <1>1, <1>2, <1>3 DEF NoAnswerFor
<1> QED
  BY <1>3, <1>4 DEF HostInv, DiscoveryInv, NoOldAnswer, SourceFits

(* As long as the peers answer what the discoveries ask, no response that the
   handler would copy is delivered when no discovery runs: neither the pointer
   nor the busy word is what prevents it, but that an answer never outlives
   the mark of the connection it came on.                                   *)
THEOREM AnswerBuffered ==
  ASSUME DrainsEvents, ~UnaskedAnswers
  PROVE  Spec => AnswerHasBuffer
<1>1. HostInv /\ [Next]_vars
        => [Deliver("att") /\ (\E opcode \in AttOpcodes : ResponseTaken(Head(evq).handle, opcode))
              => Discovering]_vars
  BY AnswerTaken
<1>2. HostInv /\ [Next]_vars => HostInv'
  BY HostStep
<1> QED
  BY HostInit, <1>1, <1>2, PTL DEF Spec, AnswerHasBuffer
=============================================================================
