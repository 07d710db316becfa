---------------------------- MODULE DeviceManage ----------------------------
(***************************************************************************)
(* The connection list of vendor/common/device_manage.c: one array of      *)
(* entries, the first MASTER_MAX_NUM for connections in the master role,   *)
(* the next SLAVE_MAX_NUM for the slave role, and the two counters kept    *)
(* beside it.  The operations are the functions of the file.  DevSpec      *)
(* calls them in any order with any arguments; ConnManager calls them the  *)
(* way the demo application does.                                          *)
(***************************************************************************)
EXTENDS Integers, FiniteSets

CONSTANTS
  MASTER_MAX_NUM,   \* slots for connections in the master role
  SLAVE_MAX_NUM,    \* slots for connections in the slave role
  Peers,            \* identity addresses (type and address) of peer devices
  NoPeer            \* the zeroed address of an empty entry

ASSUME DeviceAssumption ==
  /\ MASTER_MAX_NUM \in Nat
  /\ SLAVE_MAX_NUM \in Nat
  /\ NoPeer \notin Peers

VARIABLES
  conn_dev_list,    \* the entries
  conn_master_num,  \* master connections in the list
  conn_slave_num    \* slave connections in the list

devVars == <<conn_dev_list, conn_master_num, conn_slave_num>>

-----------------------------------------------------------------------------
Roles == {"master", "slave"}

(* The controller numbers master and slave connections apart and never uses
   0, which the application keeps for "no connection".                     *)
MasterHandles == 1 .. MASTER_MAX_NUM
SlaveHandles  == MASTER_MAX_NUM + 1 .. MASTER_MAX_NUM + SLAVE_MAX_NUM
Handles       == MasterHandles \cup SlaveHandles
NoHandle      == 0
HandleOrNone  == Handles \cup {NoHandle}

RoleOf(h) == IF h \in MasterHandles THEN "master" ELSE "slave"

MasterSlots == 0 .. MASTER_MAX_NUM - 1
SlaveSlots  == MASTER_MAX_NUM .. MASTER_MAX_NUM + SLAVE_MAX_NUM - 1
Slots       == MasterSlots \cup SlaveSlots
SlotsOf(role) == IF role = "master" THEN MasterSlots ELSE SlaveSlots

PeersOrNone == Peers \cup {NoPeer}

(* dev_char_info_t.  The ATT handles of the peer's characteristics are
   abstracted to the peer whose database they were read from; NoPeer stands
   for char_handle_valid = 0.                                              *)
Entry == [conn_state  : {0, 1},
          conn_handle : HandleOrNone,
          conn_role   : Roles,
          peer        : PeersOrNone,
          char_handle : PeersOrNone]

(* What memset(..., 0, sizeof) leaves; LL_ROLE_MASTER is 0. *)
EmptyEntry == [conn_state |-> 0, conn_handle |-> NoHandle, conn_role |-> "master",
               peer |-> NoPeer, char_handle |-> NoPeer]

NewEntry(h, role, p) == [conn_state |-> 1, conn_handle |-> h, conn_role |-> role,
                         peer |-> p, char_handle |-> NoPeer]

Least(S) == CHOOSE i \in S : \A j \in S : i <= j

Used(S) == {i \in S : conn_dev_list[i].conn_state = 1}
Free(S) == {i \in S : conn_dev_list[i].conn_state = 0}

(* The entries in connection state that carry connection handle h, and
   those of a peer address.                                                *)
SlotsWithHandle(h) == {i \in Slots : /\ conn_dev_list[i].conn_handle = h
                                     /\ conn_dev_list[i].conn_state = 1}
SlotsWithPeer(p)   == {i \in Slots : /\ conn_dev_list[i].peer = p
                                     /\ conn_dev_list[i].conn_state = 1}

-----------------------------------------------------------------------------
DevInit ==
  /\ conn_dev_list = [i \in Slots |-> EmptyEntry]
  /\ conn_master_num = 0
  /\ conn_slave_num = 0

CountAdd(role, k) ==
  /\ conn_master_num' = IF role = "master" THEN conn_master_num + k ELSE conn_master_num
  /\ conn_slave_num'  = IF role = "master" THEN conn_slave_num ELSE conn_slave_num + k

(* Mutants: search from slot 0 for either role; overwrite when full; forget the
   counter.                                                                *)
InsertedListAnySlot(h, role, p) ==
  LET free == Free(Slots)
  IN  IF free = {} THEN conn_dev_list
      ELSE [conn_dev_list EXCEPT ![Least(free)] = NewEntry(h, role, p)]
InsertedListOverwrites(h, role, p) ==
  IF SlotsOf(role) = {} THEN conn_dev_list
  ELSE [conn_dev_list EXCEPT ![Least(SlotsOf(role))] = NewEntry(h, role, p)]
InsertedNumNone(role) == 0
InsertedNumAlways(role) == 1

(* dev_char_info_insert_by_conn_event: the first free slot of the role; a
   full list is left as it is (the function returns INVALID_CONN_IDX).     *)
InsertedList(h, role, p) ==
  LET free == Free(SlotsOf(role))
  IN  IF free = {} THEN conn_dev_list
      ELSE [conn_dev_list EXCEPT ![Least(free)] = NewEntry(h, role, p)]

InsertedNum(role) == IF Free(SlotsOf(role)) = {} THEN 0 ELSE 1

InsertByConnEvent(h, role, p) ==
  /\ conn_dev_list' = InsertedList(h, role, p)
  /\ CountAdd(role, InsertedNum(role))

(* Mutant: the counter is not taken back. *)
DeleteFirstUncounted(match) ==
  IF match = {} THEN UNCHANGED devVars
  ELSE /\ conn_dev_list' = [conn_dev_list EXCEPT ![Least(match)] = EmptyEntry]
       /\ UNCHANGED <<conn_master_num, conn_slave_num>>

(* Remove the first entry of a set of matching entries. *)
DeleteFirst(match) ==
  IF match = {}
  THEN UNCHANGED devVars
  ELSE LET i == Least(match)
       IN  /\ conn_dev_list' = [conn_dev_list EXCEPT ![i] = EmptyEntry]
           /\ CountAdd(conn_dev_list[i].conn_role, -1)

(* Mutant: only the first conn_master_num slots are searched. *)
DeleteByConnhandleCounted(h) == DeleteFirst({i \in SlotsWithHandle(h) : i < conn_master_num})

DeleteByConnhandle(h) == DeleteFirst(SlotsWithHandle(h))

DeleteByPeerMac(p) == DeleteFirst(SlotsWithPeer(p))

(* dev_char_info_search_by_connhandle and dev_char_get_conn_role_by_connhandle,
   which give the first match. *)
Connected(h)  == SlotsWithHandle(h) # {}
EntryOf(h)    == conn_dev_list[Least(SlotsWithHandle(h))]
IsMaster(h)   == Connected(h) /\ EntryOf(h).conn_role = "master"

(* dev_char_info_add_peer_att_handle (simple_sdp.c) on a list with num master
   connections: only the first num slots are looked at, and conn_state is not. *)
WithAttHandle(list, num, h, chars) ==
  LET match == {i \in Slots : i < num /\ list[i].conn_handle = h}
  IN  IF match = {} THEN list
      ELSE [list EXCEPT ![Least(match)].char_handle = chars]

AddPeerAttHandle(h, chars) ==
  /\ conn_dev_list' = WithAttHandle(conn_dev_list, conn_master_num, h, chars)
  /\ UNCHANGED <<conn_master_num, conn_slave_num>>

(* The connection complete handler inserts a master connection and, when the
   ATT handles of the peer are on flash, adds them in the same call.       *)
InsertWithAttHandle(h, p, chars) ==
  /\ conn_dev_list' = WithAttHandle(InsertedList(h, "master", p),
                                    conn_master_num + InsertedNum("master"), h, chars)
  /\ CountAdd("master", InsertedNum("master"))

-----------------------------------------------------------------------------
DevNext ==
  \/ \E h \in Handles, p \in Peers : InsertByConnEvent(h, RoleOf(h), p)
  \/ \E h \in MasterHandles, p \in Peers, c \in Peers : InsertWithAttHandle(h, p, c)
  \/ \E h \in Handles : DeleteByConnhandle(h)
  \/ \E p \in Peers : DeleteByPeerMac(p)
  \/ \E h \in HandleOrNone, c \in PeersOrNone : AddPeerAttHandle(h, c)

DevSpec == DevInit /\ [][DevNext]_devVars

-----------------------------------------------------------------------------
(* Every variable has its type, and the roles of the connected entries are
   those of the half of the array they are in (the table in the comment at
   the head of device_manage.c).                                           *)
DevTypeOK ==
  /\ conn_dev_list \in [Slots -> Entry]
  /\ conn_master_num \in Nat
  /\ conn_slave_num \in Nat
  /\ \A i \in Slots : conn_dev_list[i].conn_state = 1 =>
        i \in SlotsOf(conn_dev_list[i].conn_role)

(* The counters are the numbers of connected entries of each role: the two
   are updated apart from the entries, in four functions, and the
   application decides with them (key_change_proc looks for a master
   connection only when conn_master_num is not 0).                         *)
CountsMatch ==
  /\ conn_master_num = Cardinality(Used(MasterSlots))
  /\ conn_slave_num = Cardinality(Used(SlaveSlots))

(* A connection in the list is never overwritten by another one: its entry
   stays its own until it is deleted, also when the list is full.          *)
EntriesNotOverwritten ==
  [][ \A i \in Slots :
        conn_dev_list[i].conn_state = 1 /\ conn_dev_list'[i].conn_state = 1
          => /\ conn_dev_list'[i].conn_handle = conn_dev_list[i].conn_handle
             /\ conn_dev_list'[i].peer = conn_dev_list[i].peer ]_devVars
=============================================================================
