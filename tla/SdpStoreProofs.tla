--------------------------- MODULE SdpStoreProofs ----------------------------
(***************************************************************************)
(* FoundIsDiscovered of SdpStore for any peers, handles and number of      *)
(* units.                                                                  *)
(*                                                                         *)
(* The argument: the units that are in use come first (UsedFirst), so that *)
(* a search sees every record; the unit of a store under way is blank and  *)
(* already holds what was written to it (StoringInv); the record in force  *)
(* of a peer is where its last discovery put it (RecordsInv); and a unit   *)
(* that would be found for a peer is the one of its record (HoldsInv).     *)
(***************************************************************************)
EXTENDS SdpStore, FiniteSetTheorems, WellFoundedInduction, TLAPS

Units == [mark : {"blank", "bond", "erased"}, addr : SUBSET SdpPeers, handles : SUBSET AttHandles]

SdpTypeOK ==
  /\ att \in [SdpUnits -> Units]
  /\ \A u \in SdpUnits : IsFiniteSet(att[u].addr) /\ IsFiniteSet(att[u].handles)
  /\ storing = NoStore \/ storing \in [step : {"addr", "handles", "mark"}, unit : SdpUnits,
                                       peer : SdpPeers, handles : AttHandles]
  /\ discovered \in [SdpPeers -> {NoRecord} \cup [unit : SdpUnits, handles : AttHandles]]

UsedFirst == \A u, v \in SdpUnits : u < v /\ IsBlank(u) => IsBlank(v)

StoringInv ==
  storing # NoStore =>
    /\ IsBlank(storing.unit)
    /\ \A u \in SdpUnits : u < storing.unit => ~IsBlank(u)
    /\ \A u \in SdpUnits : ~Holds(u, storing.peer)
    /\ storing.step \in {"handles", "mark"} => storing.peer \in att[storing.unit].addr
    /\ storing.step = "mark" => storing.handles \in att[storing.unit].handles

RecordsInv ==
  \A p \in SdpPeers : discovered[p] # NoRecord =>
    /\ att[discovered[p].unit].mark = "bond"
    /\ p \in att[discovered[p].unit].addr
    /\ discovered[p].handles \in att[discovered[p].unit].handles

HoldsInv ==
  \A u \in SdpUnits, p \in SdpPeers :
    Holds(u, p) => discovered[p] # NoRecord /\ discovered[p].unit = u

SdpInv == SdpTypeOK /\ UsedFirst /\ StoringInv /\ RecordsInv /\ HoldsInv

-----------------------------------------------------------------------------
(* A set of numbers that is not empty has a least one. *)
LEMMA LeastExists ==
  ASSUME NEW S \in SUBSET Nat, S # {}
  PROVE  \E m \in S : \A k \in S : m <= k
<1> DEFINE R == {ss \in Nat \X Nat : ss[1] < ss[2]}
<1>1. OpToRel(<, Nat) = R
  BY Zenon DEF OpToRel
<1>2. IsWellFoundedOn(R, Nat)
  BY <1>1, NatLessThanWellFounded, Zenon
<1>3. \A k, m \in S : ~(<<k, m>> \in R) => m <= k
  OBVIOUS
<1> HIDE DEF R
<1>4. \E m \in S : \A k \in S : ~(<<k, m>> \in R)
  BY <1>2, WFMin
<1> QED
  BY <1>3, <1>4

(* The unit a search finds is the first that fits. *)
LEMMA FirstIsLeast ==
  ASSUME NEW S \in SUBSET SdpUnits, S # {}
  PROVE  FirstOf(S) \in S /\ \A n \in S : FirstOf(S) <= n
<1>1. S \in SUBSET Nat
  BY SdpAssumption DEF SdpUnits
<1> QED
  BY <1>1, LeastExists DEF FirstOf

(* A finite set of at most one element that has one *)
LEMMA OnlyOne ==
  ASSUME NEW S, IsFiniteSet(S), NEW x \in S, ~(Cardinality(S) > 1)
  PROVE  S = {x}
<1>1. SUFFICES ASSUME NEW y \in S, y # x PROVE FALSE
  OBVIOUS
<1>2. Cardinality(S \ {x}) = Cardinality(S) - 1 /\ IsFiniteSet(S \ {x})
  BY FS_RemoveElement
<1>3. Cardinality(S) \in Nat /\ Cardinality(S \ {x}) \in Nat
  BY <1>2, FS_CardinalityType
<1>4. S \ {x} # {} /\ Cardinality(S \ {x}) = 0
  BY <1>1, <1>2, <1>3
<1> QED
  BY <1>2, <1>4, FS_EmptySet

(* A search sees every record: no unit in use lies behind a blank one. *)
LEMMA SearchSeesAll ==
  ASSUME UsedFirst, NEW p
  PROVE  Search(p) = {u \in SdpUnits : Holds(u, p)}
<1>1. ASSUME NEW u \in SdpUnits, Holds(u, p), NEW v \in 0 .. u PROVE ~IsBlank(v)
  <2>1. v \in SdpUnits /\ (v = u \/ v < u)
    BY SdpAssumption DEF SdpUnits
  <2> QED
    BY <1>1, <2>1 DEF UsedFirst, Holds, IsBlank
<1> QED
  BY <1>1 DEF Search, BeforeEnd

-----------------------------------------------------------------------------
(* The inductive invariant says what the property does. *)
LEMMA InvFindsRecords == SdpInv => FoundIsDiscovered
<1> SUFFICES ASSUME SdpInv, NEW p \in SdpPeers
             PROVE  /\ Search(p) # {} => \/ Spoiled(FirstOf(Search(p)))
                                         \/ FoundHandles(p) = {discovered[p].handles}
                    /\ discovered[p] # NoRecord => \/ Spoiled(discovered[p].unit)
                                                   \/ Search(p) = {discovered[p].unit}
  BY DEF FoundIsDiscovered
<1>1. Search(p) = {u \in SdpUnits : Holds(u, p)}
  BY SearchSeesAll DEF SdpInv
<1>2. \A u \in Search(p) : discovered[p] # NoRecord /\ discovered[p].unit = u
  BY <1>1 DEF SdpInv, HoldsInv
<1>3. discovered[p] # NoRecord => discovered[p].unit \in SdpUnits
  BY DEF SdpInv, SdpTypeOK
<1>4. ASSUME Search(p) # {}, ~Spoiled(FirstOf(Search(p)))
      PROVE  FoundHandles(p) = {discovered[p].handles}
  <2>1. FirstOf(Search(p)) \in Search(p)
    BY <1>1, <1>4, FirstIsLeast
  <2>2. discovered[p] # NoRecord /\ FirstOf(Search(p)) = discovered[p].unit
    BY <1>2, <2>1
  <2>3. discovered[p].handles \in att[discovered[p].unit].handles
    BY <2>2 DEF SdpInv, RecordsInv
  <2>4. IsFiniteSet(att[discovered[p].unit].handles)
    BY <1>3, <2>2 DEF SdpInv, SdpTypeOK
  <2>5. ~(Cardinality(att[discovered[p].unit].handles) > 1)
    BY <1>4, <2>2 DEF Spoiled
  <2>6. att[discovered[p].unit].handles = {discovered[p].handles}
    BY <2>3, <2>4, <2>5, OnlyOne
  <2> QED
    BY <2>2, <2>6 DEF FoundHandles
<1>5. ASSUME discovered[p] # NoRecord, ~Spoiled(discovered[p].unit)
      PROVE  Search(p) = {discovered[p].unit}
  <2>1. /\ att[discovered[p].unit].mark = "bond"
        /\ p \in att[discovered[p].unit].addr
    BY <1>5 DEF SdpInv, RecordsInv
  <2>2. IsFiniteSet(att[discovered[p].unit].addr)
    BY <1>3, <1>5 DEF SdpInv, SdpTypeOK
  <2>3. att[discovered[p].unit].addr = {p}
    BY <1>5, <2>1, <2>2, OnlyOne DEF Spoiled
  <2>4. discovered[p].unit \in Search(p)
    BY <1>1, <1>3, <1>5, <2>1, <2>3 DEF Holds
  <2> QED
    BY <1>2, <2>4
<1> QED
  BY <1>4, <1>5

-----------------------------------------------------------------------------
LEMMA SdpInvInit == SdpInit => SdpInv
<1> SUFFICES ASSUME SdpInit PROVE SdpInv
  OBVIOUS
<1>1. IsFiniteSet({})
  BY FS_EmptySet
<1>2. \A u \in SdpUnits : att[u] = BlankUnit
  BY DEF SdpInit
<1>3. SdpTypeOK
  BY <1>1, <1>2 DEF SdpInit, SdpTypeOK, BlankUnit, Units
<1>4. \A u \in SdpUnits : IsBlank(u)
  BY <1>2 DEF IsBlank, BlankUnit
<1> QED
  BY <1>3, <1>4 DEF SdpInit, SdpInv, UsedFirst, StoringInv, RecordsInv, HoldsInv, Holds, IsBlank

(* Writing to the unit under way: its mark stays, and it is blank. *)
WritesBlank ==
  /\ \A u \in SdpUnits : att'[u].mark = att[u].mark
  /\ \A u \in SdpUnits : ~IsBlank(u) => att'[u] = att[u]

LEMMA BlankWritten ==
  ASSUME SdpInv, WritesBlank, discovered' = discovered
  PROVE  UsedFirst' /\ RecordsInv' /\ HoldsInv'
<1>1. UsedFirst'
  BY DEF SdpInv, UsedFirst, IsBlank, WritesBlank
<1>2. RecordsInv'
  <2> SUFFICES ASSUME NEW p \in SdpPeers, discovered[p] # NoRecord
               PROVE  att'[discovered[p].unit] = att[discovered[p].unit]
    BY DEF SdpInv, RecordsInv
  <2>1. discovered[p].unit \in SdpUnits /\ ~IsBlank(discovered[p].unit)
    BY DEF SdpInv, SdpTypeOK, RecordsInv, IsBlank
  <2> QED
    BY <2>1 DEF WritesBlank
<1>3. \A u \in SdpUnits, p \in SdpPeers : Holds(u, p)' => Holds(u, p)
  BY DEF Holds, IsBlank, WritesBlank
<1>4. HoldsInv'
  BY <1>3 DEF SdpInv, HoldsInv
<1> QED
  BY <1>1, <1>2, <1>4

(* One field of the unit under way takes a value more. *)
LEMMA ClearWrites ==
  ASSUME SdpInv, storing # NoStore, NEW field \in {"addr", "handles"}, NEW value,
         field = "addr" => value \in SdpPeers, field = "handles" => value \in AttHandles,
         Clear(storing.unit, field, value)
  PROVE  /\ WritesBlank
         /\ att' \in [SdpUnits -> Units]
         /\ \A u \in SdpUnits : IsFiniteSet(att'[u].addr) /\ IsFiniteSet(att'[u].handles)
         /\ \A u \in SdpUnits : u # storing.unit => att'[u] = att[u]
         /\ att'[storing.unit].addr = att[storing.unit].addr \cup (IF field = "addr" THEN {value} ELSE {})
         /\ att'[storing.unit].handles = att[storing.unit].handles \cup (IF field = "handles" THEN {value} ELSE {})
<1>1. storing.unit \in SdpUnits /\ IsBlank(storing.unit)
  BY DEF SdpInv, SdpTypeOK, StoringInv
<1>2. att \in [SdpUnits -> Units]
  BY DEF SdpInv, SdpTypeOK
<1>3. att' = [att EXCEPT ![storing.unit] = [att[storing.unit] EXCEPT ![field] = att[storing.unit][field] \cup {value}]]
  BY DEF Clear
<1>4. \A u \in SdpUnits : u # storing.unit => att'[u] = att[u]
  BY <1>1, <1>2, <1>3
<1>5. att'[storing.unit] = [att[storing.unit] EXCEPT ![field] = att[storing.unit][field] \cup {value}]
  BY <1>1, <1>2, <1>3
<1>6. /\ att'[storing.unit].mark = att[storing.unit].mark
      /\ att'[storing.unit].addr = att[storing.unit].addr \cup (IF field = "addr" THEN {value} ELSE {})
      /\ att'[storing.unit].handles = att[storing.unit].handles \cup (IF field = "handles" THEN {value} ELSE {})
      /\ att'[storing.unit] \in Units
  <2>1. CASE field = "addr"
    BY <1>1, <1>2, <1>5, <2>1 DEF Units
  <2>2. CASE field = "handles"
    BY <1>1, <1>2, <1>5, <2>2 DEF Units
  <2> QED
    BY <2>1, <2>2
<1>7. att' \in [SdpUnits -> Units]
  BY <1>1, <1>2, <1>3, <1>5, <1>6
<1>8. \A u \in SdpUnits : IsFiniteSet(att'[u].addr) /\ IsFiniteSet(att'[u].handles)
  <2>1. \A u \in SdpUnits : IsFiniteSet(att[u].addr) /\ IsFiniteSet(att[u].handles)
    BY DEF SdpInv, SdpTypeOK
  <2>2. IsFiniteSet(att[storing.unit].addr \cup {value}) /\ IsFiniteSet(att[storing.unit].handles \cup {value})
    BY <1>1, <2>1, FS_AddElement
  <2>3. IsFiniteSet(att'[storing.unit].addr) /\ IsFiniteSet(att'[storing.unit].handles)
    BY <1>1, <1>6, <2>1, <2>2
  <2> QED
    BY <1>4, <2>1, <2>3
<1>9. WritesBlank
  BY <1>1, <1>4, <1>6 DEF WritesBlank
<1> QED
  BY <1>4, <1>6, <1>7, <1>8, <1>9

-----------------------------------------------------------------------------
(* What a store under way is *)
LEMMA StoringTyped ==
  ASSUME SdpInv, storing # NoStore
  PROVE  /\ storing \in [step : {"addr", "handles", "mark"}, unit : SdpUnits,
                         peer : SdpPeers, handles : AttHandles]
         /\ IsBlank(storing.unit)
         /\ \A u \in SdpUnits : u < storing.unit => ~IsBlank(u)
         /\ \A u \in SdpUnits : ~Holds(u, storing.peer)
  BY DEF SdpInv, SdpTypeOK, StoringInv

LEMMA UnderWay == ASSUME NEW s \in {"addr", "handles", "mark"}, storing.step = s
                  PROVE  storing # NoStore
  BY DEF NoStore

LEMMA StoreStartKeeps == SdpInv /\ StoreStart => SdpInv'
<1> SUFFICES ASSUME SdpInv, StoreStart PROVE SdpInv'
  OBVIOUS
<1>1. PICK p \in SdpPeers, h \in AttHandles :
        /\ Search(p) = {}
        /\ storing' = [step |-> "addr", unit |-> FirstOf(BlankUnits), peer |-> p, handles |-> h]
  BY DEF StoreStart
<1>2. UNCHANGED <<att, discovered>>
  BY DEF StoreStart
<1>3. FirstOf(BlankUnits) \in BlankUnits /\ \A u \in BlankUnits : FirstOf(BlankUnits) <= u
  BY FirstIsLeast DEF StoreStart, BlankUnits
<1>4. \A u \in SdpUnits : ~Holds(u, p)
  BY <1>1, SearchSeesAll DEF SdpInv
<1>5. FirstOf(BlankUnits) \in SdpUnits /\ IsBlank(FirstOf(BlankUnits))
  BY <1>3 DEF BlankUnits
<1>6. \A u \in SdpUnits : u < FirstOf(BlankUnits) => ~IsBlank(u)
  BY <1>3, <1>5 DEF BlankUnits, SdpUnits
<1>7. SdpTypeOK'
  BY <1>1, <1>2, <1>5 DEF SdpInv, SdpTypeOK
<1>8. StoringInv'
  BY <1>1, <1>2, <1>4, <1>5, <1>6 DEF StoringInv, IsBlank, Holds
<1> QED
  BY <1>2, <1>7, <1>8 DEF SdpInv, UsedFirst, RecordsInv, HoldsInv, IsBlank, Holds

LEMMA StoreAddrKeeps == SdpInv /\ StoreAddr => SdpInv'
<1> SUFFICES ASSUME SdpInv, StoreAddr PROVE SdpInv'
  OBVIOUS
<1>1. /\ storing.step = "addr" /\ discovered' = discovered
      /\ Clear(storing.unit, "addr", storing.peer)
      /\ storing' = [storing EXCEPT !.step = "handles"]
  BY DEF StoreAddr
<1>2. storing # NoStore
  BY <1>1, UnderWay
<1>3. /\ storing.unit \in SdpUnits /\ storing.peer \in SdpPeers /\ storing.handles \in AttHandles
      /\ storing \in [step : {"addr", "handles", "mark"}, unit : SdpUnits,
                      peer : SdpPeers, handles : AttHandles]
  BY <1>2, StoringTyped
<1>4. /\ WritesBlank
      /\ att' \in [SdpUnits -> Units]
      /\ \A u \in SdpUnits : IsFiniteSet(att'[u].addr) /\ IsFiniteSet(att'[u].handles)
      /\ att'[storing.unit].addr = att[storing.unit].addr \cup {storing.peer}
  BY <1>1, <1>2, <1>3, ClearWrites
<1>5. UsedFirst' /\ RecordsInv' /\ HoldsInv'
  BY <1>1, <1>4, BlankWritten
<1>6. SdpTypeOK'
  BY <1>1, <1>3, <1>4 DEF SdpInv, SdpTypeOK
<1>7. /\ storing'.unit = storing.unit /\ storing'.peer = storing.peer /\ storing'.step = "handles"
  BY <1>1, <1>3
<1>8. \A u \in SdpUnits : ~Holds(u, storing.peer)'
  BY <1>2, <1>4, <1>7, StoringTyped DEF Holds, WritesBlank, IsBlank
<1>9. StoringInv'
  BY <1>2, <1>3, <1>4, <1>7, <1>8, StoringTyped DEF StoringInv, IsBlank, WritesBlank, Holds
<1> QED
  BY <1>5, <1>6, <1>9 DEF SdpInv

LEMMA StoreHandlesKeeps == SdpInv /\ StoreHandles => SdpInv'
<1> SUFFICES ASSUME SdpInv, StoreHandles PROVE SdpInv'
  OBVIOUS
<1>1. /\ storing.step = "handles" /\ discovered' = discovered
      /\ Clear(storing.unit, "handles", storing.handles)
      /\ storing' = [storing EXCEPT !.step = "mark"]
  BY DEF StoreHandles
<1>2. storing # NoStore
  BY <1>1, UnderWay
<1>3. /\ storing.unit \in SdpUnits /\ storing.peer \in SdpPeers /\ storing.handles \in AttHandles
      /\ storing \in [step : {"addr", "handles", "mark"}, unit : SdpUnits,
                      peer : SdpPeers, handles : AttHandles]
  BY <1>2, StoringTyped
<1>4. /\ WritesBlank
      /\ att' \in [SdpUnits -> Units]
      /\ \A u \in SdpUnits : IsFiniteSet(att'[u].addr) /\ IsFiniteSet(att'[u].handles)
      /\ att'[storing.unit].addr = att[storing.unit].addr
      /\ att'[storing.unit].handles = att[storing.unit].handles \cup {storing.handles}
  BY <1>1, <1>2, <1>3, ClearWrites
<1>5. UsedFirst' /\ RecordsInv' /\ HoldsInv'
  BY <1>1, <1>4, BlankWritten
<1>6. SdpTypeOK'
  BY <1>1, <1>3, <1>4 DEF SdpInv, SdpTypeOK
<1>7. /\ storing'.unit = storing.unit /\ storing'.peer = storing.peer
      /\ storing'.handles = storing.handles
  BY <1>1, <1>3
<1>8. \A u \in SdpUnits : ~Holds(u, storing.peer)'
  BY <1>2, <1>4, <1>7, StoringTyped DEF Holds, WritesBlank, IsBlank
<1>9. storing.peer \in att[storing.unit].addr
  BY <1>1, <1>2 DEF SdpInv, StoringInv
<1>10. StoringInv'
  BY <1>2, <1>3, <1>4, <1>7, <1>8, <1>9, StoringTyped DEF StoringInv, IsBlank, WritesBlank, Holds
<1> QED
  BY <1>5, <1>6, <1>10 DEF SdpInv

(* The mark of one unit is written: a unit in use, and the first blank one
   when it is the unit of a store.                                         *)
LEMMA MarkWritten ==
  ASSUME SdpInv, NEW u \in SdpUnits, NEW m \in {"bond", "erased"},
         att' = [att EXCEPT ![u].mark = m],
         IsBlank(u) => \A v \in SdpUnits : v < u => ~IsBlank(v)
  PROVE  /\ att' \in [SdpUnits -> Units]
         /\ \A v \in SdpUnits : v # u => att'[v] = att[v]
         /\ att'[u].mark = m /\ att'[u].addr = att[u].addr /\ att'[u].handles = att[u].handles
         /\ \A v \in SdpUnits : IsFiniteSet(att'[v].addr) /\ IsFiniteSet(att'[v].handles)
         /\ UsedFirst'
<1>1. att \in [SdpUnits -> Units]
  BY DEF SdpInv, SdpTypeOK
<1>2. /\ \A v \in SdpUnits : v # u => att'[v] = att[v]
      /\ att'[u] = [att[u] EXCEPT !.mark = m]
  BY <1>1
<1>3. att'[u] \in Units /\ att'[u].mark = m /\ att'[u].addr = att[u].addr /\ att'[u].handles = att[u].handles
  BY <1>1, <1>2 DEF Units
<1>4. att' \in [SdpUnits -> Units]
  BY <1>1, <1>3
<1>5. \A v \in SdpUnits : IsFiniteSet(att'[v].addr) /\ IsFiniteSet(att'[v].handles)
  <2>1. \A v \in SdpUnits : IsFiniteSet(att[v].addr) /\ IsFiniteSet(att[v].handles)
    BY DEF SdpInv, SdpTypeOK
  <2> QED
    BY <1>2, <1>3, <2>1
<1>6. UsedFirst'
  <2> SUFFICES ASSUME NEW v \in SdpUnits, NEW w \in SdpUnits, v < w, IsBlank(v)' PROVE IsBlank(w)'
    BY DEF UsedFirst
  <2>1. v # u /\ IsBlank(v)
    BY <1>2, <1>3 DEF IsBlank
  <2>2. IsBlank(w)
    BY <2>1 DEF SdpInv, UsedFirst
  <2>3. w # u
    BY <2>1, <2>2
  <2> QED
    BY <1>2, <2>2, <2>3 DEF IsBlank
<1> QED
  BY <1>2, <1>3, <1>4, <1>5, <1>6

LEMMA StoreMarkKeeps == SdpInv /\ StoreMark => SdpInv'
<1> SUFFICES ASSUME SdpInv, StoreMark PROVE SdpInv'
  OBVIOUS
<1> DEFINE n == storing.unit
           q == storing.peer
<1>1. /\ storing.step = "mark" /\ storing' = NoStore
      /\ att' = [att EXCEPT ![n].mark = "bond"]
      /\ discovered' = [discovered EXCEPT ![q] = [unit |-> n, handles |-> storing.handles]]
  BY DEF StoreMark
<1>2. storing # NoStore
  BY <1>1, UnderWay
<1>3. /\ n \in SdpUnits /\ q \in SdpPeers /\ storing.handles \in AttHandles /\ IsBlank(n)
      /\ \A u \in SdpUnits : u < n => ~IsBlank(u)
      /\ \A u \in SdpUnits : ~Holds(u, q)
  BY <1>2, StoringTyped
<1>4. q \in att[n].addr /\ storing.handles \in att[n].handles
  BY <1>1, <1>2 DEF SdpInv, StoringInv
<1> HIDE DEF n, q
<1>5. /\ att' \in [SdpUnits -> Units]
      /\ \A v \in SdpUnits : v # n => att'[v] = att[v]
      /\ att'[n].mark = "bond" /\ att'[n].addr = att[n].addr /\ att'[n].handles = att[n].handles
      /\ \A v \in SdpUnits : IsFiniteSet(att'[v].addr) /\ IsFiniteSet(att'[v].handles)
      /\ UsedFirst'
  BY <1>1, <1>3, MarkWritten
<1>6. discovered \in [SdpPeers -> {NoRecord} \cup [unit : SdpUnits, handles : AttHandles]]
  BY DEF SdpInv, SdpTypeOK
<1>7. /\ discovered'[q] = [unit |-> n, handles |-> storing.handles]
      /\ \A p \in SdpPeers : p # q => discovered'[p] = discovered[p]
      /\ discovered' \in [SdpPeers -> {NoRecord} \cup [unit : SdpUnits, handles : AttHandles]]
  BY <1>1, <1>3, <1>6
<1>8. SdpTypeOK'
  BY <1>1, <1>5, <1>7 DEF SdpTypeOK
<1>9. StoringInv'
  BY <1>1 DEF StoringInv
<1>10. RecordsInv'
  <2> SUFFICES ASSUME NEW p \in SdpPeers, discovered'[p] # NoRecord
               PROVE  /\ att'[discovered'[p].unit].mark = "bond"
                      /\ p \in att'[discovered'[p].unit].addr
                      /\ discovered'[p].handles \in att'[discovered'[p].unit].handles
    BY DEF RecordsInv
  <2>1. CASE p = q
    BY <1>4, <1>5, <1>7, <2>1
  <2>2. CASE p # q
    <3>1. discovered'[p] = discovered[p] /\ discovered[p] # NoRecord
      BY <1>7, <2>2
    <3>2. /\ att[discovered[p].unit].mark = "bond" /\ p \in att[discovered[p].unit].addr
          /\ discovered[p].handles \in att[discovered[p].unit].handles
      BY <3>1 DEF SdpInv, RecordsInv
    <3>3. discovered[p].unit \in SdpUnits
      BY <1>6, <3>1
    <3>4. discovered[p].unit # n
      BY <1>3, <3>2 DEF IsBlank
    <3> QED
      BY <1>5, <3>1, <3>2, <3>3, <3>4
  <2> QED
    BY <2>1, <2>2
<1>11. HoldsInv'
  <2> SUFFICES ASSUME NEW u \in SdpUnits, NEW p \in SdpPeers, Holds(u, p)'
               PROVE  discovered'[p] # NoRecord /\ discovered'[p].unit = u
    BY DEF HoldsInv
  <2>1. CASE u = n
    <3>1. p = q
      BY <1>4, <1>5, <2>1 DEF Holds
    <3>2. [unit |-> n, handles |-> storing.handles] # NoRecord
      BY DEF NoRecord
    <3> QED
      BY <1>7, <2>1, <3>1, <3>2
  <2>2. CASE u # n
    <3>1. Holds(u, p)
      BY <1>5, <2>2 DEF Holds
    <3>2. p # q
      BY <1>3, <3>1
    <3>3. discovered[p] # NoRecord /\ discovered[p].unit = u
      BY <3>1 DEF SdpInv, HoldsInv
    <3> QED
      BY <1>7, <3>2, <3>3
  <2> QED
    BY <2>1, <2>2
<1> QED
  BY <1>5, <1>8, <1>9, <1>10, <1>11 DEF SdpInv

LEMMA SdpDeleteKeeps == SdpInv /\ SdpDelete => SdpInv'
<1> SUFFICES ASSUME SdpInv, SdpDelete PROVE SdpInv'
  OBVIOUS
<1>1. PICK q \in SdpPeers :
        /\ Search(q) # {}
        /\ att' = [att EXCEPT ![FirstOf(Search(q))].mark = "erased"]
        /\ discovered' = [discovered EXCEPT ![q] = NoRecord]
  BY DEF SdpDelete
<1>2. storing = NoStore /\ storing' = NoStore
  BY DEF SdpDelete
<1>3. PICK n \in SdpUnits : n = FirstOf(Search(q)) /\ Holds(n, q)
  BY <1>1, SearchSeesAll, FirstIsLeast DEF SdpInv
<1>4. ~IsBlank(n)
  BY <1>3 DEF Holds, IsBlank
<1>5. att' = [att EXCEPT ![n].mark = "erased"]
  BY <1>1, <1>3
<1>6. /\ att' \in [SdpUnits -> Units]
      /\ \A v \in SdpUnits : v # n => att'[v] = att[v]
      /\ att'[n].mark = "erased"
      /\ \A v \in SdpUnits : IsFiniteSet(att'[v].addr) /\ IsFiniteSet(att'[v].handles)
      /\ UsedFirst'
  BY <1>4, <1>5, MarkWritten
<1>7. discovered \in [SdpPeers -> {NoRecord} \cup [unit : SdpUnits, handles : AttHandles]]
  BY DEF SdpInv, SdpTypeOK
<1>8. /\ discovered'[q] = NoRecord
      /\ \A p \in SdpPeers : p # q => discovered'[p] = discovered[p]
      /\ discovered' \in [SdpPeers -> {NoRecord} \cup [unit : SdpUnits, handles : AttHandles]]
  BY <1>1, <1>7
<1>9. SdpTypeOK'
  BY <1>2, <1>6, <1>8 DEF SdpTypeOK
<1>10. StoringInv'
  BY <1>2 DEF StoringInv
<1>11. RecordsInv'
  <2> SUFFICES ASSUME NEW p \in SdpPeers, discovered'[p] # NoRecord
               PROVE  /\ att'[discovered'[p].unit].mark = "bond"
                      /\ p \in att'[discovered'[p].unit].addr
                      /\ discovered'[p].handles \in att'[discovered'[p].unit].handles
    BY DEF RecordsInv
  <2>1. p # q /\ discovered'[p] = discovered[p] /\ discovered[p] # NoRecord
    BY <1>8
  <2>2. /\ att[discovered[p].unit].mark = "bond" /\ p \in att[discovered[p].unit].addr
        /\ discovered[p].handles \in att[discovered[p].unit].handles
    BY <2>1 DEF SdpInv, RecordsInv
  <2>3. discovered[p].unit # n
    BY <1>3, <2>1, <2>2 DEF Holds
  <2>4. discovered[p].unit \in SdpUnits
    BY <1>7, <2>1
  <2> QED
    BY <1>6, <2>1, <2>2, <2>3, <2>4
<1>12. HoldsInv'
  <2> SUFFICES ASSUME NEW u \in SdpUnits, NEW p \in SdpPeers, Holds(u, p)'
               PROVE  discovered'[p] # NoRecord /\ discovered'[p].unit = u
    BY DEF HoldsInv
  <2>1. u # n
    BY <1>6 DEF Holds
  <2>2. Holds(u, p)
    BY <1>6, <2>1 DEF Holds
  <2>3. discovered[p] # NoRecord /\ discovered[p].unit = u
    BY <2>2 DEF SdpInv, HoldsInv
  <2>4. p # q
    BY <1>3, <2>1, <2>3 DEF SdpInv, HoldsInv
  <2> QED
    BY <1>8, <2>3, <2>4
<1> QED
  BY <1>6, <1>9, <1>10, <1>11, <1>12 DEF SdpInv

LEMMA SdpPowerLossKeeps == SdpInv /\ SdpPowerLoss => SdpInv'
<1> SUFFICES ASSUME SdpInv, SdpPowerLoss PROVE SdpInv'
  OBVIOUS
<1>1. storing # NoStore /\ storing' = NoStore /\ discovered' = discovered
  BY DEF SdpPowerLoss
<1>2. StoringInv'
  BY <1>1 DEF StoringInv
<1>3. /\ storing.unit \in SdpUnits /\ storing.peer \in SdpPeers /\ storing.handles \in AttHandles
      /\ IsBlank(storing.unit) /\ \A u \in SdpUnits : u < storing.unit => ~IsBlank(u)
  BY <1>1, StoringTyped
<1>4. ASSUME WritesBlank, att' \in [SdpUnits -> Units],
             \A u \in SdpUnits : IsFiniteSet(att'[u].addr) /\ IsFiniteSet(att'[u].handles)
      PROVE  SdpInv'
  <2>1. SdpTypeOK'
    BY <1>1, <1>4 DEF SdpInv, SdpTypeOK
  <2> QED
    BY <1>1, <1>2, <1>4, <2>1, BlankWritten DEF SdpInv
<1>5. CASE UNCHANGED att
  BY <1>4, <1>5 DEF SdpInv, SdpTypeOK, WritesBlank
<1>6. CASE Clear(storing.unit, "addr", storing.peer)
  BY <1>1, <1>3, <1>4, <1>6, ClearWrites
<1>7. CASE Clear(storing.unit, "handles", storing.handles)
  BY <1>1, <1>3, <1>4, <1>7, ClearWrites
<1>8. CASE att' = [att EXCEPT ![storing.unit].mark = "erased"]
  <2>1. /\ att' \in [SdpUnits -> Units]
        /\ \A v \in SdpUnits : v # storing.unit => att'[v] = att[v]
        /\ att'[storing.unit].mark = "erased"
        /\ \A v \in SdpUnits : IsFiniteSet(att'[v].addr) /\ IsFiniteSet(att'[v].handles)
        /\ UsedFirst'
    BY <1>3, <1>8, MarkWritten
  <2>2. SdpTypeOK'
    BY <1>1, <2>1 DEF SdpInv, SdpTypeOK
  <2>3. RecordsInv'
    <3> SUFFICES ASSUME NEW p \in SdpPeers, discovered[p] # NoRecord
                 PROVE  att'[discovered[p].unit] = att[discovered[p].unit]
      BY <1>1 DEF SdpInv, RecordsInv
    <3>1. discovered[p].unit \in SdpUnits /\ ~IsBlank(discovered[p].unit)
      BY DEF SdpInv, SdpTypeOK, RecordsInv, IsBlank
    <3> QED
      BY <1>3, <2>1, <3>1
  <2>4. \A u \in SdpUnits, p \in SdpPeers : Holds(u, p)' => Holds(u, p)
    BY <2>1 DEF Holds
  <2>5. HoldsInv'
    BY <1>1, <2>4 DEF SdpInv, HoldsInv
  <2> QED
    BY <1>2, <2>1, <2>2, <2>3, <2>5 DEF SdpInv
<1> QED
  BY <1>5, <1>6, <1>7, <1>8 DEF SdpPowerLoss

-----------------------------------------------------------------------------
LEMMA SdpInvNext == SdpInv /\ [SdpNext]_sdpStoreVars => SdpInv'
<1> SUFFICES ASSUME SdpInv, [SdpNext]_sdpStoreVars PROVE SdpInv'
  OBVIOUS
<1>1. CASE UNCHANGED sdpStoreVars
  BY <1>1 DEF sdpStoreVars, SdpInv, SdpTypeOK, UsedFirst, StoringInv, RecordsInv, HoldsInv, Holds, IsBlank
<1>2. CASE StoreFull
  BY <1>1, <1>2 DEF StoreFull
<1> QED
  BY <1>1, <1>2, StoreStartKeeps, StoreAddrKeeps, StoreHandlesKeeps, StoreMarkKeeps,
     SdpDeleteKeeps, SdpPowerLossKeeps DEF SdpNext

(* Whatever is stored and deleted, and wherever power is lost, a search finds
   the handles of the peer's last discovery; only a unit that was written over
   the rest of a store cut short may be lost.                              *)
THEOREM RecordsAreFound == SdpSpec => []FoundIsDiscovered
<1>1. SdpSpec => []SdpInv
  BY SdpInvInit, SdpInvNext, PTL DEF SdpSpec
<1> QED
  BY <1>1, InvFindsRecords, PTL
=============================================================================
