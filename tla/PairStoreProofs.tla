--------------------------- MODULE PairStoreProofs ---------------------------
(***************************************************************************)
(* Proofs about PairStore: the table in RAM and the sector in flash agree  *)
(* in every state, the start-up never meets more valid marks than the      *)
(* table has entries, and the bonds it would find are those that BondList  *)
(* promises, for any number of units, bonds and peers.                     *)
(*                                                                         *)
(* Layout(f, t, e) says that the sector f is written in its first e units  *)
(* and holds the bonds of table t in the order of their units.  Each       *)
(* operation is a sequence of writes; a lemma says for each kind of write, *)
(* whole or broken by a power loss, which layout it makes of a layout, and *)
(* another that the start-up reads back from the sector just that table.   *)
(***************************************************************************)
EXTENDS PairStore, FunctionTheorems, SequenceTheorems, FiniteSetTheorems, TLAPS

(* A function on 1 .. n is a sequence of length n. *)
LEMMA IsSeq ==
  ASSUME NEW n \in Nat, NEW S, NEW f \in [1 .. n -> S]
  PROVE  f \in Seq(S) /\ Len(f) = n
OBVIOUS

(* The cells that are no bonds differ from those that are. *)
LEMMA CellFacts ==
  /\ Blank # Erased /\ Blank # Unknown /\ Erased # Unknown
  /\ Unknown \in Bonds /\ Blank \notin Bonds /\ Erased \notin Bonds
  /\ \A p \in SlaveMacs : p # Unknown
<1>1. /\ Cardinality({Unknown}) = 1 /\ IsFiniteSet({Unknown})
      /\ Cardinality({Erased}) = 1 /\ IsFiniteSet({Erased})
  BY FS_Singleton
<1>2. Cardinality({Erased, Unknown}) \in 0 .. 2 /\ IsFiniteSet({Erased, Unknown})
  <2>1. {Unknown} \cup {Erased} = {Erased, Unknown}
    OBVIOUS
  <2> QED
    BY <1>1, <2>1, FS_AddElement
<1>3. Blank \notin {Erased, Unknown}
  <2>1. Blank \in {Erased, Unknown} => {Blank, Erased, Unknown} = {Erased, Unknown}
    OBVIOUS
  <2> QED
    BY PairAssumption, <1>2, <2>1
<1>4. Erased # Unknown
  <2> SUFFICES ASSUME Erased = Unknown PROVE FALSE
    OBVIOUS
  <2>1. {Blank, Erased, Unknown} = {Erased} \cup {Blank}
    OBVIOUS
  <2>2. Cardinality({Erased} \cup {Blank}) \in 0 .. 2
    BY <1>1, FS_AddElement
  <2> QED
    BY PairAssumption, <2>1, <2>2
<1> QED
  BY PairAssumption, <1>3, <1>4 DEF Bonds

(* The table fits the sector. *)
LEMMA SizeFacts ==
  /\ UNITS \in Nat /\ USER_PAIR_SLAVE_MAX_NUM \in Nat \ {0}
  /\ USER_PAIR_SLAVE_MAX_NUM <= UNITS /\ UNITS > 0
<1>1. UNITS \div 2 <= UNITS
  BY PairAssumption
<1> QED
  BY PairAssumption, <1>1

(* Table t is what the sector f holds in its first e units, the ones that are
   written: its bonds, in the order of their units.                         *)
Entries == [unit : Units, peer : Bonds]
Filled(f, e) == e \in 0 .. UNITS /\ \A u \in Units : f[u] = Blank <=> e <= u
InOrder(t) == \A i, j \in 1 .. Len(t) : i < j => t[i].unit < t[j].unit
Lists(f, t) == /\ \A i \in 1 .. Len(t) : f[t[i].unit] = t[i].peer
               /\ \A u \in Units : f[u] \in Bonds => \E i \in 1 .. Len(t) : t[i].unit = u
Layout(f, t, e) ==
  f \in [Units -> Cells] /\ t \in Seq(Entries) /\ Filled(f, e) /\ InOrder(t) /\ Lists(f, t)

FirstUnits(t, n) == {t[i].unit : i \in 1 .. n}

(* What an entry of a table is. *)
LEMMA EntryAt ==
  ASSUME NEW t \in Seq(Entries), NEW i \in 1 .. Len(t)
  PROVE  /\ t[i] \in Entries /\ t[i].unit \in Units /\ t[i].unit \in Nat /\ t[i].peer \in Bonds
         /\ t[i].unit < UNITS /\ t[i] = [unit |-> t[i].unit, peer |-> t[i].peer]
<1>1. t[i] \in Entries
  BY ElementOfSeq
<1> QED
  BY PairAssumption, <1>1 DEF Entries, Units

(* The start-up reads as far as the written units go. *)
LEMMA EndIs ==
  ASSUME NEW f, NEW e, Filled(f, e)
  PROVE  End(f) = e
<1>1. e \in 0 .. UNITS /\ e \in Nat /\ \A u \in Units : f[u] = Blank <=> e <= u
  BY SizeFacts DEF Filled
<1>2. CASE e = UNITS
  <2>1. \A u \in Units : f[u] # Blank
    BY <1>1, <1>2 DEF Units
  <2> QED
    BY <1>2, <2>1 DEF End
<1>3. CASE e < UNITS
  <2>1. e \in Units /\ f[e] = Blank
    BY PairAssumption, <1>1, <1>3 DEF Units
  <2>2. \A v \in 0 .. e - 1 : v \in Units /\ f[v] # Blank
    BY PairAssumption, <1>1, <1>3 DEF Units
  <2>3. ASSUME NEW u \in Units, f[u] = Blank, \A v \in 0 .. u - 1 : f[v] # Blank
        PROVE  u = e
    <3>1. e <= u
      BY <1>1, <2>3
    <3>2. ~(e < u)
      BY <1>1, <2>1, <2>3 DEF Units
    <3> QED
      BY <1>1, <3>1, <3>2 DEF Units
  <2>4. End(f) = CHOOSE u \in Units : f[u] = Blank /\ \A v \in 0 .. u - 1 : f[v] # Blank
    BY <2>1 DEF End
  <2> QED
    BY <2>1, <2>2, <2>3, <2>4
<1> QED
  BY PairAssumption, <1>1, <1>2, <1>3

(* The valid marks are those of the table. *)
LEMMA MarkedIs ==
  ASSUME NEW f, NEW t, NEW e, Layout(f, t, e)
  PROVE  Marked(f) = {t[i].unit : i \in 1 .. Len(t)}
<1>1. Marked(f) = {u \in 0 .. e - 1 : f[u] \in Bonds}
  BY EndIs DEF Layout, Marked
<1>2. e \in 0 .. UNITS
  BY DEF Layout, Filled
<1>3. ASSUME NEW u \in Marked(f) PROVE u \in {t[i].unit : i \in 1 .. Len(t)}
  <2>1. u \in Units /\ f[u] \in Bonds
    BY <1>1, <1>2, <1>3, SizeFacts DEF Units
  <2> QED
    BY <2>1 DEF Layout, Lists
<1>4. ASSUME NEW i \in 1 .. Len(t) PROVE t[i].unit \in Marked(f)
  <2>1. /\ t[i].unit \in Units /\ t[i].peer \in Bonds /\ f[t[i].unit] = t[i].peer
    BY EntryAt DEF Layout, Lists
  <2>2. f[t[i].unit] # Blank
    BY <2>1, CellFacts
  <2>3. ~(e <= t[i].unit)
    BY <2>1, <2>2 DEF Layout, Filled
  <2> QED
    BY <1>1, <1>2, <2>1, <2>3, SizeFacts DEF Units
<1> QED
  BY <1>3, <1>4

(* The units before the i-th are i - 1. *)
LEMMA CountBefore ==
  ASSUME NEW t \in Seq(Entries), InOrder(t), NEW n \in 0 .. Len(t)
  PROVE  IsFiniteSet(FirstUnits(t, n)) /\ Cardinality(FirstUnits(t, n)) = n
<1> DEFINE S == FirstUnits(t, n)
           g == [i \in 1 .. n |-> t[i].unit]
<1>1. Len(t) \in Nat /\ n \in Nat
  BY LenProperties
<1>2. g \in [1 .. n -> S] /\ \A u \in S : \E i \in 1 .. n : g[i] = u
  BY DEF FirstUnits
<1>3. ASSUME NEW i \in 1 .. n, NEW j \in 1 .. n, g[i] = g[j] PROVE i = j
  <2>1. i \in 1 .. Len(t) /\ j \in 1 .. Len(t)
    BY <1>1
  <2>2. t[i].unit \in Nat /\ t[j].unit \in Nat /\ t[i].unit = t[j].unit
    BY <1>3, <2>1, EntryAt
  <2>3. ~(i < j) /\ ~(j < i)
    BY <2>1, <2>2 DEF InOrder
  <2> QED
    BY <2>1, <2>3
<1> HIDE DEF g, S
<1>4. g \in Bijection(1 .. n, S)
  <2>1. g \in Injection(1 .. n, S)
    BY <1>2, <1>3, Fun_IsInj
  <2>2. g \in Surjection(1 .. n, S)
    BY <1>2, Fun_IsSurj
  <2> QED
    BY <2>1, <2>2 DEF Bijection
<1>5. IsFiniteSet(1 .. n) /\ Cardinality(1 .. n) = n
  BY <1>1, FS_Interval
<1>6. ExistsBijection(1 .. n, S)
  BY <1>4 DEF ExistsBijection
<1>7. IsFiniteSet(S) /\ Cardinality(S) = n
  BY <1>5, <1>6, FS_Bijection
<1> QED
  BY <1>7 DEF S

(* The start-up finds the table and the end of a layout. *)
LEMMA ScanIs ==
  ASSUME NEW f, NEW t, NEW e, Layout(f, t, e)
  PROVE  End(f) = e /\ LastUsed(f) = e - 1 /\ Scanned(f) = t
<1> DEFINE M == Marked(f)
           n == Len(t)
<1>1. End(f) = e /\ LastUsed(f) = e - 1
  BY EndIs DEF Layout, LastUsed
<1>2. t \in Seq(Entries) /\ InOrder(t) /\ n \in Nat
  BY LenProperties DEF Layout
<1>3. M = FirstUnits(t, n)
  BY MarkedIs DEF FirstUnits
<1>4. Cardinality(M) = n
  <2>1. n \in 0 .. Len(t)
    BY <1>2
  <2> QED
    BY <1>2, <1>3, <2>1, CountBefore
<1>5. ASSUME NEW i \in 1 .. n
      PROVE  Cardinality({v \in M : v < t[i].unit}) = i - 1
  <2>1. \A j \in 1 .. n : t[j].unit < t[i].unit <=> j <= i - 1
    <3> SUFFICES ASSUME NEW j \in 1 .. n PROVE t[j].unit < t[i].unit <=> j <= i - 1
      OBVIOUS
    <3>1. t[i].unit \in Nat /\ t[j].unit \in Nat
      BY <1>2, EntryAt
    <3>2. (j < i => t[j].unit < t[i].unit) /\ (i < j => t[i].unit < t[j].unit)
      BY <1>2 DEF InOrder
    <3>3. i = j => t[j].unit = t[i].unit
      OBVIOUS
    <3> QED
      BY <1>2, <3>1, <3>2, <3>3
  <2>2. {v \in M : v < t[i].unit} = FirstUnits(t, i - 1)
    BY <1>2, <1>3, <2>1 DEF FirstUnits
  <2>3. i - 1 \in 0 .. n
    BY <1>2
  <2> QED
    BY <1>2, <2>2, <2>3, CountBefore
<1>6. ASSUME NEW i \in 1 .. n PROVE Nth(M, i) = t[i].unit
  <2>1. t[i].unit \in M /\ Cardinality({v \in M : v < t[i].unit}) = i - 1
    BY <1>3, <1>5 DEF FirstUnits
  <2>2. ASSUME NEW u \in M, Cardinality({v \in M : v < u}) = i - 1 PROVE u = t[i].unit
    <3>1. PICK j \in 1 .. n : u = t[j].unit
      BY <1>3 DEF FirstUnits
    <3>2. Cardinality({v \in M : v < u}) = j - 1
      BY <1>5, <3>1
    <3>3. i = j
      BY <1>2, <2>2, <3>2
    <3> QED
      BY <3>1, <3>3
  <2> HIDE DEF M
  <2> QED
    BY <2>1, <2>2 DEF Nth
<1>7. Scanned(f) = [i \in 1 .. n |-> [unit |-> t[i].unit, peer |-> f[t[i].unit]]]
  <2> HIDE DEF M, n
  <2>1. Scanned(f) = [i \in 1 .. Cardinality(M) |-> [unit |-> Nth(M, i), peer |-> f[Nth(M, i)]]]
    BY DEF Scanned, M
  <2> QED
    BY <1>4, <1>6, <2>1
<1>8. ASSUME NEW i \in 1 .. n PROVE t[i] = [unit |-> t[i].unit, peer |-> f[t[i].unit]]
  BY <1>2, EntryAt DEF Layout, Lists
<1>9. t = [i \in 1 .. n |-> t[i]]
  BY <1>2
<1> QED
  BY <1>1, <1>7, <1>8, <1>9

(* A sequence without its i-th element. *)
LEMMA RemoveAtIs ==
  ASSUME NEW S, NEW t \in Seq(S), NEW i \in 1 .. Len(t), NEW r, r = RemoveAt(t, i)
  PROVE  /\ r \in Seq(S) /\ Len(r) = Len(t) - 1 /\ Len(r) \in Nat
         /\ \A j \in 1 .. Len(r) : r[j] = IF j < i THEN t[j] ELSE t[j + 1]
<1> DEFINE a == SubSeq(t, 1, i - 1)
           b == SubSeq(t, i + 1, Len(t))
<1>1. Len(t) \in Nat /\ i \in Nat
  BY LenProperties
<1>2. /\ a \in Seq(S) /\ Len(a) = i - 1
      /\ \A j \in 1 .. i - 1 : a[j] = t[j]
  BY <1>1, SubSeqProperties
<1>3. /\ b \in Seq(S) /\ Len(b) = Len(t) - i
      /\ \A j \in 1 .. Len(t) - i : b[j] = t[i + j]
  BY <1>1, SubSeqProperties
<1> HIDE DEF a, b
<1>4. r = a \o b
  BY DEF RemoveAt, a, b
<1>5. r \in Seq(S) /\ Len(r) = Len(t) - 1
  <2>1. a \o b \in Seq(S) /\ Len(a \o b) = Len(a) + Len(b)
    BY <1>2, <1>3, ConcatProperties
  <2>2. (i - 1) + (Len(t) - i) = Len(t) - 1
    BY <1>1
  <2> QED
    BY <1>2, <1>3, <1>4, <2>1, <2>2
<1>6. ASSUME NEW j \in 1 .. Len(r) PROVE r[j] = IF j < i THEN t[j] ELSE t[j + 1]
  <2>1. r[j] = IF j <= Len(a) THEN a[j] ELSE b[j - Len(a)]
    BY <1>1, <1>2, <1>3, <1>4, <1>5, <1>6, ConcatProperties
  <2>2. CASE j < i
    BY <1>1, <1>2, <2>1, <2>2
  <2>3. CASE ~(j < i)
    <3>1. r[j] = b[j - (i - 1)] /\ j - (i - 1) \in 1 .. Len(t) - i
      BY <1>1, <1>2, <1>5, <2>1, <2>3
    <3>2. b[j - (i - 1)] = t[i + (j - (i - 1))]
      BY <1>3, <3>1
    <3>3. i + (j - (i - 1)) = j + 1
      BY <1>1, <1>5
    <3> QED
      BY <2>3, <3>1, <3>2, <3>3
  <2> QED
    BY <2>2, <2>3
<1> QED
  BY <1>1, <1>5, <1>6

(* The erased sector holds no bond. *)
LEMMA EmptyLayout == Layout(EmptySector, <<>>, 0)
<1>1. EmptySector \in [Units -> Cells]
  BY DEF EmptySector, Cells
<1>2. Filled(EmptySector, 0)
  BY SizeFacts DEF EmptySector, Filled, Units
<1>3. InOrder(<<>>) /\ <<>> \in Seq(Entries)
  BY DEF InOrder
<1>4. Lists(EmptySector, <<>>)
  BY CellFacts DEF EmptySector, Lists
<1> QED
  BY <1>1, <1>2, <1>3, <1>4 DEF Layout

(* Each entry has its unit, which is written and holds its peer. *)
LEMMA InLayout ==
  ASSUME NEW f, NEW t, NEW e, Layout(f, t, e), NEW i \in 1 .. Len(t)
  PROVE  /\ t[i].unit \in Units /\ t[i].unit < e /\ f[t[i].unit] = t[i].peer
         /\ f[t[i].unit] \in Bonds /\ f[t[i].unit] # Blank
<1>1. t \in Seq(Entries) /\ Filled(f, e) /\ Lists(f, t)
  BY DEF Layout
<1>2. t[i].unit \in Units /\ t[i].peer \in Bonds /\ f[t[i].unit] = t[i].peer
  BY <1>1, EntryAt DEF Lists
<1>3. f[t[i].unit] # Blank
  BY <1>2, CellFacts
<1>4. t[i].unit < e
  BY <1>1, <1>2, <1>3, SizeFacts DEF Filled, Units
<1> QED
  BY <1>2, <1>3, <1>4

(* One entry is erased. *)
LEMMA EraseOne ==
  ASSUME NEW f, NEW t, NEW e, Layout(f, t, e), NEW i \in 1 .. Len(t),
         NEW r, r = RemoveAt(t, i), NEW g, g = [f EXCEPT ![t[i].unit] = Erased]
  PROVE  Layout(g, r, e)
<1>1. /\ f \in [Units -> Cells] /\ t \in Seq(Entries) /\ Filled(f, e) /\ InOrder(t)
      /\ Lists(f, t) /\ t[i].unit \in Units
  BY InLayout DEF Layout
<1>2. /\ r \in Seq(Entries) /\ Len(r) = Len(t) - 1 /\ Len(r) \in Nat /\ Len(t) \in Nat
      /\ \A j \in 1 .. Len(r) : r[j] = IF j < i THEN t[j] ELSE t[j + 1]
  BY <1>1, RemoveAtIs, LenProperties, SMTT(30)
<1>3. g \in [Units -> Cells] /\ \A u \in Units : g[u] = IF u = t[i].unit THEN Erased ELSE f[u]
  <2>1. Erased \in Cells
    BY DEF Cells
  <2> QED
    BY <1>1, <2>1
<1>4. Filled(g, e)
  BY <1>1, <1>3, InLayout, CellFacts DEF Filled
<1>5. ASSUME NEW j \in 1 .. Len(r) 
      PROVE  \E k \in 1 .. Len(t) : k # i /\ r[j] = t[k] /\ k = IF j < i THEN j ELSE j + 1
  BY <1>2
<1>6. InOrder(r)
  <2> SUFFICES ASSUME NEW j \in 1 .. Len(r), NEW k \in 1 .. Len(r), j < k
               PROVE  r[j].unit < r[k].unit
    BY DEF InOrder
  <2>1. PICK j2 \in 1 .. Len(t) : r[j] = t[j2] /\ j2 = IF j < i THEN j ELSE j + 1
    BY <1>5
  <2>2. PICK k2 \in 1 .. Len(t) : r[k] = t[k2] /\ k2 = IF k < i THEN k ELSE k + 1
    BY <1>5
  <2>3. j2 < k2
    BY <2>1, <2>2, <1>2
  <2> QED
    BY <1>1, <2>1, <2>2, <2>3 DEF InOrder
<1>7. Lists(g, r)
  <2>1. ASSUME NEW j \in 1 .. Len(r) PROVE g[r[j].unit] = r[j].peer
    <3>1. PICK k \in 1 .. Len(t) : k # i /\ r[j] = t[k]
      BY <1>5
    <3>2. t[k].unit # t[i].unit
      <4>1. t[k].unit \in Nat /\ t[i].unit \in Nat
        BY <1>1, EntryAt
      <4>2. k < i \/ i < k
        BY <1>2, <3>1
      <4> QED
        BY <1>1, <4>1, <4>2 DEF InOrder
    <3> QED
      BY <1>3, <3>1, <3>2, InLayout
  <2>2. ASSUME NEW u \in Units, g[u] \in Bonds PROVE \E j \in 1 .. Len(r) : r[j].unit = u
    <3>1. u # t[i].unit /\ f[u] \in Bonds
      BY <1>3, <2>2, CellFacts
    <3>2. PICK k \in 1 .. Len(t) : t[k].unit = u
      BY <1>1, <3>1 DEF Lists
    <3>3. k # i
      BY <3>1, <3>2
    <3>4. CASE k < i
      <4>1. k \in 1 .. Len(r) /\ r[k] = t[k]
        BY <1>2, <3>4
      <4> QED
        BY <3>2, <4>1
    <3>5. CASE k > i
      <4>1. k - 1 \in 1 .. Len(r) /\ r[k - 1] = t[(k - 1) + 1] /\ (k - 1) + 1 = k
        BY <1>2, <3>5
      <4> QED
        BY <3>2, <4>1
    <3> QED
      BY <1>2, <3>3, <3>4, <3>5
  <2> QED
    BY <2>1, <2>2 DEF Lists
<1> QED
  BY <1>2, <1>3, <1>4, <1>6, <1>7 DEF Layout

(* A bond is stored in the first blank unit. *)
LEMMA StoreOne ==
  ASSUME NEW f, NEW t, NEW e, Layout(f, t, e), e < UNITS, NEW c \in Bonds,
         NEW n, n = [unit |-> e, peer |-> c],
         NEW r, r = Append(t, n), NEW g, g = [f EXCEPT ![e] = c]
  PROVE  Layout(g, r, e + 1)
<1>1. /\ f \in [Units -> Cells] /\ t \in Seq(Entries) /\ Filled(f, e) /\ InOrder(t)
      /\ Lists(f, t) /\ e \in Units /\ e \in Nat
  BY SizeFacts DEF Layout, Filled, Units
<1>2. n \in Entries /\ n.unit = e /\ n.peer = c
  BY <1>1 DEF Entries
<1>3. /\ r \in Seq(Entries) /\ Len(r) = Len(t) + 1 /\ Len(t) \in Nat
      /\ r[Len(t) + 1] = n /\ \A j \in 1 .. Len(t) : r[j] = t[j]
  BY <1>1, <1>2, AppendProperties, LenProperties
<1>4. g \in [Units -> Cells] /\ \A u \in Units : g[u] = IF u = e THEN c ELSE f[u]
  BY <1>1 DEF Cells
<1>5. Filled(g, e + 1)
  <2>1. e + 1 \in 0 .. UNITS
    BY PairAssumption, <1>1 DEF Units
  <2>2. \A u \in Units : g[u] = Blank <=> e + 1 <= u
    <3> SUFFICES ASSUME NEW u \in Units PROVE g[u] = Blank <=> e + 1 <= u
      OBVIOUS
    <3>1. u \in Int
      BY DEF Units
    <3>2. CASE u = e
      BY <1>1, <1>4, <3>2, CellFacts
    <3>3. CASE u # e
      <4>1. g[u] = Blank <=> e <= u
        BY <1>1, <1>4, <3>3 DEF Filled
      <4> QED
        BY <1>1, <3>1, <3>3, <4>1
    <3> QED
      BY <3>2, <3>3
  <2> QED
    BY <2>1, <2>2 DEF Filled
<1>6. \A j \in 1 .. Len(t) : t[j].unit < e /\ t[j].unit \in Units
  BY InLayout
<1>7. InOrder(r)
  <2> SUFFICES ASSUME NEW j \in 1 .. Len(r), NEW k \in 1 .. Len(r), j < k
               PROVE  r[j].unit < r[k].unit
    BY DEF InOrder
  <2>1. j \in 1 .. Len(t) /\ r[j] = t[j]
    BY <1>3
  <2>2. CASE k = Len(t) + 1
    BY <1>2, <1>3, <1>6, <2>1, <2>2
  <2>3. CASE k # Len(t) + 1
    <3>1. Len(r) = Len(t) + 1 /\ Len(t) \in Nat
      BY <1>3
    <3>2. k \in 1 .. Len(t)
      BY <2>3, <3>1
    <3>3. r[k] = t[k]
      BY <1>3, <3>2
    <3> QED
      BY <1>1, <2>1, <3>2, <3>3 DEF InOrder
  <2> QED
    BY <2>2, <2>3
<1>8. Lists(g, r)
  <2>1. ASSUME NEW j \in 1 .. Len(r) PROVE g[r[j].unit] = r[j].peer
    <3>1. CASE j = Len(t) + 1
      BY <1>1, <1>2, <1>3, <1>4, <3>1
    <3>2. CASE j # Len(t) + 1
      <4>1. j \in 1 .. Len(t) /\ r[j] = t[j]
        BY <1>3, <3>2
      <4>2. t[j].unit # e /\ t[j].unit \in Units
        BY <1>1, <1>6, <4>1 DEF Units
      <4> QED
        BY <1>1, <1>4, <4>1, <4>2, InLayout
    <3> QED
      BY <3>1, <3>2
  <2>2. ASSUME NEW u \in Units, g[u] \in Bonds PROVE \E j \in 1 .. Len(r) : r[j].unit = u
    <3>1. CASE u = e
      <4>1. Len(t) + 1 \in 1 .. Len(r) /\ r[Len(t) + 1].unit = u
        BY <1>2, <1>3, <3>1
      <4> QED
        BY <4>1
    <3>2. CASE u # e
      <4>1. PICK k \in 1 .. Len(t) : t[k].unit = u
        BY <1>1, <1>4, <2>2, <3>2 DEF Lists
      <4>2. k \in 1 .. Len(r) /\ r[k] = t[k]
        BY <1>3
      <4> QED
        BY <4>1, <4>2
    <3> QED
      BY <3>1, <3>2
  <2> QED
    BY <2>1, <2>2 DEF Lists
<1> QED
  BY <1>3, <1>4, <1>5, <1>7, <1>8 DEF Layout

(* A write that leaves no valid mark uses its unit up. *)
LEMMA SpoilOne ==
  ASSUME NEW f, NEW t, NEW e, Layout(f, t, e), e < UNITS,
         NEW g, g = [f EXCEPT ![e] = Erased]
  PROVE  Layout(g, t, e + 1)
<1>1. /\ f \in [Units -> Cells] /\ t \in Seq(Entries) /\ Filled(f, e) /\ InOrder(t)
      /\ Lists(f, t) /\ e \in Units /\ e \in Nat
  BY SizeFacts DEF Layout, Filled, Units
<1>2. g \in [Units -> Cells] /\ \A u \in Units : g[u] = IF u = e THEN Erased ELSE f[u]
  BY <1>1 DEF Cells
<1>3. Filled(g, e + 1)
  <2>1. e + 1 \in 0 .. UNITS
    BY PairAssumption, <1>1 DEF Units
  <2>2. \A u \in Units : g[u] = Blank <=> e + 1 <= u
    <3> SUFFICES ASSUME NEW u \in Units PROVE g[u] = Blank <=> e + 1 <= u
      OBVIOUS
    <3>1. u \in Int
      BY DEF Units
    <3>2. CASE u = e
      BY <1>1, <1>2, <3>2, CellFacts
    <3>3. CASE u # e
      <4>1. g[u] = Blank <=> e <= u
        BY <1>1, <1>2, <3>3 DEF Filled
      <4> QED
        BY <1>1, <3>1, <3>3, <4>1
    <3> QED
      BY <3>2, <3>3
  <2> QED
    BY <2>1, <2>2 DEF Filled
<1>4. Lists(g, t)
  <2>1. ASSUME NEW j \in 1 .. Len(t) PROVE g[t[j].unit] = t[j].peer
    <3>1. t[j].unit # e /\ t[j].unit \in Units
      BY <1>1, InLayout DEF Units
    <3> QED
      BY <1>2, <3>1, InLayout
  <2>2. \A u \in Units : g[u] \in Bonds => f[u] \in Bonds
    BY <1>2, CellFacts
  <2> QED
    BY <1>1, <2>1, <2>2 DEF Lists
<1> QED
  BY <1>1, <1>2, <1>3, <1>4 DEF Layout

(* The oldest k entries are erased. *)
Cleared(f, t, k) == [u \in Units |-> IF u \in FirstUnits(t, k) THEN Erased ELSE f[u]]

(* Removing from the oldest on leaves the newer bonds. *)
LEMMA EraseFirst ==
  ASSUME NEW f, NEW t, NEW e, Layout(f, t, e), NEW k \in 0 .. Len(t),
         NEW r, r = SubSeq(t, k + 1, Len(t)), NEW g, g = Cleared(f, t, k)
  PROVE  Layout(g, r, e)
<1>1. /\ f \in [Units -> Cells] /\ t \in Seq(Entries) /\ Filled(f, e) /\ InOrder(t)
      /\ Lists(f, t) /\ Len(t) \in Nat /\ k \in Nat
  BY LenProperties DEF Layout
<1>2. /\ r \in Seq(Entries) /\ Len(r) = Len(t) - k
      /\ \A j \in 1 .. Len(t) - k : r[j] = t[k + j]
  BY <1>1, SubSeqProperties
<1>3. ASSUME NEW i \in 1 .. Len(t) PROVE t[i].unit \in FirstUnits(t, k) <=> i <= k
  <2>1. i <= k => t[i].unit \in FirstUnits(t, k)
    BY DEF FirstUnits
  <2>2. ASSUME NEW j \in 1 .. k, t[j].unit = t[i].unit PROVE i <= k
    <3>1. j \in 1 .. Len(t) /\ j <= k
      BY <1>1
    <3>2. t[j].unit \in Nat
      BY <1>1, <3>1, EntryAt
    <3>3. ~(j < i)
      BY <1>1, <2>2, <3>1, <3>2 DEF InOrder
    <3> QED
      BY <1>1, <3>1, <3>3
  <2> QED
    BY <2>1, <2>2 DEF FirstUnits
<1>4. /\ g \in [Units -> Cells]
      /\ \A u \in Units : g[u] = IF u \in FirstUnits(t, k) THEN Erased ELSE f[u]
  BY <1>1 DEF Cells, Cleared
<1>5. Filled(g, e)
  <2>1. ASSUME NEW u \in Units, u \in FirstUnits(t, k) PROVE f[u] # Blank
    <3>1. PICK j \in 1 .. k : t[j].unit = u
      BY <2>1 DEF FirstUnits
    <3>2. j \in 1 .. Len(t)
      BY <1>1
    <3> QED
      BY <3>1, <3>2, InLayout
  <2>2. \A u \in Units : g[u] = Blank <=> f[u] = Blank
    BY <1>4, <2>1, CellFacts
  <2> QED
    BY <1>1, <2>2 DEF Filled
<1>6. InOrder(r)
  <2> SUFFICES ASSUME NEW i \in 1 .. Len(r), NEW j \in 1 .. Len(r), i < j
               PROVE  r[i].unit < r[j].unit
    BY DEF InOrder
  <2>1. r[i] = t[k + i] /\ r[j] = t[k + j]
    BY <1>2
  <2>2. Len(r) = Len(t) - k /\ Len(t) \in Nat /\ k \in Nat
    BY <1>1, <1>2
  <2>3. k + i \in 1 .. Len(t) /\ k + j \in 1 .. Len(t) /\ k + i < k + j
    BY <2>2
  <2> QED
    BY <1>1, <2>1, <2>3 DEF InOrder
<1>7. Lists(g, r)
  <2>1. ASSUME NEW j \in 1 .. Len(r) PROVE g[r[j].unit] = r[j].peer
    <3>1. Len(r) = Len(t) - k /\ Len(t) \in Nat /\ k \in Nat
      BY <1>1, <1>2
    <3>2. k + j \in 1 .. Len(t) /\ ~(k + j <= k)
      BY <3>1
    <3>3. r[j] = t[k + j]
      BY <1>2
    <3>4. t[k + j].unit \notin FirstUnits(t, k)
      BY <1>3, <3>2
    <3>5. t[k + j].unit \in Units /\ f[t[k + j].unit] = t[k + j].peer
      BY <3>2, InLayout
    <3> QED
      BY <1>4, <3>3, <3>4, <3>5
  <2>2. ASSUME NEW u \in Units, g[u] \in Bonds PROVE \E j \in 1 .. Len(r) : r[j].unit = u
    <3>1. u \notin FirstUnits(t, k) /\ f[u] \in Bonds
      BY <1>4, <2>2, CellFacts
    <3>2. PICK i \in 1 .. Len(t) : t[i].unit = u
      BY <1>1, <3>1 DEF Lists
    <3>3. ~(i <= k)
      BY <1>3, <3>1, <3>2
    <3>4. i - k \in 1 .. Len(r) /\ r[i - k] = t[k + (i - k)] /\ k + (i - k) = i
      BY <1>1, <1>2, <3>3
    <3> QED
      BY <3>2, <3>4
  <2> QED
    BY <2>1, <2>2 DEF Lists
<1> QED
  BY <1>2, <1>4, <1>5, <1>6, <1>7 DEF Layout

(* The first k entries are in the first k units of an erased sector. *)
Rewritten(t, k) == [u \in Units |-> IF u < k THEN t[u + 1].peer ELSE Blank]

(* Writing to the erased sector from the oldest on leaves the older bonds. *)
LEMMA RewriteFirst ==
  ASSUME NEW t \in Seq(Entries), NEW k \in 0 .. Len(t), Len(t) <= UNITS,
         NEW r, r = SubSeq(Moved(t), 1, k), NEW g, g = Rewritten(t, k)
  PROVE  Layout(g, r, k)
<1>1. Len(t) \in Nat /\ k \in Nat /\ k <= UNITS /\ DOMAIN t = 1 .. Len(t)
  BY PairAssumption, LenProperties
<1>2. \A i \in 1 .. Len(t) : [t[i] EXCEPT !.unit = i - 1] = [unit |-> i - 1, peer |-> t[i].peer]
  <2> SUFFICES ASSUME NEW i \in 1 .. Len(t)
               PROVE  [t[i] EXCEPT !.unit = i - 1] = [unit |-> i - 1, peer |-> t[i].peer]
    OBVIOUS
  <2>1. t[i] = [unit |-> t[i].unit, peer |-> t[i].peer]
    BY EntryAt
  <2> QED
    BY <2>1
<1>3. \A i \in 1 .. Len(t) : [unit |-> i - 1, peer |-> t[i].peer] \in Entries
  <2> SUFFICES ASSUME NEW i \in 1 .. Len(t)
               PROVE  [unit |-> i - 1, peer |-> t[i].peer] \in Entries
    OBVIOUS
  <2>1. i - 1 \in Units
    BY <1>1, SizeFacts DEF Units
  <2>2. t[i].peer \in Bonds
    BY EntryAt
  <2> QED
    BY <2>1, <2>2 DEF Entries
<1>4. Moved(t) = [i \in 1 .. Len(t) |-> [unit |-> i - 1, peer |-> t[i].peer]]
  BY <1>1, <1>2 DEF Moved
<1>5. Moved(t) \in [1 .. Len(t) -> Entries]
  BY <1>3, <1>4
<1>6. Moved(t) \in Seq(Entries) /\ Len(Moved(t)) = Len(t)
  BY <1>1, <1>5, IsSeq
<1>7. /\ r \in Seq(Entries) /\ Len(r) = k
      /\ \A i \in 1 .. k : r[i] = Moved(t)[i]
  BY <1>1, <1>6, SubSeqProperties
<1>8. ASSUME NEW i \in 1 .. k PROVE r[i].unit = i - 1 /\ r[i].peer = t[i].peer
  <2>1. i \in 1 .. Len(t) /\ r[i] = Moved(t)[i]
    BY <1>1, <1>7
  <2>2. r[i] = [unit |-> i - 1, peer |-> t[i].peer]
    BY <1>4, <2>1
  <2> QED
    BY <2>2
<1>9. ASSUME NEW u \in Units, u < k PROVE u + 1 \in 1 .. Len(t) /\ t[u + 1].peer \in Bonds
  <2>1. u + 1 \in 1 .. Len(t)
    BY <1>1, <1>9, SizeFacts DEF Units
  <2> QED
    BY <2>1, EntryAt
<1>10. g \in [Units -> Cells] /\ \A u \in Units : g[u] = IF u < k THEN t[u + 1].peer ELSE Blank
  BY <1>9 DEF Rewritten, Cells
<1>11. Filled(g, k)
  <2> SUFFICES ASSUME NEW u \in Units PROVE g[u] = Blank <=> k <= u
    BY <1>1 DEF Filled
  <2>1. u \in Int
    BY DEF Units
  <2>2. CASE u < k
    <3>1. g[u] \in Bonds
      BY <1>9, <1>10, <2>2
    <3> QED
      BY <1>1, <2>1, <2>2, <3>1, CellFacts
  <2>3. CASE ~(u < k)
    BY <1>1, <1>10, <2>1, <2>3
  <2> QED
    BY <2>2, <2>3
<1>12. InOrder(r)
  <2> SUFFICES ASSUME NEW i \in 1 .. k, NEW j \in 1 .. k, i < j
               PROVE  r[i].unit < r[j].unit
    BY <1>7 DEF InOrder
  <2>1. r[i].unit = i - 1 /\ r[j].unit = j - 1
    BY <1>8
  <2> QED
    BY <1>1, <2>1
<1>13. Lists(g, r)
  <2>1. ASSUME NEW i \in 1 .. Len(r) PROVE g[r[i].unit] = r[i].peer
    <3>1. i \in 1 .. k /\ i - 1 \in Units /\ i - 1 < k /\ (i - 1) + 1 = i
      BY <1>1, <1>7, SizeFacts DEF Units
    <3>2. r[i].unit = i - 1 /\ r[i].peer = t[i].peer
      BY <1>8, <3>1
    <3>3. g[i - 1] = t[(i - 1) + 1].peer
      BY <1>10, <3>1
    <3> QED
      BY <3>1, <3>2, <3>3
  <2>2. ASSUME NEW u \in Units, g[u] \in Bonds PROVE \E i \in 1 .. Len(r) : r[i].unit = u
    <3>1. u < k
      BY <1>10, <2>2, CellFacts
    <3>2. u + 1 \in 1 .. k /\ (u + 1) - 1 = u
      BY <1>1, <3>1, SizeFacts DEF Units
    <3>3. r[u + 1].unit = u
      BY <1>8, <3>2
    <3> QED
      BY <1>7, <3>2, <3>3
  <2> QED
    BY <2>1, <2>2 DEF Lists
<1> QED
  BY <1>7, <1>10, <1>11, <1>12, <1>13 DEF Layout

(* A mark can always be cleared, and a blank unit takes any bond. *)
LEMMA ProgrammedIs ==
  ASSUME NEW x, NEW c
  PROVE  Programmed(x, Erased) = Erased /\ Programmed(Blank, c) = c
<1>1. Programmed(x, Erased) = Erased
  BY CellFacts DEF Programmed
<1>2. Programmed(Blank, c) = c
  BY CellFacts DEF Programmed
<1> QED
  BY <1>1, <1>2

OnePerUnit(ws) == \A i, j \in DOMAIN ws : ws[i].unit = ws[j].unit => ws[i] = ws[j]
AfterIs(f, ws) ==
  /\ \A i \in DOMAIN ws : ws[i].unit \in Units =>
       After(f, ws)[ws[i].unit] = Programmed(f[ws[i].unit], ws[i].cell)
  /\ \A u \in Units : (\A i \in DOMAIN ws : ws[i].unit # u) => After(f, ws)[u] = f[u]
  /\ After(f, ws) = [u \in Units |-> After(f, ws)[u]]

(* Writes to different units are independent. *)
LEMMA AfterAt ==
  ASSUME NEW f, NEW ws, OnePerUnit(ws)
  PROVE  AfterIs(f, ws)
<1> DEFINE At(u) == CHOOSE w \in Range(ws) : w.unit = u
<1>1. After(f, ws) = [u \in Units |-> IF \E w \in Range(ws) : w.unit = u
                                       THEN Programmed(f[u], At(u).cell) ELSE f[u]]
  BY DEF After
<1>2. ASSUME NEW i \in DOMAIN ws PROVE At(ws[i].unit) = ws[i]
  <2>1. ws[i] \in Range(ws)
    BY DEF Range
  <2>2. At(ws[i].unit) \in Range(ws) /\ At(ws[i].unit).unit = ws[i].unit
    BY <2>1
  <2>3. PICK j \in DOMAIN ws : At(ws[i].unit) = ws[j]
    BY <2>2 DEF Range
  <2> HIDE DEF At
  <2> QED
    BY <2>2, <2>3 DEF OnePerUnit
<1> HIDE DEF At
<1>3. ASSUME NEW i \in DOMAIN ws, ws[i].unit \in Units
      PROVE  After(f, ws)[ws[i].unit] = Programmed(f[ws[i].unit], ws[i].cell)
  <2>1. \E w \in Range(ws) : w.unit = ws[i].unit
    BY DEF Range
  <2> QED
    BY <1>1, <1>2, <1>3, <2>1
<1>4. ASSUME NEW u \in Units, \A i \in DOMAIN ws : ws[i].unit # u
      PROVE  After(f, ws)[u] = f[u]
  <2>1. ~ \E w \in Range(ws) : w.unit = u
    BY <1>4 DEF Range
  <2> QED
    BY <1>1, <2>1
<1>5. After(f, ws) = [u \in Units |-> After(f, ws)[u]]
  BY <1>1
<1> QED
  BY <1>3, <1>4, <1>5 DEF AfterIs

(* No write changes nothing. *)
LEMMA AfterNone ==
  ASSUME NEW f \in [Units -> Cells]
  PROVE  After(f, <<>>) = f
<1>1. AfterIs(f, <<>>)
  BY AfterAt DEF OnePerUnit
<1>2. /\ \A u \in Units : After(f, <<>>)[u] = f[u]
      /\ After(f, <<>>) = [u \in Units |-> After(f, <<>>)[u]]
  BY <1>1 DEF AfterIs
<1> QED
  BY <1>2

(* One write changes one unit. *)
LEMMA AfterOne ==
  ASSUME NEW f \in [Units -> Cells], NEW u \in Units, NEW c
  PROVE  After(f, <<Write(u, c)>>) = [f EXCEPT ![u] = Programmed(f[u], c)]
<1> DEFINE ws == <<Write(u, c)>>
<1>1. DOMAIN ws = {1} /\ ws[1].unit = u /\ ws[1].cell = c
  BY DEF Write
<1> HIDE DEF ws
<1>2. /\ After(f, ws)[u] = Programmed(f[u], c)
      /\ \A v \in Units : v # u => After(f, ws)[v] = f[v]
      /\ After(f, ws) = [v \in Units |-> After(f, ws)[v]]
  BY <1>1, AfterAt DEF OnePerUnit, AfterIs
<1>3. After(f, ws) = [f EXCEPT ![u] = Programmed(f[u], c)]
  BY <1>2
<1> QED
  BY <1>3 DEF ws

ProgAt(f, u, c) == [f EXCEPT ![u] = Programmed(f[u], c)]

(* Two writes to different units are made one after the other. *)
LEMMA AfterTwo ==
  ASSUME NEW f \in [Units -> Cells], NEW u \in Units, NEW c, NEW v \in Units, NEW d, u # v
  PROVE  After(f, <<Write(u, c), Write(v, d)>>) = ProgAt(ProgAt(f, u, c), v, d)
<1> DEFINE ws == <<Write(u, c), Write(v, d)>>
<1>1. /\ DOMAIN ws = {1, 2} /\ ws[1].unit = u /\ ws[1].cell = c
      /\ ws[2].unit = v /\ ws[2].cell = d
  BY DEF Write
<1> HIDE DEF ws
<1>2. AfterIs(f, ws)
  BY <1>1, AfterAt DEF OnePerUnit
<1>3. /\ After(f, ws)[u] = Programmed(f[u], c) /\ After(f, ws)[v] = Programmed(f[v], d)
      /\ \A x \in Units : x # u /\ x # v => After(f, ws)[x] = f[x]
      /\ After(f, ws) = [x \in Units |-> After(f, ws)[x]]
  BY <1>1, <1>2 DEF AfterIs
<1>4. ProgAt(f, u, c)[v] = f[v]
  BY DEF ProgAt
<1>5. After(f, ws) = ProgAt(ProgAt(f, u, c), v, d)
  BY <1>3, <1>4 DEF ProgAt
<1> QED
  BY <1>5 DEF ws

(* What the writes of user_tbl_slave_mac_delete_all do, up to the k-th. *)
Erases(t) == [i \in DOMAIN t |-> Write(t[i].unit, Erased)]

(* They clear the first k marks. *)
LEMMA ErasesTo ==
  ASSUME NEW f \in [Units -> Cells], NEW t \in Seq(Entries), NEW k \in 0 .. Len(t),
         NEW ws, ws = SubSeq(Erases(t), 1, k)
  PROVE  After(f, ws) = Cleared(f, t, k)
<1>1. Len(t) \in Nat /\ k \in Nat /\ DOMAIN t = 1 .. Len(t)
  BY LenProperties
<1> DEFINE W == {Write(t[i].unit, Erased) : i \in 1 .. Len(t)}
<1>2. Erases(t) \in [1 .. Len(t) -> W]
  BY <1>1 DEF Erases
<1>3. Erases(t) \in Seq(W) /\ Len(Erases(t)) = Len(t)
  BY PairAssumption, <1>1, <1>2, IsSeq
<1>4. ws \in Seq(W) /\ Len(ws) = k /\ \A i \in 1 .. k : ws[i] = Erases(t)[i]
  BY <1>1, <1>3, SubSeqProperties
<1>5. DOMAIN ws = 1 .. k
  BY <1>4, LenProperties
<1>6. ASSUME NEW i \in 1 .. k
      PROVE  /\ ws[i] = Write(t[i].unit, Erased) /\ ws[i].unit = t[i].unit
             /\ ws[i].cell = Erased /\ t[i].unit \in Units
  <2>1. i \in 1 .. Len(t)
    BY <1>1
  <2>2. ws[i] = Write(t[i].unit, Erased) /\ t[i].unit \in Units
    BY <1>1, <1>4, <2>1, EntryAt DEF Erases
  <2> QED
    BY <2>2 DEF Write
<1>7. AfterIs(f, ws)
  <2>1. OnePerUnit(ws)
    BY <1>5, <1>6 DEF OnePerUnit
  <2> QED
    BY <2>1, AfterAt
<1>8. /\ \A i \in DOMAIN ws : ws[i].unit \in Units =>
            After(f, ws)[ws[i].unit] = Programmed(f[ws[i].unit], ws[i].cell)
      /\ \A u \in Units : (\A i \in DOMAIN ws : ws[i].unit # u) => After(f, ws)[u] = f[u]
      /\ After(f, ws) = [u \in Units |-> After(f, ws)[u]]
  BY <1>7 DEF AfterIs
<1>9. ASSUME NEW u \in Units
      PROVE  After(f, ws)[u] = IF u \in FirstUnits(t, k) THEN Erased ELSE f[u]
  <2>1. CASE u \in FirstUnits(t, k)
    <3>1. PICK i \in 1 .. k : u = t[i].unit
      BY <2>1 DEF FirstUnits
    <3>2. i \in DOMAIN ws /\ ws[i].unit = u /\ ws[i].cell = Erased
      BY <1>5, <1>6, <3>1
    <3>3. After(f, ws)[u] = Programmed(f[u], Erased)
      BY <1>8, <3>2
    <3> QED
      BY <2>1, <3>3, ProgrammedIs
  <2>2. CASE u \notin FirstUnits(t, k)
    <3>1. \A i \in DOMAIN ws : ws[i].unit # u
      BY <1>5, <1>6, <2>2 DEF FirstUnits
    <3> QED
      BY <1>8, <2>2, <3>1
  <2> QED
    BY <2>1, <2>2
<1> QED
  BY <1>8, <1>9 DEF Cleared

(* What the writes of user_bond_slave_flash_clean do, up to the k-th and with a
   broken one after it.                                                       *)
SetAt(g, k, c) == [g EXCEPT ![k] = c]

CutAfter(t, k, ws) ==
  \A c : After(EmptySector, Append(ws, Write(k, c))) = SetAt(Rewritten(t, k), k, c)

(* They fill the first k units, and the next one with what the broken write leaves. *)
LEMMA RewritesTo ==
  ASSUME NEW t \in Seq(Entries), NEW k \in 0 .. Len(t), Len(t) <= UNITS,
         NEW ws, ws = SubSeq(Rewrites(t), 1, k)
  PROVE  /\ After(EmptySector, ws) = Rewritten(t, k)
         /\ k < UNITS => CutAfter(t, k, ws)
<1>1. Len(t) \in Nat /\ k \in Nat /\ DOMAIN t = 1 .. Len(t) /\ k <= UNITS
  BY PairAssumption, LenProperties
<1> DEFINE W == [unit : Int, cell : Cells]
<1>2. Rewrites(t) \in [1 .. Len(t) -> W]
  <2> SUFFICES ASSUME NEW i \in 1 .. Len(t) PROVE Write(i - 1, t[i].peer) \in W
    BY <1>1 DEF Rewrites
  <2>1. i - 1 \in Int
    BY <1>1
  <2>2. t[i].peer \in Cells
    BY EntryAt DEF Cells
  <2> QED
    BY <2>1, <2>2 DEF Write
<1>3. Rewrites(t) \in Seq(W) /\ Len(Rewrites(t)) = Len(t)
  BY <1>1, <1>2, IsSeq
<1> HIDE DEF W
<1>4. ws \in Seq(W) /\ Len(ws) = k /\ \A i \in 1 .. k : ws[i] = Rewrites(t)[i]
  BY <1>1, <1>3, SubSeqProperties
<1>5. DOMAIN ws = 1 .. k
  BY <1>4, LenProperties
<1>6. ASSUME NEW i \in 1 .. k
      PROVE  /\ ws[i] = Write(i - 1, t[i].peer) /\ ws[i].unit = i - 1
             /\ ws[i].cell = t[i].peer /\ i - 1 \in Units
  <2>1. i \in 1 .. Len(t)
    BY <1>1
  <2>2. ws[i] = Write(i - 1, t[i].peer)
    BY <1>1, <1>4, <2>1 DEF Rewrites
  <2>3. i - 1 \in Units
    BY <1>1, SizeFacts DEF Units
  <2> QED
    BY <2>2, <2>3 DEF Write
<1>7. OnePerUnit(ws)
  <2> SUFFICES ASSUME NEW i \in 1 .. k, NEW j \in 1 .. k, i - 1 = j - 1 PROVE ws[i] = ws[j]
    BY <1>5, <1>6 DEF OnePerUnit
  <2>1. i = j
    BY <1>1
  <2> QED
    BY <2>1
<1>8. /\ \A i \in DOMAIN ws : ws[i].unit \in Units =>
            After(EmptySector, ws)[ws[i].unit]
            = Programmed(EmptySector[ws[i].unit], ws[i].cell)
      /\ \A u \in Units : (\A i \in DOMAIN ws : ws[i].unit # u) =>
            After(EmptySector, ws)[u] = EmptySector[u]
      /\ After(EmptySector, ws) = [u \in Units |-> After(EmptySector, ws)[u]]
  <2>1. AfterIs(EmptySector, ws)
    BY <1>7, AfterAt
  <2> QED
    BY <2>1 DEF AfterIs
<1>9. ASSUME NEW u \in Units
      PROVE  After(EmptySector, ws)[u] = IF u < k THEN t[u + 1].peer ELSE Blank
  <2>1. u \in Int /\ 0 <= u
    BY SizeFacts DEF Units
  <2>2. CASE u < k
    <3>1. u + 1 \in 1 .. k /\ (u + 1) - 1 = u
      BY <1>1, <2>1, <2>2
    <3>2. ws[u + 1].unit = u /\ ws[u + 1].cell = t[u + 1].peer
      BY <1>6, <3>1
    <3>3. After(EmptySector, ws)[u] = Programmed(EmptySector[u], t[u + 1].peer)
      BY <1>5, <1>8, <3>1, <3>2
    <3> QED
      BY <2>2, <3>3, ProgrammedIs DEF EmptySector
  <2>3. CASE ~(u < k)
    <3>1. \A i \in DOMAIN ws : ws[i].unit # u
      BY <1>1, <1>5, <1>6, <2>1, <2>3
    <3> QED
      BY <1>8, <2>3, <3>1 DEF EmptySector
  <2> QED
    BY <2>2, <2>3
<1>10. After(EmptySector, ws) = Rewritten(t, k)
  BY <1>8, <1>9 DEF Rewritten
<1>11. ASSUME NEW c, k < UNITS
       PROVE  After(EmptySector, Append(ws, Write(k, c))) = SetAt(Rewritten(t, k), k, c)
  <2> DEFINE r == Append(ws, Write(k, c))
             V == W \cup {Write(k, c)}
  <2>1. ws \in Seq(V) /\ Write(k, c) \in V
    <3>1. \A i \in 1 .. k : ws[i] \in V
      BY <1>4, ElementOfSeq
    <3> QED
      BY <1>4, <3>1
  <2>2. r \in Seq(V) /\ Len(r) = k + 1 /\ r[k + 1] = Write(k, c) /\ \A i \in 1 .. k : r[i] = ws[i]
    BY <1>4, <2>1, AppendProperties
  <2>3. DOMAIN r = 1 .. k + 1
    BY <2>2, LenProperties
  <2> HIDE DEF r, V
  <2>4. r[k + 1].unit = k /\ r[k + 1].cell = c /\ k \in Units
    BY <1>1, <1>11, <2>2, SizeFacts DEF Write, Units
  <2>5. \A i \in 1 .. k : r[i].unit = i - 1
    BY <1>6, <2>2
  <2>6. OnePerUnit(r)
    <3> SUFFICES ASSUME NEW i \in 1 .. k + 1, NEW j \in 1 .. k + 1, r[i].unit = r[j].unit
                 PROVE  i = j
      BY <2>3 DEF OnePerUnit
    <3>1. (i = k + 1 \/ i \in 1 .. k) /\ (j = k + 1 \/ j \in 1 .. k)
      BY <1>1
    <3>2. (k + 1) - 1 = k
      BY <1>1
    <3>3. r[i].unit = i - 1 /\ r[j].unit = j - 1
      BY <2>4, <2>5, <3>1, <3>2
    <3>4. i - 1 = j - 1
      BY <3>3
    <3>5. i \in Int /\ j \in Int
      BY <1>1
    <3> QED
      BY <3>4, <3>5
  <2>7. /\ \A i \in DOMAIN r : r[i].unit \in Units =>
              After(EmptySector, r)[r[i].unit]
              = Programmed(EmptySector[r[i].unit], r[i].cell)
        /\ \A u \in Units : (\A i \in DOMAIN r : r[i].unit # u) =>
              After(EmptySector, r)[u] = EmptySector[u]
        /\ After(EmptySector, r) = [u \in Units |-> After(EmptySector, r)[u]]
    <3>1. AfterIs(EmptySector, r)
      BY <2>6, AfterAt
    <3> QED
      BY <3>1 DEF AfterIs
  <2>8. After(EmptySector, r)[k] = c
    <3>1. k + 1 \in DOMAIN r
      BY <1>1, <2>3
    <3>2. After(EmptySector, r)[k] = Programmed(EmptySector[k], c)
      BY <2>4, <2>7, <3>1
    <3> QED
      BY <2>4, <3>2, ProgrammedIs DEF EmptySector
  <2>9. ASSUME NEW u \in Units, u # k PROVE After(EmptySector, r)[u] = Rewritten(t, k)[u]
    <3>1. u \in Int /\ 0 <= u
      BY SizeFacts DEF Units
    <3>2. CASE u < k
      <4>1. u + 1 \in 1 .. k /\ (u + 1) - 1 = u /\ u + 1 \in DOMAIN r /\ u + 1 \in DOMAIN ws
        BY <1>1, <1>5, <2>3, <3>1, <3>2
      <4>2. r[u + 1] = ws[u + 1] /\ ws[u + 1].unit = u
        BY <1>6, <2>2, <4>1
      <4>3. After(EmptySector, r)[u] = After(EmptySector, ws)[u]
        BY <1>8, <2>7, <4>1, <4>2
      <4> QED
        BY <1>10, <4>3
    <3>3. CASE ~(u < k)
      <4>1. \A i \in DOMAIN r : r[i].unit # u
        <5> SUFFICES ASSUME NEW i \in 1 .. k + 1 PROVE r[i].unit # u
          BY <2>3
        <5>1. (i = k + 1 \/ i \in 1 .. k) /\ (k + 1) - 1 = k
          BY <1>1
        <5>2. r[i].unit = i - 1
          BY <2>4, <2>5, <5>1
        <5> QED
          BY <1>1, <2>9, <3>1, <3>3, <5>2
      <4>2. \A i \in DOMAIN ws : ws[i].unit # u
        <5> SUFFICES ASSUME NEW i \in 1 .. k PROVE i - 1 # u
          BY <1>5, <1>6
        <5> QED
          BY <1>1, <3>1, <3>3
      <4> QED
        BY <1>8, <1>10, <2>7, <4>1, <4>2
    <3> QED
      BY <3>2, <3>3
  <2>10. Rewritten(t, k) = [u \in Units |-> Rewritten(t, k)[u]]
    BY DEF Rewritten
  <2>11. After(EmptySector, r) = [Rewritten(t, k) EXCEPT ![k] = c]
    <3> DEFINE g == Rewritten(t, k)
    <3> HIDE DEF g
    <3>1. g = [u \in Units |-> g[u]]
      BY <2>10 DEF g
    <3>2. \A u \in Units : u # k => After(EmptySector, r)[u] = g[u]
      BY <2>9 DEF g
    <3>3. After(EmptySector, r) = [g EXCEPT ![k] = c]
      BY <2>7, <2>8, <3>1, <3>2
    <3> QED
      BY <3>3 DEF g
  <2> QED
    BY <2>11 DEF r, SetAt
<1> QED
  BY <1>10, <1>11 DEF CutAfter

(* What every sector the program leaves behind has. *)
NoTwice(t) ==
  \A i, j \in 1 .. Len(t) : t[i].peer \in SlaveMacs /\ t[i].peer = t[j].peer => i = j
Good(f, t, e) == Layout(f, t, e) /\ Len(t) <= USER_PAIR_SLAVE_MAX_NUM /\ NoTwice(t)
NewIn(t, p) == \A i \in 1 .. Len(t) : t[i].peer # p

KeptOf(t) == IF Len(t) >= USER_PAIR_SLAVE_MAX_NUM THEN Tail(t) ELSE t

(* What a good sector is in terms of types and sizes. *)
LEMMA GoodIs ==
  ASSUME NEW f, NEW t, NEW e, Good(f, t, e)
  PROVE  /\ f \in [Units -> Cells] /\ t \in Seq(Entries) /\ e \in 0 .. UNITS
         /\ Len(t) \in Nat /\ Len(t) <= USER_PAIR_SLAVE_MAX_NUM /\ DOMAIN t = 1 .. Len(t)
         /\ Len(t) <= UNITS
         /\ \A i \in 1 .. Len(t) : t[i].unit \in Units /\ t[i].unit < e
<1>1. f \in [Units -> Cells] /\ t \in Seq(Entries) /\ e \in 0 .. UNITS
  BY DEF Good, Layout, Filled
<1>2. Len(t) \in Nat /\ DOMAIN t = 1 .. Len(t)
  BY <1>1, LenProperties
<1>3. Len(t) <= USER_PAIR_SLAVE_MAX_NUM
  BY DEF Good
<1>4. Len(t) <= UNITS
  BY <1>2, <1>3, SizeFacts
<1>5. \A i \in 1 .. Len(t) : t[i].unit \in Units /\ t[i].unit < e
  BY InLayout DEF Good
<1> QED
  BY <1>1, <1>2, <1>3, <1>4, <1>5

(* A part of a table, in whatever units. *)
LEMMA NoTwicePart ==
  ASSUME NEW t \in Seq(Entries), NEW r, NEW d \in Nat, NoTwice(t), Len(r) \in Nat,
         d + Len(r) <= Len(t), \A j \in 1 .. Len(r) : r[j].peer = t[d + j].peer
  PROVE  NoTwice(r)
<1> SUFFICES ASSUME NEW i \in 1 .. Len(r), NEW j \in 1 .. Len(r),
                    r[i].peer \in SlaveMacs, r[i].peer = r[j].peer
             PROVE  i = j
  BY DEF NoTwice
<1>1. Len(t) \in Nat
  BY LenProperties
<1>2. d + i \in 1 .. Len(t) /\ d + j \in 1 .. Len(t)
  BY <1>1
<1>3. t[d + i].peer \in SlaveMacs /\ t[d + i].peer = t[d + j].peer
  OBVIOUS
<1>4. d + i = d + j
  BY <1>2, <1>3 DEF NoTwice
<1> QED
  BY <1>4

(* Removing the oldest bonds leaves a good sector. *)
LEMMA DropFirst ==
  ASSUME NEW f, NEW t, NEW e, Good(f, t, e), NEW k \in 0 .. Len(t),
         NEW r, r = SubSeq(t, k + 1, Len(t))
  PROVE  Good(Cleared(f, t, k), r, e)
<1>1. t \in Seq(Entries) /\ Len(t) \in Nat /\ k \in Nat
  BY GoodIs
<1>2. /\ r \in Seq(Entries) /\ Len(r) = Len(t) - k
      /\ \A j \in 1 .. Len(t) - k : r[j] = t[k + j]
  BY <1>1, SubSeqProperties
<1>3. Layout(Cleared(f, t, k), r, e)
  BY EraseFirst DEF Good
<1>4. Len(r) \in Nat /\ k + Len(r) <= Len(t) /\ \A j \in 1 .. Len(r) : r[j].peer = t[k + j].peer
  <2>1. Len(r) \in Nat /\ k + Len(r) <= Len(t)
    BY <1>1, <1>2
  <2>2. \A j \in 1 .. Len(r) : r[j].peer = t[k + j].peer
    BY <1>2
  <2> QED
    BY <2>1, <2>2
<1>5. NoTwice(r)
  <2>1. NoTwice(t)
    BY DEF Good
  <2> QED
    BY <1>1, <1>4, <2>1, NoTwicePart
<1>6. Len(r) <= USER_PAIR_SLAVE_MAX_NUM
  BY <1>1, <1>2, GoodIs, SizeFacts
<1> QED
  BY <1>3, <1>5, <1>6 DEF Good

MovedTo(t, k, r) == r \in Seq(Entries) /\ Len(r) = k /\ \A i \in 1 .. k : r[i].peer = t[i].peer

(* The peers stay when the bonds move. *)
LEMMA MovedIs ==
  ASSUME NEW t \in Seq(Entries), NEW k \in 0 .. Len(t), NEW r, r = SubSeq(Moved(t), 1, k),
         Len(t) <= UNITS
  PROVE  MovedTo(t, k, r)
<1>1. Len(t) \in Nat /\ DOMAIN t = 1 .. Len(t) /\ k \in Nat
  BY LenProperties
<1>2. \A i \in 1 .. Len(t) : [t[i] EXCEPT !.unit = i - 1] = [unit |-> i - 1, peer |-> t[i].peer]
  <2> SUFFICES ASSUME NEW i \in 1 .. Len(t)
               PROVE  [t[i] EXCEPT !.unit = i - 1] = [unit |-> i - 1, peer |-> t[i].peer]
    OBVIOUS
  <2>1. t[i] = [unit |-> t[i].unit, peer |-> t[i].peer]
    BY EntryAt
  <2> QED
    BY <2>1
<1>3. Moved(t) = [i \in 1 .. Len(t) |-> [unit |-> i - 1, peer |-> t[i].peer]]
  BY <1>1, <1>2 DEF Moved
<1>4. Moved(t) \in [1 .. Len(t) -> Entries]
  <2> SUFFICES ASSUME NEW i \in 1 .. Len(t)
               PROVE  [unit |-> i - 1, peer |-> t[i].peer] \in Entries
    BY <1>3
  <2>1. i - 1 \in Units
    BY <1>1, SizeFacts DEF Units
  <2>2. t[i].peer \in Bonds
    BY EntryAt
  <2> QED
    BY <2>1, <2>2 DEF Entries
<1>5. Moved(t) \in Seq(Entries) /\ Len(Moved(t)) = Len(t)
  BY <1>1, <1>4, IsSeq
<1>6. /\ r \in Seq(Entries) /\ Len(r) = k
      /\ \A i \in 1 .. k : r[i] = Moved(t)[i]
  BY <1>1, <1>5, SubSeqProperties
<1>7. ASSUME NEW i \in 1 .. k PROVE r[i].peer = t[i].peer
  <2>1. i \in 1 .. Len(t) /\ r[i] = Moved(t)[i]
    BY <1>1, <1>6
  <2> QED
    BY <1>3, <2>1
<1> QED
  BY <1>6, <1>7 DEF MovedTo

(* Writing the oldest bonds back leaves a good sector. *)
LEMMA RewriteGood ==
  ASSUME NEW f, NEW t, NEW e, Good(f, t, e), NEW k \in 0 .. Len(t),
         NEW r, r = SubSeq(Moved(t), 1, k)
  PROVE  Good(Rewritten(t, k), r, k)
<1>1. t \in Seq(Entries) /\ Len(t) \in Nat /\ k \in Nat /\ Len(t) <= UNITS
  BY GoodIs
<1>2. r \in Seq(Entries) /\ Len(r) = k /\ \A i \in 1 .. k : r[i].peer = t[i].peer
  <2>1. MovedTo(t, k, r)
    BY <1>1, MovedIs
  <2> QED
    BY <2>1 DEF MovedTo
<1>3. Layout(Rewritten(t, k), r, k)
  BY <1>1, RewriteFirst
<1>4. NoTwice(r)
  <2>1. Len(r) \in Nat /\ 0 + Len(r) <= Len(t) /\ \A j \in 1 .. Len(r) : r[j].peer = t[0 + j].peer
    BY <1>1, <1>2
  <2> QED
    BY <1>1, <2>1, NoTwicePart DEF Good
<1>5. Len(r) <= USER_PAIR_SLAVE_MAX_NUM
  BY <1>1, <1>2, GoodIs, SizeFacts
<1> QED
  BY <1>3, <1>4, <1>5 DEF Good

(* Storing a new peer, or a broken address, leaves a good sector. *)
LEMMA StoreGood ==
  ASSUME NEW f, NEW t, NEW e, Good(f, t, e), e < UNITS, Len(t) < USER_PAIR_SLAVE_MAX_NUM,
         NEW c \in Bonds, c = Unknown \/ NewIn(t, c),
         NEW n, n = [unit |-> e, peer |-> c], NEW r, r = Append(t, n)
  PROVE  Good([f EXCEPT ![e] = c], r, e + 1)
<1>1. t \in Seq(Entries) /\ Len(t) \in Nat /\ e \in Units
  BY GoodIs, SizeFacts DEF Units
<1>2. Layout([f EXCEPT ![e] = c], r, e + 1)
  BY StoreOne DEF Good
<1>3. n \in Entries /\ n.peer = c
  BY <1>1 DEF Entries
<1>4. Len(r) = Len(t) + 1 /\ r[Len(t) + 1] = n /\ \A j \in 1 .. Len(t) : r[j] = t[j]
  BY <1>1, <1>3, AppendProperties
<1>5. NoTwice(r)
  <2> SUFFICES ASSUME NEW i \in 1 .. Len(r), NEW j \in 1 .. Len(r),
                      r[i].peer \in SlaveMacs, r[i].peer = r[j].peer
               PROVE  i = j
    BY DEF NoTwice
  <2>1. c \in SlaveMacs => NewIn(t, c)
    BY CellFacts
  <2>2. (i = Len(t) + 1 \/ i \in 1 .. Len(t)) /\ (j = Len(t) + 1 \/ j \in 1 .. Len(t))
    BY <1>1, <1>4
  <2>3. CASE i = Len(t) + 1
    <3>1. NewIn(t, c) /\ r[j].peer = c
      BY <1>3, <1>4, <2>1, <2>3
    <3>2. j \notin 1 .. Len(t)
      BY <1>4, <3>1 DEF NewIn
    <3> QED
      BY <2>2, <2>3, <3>2
  <2>4. CASE i \in 1 .. Len(t)
    <3>1. j \in 1 .. Len(t)
      <4> SUFFICES ASSUME j = Len(t) + 1 PROVE FALSE
        BY <2>2
      <4>1. NewIn(t, c) /\ r[i].peer = c
        BY <1>3, <1>4, <2>1
      <4> QED
        BY <1>4, <2>4, <4>1 DEF NewIn
    <3> QED
      BY <1>4, <2>4, <3>1 DEF Good, NoTwice
  <2> QED
    BY <2>2, <2>3, <2>4
<1>6. Len(r) <= USER_PAIR_SLAVE_MAX_NUM
  BY <1>1, <1>4, SizeFacts
<1> QED
  BY <1>2, <1>5, <1>6 DEF Good

(* So does a write that leaves no valid mark. *)
LEMMA SpoilGood ==
  ASSUME NEW f, NEW t, NEW e, Good(f, t, e), e < UNITS
  PROVE  Good([f EXCEPT ![e] = Erased], t, e + 1)
BY SpoilOne DEF Good

(* One bond is removed. *)
LEMMA RemoveGood ==
  ASSUME NEW f, NEW t, NEW e, Good(f, t, e), NEW i \in 1 .. Len(t),
         NEW r, r = RemoveAt(t, i)
  PROVE  Good(After(f, <<Write(t[i].unit, Erased)>>), r, e)
<1>1. /\ f \in [Units -> Cells] /\ t \in Seq(Entries) /\ Len(t) \in Nat /\ i \in Nat
      /\ t[i].unit \in Units
  BY GoodIs
<1>2. After(f, <<Write(t[i].unit, Erased)>>) = [f EXCEPT ![t[i].unit] = Erased]
  <2>1. ASSUME NEW u \in Units PROVE After(f, <<Write(u, Erased)>>) = [f EXCEPT ![u] = Erased]
    <3>1. After(f, <<Write(u, Erased)>>) = [f EXCEPT ![u] = Programmed(f[u], Erased)]
      BY PairAssumption, <1>1, AfterOne
    <3>2. Programmed(f[u], Erased) = Erased
      BY ProgrammedIs
    <3> QED
      BY <3>1, <3>2
  <2> QED
    BY <1>1, <2>1
<1>3. Layout([f EXCEPT ![t[i].unit] = Erased], r, e)
  BY EraseOne DEF Good
<1>4. /\ Len(r) = Len(t) - 1 /\ Len(r) \in Nat
      /\ \A j \in 1 .. Len(r) : r[j] = IF j < i THEN t[j] ELSE t[j + 1]
  BY <1>1, RemoveAtIs, SMTT(30)
<1>5. NoTwice(r)
  <2> SUFFICES ASSUME NEW j \in 1 .. Len(r), NEW k \in 1 .. Len(r),
                      r[j].peer \in SlaveMacs, r[j].peer = r[k].peer
               PROVE  j = k
    BY DEF NoTwice
  <2> DEFINE j2 == IF j < i THEN j ELSE j + 1
             k2 == IF k < i THEN k ELSE k + 1
  <2>1. Len(r) = Len(t) - 1 /\ Len(t) \in Nat /\ i \in Nat
    BY <1>1, <1>4
  <2>2. j2 \in 1 .. Len(t) /\ k2 \in 1 .. Len(t) /\ (j2 = k2 => j = k)
    BY <2>1
  <2>3. r[j] = t[j2] /\ r[k] = t[k2]
    BY <1>4
  <2> HIDE DEF j2, k2
  <2>4. j2 = k2
    BY <2>2, <2>3 DEF Good, NoTwice
  <2> QED
    BY <2>2, <2>4
<1>6. Len(r) <= USER_PAIR_SLAVE_MAX_NUM
  BY <1>1, <1>4, GoodIs, SizeFacts
<1> QED
  BY <1>2, <1>3, <1>5, <1>6 DEF Good

(* What a power loss may leave of no write, of one and of two. *)
LEMMA InterruptedNone ==
  ASSUME NEW f \in [Units -> Cells], NEW x \in Interrupted(f, <<>>)
  PROVE  x = f
<1>1. Len(<<>>) = 0
  OBVIOUS
<1>2. PICK k \in 0 .. 0 : x = After(f, SubSeq(<<>>, 1, k))
  BY <1>1 DEF Interrupted
<1>3. SubSeq(<<>>, 1, k) = <<>>
  BY <1>2
<1> QED
  BY <1>2, <1>3, AfterNone

CutAt(f, ws, x, k) ==
  \/ x = After(f, SubSeq(ws, 1, k))
  \/ /\ k + 1 <= Len(ws)
     /\ \E b \in Broken(ws[k + 1]) : x = After(f, Append(SubSeq(ws, 1, k), b))

(* A power loss leaves the first k writes, and perhaps a broken one. *)
LEMMA InterruptedAt ==
  ASSUME NEW f, NEW W, NEW ws \in Seq(W), NEW x \in Interrupted(f, ws)
  PROVE  \E k \in 0 .. Len(ws) : CutAt(f, ws, x, k)
<1>1. Len(ws) \in Nat
  BY LenProperties
<1>2. CASE x \in {After(f, SubSeq(ws, 1, k)) : k \in 0 .. Len(ws)}
  BY <1>2 DEF CutAt
<1>3. CASE x \in UNION {{After(f, Append(SubSeq(ws, 1, k - 1), w)) : w \in Broken(ws[k])}
                          : k \in 1 .. Len(ws)}
  <2>1. PICK k \in 1 .. Len(ws) :
          \E w \in Broken(ws[k]) : x = After(f, Append(SubSeq(ws, 1, k - 1), w))
    BY <1>3
  <2>2. k - 1 \in 0 .. Len(ws) /\ (k - 1) + 1 <= Len(ws) /\ (k - 1) + 1 = k
    BY <1>1
  <2>3. \E b \in Broken(ws[(k - 1) + 1]) : x = After(f, Append(SubSeq(ws, 1, k - 1), b))
    BY <2>1, <2>2
  <2> QED
    BY <2>2, <2>3 DEF CutAt
<1> QED
  BY <1>2, <1>3 DEF Interrupted

(* A sequence is given by its elements. *)
LEMMA OneIs ==
  ASSUME NEW S, NEW s \in Seq(S), NEW a, Len(s) = 1, s[1] = a
  PROVE  s = <<a>>
OBVIOUS

(* The same of two elements. *)
LEMMA TwoIs ==
  ASSUME NEW S, NEW s \in Seq(S), NEW a, NEW b, Len(s) = 2, s[1] = a, s[2] = b
  PROVE  s = <<a, b>>
OBVIOUS

(* Sequences of one and of two writes. *)
LEMMA SmallSeqs ==
  ASSUME NEW a, NEW b
  PROVE  /\ <<a>> \in Seq({a}) /\ Len(<<a>>) = 1 /\ <<a, b>> \in Seq({a, b}) /\ Len(<<a, b>>) = 2
         /\ Append(<<>>, a) = <<a>> /\ Append(<<a>>, b) = <<a, b>> /\ <<a>> \o <<b>> = <<a, b>>
         /\ <<>> \o <<a>> = <<a>> /\ <<a>> \o <<>> = <<a>> /\ <<>> \o <<>> = <<>>
         /\ SubSeq(<<a>>, 1, 0) = <<>> /\ SubSeq(<<a>>, 1, 1) = <<a>>
         /\ SubSeq(<<a, b>>, 1, 0) = <<>> /\ SubSeq(<<a, b>>, 1, 1) = <<a>>
         /\ SubSeq(<<a, b>>, 1, 2) = <<a, b>>
<1>1. /\ <<a>> \in Seq({a}) /\ Len(<<a>>) = 1 /\ <<a, b>> \in Seq({a, b}) /\ Len(<<a, b>>) = 2
      /\ <<a>> \in Seq({a, b}) /\ <<b>> \in Seq({a, b}) /\ Len(<<b>>) = 1
      /\ <<a>>[1] = a /\ <<b>>[1] = b /\ <<a, b>>[1] = a /\ <<a, b>>[2] = b
  OBVIOUS
<1>2. Append(<<>>, a) = <<a>>
  <2>1. Append(<<>>, a) \in Seq({a}) /\ Len(Append(<<>>, a)) = 1 /\ Append(<<>>, a)[1] = a
    BY <1>1, EmptySeq, AppendProperties
  <2> QED
    BY <2>1, OneIs
<1>3. Append(<<a>>, b) = <<a, b>>
  <2>1. /\ Append(<<a>>, b) \in Seq({a, b}) /\ Len(Append(<<a>>, b)) = 2
        /\ Append(<<a>>, b)[1] = a /\ Append(<<a>>, b)[2] = b
    BY <1>1, AppendProperties
  <2> DEFINE s == Append(<<a>>, b)
  <2>2. s \in Seq({a, b}) /\ Len(s) = 2 /\ s[1] = a /\ s[2] = b
    BY <2>1
  <2> HIDE DEF s
  <2>3. s = <<a, b>>
    BY <2>2, TwoIs
  <2> QED
    BY <2>3 DEF s
<1>4. <<a>> \o <<b>> = <<a, b>>
  <2>1. /\ <<a>> \o <<b>> \in Seq({a, b}) /\ Len(<<a>> \o <<b>>) = 2
    BY <1>1, ConcatProperties
  <2>2. (<<a>> \o <<b>>)[1] = a /\ (<<a>> \o <<b>>)[2] = b
    BY <1>1, ConcatProperties
  <2> DEFINE s == <<a>> \o <<b>>
  <2>3. s \in Seq({a, b}) /\ Len(s) = 2 /\ s[1] = a /\ s[2] = b
    BY <2>1, <2>2
  <2> HIDE DEF s
  <2>4. s = <<a, b>>
    BY <2>3, TwoIs
  <2> QED
    BY <2>4 DEF s
<1>5. <<>> \o <<a>> = <<a>> /\ <<a>> \o <<>> = <<a>> /\ <<>> \o <<>> = <<>>
  BY <1>1, EmptySeq, ConcatEmptySeq
<1>6. SubSeq(<<a>>, 1, 0) = <<>> /\ SubSeq(<<a, b>>, 1, 0) = <<>>
  BY SubSeqEmpty
<1>7. SubSeq(<<a>>, 1, 1) = <<a>> /\ SubSeq(<<a, b>>, 1, 2) = <<a, b>>
  BY <1>1, SubSeqFull
<1>8. SubSeq(<<a, b>>, 1, 1) = <<a>>
  <2>1. /\ SubSeq(<<a, b>>, 1, 1) \in Seq({a, b}) /\ Len(SubSeq(<<a, b>>, 1, 1)) = 1
        /\ SubSeq(<<a, b>>, 1, 1)[1] = a
    BY <1>1, SubSeqProperties
  <2> DEFINE s == SubSeq(<<a, b>>, 1, 1)
  <2>2. s \in Seq({a, b}) /\ Len(s) = 1 /\ s[1] = a
    BY <2>1
  <2> HIDE DEF s
  <2>3. s = <<a>>
    BY <2>2, OneIs
  <2> QED
    BY <2>3 DEF s
<1> QED
  BY <1>1, <1>2, <1>3, <1>4, <1>5, <1>6, <1>7, <1>8

(* What a broken write may leave. *)
LEMMA BrokenIs ==
  ASSUME NEW u, NEW c, NEW b \in Broken(Write(u, c))
  PROVE  /\ b = Write(u, Erased) \/ (c # Erased /\ b = Write(u, Unknown))
BY DEF Broken, Write

CutOne(f, w, x) == x = f \/ x = After(f, <<w>>) \/ \E b \in Broken(w) : x = After(f, <<b>>)

(* One write: before it, after it, or broken. *)
LEMMA InterruptedOne ==
  ASSUME NEW f \in [Units -> Cells], NEW w, NEW x \in Interrupted(f, <<w>>)
  PROVE  CutOne(f, w, x)
<1> DEFINE ws == <<w>>
<1>1. ws \in Seq({w}) /\ Len(ws) = 1 /\ ws[1] = w
  BY SmallSeqs
<1>2. SubSeq(ws, 1, 0) = <<>> /\ SubSeq(ws, 1, 1) = ws
  BY SmallSeqs
<1> HIDE DEF ws
<1>3. PICK k \in 0 .. Len(ws) : CutAt(f, ws, x, k)
  <2>1. x \in Interrupted(f, ws)
    BY DEF ws
  <2> QED
    BY <1>1, <2>1, InterruptedAt
<1>4. CASE x = After(f, SubSeq(ws, 1, k))
  <2>1. k = 0 \/ k = 1
    BY <1>1
  <2> QED
    BY <1>2, <1>4, <2>1, AfterNone DEF ws, CutOne
<1>5. ASSUME k + 1 <= Len(ws),
             NEW b \in Broken(ws[k + 1]), x = After(f, Append(SubSeq(ws, 1, k), b))
      PROVE  b \in Broken(w) /\ x = After(f, <<b>>)
  <2>1. k = 0 /\ k + 1 = 1
    BY <1>1, <1>5
  <2>2. Append(SubSeq(ws, 1, k), b) = <<b>>
    BY <1>2, <2>1, SmallSeqs
  <2> QED
    BY <1>1, <1>5, <2>1, <2>2
<1> QED
  BY <1>3, <1>4, <1>5 DEF ws, CutAt, CutOne

CutTwo(f, v, w, x) ==
  \/ x = f \/ x = After(f, <<v>>) \/ x = After(f, <<v, w>>)
  \/ \E b \in Broken(v) : x = After(f, <<b>>)
  \/ \E b \in Broken(w) : x = After(f, <<v, b>>)

(* Two writes: each of them may be the last one, or broken. *)
LEMMA InterruptedTwo ==
  ASSUME NEW f \in [Units -> Cells], NEW v, NEW w, NEW x \in Interrupted(f, <<v, w>>)
  PROVE  CutTwo(f, v, w, x)
<1> DEFINE ws == <<v, w>>
<1>1. ws \in Seq({v, w}) /\ Len(ws) = 2 /\ ws[1] = v /\ ws[2] = w
  BY SmallSeqs
<1>2. SubSeq(ws, 1, 0) = <<>> /\ SubSeq(ws, 1, 1) = <<v>> /\ SubSeq(ws, 1, 2) = ws
  BY SmallSeqs
<1> HIDE DEF ws
<1>3. PICK k \in 0 .. Len(ws) : CutAt(f, ws, x, k)
  <2>1. x \in Interrupted(f, ws)
    BY DEF ws
  <2> QED
    BY <1>1, <2>1, InterruptedAt
<1>4. CASE x = After(f, SubSeq(ws, 1, k))
  <2>1. k = 0 \/ k = 1 \/ k = 2
    BY <1>1
  <2> QED
    BY <1>2, <1>4, <2>1, AfterNone DEF ws, CutTwo
<1>5. ASSUME k + 1 <= Len(ws),
             NEW b \in Broken(ws[k + 1]), x = After(f, Append(SubSeq(ws, 1, k), b))
      PROVE  \/ b \in Broken(v) /\ x = After(f, <<b>>)
             \/ b \in Broken(w) /\ x = After(f, <<v, b>>)
  <2>1. (k = 0 /\ k + 1 = 1) \/ (k = 1 /\ k + 1 = 2)
    BY <1>1, <1>5
  <2>2. Append(<<>>, b) = <<b>> /\ Append(<<v>>, b) = <<v, b>>
    BY SmallSeqs
  <2> QED
    BY <1>1, <1>2, <1>5, <2>1, <2>2
<1> QED
  BY <1>3, <1>4, <1>5 DEF ws, CutAt, CutTwo

-----------------------------------------------------------------------------
Drop(t) == IF Len(t) >= USER_PAIR_SLAVE_MAX_NUM THEN <<Write(t[1].unit, Erased)>> ELSE <<>>
Put(e, p) == IF e < UNITS THEN <<Write(e, p)>> ELSE <<>>
Dropped(f, t) == IF Len(t) >= USER_PAIR_SLAVE_MAX_NUM THEN [f EXCEPT ![t[1].unit] = Erased] ELSE f

(* The tail of a sequence. *)
LEMMA TailIs ==
  ASSUME NEW S, NEW t \in Seq(S), Len(t) > 0
  PROVE  Tail(t) = SubSeq(t, 2, Len(t)) /\ Tail(t) \in Seq(S) /\ Len(Tail(t)) = Len(t) - 1
         /\ \A i \in 1 .. Len(t) - 1 : Tail(t)[i] = t[i + 1]
<1>1. t # <<>>
  OBVIOUS
<1>2. Tail(t) = SubSeq(t, 2, Len(t))
  BY <1>1, TailIsSubSeq
<1>3. Tail(t) \in Seq(S) /\ Len(Tail(t)) = Len(t) - 1
  BY <1>1, HeadTailProperties
<1>4. \A i \in 1 .. Len(t) - 1 : Tail(t)[i] = t[i + 1]
  BY <1>1, <1>3, HeadTailProperties
<1> QED
  BY <1>2, <1>3, <1>4

(* Making room in a full table. *)
LEMMA DropGood ==
  ASSUME NEW f, NEW t, NEW e, Good(f, t, e)
  PROVE  /\ Good(Dropped(f, t), KeptOf(t), e) /\ Len(KeptOf(t)) < USER_PAIR_SLAVE_MAX_NUM
         /\ After(f, Drop(t)) = Dropped(f, t) /\ Dropped(f, t) \in [Units -> Cells]
         /\ \A p : NewIn(t, p) => NewIn(KeptOf(t), p)
<1>1. /\ f \in [Units -> Cells] /\ t \in Seq(Entries) /\ Len(t) \in Nat
      /\ Len(t) <= USER_PAIR_SLAVE_MAX_NUM
  BY GoodIs
<1>2. CASE Len(t) >= USER_PAIR_SLAVE_MAX_NUM
  <2>1. 1 \in 1 .. Len(t) /\ 1 \in 0 .. Len(t) /\ Len(t) > 0 /\ 1 + 1 = 2
    BY <1>1, <1>2, SizeFacts
  <2>2. t[1].unit \in Units
    BY <2>1, GoodIs
  <2>3. KeptOf(t) = Tail(t) /\ Tail(t) = SubSeq(t, 2, Len(t)) /\ Len(Tail(t)) = Len(t) - 1
        /\ \A i \in 1 .. Len(t) - 1 : Tail(t)[i] = t[i + 1]
    <3>1. KeptOf(t) = Tail(t)
      BY <1>2 DEF KeptOf
    <3> QED
      BY <1>1, <2>1, <3>1, TailIs
  <2>4. FirstUnits(t, 1) = {t[1].unit}
    BY DEF FirstUnits
  <2>5. Cleared(f, t, 1) = [f EXCEPT ![t[1].unit] = Erased]
    BY <1>1, <2>2, <2>4 DEF Cleared
  <2>6. Dropped(f, t) = Cleared(f, t, 1)
    BY <1>2, <2>5 DEF Dropped
  <2>7. Good(Dropped(f, t), KeptOf(t), e)
    <3>1. KeptOf(t) = SubSeq(t, 1 + 1, Len(t))
      BY <2>1, <2>3
    <3>2. Good(Cleared(f, t, 1), KeptOf(t), e)
      BY <2>1, <3>1, DropFirst
    <3> QED
      BY <2>6, <3>2
  <2>8. After(f, Drop(t)) = Dropped(f, t)
    <3>1. ASSUME NEW u \in Units
          PROVE  After(f, <<Write(u, Erased)>>) = [f EXCEPT ![u] = Erased]
      <4>1. After(f, <<Write(u, Erased)>>) = [f EXCEPT ![u] = Programmed(f[u], Erased)]
        BY PairAssumption, <1>1, AfterOne
      <4>2. Programmed(f[u], Erased) = Erased
        BY ProgrammedIs
      <4> QED
        BY <4>1, <4>2
    <3>2. Drop(t) = <<Write(t[1].unit, Erased)>>
      BY <1>2 DEF Drop
    <3> QED
      BY <2>2, <2>5, <2>6, <3>1, <3>2
  <2>9. Len(KeptOf(t)) < USER_PAIR_SLAVE_MAX_NUM
    BY <1>1, <2>3, SizeFacts
  <2>10. ASSUME NEW p, NewIn(t, p) PROVE NewIn(KeptOf(t), p)
    <3>1. \A i \in 1 .. Len(t) - 1 : i + 1 \in 1 .. Len(t)
      BY <1>1
    <3> QED
      BY <2>3, <2>10, <3>1 DEF NewIn
  <2>11. Dropped(f, t) \in [Units -> Cells]
    BY <2>7, GoodIs
  <2> QED
    BY <2>7, <2>8, <2>9, <2>10, <2>11
<1>3. CASE ~(Len(t) >= USER_PAIR_SLAVE_MAX_NUM)
  <2>1. Drop(t) = <<>> /\ Dropped(f, t) = f /\ KeptOf(t) = t
    BY <1>3 DEF Drop, Dropped, KeptOf
  <2>2. After(f, <<>>) = f
    BY <1>1, AfterNone
  <2>3. Len(t) < USER_PAIR_SLAVE_MAX_NUM
    BY <1>1, <1>3, SizeFacts
  <2> QED
    BY <1>1, <2>1, <2>2, <2>3
<1> QED
  BY <1>2, <1>3

(* The writes of an add, in one go and cut short. *)
LEMMA PutAfterDrop ==
  ASSUME NEW f, NEW t, NEW e, Good(f, t, e), e < UNITS, NEW c \in Cells
  PROVE  After(f, Drop(t) \o <<Write(e, c)>>) = [Dropped(f, t) EXCEPT ![e] = c]
<1>1. /\ f \in [Units -> Cells] /\ t \in Seq(Entries) /\ Len(t) \in Nat
      /\ e \in Units
  BY GoodIs, SizeFacts DEF Units
<1>2. f[e] = Blank
  BY <1>1, SizeFacts DEF Good, Layout, Filled, Units
<1>3. Programmed(f[e], c) = c
  BY <1>2, ProgrammedIs
<1>4. CASE Len(t) >= USER_PAIR_SLAVE_MAX_NUM
  <2>1. 1 \in 1 .. Len(t)
    BY <1>1, <1>4, SizeFacts
  <2>2. t[1].unit \in Units /\ t[1].unit < e
    BY <2>1, GoodIs
  <2>3. t[1].unit # e
    BY <1>1, <2>2, SizeFacts DEF Units
  <2>4. Drop(t) \o <<Write(e, c)>> = <<Write(t[1].unit, Erased), Write(e, c)>>
    BY <1>4, SmallSeqs DEF Drop
  <2>5. ASSUME NEW u \in Units, u # e
        PROVE  After(f, <<Write(u, Erased), Write(e, c)>>)
               = [[f EXCEPT ![u] = Erased] EXCEPT ![e] = c]
    <3>1. ProgAt(f, u, Erased) = [f EXCEPT ![u] = Erased]
      BY ProgrammedIs DEF ProgAt
    <3>2. After(f, <<Write(u, Erased), Write(e, c)>>) = ProgAt(ProgAt(f, u, Erased), e, c)
      BY <1>1, <2>5, AfterTwo
    <3>3. [f EXCEPT ![u] = Erased][e] = f[e]
      BY <1>1, <2>5
    <3>4. ProgAt([f EXCEPT ![u] = Erased], e, c) = [[f EXCEPT ![u] = Erased] EXCEPT ![e] = c]
      BY <1>3, <3>3 DEF ProgAt
    <3> QED
      BY <3>1, <3>2, <3>4
  <2>6. Dropped(f, t) = [f EXCEPT ![t[1].unit] = Erased]
    BY <1>4 DEF Dropped
  <2> QED
    BY <2>2, <2>3, <2>4, <2>5, <2>6
<1>5. CASE ~(Len(t) >= USER_PAIR_SLAVE_MAX_NUM)
  <2>1. Drop(t) \o <<Write(e, c)>> = <<Write(e, c)>>
    BY <1>5, SmallSeqs DEF Drop
  <2>2. Dropped(f, t) = f
    BY <1>5 DEF Dropped
  <2>3. After(f, <<Write(e, c)>>) = [f EXCEPT ![e] = Programmed(f[e], c)]
    BY PairAssumption, <1>1, AfterOne
  <2> QED
    BY <1>3, <2>1, <2>2, <2>3
<1> QED
  BY <1>4, <1>5

New(e, p) == [unit |-> e, peer |-> p]

(* An add that is not cut short. *)
LEMMA AddGood ==
  ASSUME NEW f, NEW t, NEW e, Good(f, t, e), NEW p \in SlaveMacs, NewIn(t, p)
  PROVE  /\ e < UNITS => Good(After(f, Drop(t) \o Put(e, p)), Append(KeptOf(t), New(e, p)), e + 1)
         /\ ~(e < UNITS) => Good(After(f, Drop(t) \o Put(e, p)), KeptOf(t), e)
<1>1. CASE e < UNITS
  <2>1. After(f, Drop(t) \o Put(e, p)) = [Dropped(f, t) EXCEPT ![e] = p]
    BY <1>1, PutAfterDrop DEF Put, Cells, Bonds
  <2>2. Good([Dropped(f, t) EXCEPT ![e] = p], Append(KeptOf(t), New(e, p)), e + 1)
    BY <1>1, DropGood, StoreGood DEF New, Bonds
  <2> QED
    BY <1>1, <2>1, <2>2
<1>2. CASE ~(e < UNITS)
  <2>1. Drop(t) \o Put(e, p) = Drop(t)
    BY <1>2, SmallSeqs DEF Drop, Put
  <2>2. Good(Dropped(f, t), KeptOf(t), e) /\ After(f, Drop(t)) = Dropped(f, t)
    BY DropGood
  <2>3. Good(After(f, Drop(t) \o Put(e, p)), KeptOf(t), e)
    BY <2>1, <2>2
  <2> QED
    BY <1>2, <2>3
<1> QED
  BY <1>1, <1>2

(* An add that is cut short: the bonds before it, with room made, or with a new one. *)
LEMMA AddCut ==
  ASSUME NEW f, NEW t, NEW e, Good(f, t, e), NEW p \in SlaveMacs, NewIn(t, p),
         NEW x \in Interrupted(f, Drop(t) \o Put(e, p))
  PROVE  \/ Good(x, t, e) \/ Good(x, KeptOf(t), e) \/ Good(x, KeptOf(t), e + 1)
         \/ \E c \in {p, Unknown} : Good(x, Append(KeptOf(t), New(e, c)), e + 1)
<1>1. f \in [Units -> Cells]
  BY GoodIs
<1>2. Good(After(f, Drop(t)), KeptOf(t), e)
  BY DropGood
<1>3. ASSUME e < UNITS, NEW c \in {p, Unknown}
      PROVE  Good(After(f, Drop(t) \o <<Write(e, c)>>), Append(KeptOf(t), New(e, c)), e + 1)
  <2>1. c \in Bonds /\ c \in Cells
    BY CellFacts DEF Bonds, Cells
  <2>2. After(f, Drop(t) \o <<Write(e, c)>>) = [Dropped(f, t) EXCEPT ![e] = c]
    BY <1>3, <2>1, PutAfterDrop
  <2>3. Good([Dropped(f, t) EXCEPT ![e] = c], Append(KeptOf(t), New(e, c)), e + 1)
    BY <1>3, <2>1, DropGood, StoreGood DEF New
  <2> QED
    BY <2>2, <2>3
<1>4. ASSUME e < UNITS
      PROVE  Good(After(f, Drop(t) \o <<Write(e, Erased)>>), KeptOf(t), e + 1)
  <2>1. After(f, Drop(t) \o <<Write(e, Erased)>>) = [Dropped(f, t) EXCEPT ![e] = Erased]
    BY <1>4, PutAfterDrop DEF Cells
  <2>2. Good([Dropped(f, t) EXCEPT ![e] = Erased], KeptOf(t), e + 1)
    BY <1>4, DropGood, SpoilGood
  <2> QED
    BY <2>1, <2>2
<1>5. \A b \in Broken(Write(e, p)) : b = Write(e, Erased) \/ b = Write(e, Unknown)
  BY BrokenIs
<1>6. CASE Len(t) >= USER_PAIR_SLAVE_MAX_NUM /\ e < UNITS
  <2> DEFINE v == Write(t[1].unit, Erased)
             w == Write(e, p)
  <2>1. /\ Drop(t) = <<v>> /\ Put(e, p) = <<w>> /\ <<v>> \o <<w>> = <<v, w>>
        /\ \A b : <<v>> \o <<b>> = <<v, b>>
    BY <1>6, SmallSeqs DEF Drop, Put
  <2>2. \A b \in Broken(v) : b = v
    BY BrokenIs
  <2>3. CutTwo(f, v, w, x)
    <3> HIDE DEF v, w
    <3>1. x \in Interrupted(f, <<v, w>>)
      BY <2>1
    <3> QED
      BY <1>1, <3>1, InterruptedTwo
  <2>4. \/ x = f \/ x = After(f, <<v>>) \/ x = After(f, <<v, w>>)
        \/ x = After(f, <<v, Write(e, Erased)>>) \/ x = After(f, <<v, Write(e, Unknown)>>)
    <3> HIDE DEF v
    <3> QED
      BY <1>5, <2>2, <2>3 DEF CutTwo
  <2>5. /\ Good(After(f, <<v, w>>), Append(KeptOf(t), New(e, p)), e + 1)
        /\ Good(After(f, <<v, Write(e, Unknown)>>), Append(KeptOf(t), New(e, Unknown)), e + 1)
        /\ Good(After(f, <<v, Write(e, Erased)>>), KeptOf(t), e + 1)
    BY <1>3, <1>4, <1>6, <2>1
  <2> QED
    BY <1>2, <2>1, <2>4, <2>5
<1>7. CASE ~(Len(t) >= USER_PAIR_SLAVE_MAX_NUM) /\ e < UNITS
  <2> DEFINE w == Write(e, p)
  <2>1. /\ Drop(t) = <<>> /\ Put(e, p) = <<w>> /\ <<>> \o <<w>> = <<w>>
        /\ \A b : <<>> \o <<b>> = <<b>>
    BY <1>7, SmallSeqs DEF Drop, Put
  <2>2. CutOne(f, w, x)
    <3> HIDE DEF w
    <3>1. x \in Interrupted(f, <<w>>)
      BY <2>1
    <3> QED
      BY <1>1, <3>1, InterruptedOne
  <2>3. \/ x = f \/ x = After(f, <<w>>)
        \/ x = After(f, <<Write(e, Erased)>>) \/ x = After(f, <<Write(e, Unknown)>>)
    BY <1>5, <2>2 DEF CutOne
  <2>4. /\ Good(After(f, <<w>>), Append(KeptOf(t), New(e, p)), e + 1)
        /\ Good(After(f, <<Write(e, Unknown)>>), Append(KeptOf(t), New(e, Unknown)), e + 1)
        /\ Good(After(f, <<Write(e, Erased)>>), KeptOf(t), e + 1)
    BY <1>3, <1>4, <1>7, <2>1
  <2> QED
    BY <2>3, <2>4
<1>8. CASE Len(t) >= USER_PAIR_SLAVE_MAX_NUM /\ ~(e < UNITS)
  <2> DEFINE v == Write(t[1].unit, Erased)
  <2>1. /\ Drop(t) = <<v>> /\ Put(e, p) = <<>> /\ <<v>> \o <<>> = <<v>>
    BY <1>8, SmallSeqs DEF Drop, Put
  <2>2. \A b \in Broken(v) : b = v
    BY BrokenIs
  <2>3. CutOne(f, v, x)
    <3> HIDE DEF v
    <3>1. x \in Interrupted(f, <<v>>)
      BY <2>1
    <3> QED
      BY <1>1, <3>1, InterruptedOne
  <2>4. x = f \/ x = After(f, <<v>>)
    <3> HIDE DEF v
    <3> QED
      BY <2>2, <2>3 DEF CutOne
  <2> QED
    BY <1>2, <2>1, <2>4
<1>9. CASE ~(Len(t) >= USER_PAIR_SLAVE_MAX_NUM) /\ ~(e < UNITS)
  <2>1. Drop(t) \o Put(e, p) = <<>>
    BY <1>9, SmallSeqs DEF Drop, Put
  <2> QED
    BY <1>1, <2>1, InterruptedNone
<1> QED
  BY <1>6, <1>7, <1>8, <1>9

(* What the start-up finds in a good sector. *)
LEMMA GoodScan ==
  ASSUME NEW f, NEW t, NEW e, Good(f, t, e)
  PROVE  Scanned(f) = t /\ End(f) = e /\ LastUsed(f) = e - 1 /\ Good(f, Scanned(f), End(f))
<1>1. Scanned(f) = t /\ End(f) = e /\ LastUsed(f) = e - 1
  BY ScanIs DEF Good
<1> QED
  BY <1>1

(* The clean-up of the start, in one go and cut short. *)
LEMMA RewritesLen ==
  ASSUME NEW t \in Seq(Entries)
  PROVE  /\ Rewrites(t) \in Seq([unit : Int, cell : Cells]) /\ Len(Rewrites(t)) = Len(t)
         /\ \A i \in 1 .. Len(t) : Rewrites(t)[i] = Write(i - 1, t[i].peer)
<1>1. Len(t) \in Nat /\ DOMAIN t = 1 .. Len(t)
  BY LenProperties
<1> DEFINE W == [unit : Int, cell : Cells]
<1>2. Rewrites(t) \in [1 .. Len(t) -> W]
  <2> SUFFICES ASSUME NEW i \in 1 .. Len(t) PROVE Write(i - 1, t[i].peer) \in W
    BY <1>1 DEF Rewrites
  <2>1. i - 1 \in Int
    BY <1>1
  <2>2. t[i].peer \in Cells
    BY EntryAt DEF Cells
  <2> QED
    BY <2>1, <2>2 DEF Write
<1> HIDE DEF W
<1>3. Rewrites(t) \in Seq(W) /\ Len(Rewrites(t)) = Len(t)
  BY <1>1, <1>2, IsSeq
<1>4. \A i \in 1 .. Len(t) : Rewrites(t)[i] = Write(i - 1, t[i].peer)
  BY <1>1 DEF Rewrites
<1> QED
  BY <1>3, <1>4 DEF W

(* As many bonds are moved as there are. *)
LEMMA MovedLen ==
  ASSUME NEW t \in Seq(Entries)
  PROVE  /\ Moved(t) \in Seq([unit : Int, peer : Bonds]) /\ Len(Moved(t)) = Len(t)
<1>1. Len(t) \in Nat /\ DOMAIN t = 1 .. Len(t)
  BY LenProperties
<1> DEFINE W == [unit : Int, peer : Bonds]
<1>2. Moved(t) \in [1 .. Len(t) -> W]
  <2> SUFFICES ASSUME NEW i \in 1 .. Len(t) PROVE [t[i] EXCEPT !.unit = i - 1] \in W
    BY <1>1 DEF Moved
  <2>1. t[i] = [unit |-> t[i].unit, peer |-> t[i].peer] /\ t[i].peer \in Bonds
    BY EntryAt
  <2>2. [t[i] EXCEPT !.unit = i - 1] = [unit |-> i - 1, peer |-> t[i].peer]
    BY <2>1
  <2>3. i - 1 \in Int
    BY <1>1
  <2> QED
    BY <2>1, <2>2, <2>3
<1> HIDE DEF W
<1>3. Moved(t) \in Seq(W) /\ Len(Moved(t)) = Len(t)
  BY <1>1, <1>2, IsSeq
<1> QED
  BY <1>3 DEF W

(* The clean-up keeps all bonds. *)
LEMMA CleanGood ==
  ASSUME NEW f, NEW t, NEW e, Good(f, t, e)
  PROVE  Good(After(EmptySector, Rewrites(t)), Moved(t), Len(t))
<1>1. t \in Seq(Entries) /\ Len(t) \in 0 .. Len(t) /\ Len(t) <= UNITS
  BY GoodIs
<1>2. SubSeq(Rewrites(t), 1, Len(t)) = Rewrites(t)
  BY <1>1, RewritesLen, SubSeqFull
<1>3. SubSeq(Moved(t), 1, Len(t)) = Moved(t)
  BY <1>1, MovedLen, SubSeqFull
<1>4. Good(Rewritten(t, Len(t)), Moved(t), Len(t))
  BY <1>1, <1>3, RewriteGood
<1>5. After(EmptySector, Rewrites(t)) = Rewritten(t, Len(t))
  BY <1>1, <1>2, RewritesTo
<1> QED
  BY <1>4, <1>5

CleanCutAt(x, t, k) ==
  \/ Good(x, SubSeq(Moved(t), 1, k), k)
  \/ /\ k < Len(t)
     /\ \/ Good(x, SubSeq(Moved(t), 1, k), k + 1)
        \/ Good(x, Append(SubSeq(Moved(t), 1, k), New(k, Unknown)), k + 1)

(* Cut short it keeps the oldest, and perhaps a broken address after them. *)
LEMMA CleanCut ==
  ASSUME NEW f, NEW t, NEW e, Good(f, t, e), NEW x \in Interrupted(EmptySector, Rewrites(t))
  PROVE  \E k \in 0 .. Len(t) : CleanCutAt(x, t, k)
<1> DEFINE ws == Rewrites(t)
<1>1. /\ t \in Seq(Entries) /\ Len(t) \in Nat /\ Len(t) <= UNITS
      /\ Len(t) <= USER_PAIR_SLAVE_MAX_NUM
  BY GoodIs
<1>2. ws \in Seq([unit : Int, cell : Cells]) /\ Len(ws) = Len(t)
  BY <1>1, RewritesLen
<1>3. PICK k \in 0 .. Len(ws) : CutAt(EmptySector, ws, x, k)
  <2> HIDE DEF ws
  <2>1. x \in Interrupted(EmptySector, ws)
    BY DEF ws
  <2> QED
    BY <1>2, <2>1, InterruptedAt
<1>4. k \in 0 .. Len(t) /\ k \in Nat
  BY <1>1, <1>2
<1> DEFINE r == SubSeq(Moved(t), 1, k)
           u == SubSeq(ws, 1, k)
<1>5. Good(Rewritten(t, k), r, k)
  BY <1>4, RewriteGood
<1>6. After(EmptySector, u) = Rewritten(t, k)
  BY <1>1, <1>4, RewritesTo
<1>7. ASSUME x = After(EmptySector, u) PROVE CleanCutAt(x, t, k)
  BY <1>4, <1>5, <1>6, <1>7 DEF CleanCutAt
<1>8. ASSUME k + 1 <= Len(ws), NEW b \in Broken(ws[k + 1]), x = After(EmptySector, Append(u, b))
      PROVE  CleanCutAt(x, t, k)
  <2>1. k + 1 \in 1 .. Len(t) /\ (k + 1) - 1 = k /\ k < Len(t) /\ k < UNITS
    BY <1>1, <1>2, <1>4, <1>8, SizeFacts
  <2>2. ws[k + 1] = Write(k, t[k + 1].peer)
    <3>1. ws[k + 1] = Write((k + 1) - 1, t[k + 1].peer)
      BY <1>1, <2>1, RewritesLen
    <3> QED
      BY <2>1, <3>1
  <2>3. b = Write(k, Erased) \/ b = Write(k, Unknown)
    BY <1>8, <2>2, BrokenIs
  <2>4. \A c : After(EmptySector, Append(u, Write(k, c))) = SetAt(Rewritten(t, k), k, c)
    <3>1. u = SubSeq(Rewrites(t), 1, k)
      OBVIOUS
    <3> HIDE DEF u
    <3>2. CutAfter(t, k, u)
      BY <1>1, <1>4, <2>1, <3>1, RewritesTo
    <3> QED
      BY <3>2 DEF CutAfter
  <2>5. Good([Rewritten(t, k) EXCEPT ![k] = Erased], r, k + 1)
    <3> HIDE DEF r
    <3> QED
      BY <1>5, <2>1, SpoilGood
  <2>6. Good([Rewritten(t, k) EXCEPT ![k] = Unknown], Append(r, New(k, Unknown)), k + 1)
    <3>1. Len(r) < USER_PAIR_SLAVE_MAX_NUM
      <4>1. MovedTo(t, k, r)
        BY <1>1, <1>4, MovedIs
      <4>2. Len(r) = k
        BY <4>1 DEF MovedTo
      <4> QED
        BY <1>1, <2>1, <4>2, SizeFacts
    <3> HIDE DEF r
    <3> QED
      BY <1>5, <2>1, <3>1, CellFacts, StoreGood DEF New
  <2>7. CASE b = Write(k, Erased)
    <3>1. x = [Rewritten(t, k) EXCEPT ![k] = Erased]
      BY <1>8, <2>4, <2>7 DEF SetAt
    <3> QED
      BY <2>1, <2>5, <3>1 DEF CleanCutAt
  <2>8. CASE b = Write(k, Unknown)
    <3>1. x = [Rewritten(t, k) EXCEPT ![k] = Unknown]
      BY <1>8, <2>4, <2>8 DEF SetAt
    <3> QED
      BY <2>1, <2>6, <3>1 DEF CleanCutAt
  <2> QED
    BY <2>3, <2>7, <2>8
<1>9. CleanCutAt(x, t, k)
  <2>1. x = After(EmptySector, u) \/ (k + 1 <= Len(ws) /\ \E b \in Broken(ws[k + 1]) :
                                          x = After(EmptySector, Append(u, b)))
    BY <1>3 DEF CutAt
  <2> HIDE DEF ws, u, r
  <2> QED
    BY <1>7, <1>8, <2>1
<1> QED
  BY <1>4, <1>9

(* The removal of all bonds, in one go and cut short. *)
LEMMA ErasesLen ==
  ASSUME NEW t \in Seq(Entries)
  PROVE  /\ Erases(t) \in Seq([unit : Units, cell : Cells]) /\ Len(Erases(t)) = Len(t)
         /\ \A i \in 1 .. Len(t) : Erases(t)[i] = Write(t[i].unit, Erased)
<1>1. Len(t) \in Nat /\ DOMAIN t = 1 .. Len(t)
  BY LenProperties
<1> DEFINE W == [unit : Units, cell : Cells]
<1>2. Erases(t) \in [1 .. Len(t) -> W]
  <2> SUFFICES ASSUME NEW i \in 1 .. Len(t) PROVE Write(t[i].unit, Erased) \in W
    BY <1>1 DEF Erases
  <2>1. t[i].unit \in Units
    BY EntryAt
  <2> QED
    BY <2>1 DEF Write, Cells
<1> HIDE DEF W
<1>3. Erases(t) \in Seq(W) /\ Len(Erases(t)) = Len(t)
  BY <1>1, <1>2, IsSeq
<1>4. \A i \in 1 .. Len(t) : Erases(t)[i] = Write(t[i].unit, Erased)
  BY <1>1 DEF Erases
<1> QED
  BY <1>3, <1>4 DEF W

(* All bonds are removed. *)
LEMMA AllGood ==
  ASSUME NEW f, NEW t, NEW e, Good(f, t, e)
  PROVE  Good(After(f, Erases(t)), <<>>, e)
<1>1. f \in [Units -> Cells] /\ t \in Seq(Entries) /\ Len(t) \in 0 .. Len(t) /\ Len(t) \in Nat
  BY GoodIs
<1>2. SubSeq(Erases(t), 1, Len(t)) = Erases(t)
  BY <1>1, ErasesLen, SubSeqFull
<1>3. SubSeq(t, Len(t) + 1, Len(t)) = <<>>
  BY <1>1, SubSeqEmpty
<1>4. Good(Cleared(f, t, Len(t)), <<>>, e)
  BY <1>1, <1>3, DropFirst
<1>5. After(f, Erases(t)) = Cleared(f, t, Len(t))
  BY <1>1, <1>2, ErasesTo
<1> QED
  BY <1>4, <1>5

(* Cut short, the oldest are. *)
LEMMA AllCut ==
  ASSUME NEW f, NEW t, NEW e, Good(f, t, e), NEW x \in Interrupted(f, Erases(t))
  PROVE  \E k \in 0 .. Len(t) : Good(x, SubSeq(t, k + 1, Len(t)), e)
<1> DEFINE ws == Erases(t)
<1>1. f \in [Units -> Cells] /\ t \in Seq(Entries) /\ Len(t) \in Nat
  BY GoodIs
<1>2. ws \in Seq([unit : Units, cell : Cells]) /\ Len(ws) = Len(t)
  BY <1>1, ErasesLen
<1>3. PICK k \in 0 .. Len(ws) : CutAt(f, ws, x, k)
  <2> HIDE DEF ws
  <2>1. x \in Interrupted(f, ws)
    BY DEF ws
  <2> QED
    BY <1>2, <2>1, InterruptedAt
<1>4. k \in 0 .. Len(t) /\ k \in Nat
  BY <1>1, <1>2
<1>5. ASSUME NEW j \in 0 .. Len(t), x = After(f, SubSeq(ws, 1, j))
      PROVE  Good(x, SubSeq(t, j + 1, Len(t)), e)
  <2>1. x = Cleared(f, t, j)
    BY <1>1, <1>5, ErasesTo
  <2> QED
    BY <2>1, DropFirst
<1>6. CASE x = After(f, SubSeq(ws, 1, k))
  BY <1>4, <1>5, <1>6
<1>7. ASSUME k + 1 <= Len(ws), NEW b \in Broken(ws[k + 1]),
             x = After(f, Append(SubSeq(ws, 1, k), b))
      PROVE  x = After(f, SubSeq(ws, 1, k + 1)) /\ k + 1 \in 0 .. Len(t)
  <2>1. k + 1 \in 1 .. Len(t) /\ k + 1 \in 0 .. Len(t)
    BY <1>1, <1>2, <1>4, <1>7
  <2>2. ws[k + 1] = Write(t[k + 1].unit, Erased)
    BY <1>1, <2>1, ErasesLen
  <2>3. b = ws[k + 1]
    BY <1>7, <2>2, BrokenIs
  <2>4. Append(SubSeq(ws, 1, k), ws[k + 1]) = SubSeq(ws, 1, k + 1)
    <3> HIDE DEF ws
    <3> DEFINE W == [unit : Units, cell : Cells]
    <3> HIDE DEF W
    <3>1. ws \in Seq(W) /\ k + 1 \in 1 .. Len(ws)
      BY <1>2, <2>1 DEF W
    <3>2. /\ SubSeq(ws, 1, k) \in Seq(W) /\ Len(SubSeq(ws, 1, k)) = k
          /\ \A i \in 1 .. k : SubSeq(ws, 1, k)[i] = ws[i]
      BY <1>4, <3>1, SubSeqProperties
    <3>3. /\ SubSeq(ws, 1, k + 1) \in Seq(W) /\ Len(SubSeq(ws, 1, k + 1)) = k + 1
          /\ \A i \in 1 .. k + 1 : SubSeq(ws, 1, k + 1)[i] = ws[i]
      BY <1>4, <3>1, SubSeqProperties
    <3> DEFINE a == Append(SubSeq(ws, 1, k), ws[k + 1])
               z == SubSeq(ws, 1, k + 1)
    <3>4. /\ a \in Seq(W) /\ Len(a) = k + 1 /\ a[k + 1] = ws[k + 1]
          /\ \A i \in 1 .. k : a[i] = ws[i]
      BY <3>1, <3>2, AppendProperties, ElementOfSeq
    <3>5. z \in Seq(W) /\ Len(z) = k + 1 /\ \A i \in 1 .. k + 1 : z[i] = ws[i]
      BY <3>3
    <3> HIDE DEF a, z
    <3>6. \A i \in 1 .. k + 1 : a[i] = z[i]
      BY <1>4, <3>4, <3>5
    <3>7. a = z
      BY <3>4, <3>5, <3>6, SeqEqual
    <3> QED
      BY <3>7 DEF a, z
  <2> QED
    BY <1>7, <2>1, <2>3, <2>4
<1>8. \E j \in 0 .. Len(t) : x = After(f, SubSeq(ws, 1, j))
  BY <1>3, <1>4, <1>7 DEF CutAt
<1> QED
  BY <1>5, <1>8

(* The peers of a table. *)
BondsOf(t) == [i \in DOMAIN t |-> t[i].peer]

(* They are a sequence as long as the table. *)
LEMMA BondsOfIs ==
  ASSUME NEW P, NEW t \in Seq(P), NEW S, \A i \in 1 .. Len(t) : t[i].peer \in S
  PROVE  /\ BondsOf(t) \in Seq(S) /\ Len(BondsOf(t)) = Len(t) /\ DOMAIN BondsOf(t) = 1 .. Len(t)
         /\ \A i \in 1 .. Len(t) : BondsOf(t)[i] = t[i].peer
<1>1. Len(t) \in Nat /\ DOMAIN t = 1 .. Len(t)
  BY LenProperties
<1>2. BondsOf(t) = [i \in 1 .. Len(t) |-> t[i].peer]
  BY <1>1 DEF BondsOf
<1>3. BondsOf(t) \in [1 .. Len(t) -> S]
  BY <1>2
<1>4. BondsOf(t) \in Seq(S) /\ Len(BondsOf(t)) = Len(t)
  BY <1>1, <1>3, IsSeq
<1> QED
  BY <1>2, <1>4

(* They are bonds. *)
LEMMA BondsTyped ==
  ASSUME NEW t \in Seq(Entries)
  PROVE  /\ BondsOf(t) \in Seq(Bonds) /\ Len(BondsOf(t)) = Len(t) /\ Len(t) \in Nat
         /\ DOMAIN BondsOf(t) = 1 .. Len(t)
         /\ \A i \in 1 .. Len(t) : BondsOf(t)[i] = t[i].peer
<1>1. \A i \in 1 .. Len(t) : t[i].peer \in Bonds
  BY EntryAt
<1> QED
  BY <1>1, BondsOfIs, LenProperties

(* What each change of the table does to its peers. *)
LEMMA BondsAppend ==
  ASSUME NEW t \in Seq(Entries), NEW e \in Units, NEW c \in Bonds
  PROVE  BondsOf(Append(t, New(e, c))) = Append(BondsOf(t), c)
<1> DEFINE n == New(e, c)
           r == Append(t, n)
           a == BondsOf(r)
           z == Append(BondsOf(t), c)
<1>1. n \in Entries /\ n.peer = c
  BY DEF New, Entries
<1> HIDE DEF n
<1>2. /\ r \in Seq(Entries) /\ Len(r) = Len(t) + 1 /\ r[Len(t) + 1] = n
      /\ \A i \in 1 .. Len(t) : r[i] = t[i]
  BY <1>1, AppendProperties
<1> HIDE DEF r
<1>3. /\ a \in Seq(Bonds) /\ Len(a) = Len(r) /\ \A i \in 1 .. Len(r) : a[i] = r[i].peer
  BY <1>2, BondsTyped
<1>4. /\ BondsOf(t) \in Seq(Bonds) /\ Len(BondsOf(t)) = Len(t) /\ Len(t) \in Nat
      /\ \A i \in 1 .. Len(t) : BondsOf(t)[i] = t[i].peer
  BY BondsTyped
<1>5. /\ z \in Seq(Bonds) /\ Len(z) = Len(t) + 1 /\ z[Len(t) + 1] = c
      /\ \A i \in 1 .. Len(t) : z[i] = t[i].peer
  BY <1>4, AppendProperties
<1> HIDE DEF a, z
<1>6. ASSUME NEW i \in 1 .. Len(a) PROVE a[i] = z[i]
  <2>1. i \in 1 .. Len(t) \/ i = Len(t) + 1
    BY <1>2, <1>3, <1>4
  <2>2. i \in 1 .. Len(r)
    BY <1>3
  <2> QED
    BY <1>1, <1>2, <1>3, <1>5, <2>1, <2>2
<1>7. a = z
  BY <1>2, <1>3, <1>5, <1>6, SeqEqual
<1> QED
  BY <1>7 DEF a, z, r, n

(* Dropping the first k entries drops the first k bonds. *)
LEMMA BondsDrop ==
  ASSUME NEW t \in Seq(Entries), NEW k \in 0 .. Len(t)
  PROVE  BondsOf(SubSeq(t, k + 1, Len(t))) = SubSeq(BondsOf(t), k + 1, Len(BondsOf(t)))
<1> DEFINE r == SubSeq(t, k + 1, Len(t))
           b == BondsOf(t)
           a == BondsOf(r)
           z == SubSeq(b, k + 1, Len(b))
<1>1. Len(t) \in Nat /\ k \in Nat
  BY LenProperties
<1>2. /\ r \in Seq(Entries) /\ Len(r) = Len(t) - k
      /\ \A j \in 1 .. Len(t) - k : r[j] = t[k + j]
  BY <1>1, SubSeqProperties
<1>3. b \in Seq(Bonds) /\ Len(b) = Len(t) /\ \A i \in 1 .. Len(t) : b[i] = t[i].peer
  BY BondsTyped
<1> HIDE DEF b, r
<1>4. /\ z \in Seq(Bonds) /\ Len(z) = Len(t) - k
      /\ \A j \in 1 .. Len(t) - k : z[j] = b[k + j]
  BY <1>1, <1>3, SubSeqProperties
<1>5. a \in Seq(Bonds) /\ Len(a) = Len(r) /\ \A i \in 1 .. Len(r) : a[i] = r[i].peer
  BY <1>2, BondsTyped
<1> HIDE DEF a, z
<1>6. ASSUME NEW i \in 1 .. Len(a) PROVE a[i] = z[i]
  <2>1. i \in 1 .. Len(t) - k /\ k + i \in 1 .. Len(t)
    BY <1>1, <1>2, <1>5
  <2>2. a[i] = r[i].peer
    BY <1>5
  <2> QED
    BY <1>2, <1>3, <1>4, <2>1, <2>2
<1>7. a = z
  BY <1>2, <1>4, <1>5, <1>6, SeqEqual
<1> QED
  BY <1>7 DEF a, z, r, b

(* The entries moved to the front hold the same bonds. *)
LEMMA BondsMoved ==
  ASSUME NEW t \in Seq(Entries), NEW k \in 0 .. Len(t), Len(t) <= UNITS
  PROVE  /\ SubSeq(Moved(t), 1, k) \in Seq(Entries)
         /\ BondsOf(SubSeq(Moved(t), 1, k)) = SubSeq(BondsOf(t), 1, k)
<1> DEFINE r == SubSeq(Moved(t), 1, k)
           b == BondsOf(t)
           a == BondsOf(r)
           z == SubSeq(b, 1, k)
<1>1. Len(t) \in Nat /\ k \in Nat
  BY LenProperties
<1>2. r \in Seq(Entries) /\ Len(r) = k /\ \A i \in 1 .. k : r[i].peer = t[i].peer
  <2>1. MovedTo(t, k, r)
    BY <1>1, MovedIs
  <2> QED
    BY <2>1 DEF MovedTo
<1>3. b \in Seq(Bonds) /\ Len(b) = Len(t) /\ \A i \in 1 .. Len(t) : b[i] = t[i].peer
  BY BondsTyped
<1> HIDE DEF b, r
<1>4. z \in Seq(Bonds) /\ Len(z) = k /\ \A j \in 1 .. k : z[j] = b[j]
  BY <1>1, <1>3, SubSeqProperties
<1>5. a \in Seq(Bonds) /\ Len(a) = Len(r) /\ \A i \in 1 .. Len(r) : a[i] = r[i].peer
  BY <1>2, BondsTyped
<1> HIDE DEF a, z
<1>6. ASSUME NEW i \in 1 .. Len(a) PROVE a[i] = z[i]
  <2>1. i \in 1 .. k /\ i \in 1 .. Len(t) /\ i \in 1 .. Len(r)
    BY <1>1, <1>2, <1>5
  <2> QED
    BY <1>2, <1>3, <1>4, <1>5, <2>1
<1>7. a = z
  BY <1>2, <1>4, <1>5, <1>6, SeqEqual
<1> QED
  BY <1>2, <1>7 DEF a, z, r, b

(* So do all of them. *)
LEMMA BondsMovedAll ==
  ASSUME NEW t \in Seq(Entries), Len(t) <= UNITS
  PROVE  BondsOf(Moved(t)) = BondsOf(t)
<1>1. Len(t) \in 0 .. Len(t)
  BY LenProperties
<1>2. BondsOf(SubSeq(Moved(t), 1, Len(t))) = SubSeq(BondsOf(t), 1, Len(t))
  BY <1>1, BondsMoved
<1>3. SubSeq(Moved(t), 1, Len(t)) = Moved(t)
  BY MovedLen, SubSeqFull
<1>4. SubSeq(BondsOf(t), 1, Len(t)) = BondsOf(t)
  <2>1. BondsOf(t) \in Seq(Bonds) /\ Len(BondsOf(t)) = Len(t)
    BY BondsTyped
  <2> HIDE DEF BondsOf
  <2>2. SubSeq(BondsOf(t), 1, Len(BondsOf(t))) = BondsOf(t)
    BY <2>1, SubSeqFull
  <2> QED
    BY <2>1, <2>2
<1> QED
  BY <1>2, <1>3, <1>4

(* Removing an entry removes its bond. *)
LEMMA BondsRemove ==
  ASSUME NEW t \in Seq(Entries), NEW i \in 1 .. Len(t)
  PROVE  BondsOf(RemoveAt(t, i)) = RemoveAt(BondsOf(t), i)
<1> DEFINE r == RemoveAt(t, i)
           b == BondsOf(t)
           a == BondsOf(r)
           z == RemoveAt(b, i)
<1>1. /\ r \in Seq(Entries) /\ Len(r) = Len(t) - 1 /\ Len(r) \in Nat
      /\ \A j \in 1 .. Len(r) : r[j] = IF j < i THEN t[j] ELSE t[j + 1]
  BY RemoveAtIs
<1>2. /\ b \in Seq(Bonds) /\ Len(b) = Len(t) /\ Len(t) \in Nat
      /\ \A j \in 1 .. Len(t) : b[j] = t[j].peer
  BY BondsTyped
<1> HIDE DEF b, r
<1>3. /\ z \in Seq(Bonds) /\ Len(z) = Len(b) - 1 /\ Len(z) \in Nat
      /\ \A j \in 1 .. Len(z) : z[j] = IF j < i THEN b[j] ELSE b[j + 1]
  BY <1>2, RemoveAtIs
<1>4. a \in Seq(Bonds) /\ Len(a) = Len(r) /\ \A j \in 1 .. Len(r) : a[j] = r[j].peer
  BY <1>1, BondsTyped
<1> HIDE DEF a, z
<1>5. ASSUME NEW j \in 1 .. Len(a) PROVE a[j] = z[j]
  <2>1. j \in 1 .. Len(r) /\ j \in 1 .. Len(z) /\ j \in 1 .. Len(t) /\ j + 1 \in 1 .. Len(t)
    BY <1>1, <1>2, <1>3, <1>4
  <2>2. a[j] = r[j].peer /\ r[j] = IF j < i THEN t[j] ELSE t[j + 1]
    BY <1>1, <1>4, <2>1
  <2>3. b[j] = t[j].peer /\ b[j + 1] = t[j + 1].peer
    BY <1>2, <2>1
  <2>4. z[j] = IF j < i THEN b[j] ELSE b[j + 1]
    BY <1>3, <2>1
  <2> QED
    BY <2>2, <2>3, <2>4
<1>6. a = z
  BY <1>1, <1>2, <1>3, <1>4, <1>5, SeqEqual
<1> QED
  BY <1>6 DEF a, z, r, b

(* Making room in a full table drops the oldest bond. *)
LEMMA BondsKept ==
  ASSUME NEW t \in Seq(Entries)
  PROVE  BondsOf(KeptOf(t)) = IF Len(BondsOf(t)) < USER_PAIR_SLAVE_MAX_NUM THEN BondsOf(t)
                              ELSE Tail(BondsOf(t))
<1>1. BondsOf(t) \in Seq(Bonds) /\ Len(BondsOf(t)) = Len(t) /\ Len(t) \in Nat
  BY BondsTyped
<1>2. CASE Len(t) < USER_PAIR_SLAVE_MAX_NUM
  <2>1. KeptOf(t) = t
    BY <1>1, <1>2, SizeFacts DEF KeptOf
  <2> QED
    BY <1>1, <1>2, <2>1
<1>3. CASE ~(Len(t) < USER_PAIR_SLAVE_MAX_NUM)
  <2>1. KeptOf(t) = Tail(t) /\ Len(t) > 0 /\ 1 \in 0 .. Len(t) /\ 1 + 1 = 2
    BY <1>1, <1>3, SizeFacts DEF KeptOf
  <2>2. Tail(t) = SubSeq(t, 2, Len(t))
    BY <2>1, TailIs
  <2>3. BondsOf(SubSeq(t, 1 + 1, Len(t))) = SubSeq(BondsOf(t), 1 + 1, Len(BondsOf(t)))
    BY <2>1, BondsDrop
  <2>4. Tail(BondsOf(t)) = SubSeq(BondsOf(t), 2, Len(BondsOf(t)))
    BY <1>1, <2>1, TailIs
  <2> QED
    BY <1>1, <1>3, <2>1, <2>2, <2>3, <2>4
<1> QED
  BY <1>2, <1>3

FlashIs == Good(flash, Scanned(flash), End(flash))
RamOn == /\ table = Scanned(flash)
         /\ cfg_idx = LastUsed(flash) \/ (cfg_idx = UNITS /\ End(flash) = UNITS)
RamIs == /\ power = "on" \/ power = "off"
         /\ power = "on" => RamOn
         /\ power = "off" => table = <<>> /\ cfg_idx = 0
StoreInv == FlashIs /\ RamIs

BondsNow == BondsOf(Scanned(flash))

(* What follows of any step that leaves a good sector. *)
LEMMA FlashNext ==
  ASSUME NEW t, NEW e, Good(flash', t, e)
  PROVE  /\ FlashIs' /\ Scanned(flash)' = t /\ End(flash)' = e /\ LastUsed(flash)' = e - 1
         /\ BondsNow' = BondsOf(t)
<1>1. Scanned(flash') = t /\ End(flash') = e /\ LastUsed(flash') = e - 1
  BY GoodScan
<1>2. Good(flash', Scanned(flash'), End(flash'))
  BY GoodScan
<1> QED
  BY <1>1, <1>2 DEF FlashIs, BondsNow

(* What follows of a power loss that leaves a good sector. *)
LEMMA OffNext ==
  ASSUME NEW t, NEW e, Good(flash', t, e), PowerOff
  PROVE  StoreInv' /\ BondsNow' = BondsOf(t) /\ power' = "off"
<1>1. FlashIs' /\ BondsNow' = BondsOf(t)
  BY FlashNext
<1>2. RamIs'
  BY DEF PowerOff, RamIs
<1> QED
  BY <1>1, <1>2 DEF PowerOff, StoreInv

(* What the invariant says of the sector. *)
LEMMA NowIs ==
  ASSUME StoreInv, NEW t, t = Scanned(flash), NEW e, e = End(flash)
  PROVE  /\ Good(flash, t, e) /\ t \in Seq(Entries) /\ DOMAIN t = 1 .. Len(t) /\ Len(t) \in Nat
         /\ e \in 0 .. UNITS /\ Len(t) <= UNITS /\ Len(t) <= USER_PAIR_SLAVE_MAX_NUM
         /\ LastUsed(flash) = e - 1 /\ flash \in [Units -> Cells]
         /\ BondsNow = BondsOf(t) /\ BondsNow \in Seq(Bonds) /\ Len(BondsNow) = Len(t)
<1>1. Good(flash, t, e)
  BY DEF StoreInv, FlashIs
<1>2. /\ t \in Seq(Entries) /\ DOMAIN t = 1 .. Len(t) /\ Len(t) \in Nat
      /\ e \in 0 .. UNITS /\ Len(t) <= UNITS /\ Len(t) <= USER_PAIR_SLAVE_MAX_NUM
      /\ flash \in [Units -> Cells]
  BY <1>1, GoodIs
<1>3. LastUsed(flash) = e - 1
  BY DEF LastUsed
<1>4. BondsNow = BondsOf(t)
  BY DEF BondsNow
<1>5. BondsNow \in Seq(Bonds) /\ Len(BondsNow) = Len(t)
  BY <1>2, <1>4, BondsTyped
<1> QED
  BY <1>1, <1>2, <1>3, <1>4, <1>5

(* The empty table holds no bond. *)
LEMMA BondsEmpty == BondsOf(<<>>) = <<>>
<1> DEFINE t == <<>>
<1>1. t \in Seq(Entries) /\ Len(t) = 0
  BY EmptySeq
<1> HIDE DEF t
<1>2. BondsOf(t) \in Seq(Bonds) /\ Len(BondsOf(t)) = 0
  BY <1>1, BondsTyped
<1>3. BondsOf(t) = <<>>
  BY <1>2, EmptySeq
<1> QED
  BY <1>3 DEF t

(* The device starts with an erased sector. *)
LEMMA StoreInit == Init => StoreInv /\ BondsNow = <<>> /\ power = "off"
<1> SUFFICES ASSUME Init PROVE StoreInv /\ BondsNow = <<>> /\ power = "off"
  OBVIOUS
<1>1. Good(EmptySector, <<>>, 0)
  BY EmptyLayout, SizeFacts DEF Good, NoTwice
<1>2. Scanned(flash) = <<>> /\ Good(flash, Scanned(flash), End(flash))
  BY <1>1, GoodScan DEF Init
<1>3. BondsOf(<<>>) = <<>>
  BY BondsEmpty
<1> QED
  BY <1>2, <1>3 DEF Init, StoreInv, FlashIs, RamIs, BondsNow

(* Start-up *)
LEMMA StartStep ==
  ASSUME StoreInv, Start
  PROVE  StoreInv' /\ power = "off" /\ power' = "on" /\ BondsNow' = BondsNow
<1> DEFINE t == Scanned(flash)
           e == End(flash)
<1>1. /\ Good(flash, t, e) /\ t \in Seq(Entries) /\ Len(t) \in Nat /\ Len(t) <= UNITS
      /\ Len(t) <= USER_PAIR_SLAVE_MAX_NUM
      /\ LastUsed(flash) = e - 1 /\ BondsNow = BondsOf(t)
  BY NowIs
<1>2. ~(Len(t) > USER_PAIR_SLAVE_MAX_NUM)
  BY <1>1, SizeFacts
<1>3. power = "off" /\ power' = "on"
  BY <1>2 DEF Start
<1>4. CASE NeedsClean
  <2>1. /\ flash' = After(EmptySector, Rewrites(t)) /\ table' = Moved(t)
        /\ cfg_idx' = Len(t) - 1
    BY <1>2, <1>4 DEF Start
  <2>2. Good(flash', Moved(t), Len(t))
    BY <1>1, <2>1, CleanGood
  <2>3. /\ FlashIs' /\ Scanned(flash)' = Moved(t) /\ LastUsed(flash)' = Len(t) - 1
        /\ BondsNow' = BondsOf(Moved(t))
    BY <2>2, FlashNext
  <2>4. BondsNow' = BondsNow
    BY <1>1, <2>3, BondsMovedAll
  <2>5. RamOn'
    BY <2>1, <2>3 DEF RamOn
  <2> QED
    BY <1>3, <2>3, <2>4, <2>5 DEF StoreInv, RamIs
<1>5. CASE ~NeedsClean
  <2>1. flash' = flash /\ table' = t /\ cfg_idx' = LastUsed(flash)
    BY <1>2, <1>5 DEF Start
  <2>2. /\ Scanned(flash)' = t /\ LastUsed(flash)' = LastUsed(flash) /\ End(flash)' = e
        /\ BondsNow' = BondsNow
    BY <2>1 DEF BondsNow
  <2>3. FlashIs'
    BY <1>1, <2>1, <2>2 DEF FlashIs
  <2>4. RamOn'
    BY <2>1, <2>2 DEF RamOn
  <2> QED
    BY <1>3, <2>2, <2>3, <2>4 DEF StoreInv, RamIs
<1> QED
  BY <1>4, <1>5

StartCutBonds(b, k, bNext) ==
  \/ bNext = SubSeq(b, 1, k)
  \/ k < Len(b) /\ bNext = Append(SubSeq(b, 1, k), Unknown)

(* A power loss in the start-up leaves a good sector and drops at most old bonds. *)
LEMMA StartInterruptedStep ==
  ASSUME StoreInv, StartInterrupted
  PROVE  /\ StoreInv' /\ power = "off" /\ power' = "off"
         /\ \E k \in 0 .. Len(BondsNow) : StartCutBonds(BondsNow, k, BondsNow')
<1> DEFINE t == Scanned(flash)
           e == End(flash)
<1>1. /\ Good(flash, t, e) /\ t \in Seq(Entries) /\ Len(t) \in Nat /\ Len(t) <= UNITS
      /\ BondsNow = BondsOf(t) /\ Len(BondsNow) = Len(t)
  BY NowIs
<1>2. /\ power = "off" /\ power' = "off" /\ table' = table /\ cfg_idx' = cfg_idx
      /\ flash' \in Interrupted(EmptySector, Rewrites(t))
  BY DEF StartInterrupted
<1>3. PICK k \in 0 .. Len(t) : CleanCutAt(flash', t, k)
  <2> HIDE DEF t, e
  <2> QED
    BY <1>1, <1>2, CleanCut
<1> DEFINE r == SubSeq(Moved(t), 1, k)
<1>4. r \in Seq(Entries) /\ BondsOf(r) = SubSeq(BondsOf(t), 1, k)
  BY <1>1, BondsMoved
<1>5. RamIs'
  BY <1>2 DEF StoreInv, RamIs
<1> HIDE DEF r, t, e
<1>6. ASSUME NEW j, Good(flash', r, j)
      PROVE  StoreInv' /\ StartCutBonds(BondsNow, k, BondsNow')
  <2>1. FlashIs' /\ BondsNow' = BondsOf(r)
    BY <1>6, FlashNext
  <2>2. BondsNow' = SubSeq(BondsNow, 1, k)
    BY <1>1, <1>4, <2>1
  <2> QED
    BY <1>5, <2>1, <2>2 DEF StoreInv, StartCutBonds
<1>7. ASSUME k < Len(t), Good(flash', Append(r, New(k, Unknown)), k + 1)
      PROVE  StoreInv' /\ StartCutBonds(BondsNow, k, BondsNow')
  <2>1. FlashIs' /\ BondsNow' = BondsOf(Append(r, New(k, Unknown)))
    BY <1>7, FlashNext
  <2>2. k \in Units
    BY <1>1, <1>7, SizeFacts DEF Units
  <2>3. BondsOf(Append(r, New(k, Unknown))) = Append(BondsOf(r), Unknown)
    BY <1>4, <2>2, CellFacts, BondsAppend
  <2>4. BondsNow' = Append(SubSeq(BondsNow, 1, k), Unknown)
    BY <1>1, <1>4, <2>1, <2>3
  <2> QED
    BY <1>1, <1>5, <1>7, <2>1, <2>4 DEF StoreInv, StartCutBonds
<1>8. StoreInv' /\ StartCutBonds(BondsNow, k, BondsNow')
  BY <1>3, <1>6, <1>7 DEF CleanCutAt, r
<1> QED
  BY <1>1, <1>2, <1>8

-----------------------------------------------------------------------------
(* Adding a bond *)
KeptNow == IF Len(BondsNow) < USER_PAIR_SLAVE_MAX_NUM THEN BondsNow ELSE Tail(BondsNow)
NewNow(p) == \A i \in DOMAIN BondsNow : BondsNow[i] # p

(* The writes of an add, in terms of what the start-up would find. *)
LEMMA AddWritesAre ==
  ASSUME StoreInv, power = "on", NEW p \in SlaveMacs, \A i \in DOMAIN table : table[i].peer # p,
         NEW t, t = Scanned(flash), NEW e, e = End(flash)
  PROVE  /\ AddWrites(p) = Drop(t) \o Put(e, p) /\ NewIn(t, p) /\ NewNow(p)
         /\ (Fits <=> e < UNITS) /\ (Fits => cfg_idx + 1 = e) /\ (~Fits => e = UNITS)
         /\ KeptBonds = KeptOf(t)
<1>1. /\ table = t /\ t \in Seq(Entries) /\ DOMAIN t = 1 .. Len(t) /\ e \in 0 .. UNITS
      /\ (cfg_idx = e - 1 \/ (cfg_idx = UNITS /\ e = UNITS)) /\ BondsNow = BondsOf(t)
  BY NowIs DEF StoreInv, RamIs, RamOn
<1>2. (Fits <=> e < UNITS) /\ (Fits => cfg_idx + 1 = e) /\ (~Fits => e = UNITS)
  BY <1>1, SizeFacts DEF Fits
<1>3. StoreNew(p) = Put(e, p)
  BY <1>2 DEF StoreNew, Put
<1>4. DropOldest = Drop(t)
  BY <1>1 DEF DropOldest, Drop, Full
<1>5. KeptBonds = KeptOf(t)
  BY <1>1 DEF KeptBonds, KeptOf, Full
<1>6. NewIn(t, p)
  BY <1>1 DEF NewIn
<1>7. NewNow(p)
  <2>1. DOMAIN BondsOf(t) = 1 .. Len(t) /\ \A i \in 1 .. Len(t) : BondsOf(t)[i] = t[i].peer
    BY <1>1, BondsTyped
  <2> QED
    BY <1>1, <1>6, <2>1 DEF NewIn, NewNow
<1> QED
  BY <1>2, <1>3, <1>4, <1>5, <1>6, <1>7 DEF AddWrites

(* The bonds kept by a full table. *)
LEMMA KeptFacts ==
  ASSUME StoreInv, NEW t, t = Scanned(flash)
  PROVE  KeptOf(t) \in Seq(Entries) /\ BondsOf(KeptOf(t)) = KeptNow
<1>1. Good(flash, t, End(flash)) /\ t \in Seq(Entries) /\ BondsNow = BondsOf(t)
  BY NowIs
<1>2. Good(Dropped(flash, t), KeptOf(t), End(flash))
  BY <1>1, DropGood
<1>3. KeptOf(t) \in Seq(Entries)
  BY <1>2, GoodIs
<1> QED
  BY <1>1, <1>3, BondsKept DEF KeptNow

(* Storing a peer keeps the invariant. *)
LEMMA AddStep ==
  ASSUME StoreInv, NEW p \in SlaveMacs, Add(p)
  PROVE  /\ StoreInv' /\ power = "on" /\ power' = "on" /\ NewNow(p)
         /\ BondsNow' = Append(KeptNow, p) \/ BondsNow' = KeptNow
<1> DEFINE t == Scanned(flash)
           e == End(flash)
<1>1. power = "on" /\ power' = "on" /\ \A i \in DOMAIN table : table[i].peer # p
  BY DEF Add
<1>2. /\ AddWrites(p) = Drop(t) \o Put(e, p) /\ NewIn(t, p) /\ NewNow(p)
      /\ (Fits <=> e < UNITS) /\ (Fits => cfg_idx + 1 = e) /\ (~Fits => e = UNITS)
      /\ KeptBonds = KeptOf(t)
  BY <1>1, AddWritesAre
<1>3. Good(flash, t, e) /\ e \in 0 .. UNITS
  BY NowIs
<1>4. KeptOf(t) \in Seq(Entries) /\ BondsOf(KeptOf(t)) = KeptNow
  BY KeptFacts
<1>5. flash' = After(flash, Drop(t) \o Put(e, p))
  BY <1>2 DEF Add
<1> HIDE DEF t, e
<1>6. CASE Fits
  <2> DEFINE r == Append(KeptOf(t), New(e, p))
  <2>1. Good(flash', r, e + 1)
    BY <1>2, <1>3, <1>5, <1>6, AddGood
  <2>2. table' = r /\ cfg_idx' = e
    BY <1>2, <1>6 DEF Add, New
  <2> HIDE DEF r
  <2>3. /\ FlashIs' /\ Scanned(flash)' = r /\ LastUsed(flash)' = (e + 1) - 1
        /\ BondsNow' = BondsOf(r)
    BY <2>1, FlashNext
  <2>4. (e + 1) - 1 = e /\ e \in Units
    BY <1>2, <1>3, <1>6, SizeFacts DEF Units
  <2>5. RamOn'
    BY <2>2, <2>3, <2>4 DEF RamOn
  <2>6. BondsNow' = Append(KeptNow, p)
    <3>1. p \in Bonds
      BY DEF Bonds
    <3>2. BondsOf(Append(KeptOf(t), New(e, p))) = Append(BondsOf(KeptOf(t)), p)
      BY <1>4, <2>4, <3>1, BondsAppend
    <3> QED
      BY <1>4, <2>3, <3>2 DEF r
  <2> QED
    BY <1>1, <1>2, <2>3, <2>5, <2>6 DEF StoreInv, RamIs
<1>7. CASE ~Fits
  <2>1. Good(flash', KeptOf(t), e)
    BY <1>2, <1>3, <1>5, <1>7, AddGood
  <2>2. table' = KeptOf(t) /\ cfg_idx' = UNITS /\ e = UNITS
    BY <1>2, <1>7 DEF Add
  <2>3. FlashIs' /\ Scanned(flash)' = KeptOf(t) /\ End(flash)' = e /\ BondsNow' = BondsOf(KeptOf(t))
    BY <2>1, FlashNext
  <2>4. RamOn'
    BY <2>2, <2>3 DEF RamOn
  <2> QED
    BY <1>1, <1>2, <1>4, <2>3, <2>4 DEF StoreInv, RamIs
<1> QED
  BY <1>6, <1>7

(* So does a power loss in it. *)
LEMMA AddInterruptedStep ==
  ASSUME StoreInv, NEW p \in SlaveMacs, AddInterrupted(p)
  PROVE  /\ StoreInv' /\ power = "on" /\ power' = "off" /\ NewNow(p)
         /\ BondsNow' \in {BondsNow, KeptNow, Append(KeptNow, Unknown), Append(KeptNow, p)}
<1> DEFINE t == Scanned(flash)
           e == End(flash)
<1>1. power = "on" /\ PowerOff /\ \A i \in DOMAIN table : table[i].peer # p
  BY DEF AddInterrupted
<1>2. AddWrites(p) = Drop(t) \o Put(e, p) /\ NewIn(t, p) /\ NewNow(p)
  BY <1>1, AddWritesAre
<1>3. Good(flash, t, e) /\ e \in 0 .. UNITS /\ BondsNow = BondsOf(t)
  BY NowIs
<1>4. KeptOf(t) \in Seq(Entries) /\ BondsOf(KeptOf(t)) = KeptNow
  BY KeptFacts
<1>5. flash' \in Interrupted(flash, Drop(t) \o Put(e, p))
  BY <1>2 DEF AddInterrupted
<1> HIDE DEF t, e
<1>6. \/ Good(flash', t, e) \/ Good(flash', KeptOf(t), e) \/ Good(flash', KeptOf(t), e + 1)
      \/ \E c \in {p, Unknown} : Good(flash', Append(KeptOf(t), New(e, c)), e + 1)
  BY <1>2, <1>3, <1>5, AddCut
<1>7. CASE Good(flash', t, e)
  <2>1. StoreInv' /\ BondsNow' = BondsOf(t) /\ power' = "off"
    BY <1>1, <1>7, OffNext
  <2> QED
    BY <1>1, <1>2, <1>3, <2>1
<1>8. ASSUME NEW j, Good(flash', KeptOf(t), j)
      PROVE  StoreInv' /\ power' = "off" /\ BondsNow' = KeptNow
  <2>1. StoreInv' /\ BondsNow' = BondsOf(KeptOf(t)) /\ power' = "off"
    BY <1>1, <1>8, OffNext
  <2> QED
    BY <1>4, <2>1
<1>9. ASSUME NEW c \in {p, Unknown}, Good(flash', Append(KeptOf(t), New(e, c)), e + 1)
      PROVE  StoreInv' /\ power' = "off" /\ BondsNow' = Append(KeptNow, c)
  <2>1. /\ StoreInv' /\ BondsNow' = BondsOf(Append(KeptOf(t), New(e, c))) /\ power' = "off"
    BY <1>1, <1>9, OffNext
  <2>2. c \in Bonds
    BY CellFacts DEF Bonds
  <2>3. e \in Units
    <3>1. e + 1 \in 0 .. UNITS
      BY <1>9, GoodIs
    <3> QED
      BY <1>3, <3>1, SizeFacts DEF Units
  <2>4. BondsOf(Append(KeptOf(t), New(e, c))) = Append(BondsOf(KeptOf(t)), c)
    BY <1>4, <2>2, <2>3, BondsAppend
  <2> QED
    BY <1>4, <2>1, <2>4
<1>10. CASE Good(flash', KeptOf(t), e) \/ Good(flash', KeptOf(t), e + 1)
  BY <1>1, <1>2, <1>8, <1>10
<1>11. CASE \E c \in {p, Unknown} : Good(flash', Append(KeptOf(t), New(e, c)), e + 1)
  BY <1>1, <1>2, <1>9, <1>11
<1> QED
  BY <1>6, <1>7, <1>10, <1>11

-----------------------------------------------------------------------------
(* Removing bonds *)
Removed(t, i, r) ==
  /\ r \in Seq(Entries) /\ Len(r) = Len(t) - 1 /\ Len(r) \in Nat
  /\ \A j \in 1 .. Len(r) : r[j] = IF j < i THEN t[j] ELSE t[j + 1]

(* The entry that is removed is one of the table. *)
LEMMA RemovedIs ==
  ASSUME NEW t \in Seq(Entries), NEW i \in 1 .. Len(t), NEW r, r = RemoveAt(t, i)
  PROVE  Removed(t, i, r)
BY RemoveAtIs DEF Removed

(* Removing a peer keeps the invariant. *)
LEMMA DeleteByAdrStep ==
  ASSUME StoreInv, NEW p \in SlaveMacs, DeleteByAdr(p)
  PROVE  /\ StoreInv' /\ power = "on" /\ power' = "on" /\ NewNow(p)'
         /\ \E i \in DOMAIN BondsNow : BondsNow[i] = p /\ BondsNow' = RemoveAt(BondsNow, i)
<1> DEFINE t == Scanned(flash)
           e == End(flash)
<1>1. power = "on" /\ power' = "on" /\ cfg_idx' = cfg_idx /\ Positions(p) # {}
  BY DEF DeleteByAdr
<1>2. /\ Good(flash, t, e) /\ t \in Seq(Entries) /\ DOMAIN t = 1 .. Len(t) /\ Len(t) \in Nat
      /\ BondsNow = BondsOf(t) /\ LastUsed(flash) = e - 1
  BY NowIs
<1>3. table = t /\ (cfg_idx = e - 1 \/ (cfg_idx = UNITS /\ e = UNITS))
  BY <1>1, <1>2 DEF StoreInv, RamIs, RamOn
<1> HIDE DEF t, e
<1>4. PICK i \in 1 .. Len(t) : t[i].peer = p
  BY <1>1, <1>2, <1>3 DEF Positions
<1>5. Positions(p) = {i}
  BY <1>2, <1>3, <1>4 DEF Positions, Good, NoTwice
<1>6. FirstPosition(p) = i
  BY <1>5 DEF FirstPosition
<1> DEFINE r == RemoveAt(t, i)
<1>7. flash' = After(flash, <<Write(t[i].unit, Erased)>>) /\ table' = r
  BY <1>3, <1>6 DEF DeleteByAdr, TableWithout
<1>8. /\ r \in Seq(Entries) /\ Len(r) = Len(t) - 1 /\ Len(r) \in Nat
      /\ \A j \in 1 .. Len(r) : r[j] = IF j < i THEN t[j] ELSE t[j + 1]
  <2>1. r = RemoveAt(t, i)
    OBVIOUS
  <2> HIDE DEF r
  <2>2. t \in Seq(Entries) /\ i \in 1 .. Len(t)
    BY <1>2, <1>4
  <2>3. Removed(t, i, r)
    BY <2>1, <2>2, RemovedIs
  <2> QED
    BY <2>3 DEF Removed
<1>9. BondsOf(r) = RemoveAt(BondsOf(t), i)
  BY <1>2, BondsRemove
<1> HIDE DEF r
<1>10. Good(flash', r, e)
  BY <1>2, <1>7, RemoveGood DEF r
<1>11. /\ FlashIs' /\ Scanned(flash)' = r /\ LastUsed(flash)' = e - 1 /\ End(flash)' = e
       /\ BondsNow' = BondsOf(r)
  BY <1>10, FlashNext
<1>12. RamOn'
  BY <1>1, <1>3, <1>7, <1>11 DEF RamOn
<1>13. NewNow(p)'
  <2>1. DOMAIN BondsOf(r) = 1 .. Len(r) /\ \A j \in 1 .. Len(r) : BondsOf(r)[j] = r[j].peer
    BY <1>8, BondsTyped
  <2>2. ASSUME NEW j \in 1 .. Len(r) PROVE r[j].peer # p
    <3>1. \E k \in 1 .. Len(t) : k # i /\ r[j] = t[k]
      <4>1. CASE j < i
        <5>1. j \in 1 .. Len(t) /\ j # i /\ r[j] = t[j]
          BY <1>2, <1>8, <4>1
        <5> QED
          BY <5>1
      <4>2. CASE ~(j < i)
        <5>1. j + 1 \in 1 .. Len(t) /\ j + 1 # i /\ r[j] = t[j + 1]
          BY <1>2, <1>8, <4>2
        <5> QED
          BY <5>1
      <4> QED
        BY <4>1, <4>2
    <3> QED
      BY <1>2, <1>4, <3>1 DEF Good, NoTwice
  <2> QED
    BY <1>11, <2>1, <2>2 DEF NewNow
<1>14. DOMAIN BondsNow = 1 .. Len(t) /\ BondsNow[i] = p
  BY <1>2, <1>4, BondsTyped
<1>15. StoreInv'
  BY <1>1, <1>11, <1>12 DEF StoreInv, RamIs
<1> QED
  BY <1>1, <1>2, <1>9, <1>11, <1>13, <1>14, <1>15

(* Removing all of them keeps the invariant. *)
LEMMA DeleteAllStep ==
  ASSUME StoreInv, DeleteAll
  PROVE  StoreInv' /\ power = "on" /\ power' = "on" /\ BondsNow' = <<>>
<1> DEFINE t == Scanned(flash)
           e == End(flash)
<1>1. Good(flash, t, e) /\ LastUsed(flash) = e - 1
  BY NowIs
<1>2. power = "on" /\ power' = "on" /\ table' = <<>> /\ cfg_idx' = cfg_idx
  BY DEF DeleteAll
<1>3. table = t /\ (cfg_idx = e - 1 \/ (cfg_idx = UNITS /\ e = UNITS))
  BY <1>1, <1>2 DEF StoreInv, RamIs, RamOn
<1>4. flash' = After(flash, Erases(t))
  BY <1>3 DEF DeleteAll, EraseAll, Erases
<1> HIDE DEF t, e
<1>5. Good(flash', <<>>, e)
  BY <1>1, <1>4, AllGood
<1>6. /\ FlashIs' /\ Scanned(flash)' = <<>> /\ LastUsed(flash)' = e - 1 /\ End(flash)' = e
      /\ BondsNow' = BondsOf(<<>>)
  BY <1>5, FlashNext
<1>7. RamOn'
  BY <1>2, <1>3, <1>6 DEF RamOn
<1>8. BondsOf(<<>>) = <<>>
  BY BondsEmpty
<1> QED
  BY <1>2, <1>6, <1>7, <1>8 DEF StoreInv, RamIs

(* So does a power loss in it. *)
LEMMA DeleteAllInterruptedStep ==
  ASSUME StoreInv, DeleteAllInterrupted
  PROVE  /\ StoreInv' /\ power = "on" /\ power' = "off"
         /\ \E k \in 0 .. Len(BondsNow) : BondsNow' = SubSeq(BondsNow, k + 1, Len(BondsNow))
<1> DEFINE t == Scanned(flash)
           e == End(flash)
<1>1. Good(flash, t, e) /\ t \in Seq(Entries) /\ BondsNow = BondsOf(t) /\ Len(BondsNow) = Len(t)
  BY NowIs
<1>2. power = "on" /\ PowerOff
  BY DEF DeleteAllInterrupted
<1>3. table = t
  BY <1>2 DEF StoreInv, RamIs, RamOn
<1>4. flash' \in Interrupted(flash, Erases(t))
  BY <1>3 DEF DeleteAllInterrupted, EraseAll, Erases
<1> HIDE DEF t, e
<1>5. PICK k \in 0 .. Len(t) : Good(flash', SubSeq(t, k + 1, Len(t)), e)
  BY <1>1, <1>4, AllCut
<1>6. StoreInv' /\ BondsNow' = BondsOf(SubSeq(t, k + 1, Len(t))) /\ power' = "off"
  BY <1>2, <1>5, OffNext
<1>7. BondsNow' = SubSeq(BondsNow, k + 1, Len(BondsNow))
  BY <1>1, <1>6, BondsDrop
<1> QED
  BY <1>1, <1>2, <1>6, <1>7

(* So does a power loss between two operations. *)
LEMMA PowerLossStep ==
  ASSUME StoreInv, PowerLoss
  PROVE  StoreInv' /\ power = "on" /\ power' = "off" /\ BondsNow' = BondsNow
<1>1. flash' = flash /\ PowerOff /\ power = "on"
  BY DEF PowerLoss, StoreInv, RamIs
<1>2. Good(flash', Scanned(flash), End(flash))
  BY <1>1 DEF StoreInv, FlashIs
<1>3. StoreInv' /\ BondsNow' = BondsOf(Scanned(flash)) /\ power' = "off"
  BY <1>1, <1>2, OffNext
<1> QED
  BY <1>1, <1>3 DEF BondsNow

(* Nothing changes. *)
LEMMA StutterStep ==
  ASSUME StoreInv, UNCHANGED vars
  PROVE  StoreInv' /\ power' = power /\ BondsNow' = BondsNow
BY DEF vars, StoreInv, FlashIs, RamIs, RamOn, BondsNow

(* The invariant is inductive. *)
LEMMA StoreNext ==
  ASSUME StoreInv, [Next]_vars
  PROVE  StoreInv'
<1>1. CASE UNCHANGED vars
  BY <1>1, StutterStep
<1>2. CASE Start
  BY <1>2, StartStep
<1>3. CASE StartInterrupted
  BY <1>3, StartInterruptedStep
<1>4. CASE \E p \in SlaveMacs : Add(p)
  BY <1>4, AddStep
<1>5. CASE \E p \in SlaveMacs : AddInterrupted(p)
  BY <1>5, AddInterruptedStep
<1>6. CASE \E p \in SlaveMacs : DeleteByAdr(p)
  BY <1>6, DeleteByAdrStep
<1>7. CASE DeleteAll
  BY <1>7, DeleteAllStep
<1>8. CASE DeleteAllInterrupted
  BY <1>8, DeleteAllInterruptedStep
<1>9. CASE PowerLoss
  BY <1>9, PowerLossStep
<1> QED
  BY <1>1, <1>2, <1>3, <1>4, <1>5, <1>6, <1>7, <1>8, <1>9 DEF Next

(* The inductive invariant: the sector is a layout of what the start-up would
   read from it, with no more bonds than the table has entries and no peer
   twice, and while the device is on the table is that list and the index its
   end.  It holds after each operation of custom_pair.c and after a power loss
   between or within any of its flash writes.                               *)
THEOREM SectorGood == Spec => []StoreInv
<1>1. Init => StoreInv
  BY StoreInit
<1>2. StoreInv /\ [Next]_vars => StoreInv'
  BY StoreNext
<1> QED
  BY <1>1, <1>2, PTL DEF Spec

(* Flash, table and index keep their types, and user_tbl_slaveMac never gets
   more than USER_PAIR_SLAVE_MAX_NUM entries.                               *)
THEOREM StoreTyped == Spec => []TypeOK
<1>1. StoreInv => TypeOK
  <2> SUFFICES ASSUME StoreInv PROVE TypeOK
    OBVIOUS
  <2> DEFINE t == Scanned(flash)
             e == End(flash)
  <2>1. /\ flash \in [Units -> Cells] /\ t \in Seq(Entries) /\ Len(t) <= USER_PAIR_SLAVE_MAX_NUM
        /\ e \in 0 .. UNITS /\ LastUsed(flash) = e - 1
    BY NowIs
  <2>2. CASE power = "on"
    <3>1. table = t /\ (cfg_idx = e - 1 \/ cfg_idx = UNITS)
      BY <2>1, <2>2 DEF StoreInv, RamIs, RamOn
    <3>2. cfg_idx \in -1 .. UNITS
      BY <2>1, <3>1, SizeFacts
    <3> QED
      BY <2>1, <2>2, <3>1, <3>2 DEF TypeOK, Entries
  <2>3. CASE power = "off"
    <3>1. table = <<>> /\ cfg_idx = 0
      BY <2>3 DEF StoreInv, RamIs
    <3>2. cfg_idx \in -1 .. UNITS
      BY <3>1, SizeFacts
    <3>3. table \in Seq([unit : Units, peer : Bonds]) /\ Len(table) <= USER_PAIR_SLAVE_MAX_NUM
      BY <3>1, EmptySeq, SizeFacts
    <3> QED
      BY <2>1, <2>3, <3>2, <3>3 DEF TypeOK
  <2> QED
    BY <2>2, <2>3 DEF StoreInv, RamIs
<1> QED
  BY <1>1, SectorGood, PTL

(* user_master_host_pairing_flash_init never reaches its endless loop, "we
   think it's code bug", whatever was interrupted before.                   *)
THEOREM StartupReturns == Spec => []NeverHangs
<1>1. StoreInv => NeverHangs
  BY DEF StoreInv, RamIs, NeverHangs
<1> QED
  BY <1>1, SectorGood, PTL

(* While the device is on, the table in RAM is what a start-up would read from
   flash, in the same order, and the index is where it would go on.         *)
THEOREM RamFollowsFlash == Spec => []TableIsFlash
<1>1. StoreInv => TableIsFlash
  BY DEF StoreInv, RamIs, RamOn, TableIsFlash
<1> QED
  BY <1>1, SectorGood, PTL

-----------------------------------------------------------------------------
(* PairStore starts as BondList does. *)
LEMMA BondListInit == Init => Stored!BInit
<1> SUFFICES ASSUME Init PROVE Stored!BInit
  OBVIOUS
<1>1. BondsNow = <<>> /\ power = "off"
  BY StoreInit
<1>2. (power = "on") = FALSE
  BY <1>1
<1> QED
  BY <1>1, <1>2 DEF Stored!BInit, BondsNow, BondsOf

(* Each step of PairStore is one of BondList or changes nothing of it. *)
LEMMA BondListStep ==
  ASSUME StoreInv, [Next]_vars
  PROVE  [Stored!BNext]_<<BondsNow, power = "on">>
<1> USE DEF BondsNow, BondsOf
<1>1. CASE UNCHANGED vars
  <2>1. power' = power /\ BondsNow' = BondsNow
    BY <1>1, StutterStep
  <2> QED
    BY <2>1
<1>2. CASE Start
  <2>1. power = "off" /\ power' = "on" /\ BondsNow' = BondsNow
    BY <1>2, StartStep
  <2>2. Stored!PowerOn
    BY <2>1 DEF Stored!PowerOn
  <2> QED
    BY <2>2 DEF Stored!BNext
<1>3. CASE StartInterrupted
  <2>1. /\ power = "off" /\ power' = "off"
        /\ \E k \in 0 .. Len(BondsNow) : StartCutBonds(BondsNow, k, BondsNow')
    BY <1>3, StartInterruptedStep
  <2>2. Stored!PowerLossInStart
    BY <2>1 DEF Stored!PowerLossInStart, StartCutBonds
  <2> QED
    BY <2>2 DEF Stored!BNext
<1>4. ASSUME NEW p \in SlaveMacs, Add(p)
      PROVE  Stored!Bond(p)
  <2>1. /\ power = "on" /\ power' = "on" /\ NewNow(p)
        /\ BondsNow' = Append(KeptNow, p) \/ BondsNow' = KeptNow
    BY <1>4, AddStep
  <2> QED
    BY <2>1 DEF Stored!Bond, Stored!Kept, Stored!IsNew, KeptNow, NewNow
<1>5. ASSUME NEW p \in SlaveMacs, AddInterrupted(p)
      PROVE  Stored!PowerLoss
  <2>1. /\ power = "on" /\ power' = "off" /\ NewNow(p)
        /\ BondsNow' \in {BondsNow, KeptNow, Append(KeptNow, Unknown), Append(KeptNow, p)}
    BY <1>5, AddInterruptedStep
  <2> QED
    BY <2>1 DEF Stored!PowerLoss, Stored!Kept, Stored!IsNew, KeptNow, NewNow
<1>6. ASSUME NEW p \in SlaveMacs, DeleteByAdr(p)
      PROVE  Stored!Unbond(p)
  <2>1. /\ power = "on" /\ power' = "on" /\ NewNow(p)'
        /\ \E i \in DOMAIN BondsNow : BondsNow[i] = p /\ BondsNow' = RemoveAt(BondsNow, i)
    BY <1>6, DeleteByAdrStep
  <2> QED
    BY <2>1 DEF Stored!Unbond, Stored!IsNew, Stored!RemoveAt, RemoveAt, NewNow
<1>7. CASE DeleteAll
  <2>1. power = "on" /\ power' = "on" /\ BondsNow' = <<>>
    BY <1>7, DeleteAllStep
  <2>2. Stored!UnbondAll
    BY <2>1 DEF Stored!UnbondAll
  <2> QED
    BY <2>2 DEF Stored!BNext
<1>8. CASE DeleteAllInterrupted
  <2>1. /\ power = "on" /\ power' = "off"
        /\ \E k \in 0 .. Len(BondsNow) : BondsNow' = SubSeq(BondsNow, k + 1, Len(BondsNow))
    BY <1>8, DeleteAllInterruptedStep
  <2>2. Stored!PowerLossInUnbondAll
    BY <2>1 DEF Stored!PowerLossInUnbondAll
  <2> QED
    BY <2>2 DEF Stored!BNext
<1>9. CASE PowerLoss
  <2>1. power = "on" /\ power' = "off" /\ BondsNow' = BondsNow
    BY <1>9, PowerLossStep
  <2>2. Stored!PowerLoss
    BY <2>1 DEF Stored!PowerLoss
  <2> QED
    BY <2>2 DEF Stored!BNext
<1> QED
  BY <1>1, <1>2, <1>3, <1>4, <1>5, <1>6, <1>7, <1>8, <1>9 DEF Next, Stored!BNext

(* The bonds in flash are a BondList: adding, removing and starting up do what
   the list promises, and a power loss within them leaves one of the lists it
   allows.                                                                   *)
THEOREM BondsImplemented == Spec => ImplementsBondList
<1>1. StoreInv /\ [Next]_vars => [Stored!BNext]_<<BondsNow, power = "on">>
  BY BondListStep
<1> QED
  BY <1>1, BondListInit, SectorGood, PTL
     DEF Spec, ImplementsBondList, Stored!BSpec, BondsNow, BondsOf
==============================================================================
