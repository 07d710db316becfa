--------------------------- MODULE BufPoolsProofs ----------------------------
(***************************************************************************)
(* The critical sections of BufPools, for any numbers of buffers and any   *)
(* depth of nested interrupts.                                             *)
(*                                                                         *)
(* Interrupts are off exactly while the innermost call is between its      *)
(* disabling and its enabling of them (SectionInv); so the calls below it  *)
(* were all left outside, the nesting is counted by the innermost call     *)
(* alone, and what an ev call saved was an enabled register.               *)
(*                                                                         *)
(* The lists (FullInv): the free buffers of a size are a chain, each once, *)
(* and are the buffers nobody holds (ChainsInv); of a change under way it  *)
(* is known what the innermost call has read (TakeInv, PutInv), what is to *)
(* be counted yet (AvailIs), and that a call that frees has its buffer to  *)
(* itself until it is put back (FramesInv).                                *)
(***************************************************************************)
EXTENDS BufPools, SequenceTheorems, FiniteSetTheorems, WellFoundedInduction, TLAPS

MyPcs == {"test", "off", "count", "work", "take", "put", "leave", "on", "left", "done"}
EvPcs == {"save", "off", "work", "take", "put", "avail", "leave", "done"}
Shut == {"count", "work", "take", "put", "avail", "leave", "on"}
Counted == {"work", "take", "put", "leave"}

Calls == [op : {"alloc", "free"}, pool : {"my", "ev"}, group : Groups, buf : Bufs \cup {NULL},
          r : BOOLEAN, pc : MyPcs \cup EvPcs]

PoolTypeOK ==
  /\ stack \in Seq(Calls)
  /\ pFree \in [Lists -> Bufs \cup {NULL}]
  /\ pNext \in [Bufs -> Bufs \cup {NULL}]

(* What a call has done to the registers *)
CallOK(c) ==
  /\ c.pool = "my" => c.pc \in MyPcs
  /\ c.pool = "ev" => c.pc \in EvPcs
  /\ c.pool = "ev" /\ c.pc \notin {"save", "done"} => c.r = TRUE
  /\ c.op = "free" \/ c.pc = "take" => c.buf # NULL

CallsOK == \A i \in 1 .. Len(stack) : CallOK(stack[i])
OthersOutside == \A i \in 1 .. Len(stack) - 1 : stack[i].pc \notin Shut
MieIsShut == mie = IF stack # <<>> /\ Running.pc \in Shut THEN FALSE ELSE TRUE
NestingIsCounted ==
  myCsNesting = IF stack # <<>> /\ Running.pool = "my" /\ Running.pc \in Counted THEN 1 ELSE 0
GlobalIsOn == Len(stack) <= 1 => mstatus = TRUE

SectionInv == CallsOK /\ OthersOutside /\ MieIsShut /\ NestingIsCounted /\ GlobalIsOn

PoolInv == PoolTypeOK /\ SectionInv

-----------------------------------------------------------------------------
(* A set of numbers that is not empty has a least one. *)
LEMMA LeastExists ==
  ASSUME NEW S \in SUBSET Nat, S # {}
  PROVE  \E m \in S : \A k \in S : m <= k
<1> DEFINE R == {ss \in Nat \X Nat : ss[1] < ss[2]}
<1>1. OpToRel(<, Nat) = R
  BY Zenon DEF OpToRel
<1>2. IsWellFoundedOn(R, Nat)
  BY <1>1, NatLessThanWellFounded, Zenon
<1>3. \A k, m \in S : ~(<<k, m>> \in R) => m <= k
  OBVIOUS
<1> HIDE DEF R
<1>4. \E m \in S : \A k \in S : ~(<<k, m>> \in R)
  BY <1>2, WFMin
<1> QED
  BY <1>3, <1>4

(* The sizes are counted from 1, and each has a buffer. *)
LEMMA PoolsAssumed == BufNum \in Seq(Nat \ {0}) /\ Groups = 1 .. Len(BufNum) /\ Len(BufNum) \in Nat
  BY PoolAssumption DEF Groups

(* Buffers and lists correspond. *)
LEMMA BufsTyped ==
  /\ \A l \in Lists : \A b \in BufsOf(l) : b \in Bufs /\ ListOf(b) = l
  /\ \A b \in Bufs : ListOf(b) \in Lists /\ b \in BufsOf(ListOf(b)) /\ b # NULL
<1>1. \A l \in Lists : l = <<l[1], l[2]>> /\ l[1] \in {"my", "ev"} /\ l[2] \in Groups
  BY DEF Lists
<1>2. \A l \in Lists : \A b \in BufsOf(l) : b \in Bufs /\ ListOf(b) = l
  BY <1>1 DEF BufsOf, Bufs, ListOf
<1>3. \A b \in Bufs : \E l \in Lists : b \in BufsOf(l)
  BY DEF Bufs
<1>4. \A l \in Lists : \A b \in BufsOf(l) : b # NULL
  BY <1>1 DEF BufsOf, NULL
<1> QED
  BY <1>2, <1>3, <1>4

(* The places below the last one *)
LEMMA Below == \A n \in Nat : \A i \in 1 .. n - 1 : i \in 1 .. n /\ i # n
  OBVIOUS

(* The innermost call goes on. *)
LEMMA CallGoesOn ==
  ASSUME stack \in Seq(Calls), stack # <<>>, NEW c \in Calls,
         stack' = [stack EXCEPT ![Len(stack)] = c]
  PROVE  /\ stack' \in Seq(Calls) /\ stack' # <<>> /\ Len(stack') = Len(stack)
         /\ Running' = c
         /\ \A i \in 1 .. Len(stack) - 1 : stack'[i] = stack[i]
         /\ stack'[Len(stack)] = c
<1>1. Len(stack) \in Nat /\ Len(stack) > 0 /\ DOMAIN stack = 1 .. Len(stack)
  BY EmptySeq, LenProperties
<1>2. stack' \in Seq(Calls) /\ Len(stack') = Len(stack)
  BY <1>1, ExceptSeq
<1>3. ASSUME NEW i \in 1 .. Len(stack)  PROVE  stack'[i] = IF i = Len(stack) THEN c ELSE stack[i]
  BY <1>1, ExceptSeq
<1>4a. stack'[Len(stack)] = c
  BY <1>1, <1>3
<1>4. ASSUME NEW i \in 1 .. Len(stack) - 1  PROVE  stack'[i] = stack[i]
  <2>1. i \in 1 .. Len(stack) /\ i # Len(stack)
    BY <1>1, Below
  <2> QED BY <2>1, <1>3
<1>5. stack' # <<>>
  BY <1>1, <1>2
<1> QED
  BY <1>2, <1>4, <1>4a, <1>5 DEF Running

(* The innermost call is one of the calls. *)
LEMMA RunningIsCall ==
  ASSUME PoolTypeOK, stack # <<>>
  PROVE  /\ Running \in Calls /\ Len(stack) \in Nat /\ Len(stack) > 0
         /\ Running = stack[Len(stack)]
  BY DEF PoolTypeOK, Running

(* The registers follow the innermost call. *)
LEMMA SectionMoves ==
  ASSUME PoolInv, stack # <<>>, NEW c \in Calls,
         stack' = [stack EXCEPT ![Len(stack)] = c], CallOK(c),
         mie' = (IF c.pc \in Shut THEN FALSE ELSE TRUE),
         myCsNesting' = (IF c.pool = "my" /\ c.pc \in Counted THEN 1 ELSE 0),
         mstatus' = mstatus \/ mstatus' = TRUE
  PROVE  stack' \in Seq(Calls) /\ SectionInv'
<1>1. stack \in Seq(Calls)
  BY DEF PoolInv, PoolTypeOK
<1>2. /\ stack' \in Seq(Calls) /\ stack' # <<>> /\ Len(stack') = Len(stack)
      /\ Running' = c
      /\ \A i \in 1 .. Len(stack) - 1 : stack'[i] = stack[i]
      /\ stack'[Len(stack)] = c
  BY <1>1, CallGoesOn
<1>3. Len(stack) \in Nat
  BY <1>1
<1>4. CallsOK'
  <2> SUFFICES ASSUME NEW i \in 1 .. Len(stack)  PROVE  CallOK(stack'[i])
    BY <1>2 DEF CallsOK, CallOK
  <2>1. CASE i = Len(stack)
    BY <1>2, <2>1
  <2>2. CASE i # Len(stack)
    <3>1. i \in 1 .. Len(stack) - 1 /\ i \in 1 .. Len(stack)
      BY <1>3, <2>2
    <3>2. stack'[i] = stack[i] /\ CallOK(stack[i])
      BY <3>1, <1>2 DEF PoolInv, SectionInv, CallsOK
    <3> QED BY <3>2
  <2> QED BY <2>1, <2>2
<1>5. OthersOutside'
  BY <1>2, <1>3 DEF PoolInv, SectionInv, OthersOutside
<1>6. GlobalIsOn'
  BY <1>2, Zenon DEF PoolInv, SectionInv, GlobalIsOn
<1>7. MieIsShut'
  BY <1>2, Zenon DEF MieIsShut
<1>8. NestingIsCounted'
  BY <1>2, Zenon DEF NestingIsCounted
<1> QED
  BY <1>2, <1>4, <1>5, <1>6, <1>7, <1>8 DEF SectionInv

(* A call that moves to a label is otherwise the same. *)
LEMMA PcSet ==
  ASSUME NEW c \in Calls, NEW pc \in MyPcs \cup EvPcs, NEW d, d = [c EXCEPT !.pc = pc]
  PROVE  /\ d \in Calls /\ d.pc = pc
         /\ d.op = c.op /\ d.pool = c.pool /\ d.group = c.group /\ d.buf = c.buf /\ d.r = c.r
  BY DEF Calls

(* What is known of the innermost call at a label *)
LEMMA AtLabel ==
  ASSUME PoolInv, NEW pc, At(pc)
  PROVE  /\ stack # <<>> /\ Running \in Calls /\ Running.pc = pc /\ CallOK(Running)
         /\ mie = (IF pc \in Shut THEN FALSE ELSE TRUE)
         /\ myCsNesting = (IF Running.pool = "my" /\ pc \in Counted THEN 1 ELSE 0)
<1>1. stack # <<>> /\ Running.pc = pc
  BY DEF At
<1>2. /\ Running \in Calls /\ Len(stack) \in Nat /\ Len(stack) > 0
      /\ Running = stack[Len(stack)]
  BY <1>1, RunningIsCall DEF PoolInv
<1>3. Len(stack) \in 1 .. Len(stack)
  BY <1>2
<1>4. CallOK(stack[Len(stack)])
  BY <1>3, Zenon DEF PoolInv, SectionInv, CallsOK
<1>5. CallOK(Running)
  BY <1>4, <1>2
<1>6. mie = (IF pc \in Shut THEN FALSE ELSE TRUE)
  BY <1>1, Zenon DEF PoolInv, SectionInv, MieIsShut
<1>7. myCsNesting = (IF Running.pool = "my" /\ pc \in Counted THEN 1 ELSE 0)
  BY <1>1, Zenon DEF PoolInv, SectionInv, NestingIsCounted
<1> QED
  BY <1>1, <1>2, <1>5, <1>6, <1>7

(* A step of the innermost call that changes what it holds or how it goes on *)
LEMMA GoesTo ==
  ASSUME PoolInv, stack # <<>>, NEW c \in Calls, NEW pc \in MyPcs \cup EvPcs, To(c, pc),
         c.pool = "my" => pc \in MyPcs,
         c.pool = "ev" => pc \in EvPcs,
         c.pool = "ev" /\ pc \notin {"save", "done"} => c.r = TRUE,
         c.op = "free" \/ pc = "take" => c.buf # NULL,
         mie' = (IF pc \in Shut THEN FALSE ELSE TRUE),
         myCsNesting' = (IF c.pool = "my" /\ pc \in Counted THEN 1 ELSE 0),
         mstatus' = mstatus \/ mstatus' = TRUE
  PROVE  stack' \in Seq(Calls) /\ SectionInv'
<1> DEFINE d == [c EXCEPT !.pc = pc]
<1>1. /\ d \in Calls /\ d.pc = pc
      /\ d.op = c.op /\ d.pool = c.pool /\ d.buf = c.buf /\ d.r = c.r
  BY PcSet
<1>2. stack' = [stack EXCEPT ![Len(stack)] = d]
  BY DEF To
<1> HIDE DEF d
<1>3. CallOK(d)
  BY <1>1, Zenon DEF CallOK
<1>4. mie' = (IF d.pc \in Shut THEN FALSE ELSE TRUE)
  BY <1>1, Zenon
<1>5. myCsNesting' = (IF d.pool = "my" /\ d.pc \in Counted THEN 1 ELSE 0)
  BY <1>1, Zenon
<1> QED
  BY <1>1, <1>2, <1>3, <1>4, <1>5, SectionMoves, Zenon

(* Which labels are in which sets *)
LEMMA Labels ==
  /\ \A pc \in {"test", "save", "off", "left", "done"} : pc \notin Shut /\ pc \notin Counted
  /\ \A pc \in {"count", "avail", "on"} : pc \in Shut /\ pc \notin Counted
  /\ \A pc \in {"work", "take", "put", "leave"} : pc \in Shut /\ pc \in Counted
  /\ \A pc \in {"test", "count", "on", "left"} : pc \in MyPcs /\ pc \notin EvPcs
  /\ \A pc \in {"save", "avail"} : pc \in EvPcs /\ pc \notin MyPcs
  /\ \A pc \in {"off", "work", "take", "put", "leave", "done"} : pc \in MyPcs /\ pc \in EvPcs
  BY DEF Shut, Counted, MyPcs, EvPcs

(* A call is for one of the two pools. *)
LEMMA PoolOfCall == \A c \in Calls : c.pool \in {"my", "ev"}
  BY DEF Calls

(* The registers and the counter, step by step: myCsEnter looks at the nesting. *)
LEMMA KeepsTestNesting == ASSUME PoolInv, TestNesting PROVE PoolInv'
<1>1. At("test") /\ To(Running, IF myCsNesting = 0 THEN "off" ELSE "count")
      /\ mie' = mie /\ mstatus' = mstatus /\ myCsNesting' = myCsNesting
      /\ pFree' = pFree /\ pNext' = pNext
  BY DEF TestNesting, sectionVars
<1>2. /\ stack # <<>> /\ Running \in Calls /\ Running.pc = "test" /\ CallOK(Running)
      /\ mie = TRUE /\ myCsNesting = 0
  BY <1>1, AtLabel, Labels, Zenon
<1>3. To(Running, "off")
  BY <1>1, <1>2, Zenon
<1>4. Running.pool = "my" /\ (Running.op = "free" => Running.buf # NULL)
  BY <1>2, Labels, PoolOfCall, Zenon DEF CallOK
<1>6. stack' \in Seq(Calls) /\ SectionInv'
  BY <1>1, <1>2, <1>3, <1>4, Labels, GoesTo
<1> QED
  BY <1>1, <1>6 DEF PoolInv, PoolTypeOK

(* core_interrupt_disable saves the register. *)
LEMMA KeepsSaveMie == ASSUME PoolInv, SaveMie PROVE PoolInv'
<1> DEFINE c == [Running EXCEPT !.r = mie]
<1>1. At("save") /\ To(c, "off")
      /\ mie' = mie /\ mstatus' = mstatus /\ myCsNesting' = myCsNesting
      /\ pFree' = pFree /\ pNext' = pNext
  BY DEF SaveMie, sectionVars
<1>2. /\ stack # <<>> /\ Running \in Calls /\ Running.pc = "save" /\ CallOK(Running)
      /\ mie = TRUE /\ myCsNesting = 0
  BY <1>1, AtLabel, Labels, Zenon
<1>3. c \in Calls /\ c.r = mie /\ c.pool = Running.pool /\ c.op = Running.op /\ c.buf = Running.buf
  BY <1>2 DEF Calls
<1> HIDE DEF c
<1>4. Running.pool = "ev" /\ (Running.op = "free" => Running.buf # NULL)
  BY <1>2, Labels, PoolOfCall, Zenon DEF CallOK
<1>5. c.r = TRUE
  BY <1>2, <1>3, Zenon
<1>6. stack' \in Seq(Calls) /\ SectionInv'
  BY <1>1, <1>2, <1>3, <1>4, <1>5, Labels, GoesTo
<1> QED
  BY <1>1, <1>6 DEF PoolInv, PoolTypeOK

(* Interrupts go off. *)
LEMMA KeepsDisableInterrupts == ASSUME PoolInv, DisableInterrupts PROVE PoolInv'
<1> DEFINE pc == IF Running.pool = "my" THEN "count" ELSE "work"
<1>1. At("off") /\ To(Running, pc)
      /\ mie' = FALSE /\ mstatus' = mstatus /\ myCsNesting' = myCsNesting
      /\ pFree' = pFree /\ pNext' = pNext
  BY DEF DisableInterrupts, Disabled
<1>2. /\ stack # <<>> /\ Running \in Calls /\ Running.pc = "off" /\ CallOK(Running)
      /\ myCsNesting = 0
  BY <1>1, AtLabel, Labels, Zenon
<1>3. /\ Running.pool \in {"my", "ev"}
      /\ Running.op = "free" => Running.buf # NULL
      /\ Running.pool = "ev" => Running.r = TRUE
  BY <1>2, PoolOfCall, Zenon DEF CallOK
<1>4. /\ pc \in Shut /\ pc # "take" /\ ~(Running.pool = "my" /\ pc \in Counted)
      /\ pc \in MyPcs \cup EvPcs
      /\ (Running.pool = "my" => pc \in MyPcs) /\ (Running.pool = "ev" => pc \in EvPcs)
  BY <1>3, Labels
<1> HIDE DEF pc
<1>6. stack' \in Seq(Calls) /\ SectionInv'
  BY <1>1, <1>2, <1>3, <1>4, GoesTo
<1> QED
  BY <1>1, <1>6 DEF PoolInv, PoolTypeOK

(* myCsEnter counts the section. *)
LEMMA KeepsCountSection == ASSUME PoolInv, CountSection PROVE PoolInv'
<1>1. At("count") /\ To(Running, "work")
      /\ mie' = mie /\ mstatus' = mstatus /\ myCsNesting' = myCsNesting + 1
      /\ pFree' = pFree /\ pNext' = pNext
  BY DEF CountSection
<1>2. /\ stack # <<>> /\ Running \in Calls /\ Running.pc = "count" /\ CallOK(Running)
      /\ mie = FALSE /\ myCsNesting = 0
  BY <1>1, AtLabel, Labels, Zenon
<1>4. Running.pool = "my" /\ (Running.op = "free" => Running.buf # NULL)
  BY <1>2, Labels, PoolOfCall, Zenon DEF CallOK
<1>5. myCsNesting' = 1
  BY <1>1, <1>2
<1>6. stack' \in Seq(Calls) /\ SectionInv'
  BY <1>1, <1>2, <1>4, <1>5, Labels, GoesTo
<1> QED
  BY <1>1, <1>6 DEF PoolInv, PoolTypeOK

(* myCsExit counts back, irq_restore restores. *)
LEMMA KeepsLeave == ASSUME PoolInv, Leave PROVE PoolInv'
<1>1. At("leave") /\ mstatus' = mstatus /\ pFree' = pFree /\ pNext' = pNext
  BY DEF Leave
<1>2. /\ stack # <<>> /\ Running \in Calls /\ Running.pc = "leave" /\ CallOK(Running)
      /\ mie = FALSE
      /\ myCsNesting = (IF Running.pool = "my" THEN 1 ELSE 0)
  BY <1>1, AtLabel, Labels, Zenon
<1>3. /\ Running.pool \in {"my", "ev"}
      /\ Running.op = "free" => Running.buf # NULL
      /\ Running.pool = "ev" => Running.r = TRUE
  BY <1>2, PoolOfCall, Zenon DEF CallOK
<1>4. ASSUME Running.pool = "my"
      PROVE  stack' \in Seq(Calls) /\ SectionInv'
  <2>1. myCsNesting' = 0 /\ mie' = FALSE /\ To(Running, "on")
    BY <1>2, <1>4 DEF Leave
  <2> QED
    BY <1>1, <1>2, <1>3, <1>4, <2>1, Labels, GoesTo
<1>5. ASSUME Running.pool = "ev"
      PROVE  stack' \in Seq(Calls) /\ SectionInv'
  <2>1. myCsNesting' = 0 /\ To(Running, "done")
    BY <1>2, <1>5 DEF Leave
  <2>2. mie' = TRUE
    BY <1>3, <1>5, Zenon DEF Leave
  <2> QED
    BY <1>1, <1>2, <1>3, <1>5, <2>1, <2>2, Labels, GoesTo
<1>6. stack' \in Seq(Calls) /\ SectionInv'
  BY <1>3, <1>4, <1>5
<1> QED
  BY <1>1, <1>6 DEF PoolInv, PoolTypeOK

(* Interrupts go on. *)
LEMMA KeepsEnableInterrupts == ASSUME PoolInv, EnableInterrupts PROVE PoolInv'
<1>1. At("on") /\ To(Running, "left")
      /\ mie' = TRUE /\ mstatus' = TRUE /\ myCsNesting' = myCsNesting
      /\ pFree' = pFree /\ pNext' = pNext
  BY DEF EnableInterrupts
<1>2. /\ stack # <<>> /\ Running \in Calls /\ Running.pc = "on" /\ CallOK(Running)
      /\ myCsNesting = 0
  BY <1>1, AtLabel, Labels, Zenon
<1>4. Running.pool = "my" /\ (Running.op = "free" => Running.buf # NULL)
  BY <1>2, Labels, PoolOfCall, Zenon DEF CallOK
<1>6. stack' \in Seq(Calls) /\ SectionInv'
  BY <1>1, <1>2, <1>4, Labels, GoesTo
<1> QED
  BY <1>1, <1>6 DEF PoolInv, PoolTypeOK

(* myBufAlloc goes on to the next size or returns. *)
LEMMA KeepsNextSize == ASSUME PoolInv, NextSize PROVE PoolInv'
<1>1. At("left")
      /\ mie' = mie /\ mstatus' = mstatus /\ myCsNesting' = myCsNesting
      /\ pFree' = pFree /\ pNext' = pNext
  BY DEF NextSize, sectionVars
<1>2. /\ stack # <<>> /\ Running \in Calls /\ Running.pc = "left" /\ CallOK(Running)
      /\ mie = TRUE /\ myCsNesting = 0
  BY <1>1, AtLabel, Labels, Zenon
<1>4. Running.pool = "my" /\ (Running.op = "free" => Running.buf # NULL)
  BY <1>2, Labels, PoolOfCall, Zenon DEF CallOK
<1>5. ASSUME Running.op = "alloc" /\ Running.buf = NULL /\ Running.group + 1 \in Groups
      PROVE  stack' \in Seq(Calls) /\ SectionInv'
  <2> DEFINE c == [Running EXCEPT !.group = @ + 1]
  <2>1. To(c, "test")
    BY <1>5 DEF NextSize
  <2>2. c \in Calls /\ c.pool = "my" /\ c.op = "alloc"
    BY <1>2, <1>4, <1>5 DEF Calls
  <2> HIDE DEF c
  <2> QED
    BY <1>1, <1>2, <2>1, <2>2, Labels, GoesTo
<1>6. ASSUME ~(Running.op = "alloc" /\ Running.buf = NULL /\ Running.group + 1 \in Groups)
      PROVE  stack' \in Seq(Calls) /\ SectionInv'
  <2>1. To(Running, "done")
    BY <1>6, Zenon DEF NextSize
  <2> QED
    BY <1>1, <1>2, <1>4, <2>1, Labels, GoesTo
<1>7. stack' \in Seq(Calls) /\ SectionInv'
  BY <1>5, <1>6
<1> QED
  BY <1>1, <1>7 DEF PoolInv, PoolTypeOK

(* The list Look takes from is the least of the sizes that fit. *)
LEMMA FirstFreeTyped ==
  ASSUME PoolTypeOK, NEW c \in Calls
  PROVE  FirstFree(c) \in Bufs \cup {NULL}
<1>1. c.pool \in {"my", "ev"} /\ c.group \in Groups
  BY DEF Calls
<1>2. Groups \subseteq Nat
  BY PoolsAssumed
<1>3. Fitting(c) \subseteq Groups
  BY <1>1 DEF Fitting
<1>4. ASSUME Fitting(c) # {}
      PROVE  FirstFree(c) \in Bufs \cup {NULL}
  <2>1. \E g \in Fitting(c) : \A h \in Fitting(c) : g <= h
    BY <1>2, <1>3, <1>4, LeastExists
  <2> DEFINE g == CHOOSE x \in Fitting(c) : \A h \in Fitting(c) : x <= h
  <2>2. g \in Groups
    BY <1>3, <2>1
  <2>3. FirstFree(c) = pFree[<<c.pool, g>>]
    BY <1>4 DEF FirstFree
  <2> HIDE DEF g
  <2>4. <<c.pool, g>> \in Lists
    BY <1>1, <2>2 DEF Lists
  <2> QED
    BY <2>3, <2>4 DEF PoolTypeOK
<1>5. Fitting(c) = {} => FirstFree(c) = NULL
  BY DEF FirstFree
<1> QED
  BY <1>4, <1>5

(* The allocation looks at the heads. *)
LEMMA KeepsLook == ASSUME PoolInv, Look PROVE PoolInv'
<1> DEFINE c == [Running EXCEPT !.buf = FirstFree(Running)]
           pc == IF FirstFree(Running) = NULL THEN "leave" ELSE "take"
<1>1. At("work") /\ Running.op = "alloc" /\ To(c, pc)
      /\ mie' = mie /\ mstatus' = mstatus /\ myCsNesting' = myCsNesting
      /\ pFree' = pFree /\ pNext' = pNext
  BY DEF Look, WhenNone, sectionVars
<1>2. /\ stack # <<>> /\ Running \in Calls /\ Running.pc = "work" /\ CallOK(Running)
      /\ mie = FALSE
      /\ myCsNesting = (IF Running.pool = "my" THEN 1 ELSE 0)
  BY <1>1, AtLabel, Labels, Zenon
<1>3. Running.pool \in {"my", "ev"} /\ (Running.pool = "ev" => Running.r = TRUE)
  BY <1>2, PoolOfCall, Zenon DEF CallOK
<1>4. FirstFree(Running) \in Bufs \cup {NULL}
  BY <1>2, FirstFreeTyped DEF PoolInv
<1>5. c \in Calls
  BY <1>2, <1>4 DEF Calls
<1>6. c.pool = Running.pool /\ c.op = "alloc" /\ c.r = Running.r /\ c.buf = FirstFree(Running)
  BY <1>1, <1>2 DEF Calls
<1>7. pc \in {"leave", "take"} /\ (pc = "take" => c.buf # NULL)
  BY <1>6
<1> HIDE DEF c, pc
<1>8. pc \in Shut /\ pc \in Counted /\ pc \in MyPcs /\ pc \in EvPcs
  BY <1>7, Labels
<1>9. myCsNesting' = (IF c.pool = "my" /\ pc \in Counted THEN 1 ELSE 0)
  BY <1>1, <1>2, <1>6, <1>8
<1>10. c.pool = "ev" => c.r = TRUE
  BY <1>3, <1>6, Zenon
<1>11. stack' \in Seq(Calls) /\ SectionInv'
  BY <1>1, <1>2, <1>5, <1>6, <1>7, <1>8, <1>9, <1>10, GoesTo
<1> QED
  BY <1>1, <1>11 DEF PoolInv, PoolTypeOK

(* A step within a section that leaves the registers alone *)
LEMMA StaysInside ==
  ASSUME PoolInv, NEW pc, pc \in {"work", "take", "put"}, At(pc),
         NEW qc, To(Running, qc),
         \/ qc = "avail" /\ Running.pool = "ev"
         \/ qc = "leave"
         \/ qc = "put" /\ pc = "work",
         mie' = mie, mstatus' = mstatus, myCsNesting' = myCsNesting
  PROVE  stack' \in Seq(Calls) /\ SectionInv'
<1>2. /\ stack # <<>> /\ Running \in Calls /\ Running.pc = pc /\ CallOK(Running)
      /\ mie = FALSE
      /\ myCsNesting = (IF Running.pool = "my" THEN 1 ELSE 0)
  BY AtLabel, Labels, Zenon
<1>3. /\ Running.pool \in {"my", "ev"}
      /\ Running.op = "free" => Running.buf # NULL
  BY <1>2, PoolOfCall, Zenon DEF CallOK
<1>4. Running.pool = "ev" => Running.r = TRUE
  BY <1>2, Zenon DEF CallOK
<1>5. /\ qc \in MyPcs \cup EvPcs /\ qc \in Shut /\ qc # "take"
      /\ Running.pool = "my" => qc \in MyPcs /\ qc \in Counted
      /\ Running.pool = "ev" => qc \in EvPcs
  BY <1>3, Labels
<1>6. myCsNesting' = (IF Running.pool = "my" /\ qc \in Counted THEN 1 ELSE 0)
  BY <1>2, <1>5
<1> QED
  BY <1>2, <1>3, <1>4, <1>5, <1>6, GoesTo

(* A buffer leaves its list. *)
LEMMA KeepsTake == ASSUME PoolInv, Take PROVE PoolInv'
<1>1. At("take") /\ To(Running, IF Running.pool = "ev" THEN "avail" ELSE "leave")
      /\ mie' = mie /\ mstatus' = mstatus /\ myCsNesting' = myCsNesting
      /\ pFree' = [pFree EXCEPT ![ListOf(Running.buf)] = pNext[Running.buf]] /\ pNext' = pNext
  BY DEF Take, sectionVars
<1>2. stack' \in Seq(Calls) /\ SectionInv'
  BY <1>1, StaysInside
<1>3. Running \in Calls /\ CallOK(Running) /\ Running.pc = "take"
  BY <1>1, AtLabel
<1>4. Running.buf \in Bufs
  BY <1>3 DEF CallOK, Calls
<1>5. pFree' \in [Lists -> Bufs \cup {NULL}]
  BY <1>1, <1>4 DEF PoolInv, PoolTypeOK
<1> QED
  BY <1>1, <1>2, <1>5 DEF PoolInv, PoolTypeOK

(* A second free changes nothing. *)
LEMMA KeepsFreedTwice == ASSUME PoolInv, FreedTwice PROVE PoolInv'
<1>1. At("work") /\ To(Running, "leave")
      /\ mie' = mie /\ mstatus' = mstatus /\ myCsNesting' = myCsNesting
      /\ pFree' = pFree /\ pNext' = pNext
  BY DEF FreedTwice, sectionVars
<1>2. stack' \in Seq(Calls) /\ SectionInv'
  BY <1>1, StaysInside
<1> QED
  BY <1>1, <1>2 DEF PoolInv, PoolTypeOK

(* A buffer is linked to its list. *)
LEMMA KeepsLink == ASSUME PoolInv, Link PROVE PoolInv'
<1>1. At("work") /\ Running.op = "free" /\ To(Running, "put")
      /\ mie' = mie /\ mstatus' = mstatus /\ myCsNesting' = myCsNesting
      /\ pNext' = [pNext EXCEPT ![Running.buf] = pFree[ListOf(Running.buf)]] /\ pFree' = pFree
  BY DEF Link, sectionVars
<1>2. stack' \in Seq(Calls) /\ SectionInv'
  BY <1>1, StaysInside
<1>3. Running \in Calls /\ CallOK(Running)
  BY <1>1, AtLabel
<1>4. Running.buf \in Bufs
  BY <1>1, <1>3 DEF CallOK, Calls
<1>5. ListOf(Running.buf) \in Lists
  BY <1>4, BufsTyped
<1>6. pNext' \in [Bufs -> Bufs \cup {NULL}]
  BY <1>1, <1>5 DEF PoolInv, PoolTypeOK
<1> QED
  BY <1>1, <1>2, <1>6 DEF PoolInv, PoolTypeOK

(* A buffer comes to the head of its list. *)
LEMMA KeepsPut == ASSUME PoolInv, Put PROVE PoolInv'
<1>1. At("put") /\ To(Running, IF Running.pool = "ev" THEN "avail" ELSE "leave")
      /\ mie' = mie /\ mstatus' = mstatus /\ myCsNesting' = myCsNesting
      /\ pFree' = [pFree EXCEPT ![ListOf(Running.buf)] = Running.buf] /\ pNext' = pNext
  BY DEF Put, sectionVars
<1>2. stack' \in Seq(Calls) /\ SectionInv'
  BY <1>1, StaysInside
<1>3. Running \in Calls
  BY <1>1, AtLabel
<1>4. Running.buf \in Bufs \cup {NULL}
  BY <1>3 DEF Calls
<1>5. pFree' \in [Lists -> Bufs \cup {NULL}]
  BY <1>1, <1>4 DEF PoolInv, PoolTypeOK
<1> QED
  BY <1>1, <1>2, <1>5 DEF PoolInv, PoolTypeOK

(* The count follows. *)
LEMMA KeepsCountAvail == ASSUME PoolInv, CountAvail PROVE PoolInv'
<1>1. At("avail") /\ To(Running, "leave")
      /\ mie' = mie /\ mstatus' = mstatus /\ myCsNesting' = myCsNesting
      /\ pFree' = pFree /\ pNext' = pNext
  BY DEF CountAvail, sectionVars
<1>2. /\ stack # <<>> /\ Running \in Calls /\ Running.pc = "avail" /\ CallOK(Running)
      /\ mie = FALSE /\ myCsNesting = 0
  BY <1>1, AtLabel, Labels, Zenon
<1>3. Running.pool = "ev" /\ (Running.op = "free" => Running.buf # NULL)
  BY <1>2, Labels, PoolOfCall, Zenon DEF CallOK
<1>4. Running.r = TRUE
  BY <1>2, <1>3, Zenon DEF CallOK
<1>5. stack' \in Seq(Calls) /\ SectionInv'
  BY <1>1, <1>2, <1>3, <1>4, Labels, GoesTo
<1> QED
  BY <1>1, <1>5 DEF PoolInv, PoolTypeOK

-----------------------------------------------------------------------------
(* What a caller asks for *)
LEMMA RequestTyped ==
  ASSUME NEW c \in Requests
  PROVE  c \in Calls /\ CallOK(c) /\ c.pc \in {"test", "save"}
<1>1. ASSUME NEW op \in {"alloc", "free"}, NEW pool \in {"my", "ev"}, NEW g \in Groups,
             NEW b \in Bufs \cup {NULL}, op = "free" => b # NULL, c = Call(op, pool, g, b)
      PROVE  c \in Calls /\ CallOK(c) /\ c.pc \in {"test", "save"}
  <2>1. c \in Calls /\ c.pool = pool /\ c.op = op /\ c.buf = b
    BY <1>1 DEF Call, Calls, MyPcs, EvPcs
  <2>2. c.pc = IF pool = "my" THEN "test" ELSE "save"
    BY <1>1 DEF Call
  <2>3. /\ pool = "my" => c.pc = "test" /\ c.pc \in MyPcs
        /\ pool = "ev" => c.pc = "save" /\ c.pc \in EvPcs
    BY <2>2 DEF MyPcs, EvPcs
  <2>4. c.pc \in {"test", "save"} /\ c.pc # "take"
    BY <2>2
  <2>5. CallOK(c)
    BY <1>1, <2>1, <2>3, <2>4, Zenon DEF CallOK
  <2> QED BY <2>1, <2>4, <2>5
<1>2. CASE c \in {Call("alloc", l[1], l[2], NULL) : l \in Lists}
  <2>1. PICK l \in Lists : c = Call("alloc", l[1], l[2], NULL)
    BY <1>2
  <2>2. l[1] \in {"my", "ev"} /\ l[2] \in Groups
    BY DEF Lists
  <2> QED BY <1>1, <2>1, <2>2
<1>3. CASE \E b \in Bufs : c = Call("free", b.pool, b.group, b)
  <2>1. PICK b \in Bufs : c = Call("free", b.pool, b.group, b)
    BY <1>3
  <2>2. ListOf(b) \in Lists /\ b # NULL
    BY BufsTyped
  <2>3. b.pool \in {"my", "ev"} /\ b.group \in Groups
    BY <2>2 DEF ListOf, Lists
  <2> QED BY <1>1, <2>1, <2>2, <2>3
<1> QED
  BY <1>2, <1>3 DEF Requests

(* No call is under way when the stack is empty. *)
LEMMA NoCall == PoolTypeOK => (stack = <<>> <=> Len(stack) = 0)
  BY EmptySeq DEF PoolTypeOK

(* The main loop calls. *)
LEMMA KeepsMainCall == ASSUME PoolInv, MainCall PROVE PoolInv'
<1>1. PICK c \in Requests : stack' = <<c>>
  BY DEF MainCall
<1>2. /\ stack = <<>> /\ mie' = mie /\ mstatus' = mstatus /\ myCsNesting' = myCsNesting
      /\ pFree' = pFree /\ pNext' = pNext
  BY DEF MainCall, sectionVars
<1>3. c \in Calls /\ CallOK(c) /\ c.pc \in {"test", "save"}
  BY RequestTyped
<1>4. mie = TRUE
  BY <1>2, Zenon DEF PoolInv, SectionInv, MieIsShut
<1>5. myCsNesting = 0
  BY <1>2, Zenon DEF PoolInv, SectionInv, NestingIsCounted
<1>6. /\ stack' \in Seq(Calls) /\ stack' # <<>> /\ Len(stack') = 1
      /\ stack'[1] = c /\ Running' = c
  BY <1>1, <1>3 DEF Running
<1>7. mstatus = TRUE
  <2>1. Len(stack) <= 1
    BY <1>2
  <2> QED BY <2>1, Zenon DEF PoolInv, SectionInv, GlobalIsOn
<1>8. c.pc \notin Shut /\ c.pc \notin Counted
  BY <1>3, Labels
<1>9. CallsOK'
  BY <1>3, <1>6 DEF CallsOK, CallOK
<1>10. OthersOutside'
  BY <1>6 DEF OthersOutside
<1>11. MieIsShut'
  BY <1>2, <1>4, <1>6, <1>8, Zenon DEF MieIsShut
<1>12. NestingIsCounted'
  BY <1>2, <1>5, <1>6, <1>8, Zenon DEF NestingIsCounted
<1>13. GlobalIsOn'
  BY <1>2, <1>7, Zenon DEF GlobalIsOn
<1> QED
  BY <1>2, <1>6, <1>9, <1>10, <1>11, <1>12, <1>13 DEF PoolInv, PoolTypeOK, SectionInv

(* An interrupt's handler calls. *)
LEMMA KeepsInterrupt == ASSUME PoolInv, Interrupt PROVE PoolInv'
<1>1. PICK c \in Requests : stack' = Append(stack, c)
  BY DEF Interrupt
<1>2. /\ stack # <<>> /\ mie' = mie /\ myCsNesting' = myCsNesting
      /\ pFree' = pFree /\ pNext' = pNext
  BY DEF Interrupt
<1>3. c \in Calls /\ CallOK(c) /\ c.pc \in {"test", "save"}
  BY RequestTyped
<1>4. mie = TRUE
  BY Zenon DEF PoolInv, SectionInv, MieIsShut, Interrupt, InterruptsOn
<1>5. Running.pc \notin Shut
  BY <1>2, <1>4, Zenon DEF PoolInv, SectionInv, MieIsShut
<1>6. Running.pc \notin Counted
  BY <1>5 DEF Shut, Counted
<1>7. myCsNesting = 0
  BY <1>6, Zenon DEF PoolInv, SectionInv, NestingIsCounted
<1>8. stack \in Seq(Calls) /\ Len(stack) \in Nat /\ Len(stack) > 0 /\ Running = stack[Len(stack)]
  BY <1>2, RunningIsCall DEF PoolInv, PoolTypeOK
<1>9. /\ stack' \in Seq(Calls) /\ Len(stack') = Len(stack) + 1 /\ stack' # <<>>
      /\ Running' = c
  BY <1>1, <1>3, <1>8 DEF Running
<1>10. stack'[Len(stack) + 1] = c
  BY <1>1, <1>3, <1>8
<1>11. \A i \in 1 .. Len(stack) : stack'[i] = stack[i]
  BY <1>1, <1>3, <1>8
<1>12. c.pc \notin Shut /\ c.pc \notin Counted
  BY <1>3, Labels
<1>13. CallsOK'
  <2> SUFFICES ASSUME NEW i \in 1 .. Len(stack) + 1  PROVE  CallOK(stack'[i])
    BY <1>9 DEF CallsOK, CallOK
  <2>1. CASE i = Len(stack) + 1
    BY <1>3, <1>10, <2>1
  <2>2. CASE i \in 1 .. Len(stack)
    <3>1. CallOK(stack[i])
      BY <2>2, Zenon DEF PoolInv, SectionInv, CallsOK
    <3> QED BY <2>2, <3>1, <1>11
  <2>3. i = Len(stack) + 1 \/ i \in 1 .. Len(stack)
    BY <1>8
  <2> QED BY <2>1, <2>2, <2>3
<1>14. OthersOutside'
  <2> SUFFICES ASSUME NEW i \in 1 .. Len(stack)  PROVE  stack'[i].pc \notin Shut
    BY <1>8, <1>9 DEF OthersOutside
  <2>1. stack'[i] = stack[i]
    BY <1>11
  <2>2. CASE i = Len(stack)
    BY <1>5, <1>8, <2>1, <2>2
  <2>3. CASE i # Len(stack)
    <3>1. i \in 1 .. Len(stack) - 1
      BY <1>8, <2>3
    <3> QED BY <2>1, <3>1 DEF PoolInv, SectionInv, OthersOutside
  <2> QED BY <2>2, <2>3
<1>15. MieIsShut'
  BY <1>2, <1>4, <1>9, <1>12, Zenon DEF MieIsShut
<1>16. NestingIsCounted'
  BY <1>2, <1>7, <1>9, <1>12, Zenon DEF NestingIsCounted
<1>17. GlobalIsOn'
  BY <1>8, <1>9 DEF GlobalIsOn
<1> QED
  BY <1>2, <1>9, <1>13, <1>14, <1>15, <1>16, <1>17 DEF PoolInv, PoolTypeOK, SectionInv

(* A call returns, to what it interrupted. *)
LEMMA KeepsReturn == ASSUME PoolInv, Return PROVE PoolInv'
<1>1. /\ At("done") /\ stack' = SubSeq(stack, 1, Len(stack) - 1)
      /\ mie' = mie /\ mstatus' = TRUE /\ myCsNesting' = myCsNesting
      /\ pFree' = pFree /\ pNext' = pNext
  BY DEF Return
<1>2. mie = TRUE /\ myCsNesting = 0 /\ stack # <<>>
  BY <1>1, AtLabel, Labels, Zenon
<1>3. stack \in Seq(Calls) /\ Len(stack) \in Nat /\ Len(stack) > 0
  BY <1>2, RunningIsCall DEF PoolInv, PoolTypeOK
<1>4. /\ stack' \in Seq(Calls) /\ Len(stack') = Len(stack) - 1
      /\ \A i \in 1 .. Len(stack) - 1 : stack'[i] = stack[i]
  <2> DEFINE n == Len(stack) - 1
  <2>1. n \in Nat
    BY <1>3
  <2>2. \A i \in 1 .. n : stack[i] \in Calls
    BY <1>3
  <2>3. stack' = SubSeq(stack, 1, n)
    BY <1>1
  <2> HIDE DEF n
  <2>4. /\ stack' \in Seq(Calls) /\ Len(stack') = IF 1 <= n THEN n - 1 + 1 ELSE 0
        /\ \A i \in 1 .. n - 1 + 1 : stack'[i] = stack[1 + i - 1]
    BY <2>1, <2>2, <2>3, SubSeqProperties
  <2>5. Len(stack') = n
    BY <2>1, <2>4
  <2>6. \A i \in 1 .. n : stack'[i] = stack[i]
    BY <2>1, <2>4
  <2> QED BY <2>4, <2>5, <2>6 DEF n
<1>5. CallsOK'
  <2> SUFFICES ASSUME NEW i \in 1 .. Len(stack) - 1  PROVE  CallOK(stack'[i])
    BY <1>4 DEF CallsOK, CallOK
  <2>1. i \in 1 .. Len(stack)
    BY <1>3, Below
  <2>2. CallOK(stack[i])
    BY <2>1, Zenon DEF PoolInv, SectionInv, CallsOK
  <2> QED BY <2>2, <1>4
<1>6. \A i \in 1 .. Len(stack') : stack'[i].pc \notin Shut
  BY <1>4 DEF PoolInv, SectionInv, OthersOutside
<1>7. OthersOutside'
  <2>1. Len(stack') \in Nat
    BY <1>4
  <2> QED BY <2>1, <1>6, Below DEF OthersOutside
<1>8. stack' # <<>> => Running'.pc \notin Shut /\ Running'.pc \notin Counted
  <2> HAVE stack' # <<>>
  <2>1. Len(stack') \in 1 .. Len(stack')
    BY <1>4
  <2>2. Running' = stack'[Len(stack')]
    BY DEF Running
  <2>3. Running'.pc \notin Shut
    BY <1>6, <2>1, <2>2
  <2> QED BY <2>3 DEF Shut, Counted
<1>9. MieIsShut'
  BY <1>1, <1>2, <1>8, Zenon DEF MieIsShut
<1>10. NestingIsCounted'
  BY <1>1, <1>2, <1>8, Zenon DEF NestingIsCounted
<1>11. GlobalIsOn'
  BY <1>1, Zenon DEF GlobalIsOn
<1> QED
  BY <1>1, <1>4, <1>5, <1>7, <1>9, <1>10, <1>11 DEF PoolInv, PoolTypeOK, SectionInv

(* The start satisfies the invariant. *)
LEMMA InitialPools == PoolInit => PoolInv
<1> SUFFICES ASSUME PoolInit PROVE PoolInv
  OBVIOUS
<1> USE DEF PoolInit
<1>1. \A l \in Lists : Buf(l, 1) \in Bufs
  <2> SUFFICES ASSUME NEW l \in Lists PROVE Buf(l, 1) \in Bufs
    OBVIOUS
  <2>1. l[2] \in Groups
    BY DEF Lists
  <2>2. BufNum[l[2]] \in Nat \ {0}
    BY <2>1, PoolsAssumed
  <2>3. 1 \in 1 .. BufNum[l[2]]
    BY <2>2
  <2>4. Buf(l, 1) \in BufsOf(l)
    BY <2>3, Zenon DEF Buf, BufsOf
  <2> QED BY <2>4 DEF Bufs
<1>2. ASSUME NEW b \in Bufs, b.n < BufNum[b.group]  PROVE  [b EXCEPT !.n = b.n + 1] \in Bufs
  <2>1. PICK l \in Lists : b \in BufsOf(l)
    BY DEF Bufs
  <2>2. PICK i \in 1 .. BufNum[l[2]] : b = [pool |-> l[1], group |-> l[2], n |-> i]
    BY <2>1 DEF BufsOf
  <2>3. l[2] \in Groups
    BY DEF Lists
  <2>4. BufNum[l[2]] \in Nat
    BY <2>3, PoolsAssumed
  <2>5. [b EXCEPT !.n = b.n + 1] = [pool |-> l[1], group |-> l[2], n |-> i + 1]
    BY <2>2
  <2>6. i + 1 \in 1 .. BufNum[l[2]]
    BY <1>2, <2>2, <2>4
  <2>7. [b EXCEPT !.n = b.n + 1] \in BufsOf(l)
    BY <2>5, <2>6 DEF BufsOf
  <2> QED BY <2>7 DEF Bufs
<1>3. PoolTypeOK
  BY <1>1, <1>2 DEF PoolTypeOK
<1>4. Len(stack) = 0 /\ stack = <<>>
  OBVIOUS
<1>5. CallsOK /\ OthersOutside
  BY <1>4 DEF CallsOK, OthersOutside
<1>6. MieIsShut
  BY Zenon DEF MieIsShut
<1>7. NestingIsCounted
  BY Zenon DEF NestingIsCounted
<1>8. GlobalIsOn
  BY Zenon DEF GlobalIsOn
<1> QED
  BY <1>3, <1>5, <1>6, <1>7, <1>8 DEF PoolInv, SectionInv

(* Every step keeps it. *)
LEMMA StepKeepsPools == PoolInv /\ [PoolNext]_poolVars => PoolInv'
<1> SUFFICES ASSUME PoolInv, [PoolNext]_poolVars PROVE PoolInv'
  OBVIOUS
<1>1. CASE UNCHANGED poolVars
  <2>1. /\ stack' = stack /\ pFree' = pFree /\ pNext' = pNext
        /\ mie' = mie /\ mstatus' = mstatus /\ myCsNesting' = myCsNesting
    BY <1>1 DEF poolVars, sectionVars
  <2> QED
    BY <2>1, Zenon DEF PoolInv, PoolTypeOK, SectionInv, CallsOK, OthersOutside, MieIsShut,
                       NestingIsCounted, GlobalIsOn, CallOK, Running
<1>2. CASE MainCall \/ Interrupt \/ Return
  BY <1>2, KeepsMainCall, KeepsInterrupt, KeepsReturn
<1>3. CASE TestNesting \/ SaveMie \/ DisableInterrupts \/ CountSection
  BY <1>3, KeepsTestNesting, KeepsSaveMie, KeepsDisableInterrupts, KeepsCountSection
<1>4. CASE Leave \/ EnableInterrupts \/ NextSize
  BY <1>4, KeepsLeave, KeepsEnableInterrupts, KeepsNextSize
<1>5. CASE Look \/ Take \/ FreedTwice \/ Link \/ Put \/ CountAvail
  BY <1>5, KeepsLook, KeepsTake, KeepsFreedTwice, KeepsLink, KeepsPut, KeepsCountAvail
<1> QED
  BY <1>1, <1>2, <1>3, <1>4, <1>5 DEF PoolNext

(* So it holds throughout. *)
LEMMA PoolInvHolds == PoolSpec => []PoolInv
  BY InitialPools, StepKeepsPools, PTL DEF PoolSpec

(* InterruptsBack of BufPools, for any pools: when no call is under way
   (myCsExit, irq_restore) both enable bits are set and no section is counted. *)
THEOREM EnabledAfterCalls == PoolSpec => []InterruptsBack
<1>1. PoolInv => InterruptsBack
  <2> SUFFICES ASSUME PoolInv, stack = <<>>  PROVE  mie /\ mstatus /\ myCsNesting = 0
    BY DEF InterruptsBack
  <2>1. mie = TRUE
    BY Zenon DEF PoolInv, SectionInv, MieIsShut
  <2>2. Len(stack) <= 1
    OBVIOUS
  <2>3. mstatus = TRUE
    BY <2>2, Zenon DEF PoolInv, SectionInv, GlobalIsOn
  <2>4. myCsNesting = 0
    BY Zenon DEF PoolInv, SectionInv, NestingIsCounted
  <2> QED BY <2>1, <2>3, <2>4, Zenon
<1> QED
  BY <1>1, PoolInvHolds, PTL

(* Only the innermost call is between the disabling and the enabling of the
   interrupts (myBufAlloc, myBufFree, ev_buf_allocate, ev_buf_free), however
   deep the handlers nest: no other call is at the lists meanwhile.        *)
THEOREM SectionsExclude ==
  PoolSpec => [](\A i \in 1 .. Len(stack) - 1 : stack[i].pc \notin Shut)
<1>1. PoolInv => \A i \in 1 .. Len(stack) - 1 : stack[i].pc \notin Shut
  BY DEF PoolInv, SectionInv, OthersOutside
<1> QED
  BY <1>1, PoolInvHolds, PTL

-----------------------------------------------------------------------------
(* A start and a function of one set into itself have their sequence of iterates. *)
Iterates(f, S, a, step) ==
  f \in [Nat -> S] /\ f[0] = a /\ \A n \in Nat : f[n + 1] = step[f[n]]
IteratesTo(k, g, S, a, step) ==
  g \in [0 .. k -> S] /\ g[0] = a /\ \A n \in 0 .. k - 1 : g[n + 1] = step[g[n]]

(* A set of numbers with no least member is empty: what the inductions below use. *)
LEMMA NoLeastNone ==
  ASSUME NEW Bad \in SUBSET Nat, \A n \in Bad : \E m \in Bad : m < n
  PROVE  Bad = {}
<1> SUFFICES ASSUME Bad # {} PROVE FALSE
  OBVIOUS
<1>1. PICK n \in Bad : \A m \in Bad : n <= m
  BY LeastExists
<1>2. PICK m \in Bad : m < n
  OBVIOUS
<1>3. n <= m /\ m \in Nat /\ n \in Nat
  BY <1>1
<1> QED
  BY <1>2, <1>3

(* There are iterates of any finite length. *)
LEMMA IteratesSome ==
  ASSUME NEW S, NEW a \in S, NEW step \in [S -> S]
  PROVE  \A k \in Nat : \E g : IteratesTo(k, g, S, a, step)
<1> DEFINE Bad == {k \in Nat : ~ \E g : IteratesTo(k, g, S, a, step)}
<1>1. ASSUME NEW k \in Bad  PROVE \E m \in Bad : m < k
  <2>1. k # 0
    <3> SUFFICES ASSUME k = 0 PROVE FALSE
      OBVIOUS
    <3> DEFINE g == [n \in 0 .. 0 |-> a]
    <3>1. IteratesTo(0, g, S, a, step)
      BY DEF IteratesTo
    <3> QED
      BY <3>1
  <2>2. k - 1 \in Nat /\ k - 1 < k
    BY <2>1
  <2>3. SUFFICES ASSUME NEW g, IteratesTo(k - 1, g, S, a, step) PROVE FALSE
    BY <2>2
  <2> DEFINE h == [n \in 0 .. k |-> IF n < k THEN g[n] ELSE step[g[k - 1]]]
  <2>4. \A n \in 0 .. k - 1 : g[n] \in S
    BY <2>3 DEF IteratesTo
  <2>5. h \in [0 .. k -> S] /\ h[0] = a
    BY <2>1, <2>2, <2>3, <2>4 DEF IteratesTo
  <2>6. ASSUME NEW n \in 0 .. k - 1 PROVE h[n + 1] = step[h[n]]
    <3>1. h[n] = g[n]
      BY <2>2
    <3>2. CASE n = k - 1
      BY <2>2, <3>1, <3>2
    <3>3. CASE n # k - 1
      <4>1. n + 1 < k /\ n \in 0 .. (k - 1) - 1 /\ n + 1 \in 0 .. k
        BY <2>2, <3>3
      <4>2. h[n + 1] = g[n + 1] /\ g[n + 1] = step[g[n]]
        BY <2>3, <4>1 DEF IteratesTo
      <4> QED
        BY <3>1, <4>2
    <3> QED
      BY <3>2, <3>3
  <2>7. IteratesTo(k, h, S, a, step)
    BY <2>5, <2>6 DEF IteratesTo
  <2> QED
    BY <2>7
<1>2. Bad = {}
  BY <1>1, NoLeastNone
<1> QED
  BY <1>2

(* Two sequences of iterates agree as far as both go. *)
LEMMA IteratesSame ==
  ASSUME NEW S, NEW a \in S, NEW step \in [S -> S],
         NEW k \in Nat, NEW g, IteratesTo(k, g, S, a, step),
         NEW m \in Nat, NEW h, IteratesTo(m, h, S, a, step), k <= m
  PROVE  \A n \in 0 .. k : g[n] = h[n]
<1> DEFINE Bad == {n \in 0 .. k : g[n] # h[n]}
<1>1. ASSUME NEW n \in Bad PROVE \E j \in Bad : j < n
  <2>1. n # 0
    BY DEF IteratesTo
  <2>2. /\ n - 1 \in 0 .. k - 1 /\ n - 1 \in 0 .. m - 1 /\ n - 1 \in 0 .. k
        /\ n - 1 < n /\ (n - 1) + 1 = n
    BY <2>1
  <2>3. g[n] = step[g[n - 1]] /\ h[n] = step[h[n - 1]]
    <3>1. g[(n - 1) + 1] = step[g[n - 1]]
      BY <2>2 DEF IteratesTo
    <3>2. h[(n - 1) + 1] = step[h[n - 1]]
      BY <2>2 DEF IteratesTo
    <3> QED
      BY <2>2, <3>1, <3>2
  <2>4. g[n - 1] # h[n - 1]
    BY <2>3
  <2> QED
    BY <2>2, <2>4
<1>2. Bad \in SUBSET Nat
  OBVIOUS
<1>3. Bad = {}
  <2> HIDE DEF Bad
  <2> QED
    BY <1>1, <1>2, NoLeastNone
<1> QED
  BY <1>3

(* So there is the endless sequence. *)
LEMMA IteratesExist ==
  ASSUME NEW S, NEW a \in S, NEW step \in [S -> S]
  PROVE  \E f : Iterates(f, S, a, step)
<1> DEFINE G(k) == CHOOSE g : IteratesTo(k, g, S, a, step)
           f == [n \in Nat |-> G(n)[n]]
<1>1. \A k \in Nat : IteratesTo(k, G(k), S, a, step)
  BY IteratesSome
<1> HIDE DEF G
<1>2. f \in [Nat -> S] /\ f[0] = a
  <2>1. ASSUME NEW n \in Nat PROVE G(n)[n] \in S
    BY <1>1 DEF IteratesTo
  <2>2. G(0)[0] = a
    BY <1>1 DEF IteratesTo
  <2> QED
    BY <2>1, <2>2
<1>3. ASSUME NEW n \in Nat PROVE f[n + 1] = step[f[n]]
  <2>1. IteratesTo(n, G(n), S, a, step) /\ IteratesTo(n + 1, G(n + 1), S, a, step) /\ n + 1 \in Nat
    BY <1>1
  <2>2. G(n)[n] = G(n + 1)[n]
    <3>1. n <= n + 1 /\ n \in 0 .. n
      OBVIOUS
    <3> QED
      BY <2>1, <3>1, IteratesSame
  <2>3. G(n + 1)[n + 1] = step[G(n + 1)[n]]
    <3>1. n \in 0 .. (n + 1) - 1
      OBVIOUS
    <3> QED
      BY <2>1, <3>1 DEF IteratesTo
  <2>4. f[n] = G(n)[n] /\ f[n + 1] = G(n + 1)[n + 1]
    BY <2>1
  <2> QED
    BY <2>2, <2>3, <2>4
<1> QED
  BY <1>2, <1>3 DEF Iterates

(* NthFree is the walk from the head along the links: its recursive definition has a
   solution, the iterates, and so its equations hold.                      *)
LEMMA NthFreeIs ==
  ASSUME PoolTypeOK, NEW l \in Lists
  PROVE  /\ NthFree(l)[0] = pFree[l]
         /\ \A n \in Nat : NthFree(l)[n + 1] =
                             IF NthFree(l)[n] = NULL THEN NULL ELSE pNext[NthFree(l)[n]]
<1> DEFINE S == Bufs \cup {NULL}
           step == [b \in S |-> IF b = NULL THEN NULL ELSE pNext[b]]
           a == pFree[l]
           F(f) == [n \in Nat |-> IF n = 0 THEN pFree[l]
                                  ELSE IF f[n - 1] = NULL THEN NULL ELSE pNext[f[n - 1]]]
<1>1. a \in S /\ step \in [S -> S]
  BY DEF PoolTypeOK
<1>2. PICK f : Iterates(f, S, a, step)
  <2> HIDE DEF S, step, a
  <2> QED
    BY <1>1, IteratesExist
<1>3. f = F(f)
  <2>1. f \in [Nat -> S] /\ f[0] = pFree[l]
    BY <1>2 DEF Iterates
  <2>2. ASSUME NEW n \in Nat, n # 0
        PROVE  f[n] = IF f[n - 1] = NULL THEN NULL ELSE pNext[f[n - 1]]
    <3>1. n - 1 \in Nat /\ (n - 1) + 1 = n
      BY <2>2
    <3>2. f[(n - 1) + 1] = step[f[n - 1]] /\ f[n - 1] \in S
      BY <1>2, <3>1 DEF Iterates
    <3> QED
      BY <3>1, <3>2
  <2>3. \A n \in Nat : f[n] = F(f)[n]
    BY <2>1, <2>2
  <2> QED
    BY <2>1, <2>3
<1>4. NthFree(l) = F(NthFree(l))
  <2>1. NthFree(l) = CHOOSE g : g = F(g)
    BY DEF NthFree
  <2> HIDE DEF F
  <2> QED
    BY <1>3, <2>1
<1>5. \A n \in Nat : NthFree(l)[n] = F(NthFree(l))[n]
  BY <1>4
<1>6. ASSUME NEW n \in Nat
      PROVE  NthFree(l)[n + 1] = IF NthFree(l)[n] = NULL THEN NULL ELSE pNext[NthFree(l)[n]]
  <2>1. n + 1 \in Nat /\ n + 1 # 0 /\ (n + 1) - 1 = n
    OBVIOUS
  <2> HIDE DEF S, step, a
  <2> QED
    BY <1>5, <2>1
<1>7. NthFree(l)[0] = pFree[l]
  BY <1>5
<1> QED
  BY <1>6, <1>7

(* A free list: its n buffers in order, each once, and all that nobody holds. *)
LinkedTo(n, s) == \A i \in 1 .. n : pNext[s[i]] = IF i = n THEN NULL ELSE s[i + 1]
EachOnce(n, s) == \A i, j \in 1 .. n : s[i] = s[j] => i = j
AllNotHeld(l, n, s) == \A b \in BufsOf(l) : held[b] = 0 <=> \E i \in 1 .. n : s[i] = b
ChainIs(l, n, s) ==
  /\ s \in [1 .. n -> BufsOf(l)]
  /\ pFree[l] = IF n = 0 THEN NULL ELSE s[1]
  /\ LinkedTo(n, s)
  /\ EachOnce(n, s)
  /\ AllNotHeld(l, n, s)
Chained(l) == \E n \in Nat : \E s : ChainIs(l, n, s)

(* The walk along a list meets its buffers in order, then NULL. *)
LEMMA ChainWalk ==
  ASSUME PoolTypeOK, NEW l \in Lists, NEW n \in Nat, NEW s, ChainIs(l, n, s)
  PROVE  \A m \in Nat : NthFree(l)[m] = IF m < n THEN s[m + 1] ELSE NULL
<1> DEFINE Bad == {m \in Nat : NthFree(l)[m] # IF m < n THEN s[m + 1] ELSE NULL}
<1>1. ASSUME NEW m \in Bad PROVE \E j \in Bad : j < m
  <2>1. m # 0
    BY NthFreeIs DEF ChainIs
  <2>2. m - 1 \in Nat /\ m - 1 < m /\ (m - 1) + 1 = m
    BY <2>1
  <2>3. NthFree(l)[m] = IF NthFree(l)[m - 1] = NULL THEN NULL ELSE pNext[NthFree(l)[m - 1]]
    <3>1. NthFree(l)[(m - 1) + 1] =
            IF NthFree(l)[m - 1] = NULL THEN NULL ELSE pNext[NthFree(l)[m - 1]]
      BY <2>2, NthFreeIs
    <3> QED
      BY <2>2, <3>1
  <2>4. NthFree(l)[m - 1] # IF m - 1 < n THEN s[m] ELSE NULL
    <3> SUFFICES ASSUME NthFree(l)[m - 1] = IF m - 1 < n THEN s[m] ELSE NULL PROVE FALSE
      OBVIOUS
    <3>1. CASE m - 1 < n
      <4>1. m \in 1 .. n
        BY <2>2, <3>1
      <4>2. s[m] \in Bufs /\ s[m] # NULL
        BY <4>1, BufsTyped DEF ChainIs
      <4>3. pNext[s[m]] = IF m = n THEN NULL ELSE s[m + 1]
        BY <4>1 DEF ChainIs, LinkedTo
      <4>4. NthFree(l)[m] = pNext[s[m]]
        BY <2>3, <3>1, <4>2
      <4>5. m < n <=> m # n
        BY <4>1
      <4> QED
        BY <4>3, <4>4, <4>5
    <3>2. CASE ~(m - 1 < n)
      <4>1. NthFree(l)[m] = NULL /\ ~(m < n)
        BY <2>2, <2>3, <3>2
      <4> QED
        BY <4>1
    <3> QED
      BY <3>1, <3>2
  <2>5. m - 1 \in Bad
    BY <2>2, <2>4
  <2> QED
    BY <2>2, <2>5
<1>2. Bad \in SUBSET Nat
  OBVIOUS
<1>3. Bad = {}
  <2> HIDE DEF Bad
  <2> QED
    BY <1>1, <1>2, NoLeastNone
<1> QED
  BY <1>3

(* The size of a group is the number of its buffers. *)
LEMMA BufsCount ==
  ASSUME NEW l \in Lists
  PROVE  /\ IsFiniteSet(BufsOf(l)) /\ Cardinality(BufsOf(l)) = BufNum[l[2]]
         /\ BufNum[l[2]] \in Nat \ {0}
<1> DEFINE k == BufNum[l[2]]
           f == [i \in 1 .. k |-> Buf(l, i)]
<1>1. l[2] \in Groups
  BY DEF Lists
<1>2. k \in Nat \ {0}
  BY <1>1, PoolsAssumed
<1>3. f \in Bijection(1 .. k, BufsOf(l))
  <2>1. f \in [1 .. k -> BufsOf(l)]
    BY DEF Buf, BufsOf
  <2>2. \A i, j \in 1 .. k : f[i] = f[j] => i = j
    BY DEF Buf
  <2>3. \A b \in BufsOf(l) : \E i \in 1 .. k : f[i] = b
    BY DEF Buf, BufsOf
  <2> QED
    BY <2>1, <2>2, <2>3 DEF Bijection, Injection, Surjection, IsInjective
<1>4. ExistsBijection(1 .. k, BufsOf(l))
  BY <1>3 DEF ExistsBijection
<1>5. IsFiniteSet(BufsOf(l)) /\ Cardinality(BufsOf(l)) = k
  <2> HIDE DEF k
  <2> QED
    BY <1>2, <1>4, FS_NatBijection, FS_CountingElements
<1> QED
  BY <1>2, <1>5

(* A list has no more buffers than its size has. *)
LEMMA ChainFits ==
  ASSUME NEW l \in Lists, NEW n \in Nat, NEW s, ChainIs(l, n, s)
  PROVE  n <= BufNum[l[2]]
<1> DEFINE T == {s[i] : i \in 1 .. n}
<1>1. T \subseteq BufsOf(l)
  BY DEF ChainIs
<1>2. s \in Bijection(1 .. n, T)
  <2>1. s \in [1 .. n -> T]
    BY DEF ChainIs
  <2>2. \A i, j \in 1 .. n : s[i] = s[j] => i = j
    BY DEF ChainIs, EachOnce
  <2> QED
    BY <2>1, <2>2 DEF Bijection, Injection, Surjection, IsInjective
<1>3. ExistsBijection(1 .. n, T)
  BY <1>2 DEF ExistsBijection
<1> HIDE DEF T
<1>4. Cardinality(T) = n
  BY <1>3, FS_NatBijection, FS_CountingElements
<1>5. Cardinality(T) <= Cardinality(BufsOf(l))
  BY <1>1, BufsCount, FS_Subset
<1> QED
  BY <1>4, <1>5, BufsCount

(* The walk along a list ends, and what it meets is what nobody holds. *)
LEMMA FreeBufsAre ==
  ASSUME PoolTypeOK, NEW l \in Lists, Chained(l)
  PROVE  Ends(l) /\ FreeBufs(l) = {b \in BufsOf(l) : held[b] = 0}
<1>0. PICK n \in Nat : \E s : ChainIs(l, n, s)
  BY DEF Chained
<1>1. PICK s : ChainIs(l, n, s)
  BY <1>0
<1>2. n <= BufNum[l[2]] /\ BufNum[l[2]] \in Nat
  BY <1>1, ChainFits, BufsCount
<1>3. \A m \in Nat : NthFree(l)[m] = IF m < n THEN s[m + 1] ELSE NULL
  BY <1>1, ChainWalk
<1>4. Ends(l)
  BY <1>2, <1>3 DEF Ends
<1>5. \A i \in 1 .. n : s[i] \in BufsOf(l) /\ s[i] # NULL
  BY <1>1, BufsTyped DEF ChainIs
<1>6. ASSUME NEW b \in FreeBufs(l) PROVE b \in BufsOf(l) /\ held[b] = 0
  <2>1. PICK m \in 0 .. BufNum[l[2]] : b = NthFree(l)[m] /\ b # NULL
    BY DEF FreeBufs
  <2>2. m \in Nat /\ m < n /\ b = s[m + 1] /\ m + 1 \in 1 .. n
    BY <1>2, <1>3, <2>1
  <2>3. b \in BufsOf(l)
    BY <1>5, <2>2
  <2> QED
    BY <1>1, <2>2, <2>3 DEF ChainIs, AllNotHeld
<1>7. ASSUME NEW b \in BufsOf(l), held[b] = 0 PROVE b \in FreeBufs(l)
  <2>1. PICK i \in 1 .. n : s[i] = b
    BY <1>1, <1>7 DEF ChainIs, AllNotHeld
  <2>2. i - 1 \in Nat /\ i - 1 < n /\ i - 1 \in 0 .. BufNum[l[2]] /\ (i - 1) + 1 = i
    BY <1>2
  <2>3. NthFree(l)[i - 1] = b /\ b # NULL
    BY <1>3, <1>5, <2>1, <2>2
  <2> QED
    BY <2>2, <2>3 DEF FreeBufs
<1> QED
  BY <1>4, <1>6, <1>7

(* The calls *)
BeforePut == {"test", "off", "count", "work", "put"}
MyFree(c) == c.op = "free" /\ c.pool = "my" /\ c.pc \in BeforePut

OfItsPool == \A i \in 1 .. Len(stack) : stack[i].buf # NULL => stack[i].buf.pool = stack[i].pool
FreesDiffer ==
  \A i, j \in 1 .. Len(stack) :
    i # j /\ stack[i].op = "free" /\ stack[j].op = "free" => stack[i].buf # stack[j].buf
FreesHeld == \A i \in 1 .. Len(stack) : MyFree(stack[i]) => held[stack[i].buf] = 1
FramesInv == OfItsPool /\ FreesDiffer /\ FreesHeld

(* The lists *)
HeldTyped == held \in [Bufs -> {0, 1}]
FreeEv(g) == {b \in BufsOf(<<"ev", g>>) : held[b] = 0}
Counting(g) == IF At("avail") /\ Running.buf.group = g
               THEN IF Running.op = "alloc" THEN 1 ELSE -1
               ELSE 0
AvailIs == availBufNum \in [Groups -> Int]
           /\ \A g \in Groups : availBufNum[g] = Cardinality(FreeEv(g)) + Counting(g)
ChainsInv == \A l \in Lists : Chained(l)
TakeInv ==
  At("take") => /\ Running.op = "alloc" /\ Running.buf \in Bufs
                /\ pFree[ListOf(Running.buf)] = Running.buf
PutInv ==
  At("put") => /\ Running.op = "free" /\ Running.buf \in Bufs /\ held[Running.buf] = 1
               /\ pNext[Running.buf] = pFree[ListOf(Running.buf)]
ListsInv == HeldTyped /\ ChainsInv /\ AvailIs /\ TakeInv /\ PutInv

FullInv == PoolInv /\ FramesInv /\ ListsInv

(* The innermost call becomes d; what it frees, and what is held for calls that
   will free it, stays.                                                    *)
LEMMA FramesMove ==
  ASSUME PoolInv, FramesInv, stack # <<>>, NEW d \in Calls,
         stack' = [stack EXCEPT ![Len(stack)] = d],
         d.op = Running.op, d.op = "free" => d.buf = Running.buf,
         d.buf # NULL => d.buf.pool = d.pool,
         MyFree(d) => held'[d.buf] = 1,
         \A i \in 1 .. Len(stack) - 1 : MyFree(stack[i]) => held'[stack[i].buf] = 1
  PROVE  FramesInv'
<1>1. /\ stack' \in Seq(Calls) /\ Len(stack') = Len(stack)
      /\ \A i \in 1 .. Len(stack) - 1 : stack'[i] = stack[i]
      /\ stack'[Len(stack)] = d
  BY CallGoesOn DEF PoolInv, PoolTypeOK
<1>2. Len(stack) \in Nat /\ Len(stack) > 0 /\ Running = stack[Len(stack)]
  BY RunningIsCall DEF PoolInv
<1>3. \A i \in 1 .. Len(stack) : i = Len(stack) \/ i \in 1 .. Len(stack) - 1
  BY <1>2
<1>4. \A i \in 1 .. Len(stack) :
        /\ stack'[i].op = stack[i].op
        /\ stack[i].op = "free" => stack'[i].buf = stack[i].buf
  BY <1>1, <1>2, <1>3
<1>5. OfItsPool'
  <2> SUFFICES ASSUME NEW i \in 1 .. Len(stack), stack'[i].buf # NULL
               PROVE  stack'[i].buf.pool = stack'[i].pool
    BY <1>1 DEF OfItsPool
  <2>1. CASE i = Len(stack)
    BY <1>1, <2>1
  <2>2. CASE i \in 1 .. Len(stack) - 1
    BY <1>1, <2>2 DEF FramesInv, OfItsPool
  <2> QED
    BY <1>3, <2>1, <2>2
<1>6. FreesDiffer'
  <2> SUFFICES ASSUME NEW i \in 1 .. Len(stack), NEW j \in 1 .. Len(stack), i # j,
                      stack'[i].op = "free", stack'[j].op = "free"
               PROVE  stack'[i].buf # stack'[j].buf
    BY <1>1 DEF FreesDiffer
  <2>1. /\ stack[i].op = "free" /\ stack'[i].buf = stack[i].buf
        /\ stack[j].op = "free" /\ stack'[j].buf = stack[j].buf
    BY <1>4
  <2> QED
    BY <2>1 DEF FramesInv, FreesDiffer
<1>7. FreesHeld'
  <2> SUFFICES ASSUME NEW i \in 1 .. Len(stack), MyFree(stack'[i])
               PROVE  held'[stack'[i].buf] = 1
    BY <1>1 DEF FreesHeld, MyFree
  <2>1. CASE i = Len(stack)
    BY <1>1, <2>1
  <2>2. CASE i \in 1 .. Len(stack) - 1
    BY <1>1, <2>2
  <2> QED
    BY <1>3, <2>1, <2>2
<1> QED
  BY <1>5, <1>6, <1>7 DEF FramesInv

(* The calls below the innermost one keep what they will free when nothing of it
   is put back.                                                            *)
LEMMA OthersHeld ==
  ASSUME PoolInv, FramesInv, stack # <<>>,
         \A b \in Bufs : held[b] = 1 => held'[b] = 1
  PROVE  \A i \in 1 .. Len(stack) - 1 : MyFree(stack[i]) => held'[stack[i].buf] = 1
<1> SUFFICES ASSUME NEW i \in 1 .. Len(stack) - 1, MyFree(stack[i])
             PROVE  held'[stack[i].buf] = 1
  OBVIOUS
<1>1. i \in 1 .. Len(stack)
  BY RunningIsCall, Below DEF PoolInv
<1>2. stack[i] \in Calls /\ CallOK(stack[i])
  BY <1>1 DEF PoolInv, PoolTypeOK, SectionInv, CallsOK
<1>3. stack[i].buf \in Bufs
  BY <1>2 DEF CallOK, Calls, MyFree
<1>4. held[stack[i].buf] = 1
  BY <1>1 DEF FramesInv, FreesHeld
<1> QED
  BY <1>3, <1>4

(* What the innermost call has in hand *)
LEMMA RunningFrame ==
  ASSUME PoolInv, FramesInv, stack # <<>>
  PROVE  /\ Running.buf # NULL => Running.buf \in Bufs /\ Running.buf.pool = Running.pool
         /\ MyFree(Running) => held[Running.buf] = 1
<1>1. /\ Running \in Calls /\ Running = stack[Len(stack)] /\ Len(stack) \in 1 .. Len(stack)
  BY RunningIsCall DEF PoolInv
<1> QED
  BY <1>1 DEF FramesInv, OfItsPool, FreesHeld, Calls

(* Nothing of the lists changes, and no change of them is under way. *)
LEMMA ListsRest ==
  ASSUME ListsInv, ~At("avail"), ~At("take")', ~At("put")', ~At("avail")',
         pFree' = pFree, pNext' = pNext, availBufNum' = availBufNum, held' = held
  PROVE  ListsInv'
<1>1. HeldTyped' /\ ChainsInv'
  BY DEF ListsInv, HeldTyped, ChainsInv, Chained, ChainIs, LinkedTo, AllNotHeld, EachOnce
<1>2. AvailIs'
  <2>1. \A g \in Groups : Counting(g) = 0 /\ Counting(g)' = 0
    BY DEF Counting
  <2>2. \A g \in Groups : FreeEv(g)' = FreeEv(g)
    BY DEF FreeEv
  <2> QED
    BY <2>1, <2>2 DEF ListsInv, AvailIs
<1>3. TakeInv' /\ PutInv'
  BY DEF TakeInv, PutInv
<1> QED
  BY <1>1, <1>2, <1>3 DEF ListsInv

(* The innermost call moves from a label to another, outside of what touches the
   lists.                                                                  *)
LEMMA Moves ==
  ASSUME FullInv, NEW pc, At(pc), NEW qc \in MyPcs \cup EvPcs, NEW c \in Calls, To(c, qc),
         c.op = Running.op, c.pool = Running.pool, c.buf = Running.buf,
         qc \in BeforePut => pc \in BeforePut \/ Running.op # "free" \/ Running.pool = "ev",
         pc # "avail", qc \notin {"take", "put", "avail"},
         pFree' = pFree, pNext' = pNext, availBufNum' = availBufNum, held' = held
  PROVE  FramesInv' /\ ListsInv'
<1>1. stack # <<>> /\ Running.pc = pc /\ Running \in Calls
  BY RunningIsCall DEF At, FullInv, PoolInv
<1> DEFINE d == [c EXCEPT !.pc = qc]
<1>2. /\ d \in Calls /\ d.pc = qc /\ stack' = [stack EXCEPT ![Len(stack)] = d]
      /\ d.op = Running.op /\ d.pool = Running.pool /\ d.buf = Running.buf
  BY PcSet DEF To
<1> HIDE DEF d
<1>3. FramesInv'
  <2>1. MyFree(d) => held'[d.buf] = 1
    <3>1. MyFree(d) => MyFree(Running)
      BY <1>1, <1>2, "my" # "ev" DEF MyFree
    <3> QED
      BY <3>1, <1>1, <1>2, RunningFrame DEF FullInv
  <2>2. \A i \in 1 .. Len(stack) - 1 : MyFree(stack[i]) => held'[stack[i].buf] = 1
    BY <1>1, OthersHeld DEF FullInv
  <2>3. d.buf # NULL => d.buf.pool = d.pool
    BY <1>1, <1>2, RunningFrame DEF FullInv
  <2> QED
    BY <1>1, <1>2, <2>1, <2>2, <2>3, FramesMove DEF FullInv
<1>4. stack' # <<>> /\ Running' = d
  BY <1>1, <1>2, CallGoesOn DEF FullInv, PoolInv, PoolTypeOK
<1>5. ~At("take")' /\ ~At("put")' /\ ~At("avail")' /\ ~At("avail")
  BY <1>1, <1>2, <1>4 DEF At
<1>6. ListsInv'
  BY <1>5, ListsRest DEF FullInv
<1> QED
  BY <1>3, <1>6

(* How the calls move on outside of the changes *)
(* myCsEnter looks at the nesting. *)
LEMMA MovesTestNesting == ASSUME FullInv, TestNesting PROVE FramesInv' /\ ListsInv'
<1> DEFINE qc == IF myCsNesting = 0 THEN "off" ELSE "count"
<1>1. At("test") /\ To(Running, qc)
      /\ pFree' = pFree /\ pNext' = pNext /\ availBufNum' = availBufNum /\ held' = held
  BY DEF TestNesting
<1>2. Running \in Calls
  BY <1>1, RunningIsCall DEF At, FullInv, PoolInv
<1>3. qc \in MyPcs \cup EvPcs /\ qc \notin {"take", "put", "avail"}
  BY DEF MyPcs
<1> QED
  BY <1>1, <1>2, <1>3, Moves DEF BeforePut

(* core_interrupt_disable saves the register. *)
LEMMA MovesSaveMie == ASSUME FullInv, SaveMie PROVE FramesInv' /\ ListsInv'
<1> DEFINE c == [Running EXCEPT !.r = mie]
<1>1. At("save") /\ To(c, "off")
      /\ pFree' = pFree /\ pNext' = pNext /\ availBufNum' = availBufNum /\ held' = held
  BY DEF SaveMie
<1>2. /\ stack # <<>> /\ Running \in Calls /\ Running.pc = "save" /\ CallOK(Running)
      /\ mie = TRUE
  BY <1>1, AtLabel, Labels, Zenon DEF FullInv
<1>3. c \in Calls /\ c.op = Running.op /\ c.pool = Running.pool /\ c.buf = Running.buf
  BY <1>2 DEF Calls
<1>4. Running.pool = "ev"
  BY <1>2, Labels, PoolOfCall, Zenon DEF CallOK
<1>5. "off" \in MyPcs \cup EvPcs
  BY DEF MyPcs
<1> HIDE DEF c
<1> QED
  BY <1>1, <1>3, <1>4, <1>5, Moves

(* Interrupts go off. *)
LEMMA MovesDisable == ASSUME FullInv, DisableInterrupts PROVE FramesInv' /\ ListsInv'
<1> DEFINE qc == IF Running.pool = "my" THEN "count" ELSE "work"
<1>1. At("off") /\ To(Running, qc)
      /\ pFree' = pFree /\ pNext' = pNext /\ availBufNum' = availBufNum /\ held' = held
  BY DEF DisableInterrupts
<1>2. Running \in Calls
  BY <1>1, RunningIsCall DEF At, FullInv, PoolInv
<1>3. qc \in MyPcs \cup EvPcs /\ qc \notin {"take", "put", "avail"}
  BY DEF MyPcs
<1> QED
  BY <1>1, <1>2, <1>3, Moves DEF BeforePut

(* myCsEnter counts the section. *)
LEMMA MovesCount == ASSUME FullInv, CountSection PROVE FramesInv' /\ ListsInv'
<1>1. At("count") /\ To(Running, "work")
      /\ pFree' = pFree /\ pNext' = pNext /\ availBufNum' = availBufNum /\ held' = held
  BY DEF CountSection
<1>2. Running \in Calls
  BY <1>1, RunningIsCall DEF At, FullInv, PoolInv
<1>3. "work" \in MyPcs \cup EvPcs
  BY DEF MyPcs
<1> QED
  BY <1>1, <1>2, <1>3, Moves DEF BeforePut

(* myCsExit counts back, irq_restore restores. *)
LEMMA MovesLeave == ASSUME FullInv, Leave PROVE FramesInv' /\ ListsInv'
<1>1. At("leave") /\ (To(Running, "on") \/ To(Running, "left") \/ To(Running, "done"))
      /\ pFree' = pFree /\ pNext' = pNext /\ availBufNum' = availBufNum /\ held' = held
  BY DEF Leave
<1>2. Running \in Calls
  BY <1>1, RunningIsCall DEF At, FullInv, PoolInv
<1>3. PICK qc \in {"on", "left", "done"} : To(Running, qc)
  BY <1>1
<1>4. qc \in MyPcs \cup EvPcs
  BY DEF MyPcs
<1> QED
  BY <1>1, <1>2, <1>3, <1>4, Moves DEF BeforePut

(* Interrupts go on. *)
LEMMA MovesEnable == ASSUME FullInv, EnableInterrupts PROVE FramesInv' /\ ListsInv'
<1>1. At("on") /\ To(Running, "left")
      /\ pFree' = pFree /\ pNext' = pNext /\ availBufNum' = availBufNum /\ held' = held
  BY DEF EnableInterrupts
<1>2. Running \in Calls
  BY <1>1, RunningIsCall DEF At, FullInv, PoolInv
<1>3. "left" \in MyPcs \cup EvPcs
  BY DEF MyPcs
<1> QED
  BY <1>1, <1>2, <1>3, Moves DEF BeforePut

(* myBufAlloc goes on to the next size or returns. *)
LEMMA MovesNextSize == ASSUME FullInv, NextSize PROVE FramesInv' /\ ListsInv'
<1>1. At("left")
      /\ pFree' = pFree /\ pNext' = pNext /\ availBufNum' = availBufNum /\ held' = held
  BY DEF NextSize
<1>2. Running \in Calls
  BY <1>1, RunningIsCall DEF At, FullInv, PoolInv
<1>3. "test" \in MyPcs \cup EvPcs /\ "done" \in MyPcs \cup EvPcs
  BY DEF MyPcs
<1>4. CASE Running.op = "alloc" /\ Running.buf = NULL /\ Running.group + 1 \in Groups
  <2> DEFINE c == [Running EXCEPT !.group = @ + 1]
  <2>1. To(c, "test")
    BY <1>4 DEF NextSize
  <2>2. c \in Calls /\ c.op = Running.op /\ c.pool = Running.pool /\ c.buf = Running.buf
    BY <1>2, <1>4 DEF Calls
  <2> HIDE DEF c
  <2> QED
    BY <1>1, <1>3, <1>4, <2>1, <2>2, Moves
<1>5. CASE ~(Running.op = "alloc" /\ Running.buf = NULL /\ Running.group + 1 \in Groups)
  <2>1. To(Running, "done")
    BY <1>5, Zenon DEF NextSize
  <2> QED
    BY <1>1, <1>2, <1>3, <2>1, Moves DEF BeforePut
<1> QED
  BY <1>4, <1>5

(* A second free of an ev buffer changes nothing. *)
LEMMA MovesFreedTwice == ASSUME FullInv, FreedTwice PROVE FramesInv' /\ ListsInv'
<1>1. At("work") /\ To(Running, "leave")
      /\ pFree' = pFree /\ pNext' = pNext /\ availBufNum' = availBufNum /\ held' = held
  BY DEF FreedTwice
<1>2. Running \in Calls
  BY <1>1, RunningIsCall DEF At, FullInv, PoolInv
<1>3. "leave" \in MyPcs \cup EvPcs
  BY DEF MyPcs
<1> QED
  BY <1>1, <1>2, <1>3, Moves DEF BeforePut

(* A caller frees what it holds, and nothing a call under way has in hand. *)
LEMMA RequestFrame ==
  ASSUME NEW c \in Requests, stack \in Seq(Calls)
  PROVE  /\ c.buf # NULL => c.buf.pool = c.pool
         /\ MyFree(c) => held[c.buf] = 1
         /\ c.op = "free" => \A i \in 1 .. Len(stack) : stack[i].buf # c.buf
<1>1. CASE \E l \in Lists : c = Call("alloc", l[1], l[2], NULL)
  BY <1>1 DEF Call, MyFree
<1>2. CASE \E b \in Bufs : /\ c = Call("free", b.pool, b.group, b)
                           /\ held[b] = 1 \/ b.pool = "ev"
                           /\ \A i \in DOMAIN stack : stack[i].buf # b
  <2>1. PICK b \in Bufs : /\ c = Call("free", b.pool, b.group, b)
                          /\ held[b] = 1 \/ b.pool = "ev"
                          /\ \A i \in DOMAIN stack : stack[i].buf # b
    BY <1>2
  <2>2. c.pool = b.pool /\ c.buf = b
    BY <2>1 DEF Call
  <2>3. DOMAIN stack = 1 .. Len(stack)
    BY LenProperties
  <2> QED
    BY <2>1, <2>2, <2>3, "my" # "ev" DEF MyFree
<1> QED
  BY <1>1, <1>2 DEF Requests

(* A call begins. *)
LEMMA FramesPush ==
  ASSUME PoolInv, FramesInv, NEW c \in Requests, Len(stack') = Len(stack) + 1,
         stack'[Len(stack) + 1] = c, \A i \in 1 .. Len(stack) : stack'[i] = stack[i],
         held' = held
  PROVE  FramesInv'
<1>1. stack \in Seq(Calls) /\ Len(stack) \in Nat
  BY DEF PoolInv, PoolTypeOK
<1>2. /\ c.buf # NULL => c.buf.pool = c.pool
      /\ MyFree(c) => held[c.buf] = 1
      /\ c.op = "free" => \A i \in 1 .. Len(stack) : stack[i].buf # c.buf
  BY <1>1, RequestFrame
<1>3. \A i \in 1 .. Len(stack') : i = Len(stack) + 1 \/ i \in 1 .. Len(stack)
  BY <1>1
<1>4. OfItsPool'
  <2> SUFFICES ASSUME NEW i \in 1 .. Len(stack'), stack'[i].buf # NULL
               PROVE  stack'[i].buf.pool = stack'[i].pool
    BY DEF OfItsPool
  <2>1. CASE i = Len(stack) + 1
    BY <1>2, <2>1
  <2>2. CASE i \in 1 .. Len(stack)
    BY <2>2 DEF FramesInv, OfItsPool
  <2> QED
    BY <1>3, <2>1, <2>2
<1>5. FreesDiffer'
  <2> SUFFICES ASSUME NEW i \in 1 .. Len(stack'), NEW j \in 1 .. Len(stack'), i # j,
                      stack'[i].op = "free", stack'[j].op = "free"
               PROVE  stack'[i].buf # stack'[j].buf
    BY DEF FreesDiffer
  <2>1. CASE i \in 1 .. Len(stack) /\ j \in 1 .. Len(stack)
    BY <2>1 DEF FramesInv, FreesDiffer
  <2>2. CASE i = Len(stack) + 1 /\ j \in 1 .. Len(stack)
    BY <1>2, <2>2
  <2>3. CASE j = Len(stack) + 1 /\ i \in 1 .. Len(stack)
    BY <1>2, <2>3
  <2> QED
    BY <1>3, <2>1, <2>2, <2>3
<1>6. FreesHeld'
  <2> SUFFICES ASSUME NEW i \in 1 .. Len(stack'), MyFree(stack'[i])
               PROVE  held[stack'[i].buf] = 1
    BY DEF FreesHeld, MyFree
  <2>1. CASE i = Len(stack) + 1
    BY <1>2, <2>1
  <2>2. CASE i \in 1 .. Len(stack)
    BY <2>2 DEF FramesInv, FreesHeld
  <2> QED
    BY <1>3, <2>1, <2>2
<1> QED
  BY <1>4, <1>5, <1>6 DEF FramesInv

(* The main loop calls. *)
LEMMA MovesMainCall == ASSUME FullInv, MainCall PROVE FramesInv' /\ ListsInv'
<1>1. PICK c \in Requests : stack' = <<c>>
  BY DEF MainCall
<1>2. /\ stack = <<>> /\ Len(stack) = 0
      /\ pFree' = pFree /\ pNext' = pNext /\ availBufNum' = availBufNum /\ held' = held
  BY DEF MainCall
<1>3. c \in Calls /\ c.pc \in {"test", "save"}
  BY RequestTyped
<1>4. Len(stack') = 1 /\ stack'[1] = c /\ stack' # <<>> /\ Running' = c
  BY <1>1, <1>3 DEF Running
<1>5. FramesInv'
  BY <1>2, <1>4, FramesPush DEF FullInv
<1>6. ~At("avail") /\ ~At("take")' /\ ~At("put")' /\ ~At("avail")'
  BY <1>2, <1>3, <1>4 DEF At
<1> QED
  BY <1>2, <1>5, <1>6, ListsRest DEF FullInv

(* An interrupt's handler calls. *)
LEMMA MovesInterrupt == ASSUME FullInv, Interrupt PROVE FramesInv' /\ ListsInv'
<1>1. PICK c \in Requests : stack' = Append(stack, c)
  BY DEF Interrupt
<1>2. /\ stack # <<>>
      /\ pFree' = pFree /\ pNext' = pNext /\ availBufNum' = availBufNum /\ held' = held
  BY DEF Interrupt
<1>3. c \in Calls /\ c.pc \in {"test", "save"}
  BY RequestTyped
<1>4. stack \in Seq(Calls) /\ Len(stack) \in Nat
  BY DEF FullInv, PoolInv, PoolTypeOK
<1>5. /\ Len(stack') = Len(stack) + 1 /\ stack'[Len(stack) + 1] = c /\ stack' # <<>>
      /\ Running' = c
  BY <1>1, <1>3, <1>4 DEF Running
<1>6. \A i \in 1 .. Len(stack) : stack'[i] = stack[i]
  BY <1>1, <1>3, <1>4
<1>7. FramesInv'
  BY <1>2, <1>5, <1>6, FramesPush DEF FullInv
<1>8. ~At("take")' /\ ~At("put")' /\ ~At("avail")'
  BY <1>3, <1>5 DEF At
<1>9. ~At("avail")
  <2>1. mie = TRUE
    BY Zenon DEF FullInv, PoolInv, SectionInv, MieIsShut, Interrupt, InterruptsOn
  <2>2. Running.pc \notin Shut
    BY <1>2, <2>1, Zenon DEF FullInv, PoolInv, SectionInv, MieIsShut
  <2> QED
    BY <2>2 DEF At, Shut
<1> QED
  BY <1>2, <1>7, <1>8, <1>9, ListsRest DEF FullInv

(* A call returns, to what it interrupted. *)
LEMMA MovesReturn == ASSUME FullInv, Return PROVE FramesInv' /\ ListsInv'
<1>1. /\ At("done") /\ stack' = SubSeq(stack, 1, Len(stack) - 1)
      /\ pFree' = pFree /\ pNext' = pNext /\ availBufNum' = availBufNum /\ held' = held
  BY DEF Return
<1>2. stack # <<>> /\ Running.pc = "done"
  BY <1>1 DEF At
<1>3. stack \in Seq(Calls) /\ Len(stack) \in Nat /\ Len(stack) > 0
  BY <1>2, RunningIsCall DEF FullInv, PoolInv, PoolTypeOK
<1>4. /\ Len(stack') = Len(stack) - 1
      /\ \A i \in 1 .. Len(stack) - 1 : stack'[i] = stack[i] /\ i \in 1 .. Len(stack)
  <2> DEFINE n == Len(stack) - 1
  <2>1. n \in Nat /\ 1 .. n \subseteq 1 .. Len(stack)
    BY <1>3
  <2>2. \A i \in 1 .. n : stack[i] \in Calls
    BY <1>3, <2>1
  <2>3. stack' = SubSeq(stack, 1, n)
    BY <1>1
  <2> HIDE DEF n
  <2>4. /\ Len(stack') = IF 1 <= n THEN n - 1 + 1 ELSE 0
        /\ \A i \in 1 .. n - 1 + 1 : stack'[i] = stack[1 + i - 1]
    BY <2>1, <2>2, <2>3, SubSeqProperties
  <2>5. Len(stack') = n
    BY <2>1, <2>4
  <2>6. \A i \in 1 .. n : stack'[i] = stack[i]
    BY <2>1, <2>4
  <2> QED
    BY <2>1, <2>5, <2>6 DEF n
<1>5. OfItsPool'
  BY <1>4 DEF FullInv, FramesInv, OfItsPool
<1>6. FreesDiffer'
  BY <1>4 DEF FullInv, FramesInv, FreesDiffer
<1>7. FreesHeld'
  BY <1>1, <1>4 DEF FullInv, FramesInv, FreesHeld, MyFree
<1>8. ~At("avail")
  BY <1>2 DEF At
<1>9. stack' # <<>> => Running'.pc \notin Shut
  <2> HAVE stack' # <<>>
  <2>1. stack' \in Seq(Calls)
    BY KeepsReturn DEF FullInv, PoolInv, PoolTypeOK
  <2>2. Len(stack') \in 1 .. Len(stack) - 1
    BY <1>3, <1>4, <2>1
  <2>3. Running' = stack[Len(stack')]
    BY <1>4, <2>2 DEF Running
  <2> QED
    BY <2>2, <2>3 DEF FullInv, PoolInv, SectionInv, OthersOutside
<1>10. ~At("take")' /\ ~At("put")' /\ ~At("avail")'
  BY <1>9 DEF At, Shut
<1> QED
  BY <1>1, <1>5, <1>6, <1>7, <1>8, <1>10, ListsRest DEF FullInv, FramesInv

(* The head of a list is one of its buffers. *)
LEMMA HeadOfList ==
  ASSUME ChainsInv, NEW l \in Lists, pFree[l] # NULL
  PROVE  pFree[l] \in BufsOf(l) /\ pFree[l] \in Bufs /\ ListOf(pFree[l]) = l
<1>0. PICK n \in Nat : \E s : ChainIs(l, n, s)
  BY DEF ChainsInv, Chained
<1>1. PICK s : ChainIs(l, n, s)
  BY <1>0
<1>2. n # 0 /\ 1 \in 1 .. n
  BY <1>1 DEF ChainIs
<1>3. pFree[l] \in BufsOf(l)
  BY <1>1, <1>2 DEF ChainIs
<1> QED
  BY <1>3, BufsTyped

(* What Look finds is the head of a list of the call's pool. *)
LEMMA FirstFreeIs ==
  ASSUME PoolTypeOK, ChainsInv, NEW c \in Calls, FirstFree(c) # NULL
  PROVE  /\ FirstFree(c) \in Bufs /\ FirstFree(c).pool = c.pool
         /\ pFree[ListOf(FirstFree(c))] = FirstFree(c)
<1>1. c.pool \in {"my", "ev"} /\ c.group \in Groups
  BY DEF Calls
<1>2. Groups \subseteq Nat
  BY PoolsAssumed
<1>3. Fitting(c) \subseteq Groups
  BY <1>1 DEF Fitting
<1>4. Fitting(c) # {}
  BY DEF FirstFree
<1>5. \E g \in Fitting(c) : \A h \in Fitting(c) : g <= h
  BY <1>2, <1>3, <1>4, LeastExists
<1> DEFINE g == CHOOSE x \in Fitting(c) : \A h \in Fitting(c) : x <= h
<1>6. g \in Groups
  BY <1>3, <1>5
<1>7. FirstFree(c) = pFree[<<c.pool, g>>]
  BY <1>4 DEF FirstFree
<1> HIDE DEF g
<1>8. <<c.pool, g>> \in Lists
  BY <1>1, <1>6 DEF Lists
<1>9. FirstFree(c) \in Bufs /\ ListOf(FirstFree(c)) = <<c.pool, g>>
  BY <1>7, <1>8, HeadOfList
<1>10. FirstFree(c).pool = c.pool
  BY <1>9 DEF ListOf
<1> QED
  BY <1>7, <1>9, <1>10

(* The allocation looks at the heads. *)
LEMMA MovesLook == ASSUME FullInv, Look PROVE FramesInv' /\ ListsInv'
<1> DEFINE c == [Running EXCEPT !.buf = FirstFree(Running)]
           pc == IF FirstFree(Running) = NULL THEN "leave" ELSE "take"
<1>1. /\ At("work") /\ Running.op = "alloc" /\ To(c, pc)
      /\ pFree' = pFree /\ pNext' = pNext /\ availBufNum' = availBufNum /\ held' = held
  BY DEF Look, WhenNone
<1>2. stack # <<>> /\ Running \in Calls /\ Running.pc = "work"
  BY <1>1, RunningIsCall DEF At, FullInv, PoolInv
<1>3. FirstFree(Running) \in Bufs \cup {NULL}
  BY <1>2, FirstFreeTyped DEF FullInv, PoolInv
<1>4. FirstFree(Running) # NULL => /\ FirstFree(Running) \in Bufs
                                   /\ FirstFree(Running).pool = Running.pool
                                   /\ pFree[ListOf(FirstFree(Running))] = FirstFree(Running)
  BY <1>2, FirstFreeIs DEF FullInv, PoolInv, ListsInv
<1>5. c \in Calls /\ c.op = "alloc" /\ c.pool = Running.pool /\ c.buf = FirstFree(Running)
  BY <1>1, <1>2, <1>3 DEF Calls
<1>6. pc \in {"leave", "take"} /\ (pc = "take" => c.buf # NULL) /\ pc \in MyPcs \cup EvPcs
  BY <1>5 DEF MyPcs
<1> HIDE DEF c, pc
<1> DEFINE d == [c EXCEPT !.pc = pc]
<1>7. /\ d \in Calls /\ d.pc = pc /\ stack' = [stack EXCEPT ![Len(stack)] = d]
      /\ d.op = "alloc" /\ d.pool = Running.pool /\ d.buf = FirstFree(Running)
  BY <1>1, <1>5, <1>6, PcSet DEF To
<1> HIDE DEF d
<1>8. FramesInv'
  <2>1. ~MyFree(d)
    BY <1>7 DEF MyFree
  <2>2. \A i \in 1 .. Len(stack) - 1 : MyFree(stack[i]) => held'[stack[i].buf] = 1
    BY <1>1, <1>2, OthersHeld DEF FullInv
  <2> QED
    BY <1>1, <1>2, <1>4, <1>7, <2>1, <2>2, FramesMove DEF FullInv
<1>9. stack' # <<>> /\ Running' = d
  BY <1>2, <1>7, CallGoesOn DEF FullInv, PoolInv, PoolTypeOK
<1>10. ~At("put")' /\ ~At("avail")' /\ ~At("avail") /\ ~At("take") /\ ~At("put")
  BY <1>2, <1>6, <1>7, <1>9 DEF At
<1>11. HeldTyped' /\ ChainsInv'
  BY <1>1 DEF FullInv, ListsInv, HeldTyped, ChainsInv, Chained, ChainIs, LinkedTo, AllNotHeld,
              EachOnce
<1>12. AvailIs'
  <2>1. \A g \in Groups : Counting(g) = 0 /\ Counting(g)' = 0
    BY <1>10 DEF Counting
  <2>2. \A g \in Groups : FreeEv(g)' = FreeEv(g)
    BY <1>1 DEF FreeEv
  <2> QED
    BY <1>1, <2>1, <2>2 DEF FullInv, ListsInv, AvailIs
<1>13. TakeInv'
  <2> SUFFICES ASSUME At("take")'
               PROVE  /\ Running'.op = "alloc" /\ Running'.buf \in Bufs
                      /\ pFree'[ListOf(Running'.buf)] = Running'.buf
    BY DEF TakeInv, ListOf
  <2>1. pc = "take"
    BY <1>7, <1>9 DEF At
  <2>2. FirstFree(Running) # NULL
    BY <1>5, <1>6, <2>1
  <2> QED
    BY <1>1, <1>4, <1>7, <1>9, <2>2
<1>14. PutInv'
  BY <1>10 DEF PutInv
<1> QED
  BY <1>8, <1>11, <1>12, <1>13, <1>14 DEF ListsInv

(* The changes *)
(* Taking the head of a list leaves the rest of it. *)
LEMMA ChainTaken ==
  ASSUME ListsInv, PoolTypeOK, NEW b \in Bufs, NEW l \in Lists, ListOf(b) = l, pFree[l] = b,
         pFree' = [pFree EXCEPT ![l] = pNext[b]], pNext' = pNext,
         held' = [held EXCEPT ![b] = @ + 1]
  PROVE  Chained(l)' /\ held[b] = 0
<1>0. PICK n \in Nat : \E s : ChainIs(l, n, s)
  BY DEF ListsInv, ChainsInv, Chained
<1>1. PICK s : ChainIs(l, n, s)
  BY <1>0
<1>2. b # NULL /\ b \in BufsOf(l)
  BY BufsTyped
<1>3. n # 0 /\ s[1] = b /\ n - 1 \in Nat /\ 1 \in 1 .. n
  BY <1>1, <1>2 DEF ChainIs
<1>4. held[b] = 0
  BY <1>1, <1>2, <1>3 DEF ChainIs, AllNotHeld
<1>5. held'[b] = 1 /\ \A x \in BufsOf(l) : x # b => held'[x] = held[x]
  BY <1>2, <1>4, BufsTyped DEF ListsInv, HeldTyped
<1> DEFINE k == n - 1
           r == [i \in 1 .. k |-> s[i + 1]]
<1>6. \A i \in 1 .. k : i + 1 \in 1 .. n /\ r[i] = s[i + 1] /\ i + 1 # 1
  BY <1>3
<1>7. r \in [1 .. k -> BufsOf(l)]
  BY <1>1, <1>6 DEF ChainIs
<1>8. pFree'[l] = IF k = 0 THEN NULL ELSE r[1]
  <2>1. pFree'[l] = pNext[b]
    BY DEF PoolTypeOK
  <2>2. pNext[b] = IF 1 = n THEN NULL ELSE s[1 + 1]
    BY <1>1, <1>3 DEF ChainIs, LinkedTo
  <2>3. k # 0 => 1 \in 1 .. k
    BY <1>3
  <2>4. k = 0 <=> 1 = n
    BY <1>3
  <2> QED
    BY <1>6, <2>1, <2>2, <2>3, <2>4
<1>9. LinkedTo(k, r)'
  <2> SUFFICES ASSUME NEW i \in 1 .. k PROVE pNext[r[i]] = IF i = k THEN NULL ELSE r[i + 1]
    BY DEF LinkedTo
  <2>1. pNext[s[i + 1]] = IF i + 1 = n THEN NULL ELSE s[(i + 1) + 1]
    BY <1>1, <1>6 DEF ChainIs, LinkedTo
  <2>2. i = k <=> i + 1 = n
    BY <1>3
  <2>3. i # k => i + 1 \in 1 .. k
    BY <1>3
  <2>4. i # k => r[i + 1] = s[(i + 1) + 1]
    BY <1>6, <2>3
  <2> QED
    BY <1>6, <2>1, <2>2, <2>4
<1>10. EachOnce(k, r)'
  <2> SUFFICES ASSUME NEW i \in 1 .. k, NEW j \in 1 .. k, r[i] = r[j] PROVE i = j
    BY DEF EachOnce
  <2>1. i + 1 = j + 1
    BY <1>1, <1>6 DEF ChainIs, EachOnce
  <2> QED
    BY <2>1
<1>11. AllNotHeld(l, k, r)'
  <2> SUFFICES ASSUME NEW x \in BufsOf(l)
               PROVE  held'[x] = 0 <=> \E i \in 1 .. k : r[i] = x
    BY DEF AllNotHeld, BufsOf
  <2>1. CASE x = b
    <3>1. ASSUME NEW i \in 1 .. k, r[i] = b PROVE FALSE
      <4>1. s[i + 1] = s[1] /\ i + 1 \in 1 .. n /\ i + 1 # 1
        BY <1>3, <1>6, <3>1
      <4> QED
        BY <1>1, <1>3, <4>1 DEF ChainIs, EachOnce
    <3> QED
      BY <1>5, <2>1, <3>1
  <2>2. CASE x # b
    <3>1. held'[x] = 0 <=> \E i \in 1 .. n : s[i] = x
      BY <1>1, <1>5, <2>2 DEF ChainIs, AllNotHeld
    <3>2. ASSUME NEW i \in 1 .. n, s[i] = x PROVE \E j \in 1 .. k : r[j] = x
      <4>1. i - 1 \in 1 .. k /\ (i - 1) + 1 = i
        BY <1>3, <2>2, <3>2
      <4>2. r[i - 1] = x
        BY <1>6, <3>2, <4>1
      <4> QED
        BY <4>1, <4>2
    <3>3. ASSUME NEW j \in 1 .. k, r[j] = x PROVE \E i \in 1 .. n : s[i] = x
      BY <1>6, <3>3
    <3> QED
      BY <3>1, <3>2, <3>3
  <2> QED
    BY <2>1, <2>2
<1> HIDE DEF r
<1>12. ChainIs(l, k, r)'
  BY <1>7, <1>8, <1>9, <1>10, <1>11 DEF ChainIs, BufsOf
<1> QED
  BY <1>3, <1>4, <1>12 DEF Chained

(* Putting a linked buffer to the head of its list *)
LEMMA ChainPut ==
  ASSUME ListsInv, PoolTypeOK, NEW b \in Bufs, NEW l \in Lists, ListOf(b) = l, pNext[b] = pFree[l],
         held[b] = 1, pFree' = [pFree EXCEPT ![l] = b], pNext' = pNext,
         held' = [held EXCEPT ![b] = IF @ = 0 THEN 0 ELSE @ - 1]
  PROVE  Chained(l)'
<1>0. PICK n \in Nat : \E s : ChainIs(l, n, s)
  BY DEF ListsInv, ChainsInv, Chained
<1>1. PICK s : ChainIs(l, n, s)
  BY <1>0
<1>2. b # NULL /\ b \in BufsOf(l)
  BY BufsTyped
<1>3. \A i \in 1 .. n : s[i] # b
  BY <1>1, <1>2 DEF ChainIs, AllNotHeld
<1>4. held'[b] = 0 /\ \A x \in BufsOf(l) : x # b => held'[x] = held[x]
  BY <1>2, BufsTyped DEF ListsInv, HeldTyped
<1> DEFINE k == n + 1
           r == [i \in 1 .. k |-> IF i = 1 THEN b ELSE s[i - 1]]
<1>5. k \in Nat /\ k # 0 /\ 1 \in 1 .. k /\ r[1] = b
  OBVIOUS
<1>6. \A i \in 1 .. k : i # 1 => i - 1 \in 1 .. n /\ r[i] = s[i - 1]
  OBVIOUS
<1>7. r \in [1 .. k -> BufsOf(l)]
  <2>1. \A i \in 1 .. k : r[i] \in BufsOf(l)
    BY <1>1, <1>2, <1>5, <1>6 DEF ChainIs
  <2> QED
    BY <2>1
<1>8. pFree'[l] = r[1]
  BY <1>5 DEF PoolTypeOK
<1>9. LinkedTo(k, r)'
  <2> SUFFICES ASSUME NEW i \in 1 .. k PROVE pNext[r[i]] = IF i = k THEN NULL ELSE r[i + 1]
    BY DEF LinkedTo
  <2>1. CASE i = 1
    <3>1. pNext[r[i]] = IF n = 0 THEN NULL ELSE s[1]
      BY <1>1, <1>5, <2>1 DEF ChainIs
    <3>2. n = 0 <=> 1 = k
      OBVIOUS
    <3>3. n # 0 => 2 \in 1 .. k /\ 2 # 1 /\ 2 - 1 = 1 /\ 1 + 1 = 2
      OBVIOUS
    <3>4. n # 0 => r[1 + 1] = s[1]
      BY <1>6, <3>3
    <3> QED
      BY <2>1, <3>1, <3>2, <3>4
  <2>2. CASE i # 1
    <3>1. i - 1 \in 1 .. n /\ r[i] = s[i - 1] /\ (i - 1) + 1 = i /\ (i - 1 = n <=> i = k)
      BY <1>6, <2>2
    <3>2. pNext[s[i - 1]] = IF i - 1 = n THEN NULL ELSE s[(i - 1) + 1]
      BY <1>1, <3>1 DEF ChainIs, LinkedTo
    <3>3. i # k => i + 1 \in 1 .. k /\ i + 1 # 1 /\ (i + 1) - 1 = i
      BY <2>2
    <3>4. i # k => r[i + 1] = s[i]
      BY <1>6, <3>3
    <3> QED
      BY <3>1, <3>2, <3>4
  <2> QED
    BY <2>1, <2>2
<1>10. EachOnce(k, r)'
  <2> SUFFICES ASSUME NEW i \in 1 .. k, NEW j \in 1 .. k, r[i] = r[j] PROVE i = j
    BY DEF EachOnce
  <2>1. CASE i # 1 /\ j # 1
    <3>1. i - 1 \in 1 .. n /\ j - 1 \in 1 .. n /\ s[i - 1] = s[j - 1]
      BY <1>6, <2>1
    <3>2. i - 1 = j - 1
      BY <1>1, <3>1 DEF ChainIs, EachOnce
    <3> QED
      BY <3>2
  <2>2. CASE i = 1 /\ j # 1
    BY <1>3, <1>5, <1>6, <2>2
  <2>3. CASE j = 1 /\ i # 1
    BY <1>3, <1>5, <1>6, <2>3
  <2> QED
    BY <2>1, <2>2, <2>3
<1>11. AllNotHeld(l, k, r)'
  <2> SUFFICES ASSUME NEW x \in BufsOf(l)
               PROVE  held'[x] = 0 <=> \E i \in 1 .. k : r[i] = x
    BY DEF AllNotHeld, BufsOf
  <2>1. CASE x = b
    BY <1>4, <1>5, <2>1
  <2>2. CASE x # b
    <3>1. held'[x] = 0 <=> \E i \in 1 .. n : s[i] = x
      BY <1>1, <1>4, <2>2 DEF ChainIs, AllNotHeld
    <3>2. ASSUME NEW i \in 1 .. n, s[i] = x PROVE \E j \in 1 .. k : r[j] = x
      <4>1. i + 1 \in 1 .. k /\ i + 1 # 1 /\ (i + 1) - 1 = i
        OBVIOUS
      <4>2. r[i + 1] = x
        BY <1>6, <3>2, <4>1
      <4> QED
        BY <4>1, <4>2
    <3>3. ASSUME NEW j \in 1 .. k, r[j] = x PROVE \E i \in 1 .. n : s[i] = x
      <4>1. j # 1
        BY <1>5, <2>2, <3>3
      <4> QED
        BY <1>6, <3>3, <4>1
    <3> QED
      BY <3>1, <3>2, <3>3
  <2> QED
    BY <2>1, <2>2
<1> HIDE DEF r
<1>12. ChainIs(l, k, r)'
  BY <1>5, <1>7, <1>8, <1>9, <1>10, <1>11 DEF ChainIs, BufsOf
<1> QED
  BY <1>5, <1>12 DEF Chained

(* The innermost call goes on to a label with what it has in hand. *)
LEMMA RunningTo ==
  ASSUME PoolInv, FramesInv, NEW pc, At(pc), NEW qc \in MyPcs \cup EvPcs, To(Running, qc),
         Running.op = "free" /\ Running.pool = "my" =>
           qc \notin BeforePut \/ held'[Running.buf] = 1,
         \A i \in 1 .. Len(stack) - 1 : MyFree(stack[i]) => held'[stack[i].buf] = 1
  PROVE  /\ FramesInv'
         /\ stack # <<>> /\ Running \in Calls /\ Running.pc = pc
         /\ stack' # <<>> /\ Running'.pc = qc
         /\ Running'.op = Running.op /\ Running'.pool = Running.pool /\ Running'.buf = Running.buf
<1>1. stack # <<>> /\ Running.pc = pc /\ Running \in Calls
  BY RunningIsCall DEF At, PoolInv
<1> DEFINE d == [Running EXCEPT !.pc = qc]
<1>2. /\ d \in Calls /\ d.pc = qc /\ stack' = [stack EXCEPT ![Len(stack)] = d]
      /\ d.op = Running.op /\ d.pool = Running.pool /\ d.buf = Running.buf
  BY <1>1, PcSet DEF To
<1> HIDE DEF d
<1>3. MyFree(d) => held'[d.buf] = 1
  BY <1>2 DEF MyFree
<1>4. d.buf # NULL => d.buf.pool = d.pool
  BY <1>1, <1>2, RunningFrame
<1>5. FramesInv'
  BY <1>1, <1>2, <1>3, <1>4, FramesMove
<1>6. stack' # <<>> /\ Running' = d
  BY <1>1, <1>2, CallGoesOn DEF PoolInv, PoolTypeOK
<1> QED
  BY <1>1, <1>2, <1>5, <1>6

(* A list that a change leaves alone *)
LEMMA ChainRest ==
  ASSUME NEW l \in Lists, Chained(l), pFree'[l] = pFree[l],
         \A b \in BufsOf(l) : /\ held[b] = 0 => pNext'[b] = pNext[b]
                              /\ held'[b] = 0 <=> held[b] = 0
  PROVE  Chained(l)'
<1>0. PICK n \in Nat : \E s : ChainIs(l, n, s)
  BY DEF Chained
<1>1. PICK s : ChainIs(l, n, s)
  BY <1>0
<1>2. \A i \in 1 .. n : s[i] \in BufsOf(l) /\ held[s[i]] = 0
  BY <1>1 DEF ChainIs, AllNotHeld
<1>3. LinkedTo(n, s)'
  BY <1>1, <1>2 DEF ChainIs, LinkedTo
<1>4. AllNotHeld(l, n, s)'
  BY <1>1 DEF ChainIs, AllNotHeld, BufsOf
<1>5. ChainIs(l, n, s)'
  BY <1>1, <1>3, <1>4 DEF ChainIs, EachOnce, BufsOf
<1> QED
  BY <1>5 DEF Chained

(* A change at the head of one list leaves the others alone. *)
LEMMA OtherChains ==
  ASSUME PoolTypeOK, ChainsInv, NEW b \in Bufs, NEW l \in Lists, l = ListOf(b), Chained(l)',
         NEW v, pFree' = [pFree EXCEPT ![l] = v], pNext' = pNext,
         \A x \in Bufs : x # b => held'[x] = held[x]
  PROVE  ChainsInv'
<1> SUFFICES ASSUME NEW k \in Lists PROVE Chained(k)'
  BY DEF ChainsInv
<1>1. CASE k # l
  <2>1. Chained(k)
    BY DEF ChainsInv
  <2>2. pFree'[k] = pFree[k]
    BY <1>1 DEF PoolTypeOK
  <2>3. \A x \in BufsOf(k) : x \in Bufs /\ x # b
    BY <1>1, BufsTyped
  <2>4. \A x \in BufsOf(k) : (held[x] = 0 => pNext'[x] = pNext[x]) /\ (held'[x] = 0 <=> held[x] = 0)
    BY <2>3
  <2> QED
    BY <2>1, <2>2, <2>4, ChainRest
<1> QED
  BY <1>1

(* The free ev buffers of a size are finitely many. *)
LEMMA FreeEvCount ==
  ASSUME NEW g \in Groups
  PROVE  /\ <<"ev", g>> \in Lists
         /\ IsFiniteSet(FreeEv(g)) /\ Cardinality(FreeEv(g)) \in Nat
<1>1. <<"ev", g>> \in Lists
  BY DEF Lists
<1>2. FreeEv(g) \subseteq BufsOf(<<"ev", g>>)
  BY DEF FreeEv
<1>3. IsFiniteSet(FreeEv(g))
  BY <1>1, <1>2, BufsCount, FS_Subset
<1> QED
  BY <1>1, <1>3, FS_CardinalityType

(* What is counted as available follows what is held: a buffer d is taken, or put
   back, and still to be counted when it is an ev buffer.                  *)
LEMMA AvailFollows ==
  ASSUME AvailIs, NEW b \in Bufs, availBufNum' = availBufNum, ~At("avail"),
         stack' # <<>>, Running'.buf = b,
         Running'.pc = (IF b.pool = "ev" THEN "avail" ELSE "leave"),
         Running'.op \in {"alloc", "free"},
         IF Running'.op = "alloc" THEN held[b] = 0 /\ held'[b] = 1 ELSE held[b] = 1 /\ held'[b] = 0,
         \A x \in Bufs : x # b => held'[x] = held[x]
  PROVE  AvailIs'
<1> SUFFICES ASSUME NEW g \in Groups
             PROVE  availBufNum[g] = Cardinality(FreeEv(g)') + Counting(g)'
  BY DEF AvailIs
<1>1. /\ availBufNum[g] = Cardinality(FreeEv(g))
      /\ IsFiniteSet(FreeEv(g)) /\ Cardinality(FreeEv(g)) \in Nat
  <2>1. IsFiniteSet(FreeEv(g)) /\ Cardinality(FreeEv(g)) \in Nat
    BY FreeEvCount
  <2>2. Counting(g) = 0
    BY DEF Counting
  <2>3. availBufNum[g] = Cardinality(FreeEv(g)) + Counting(g)
    BY DEF AvailIs
  <2> QED
    BY <2>1, <2>2, <2>3
<1>2. At("avail")' <=> b.pool = "ev"
  BY DEF At
<1>3. FreeEv(g)' = {x \in BufsOf(<<"ev", g>>) : held'[x] = 0}
  BY DEF FreeEv, BufsOf
<1>4. \A x \in BufsOf(<<"ev", g>>) : x \in Bufs /\ x.pool = "ev" /\ x.group = g
  <2>1. <<"ev", g>> \in Lists
    BY FreeEvCount
  <2>2. \A x \in BufsOf(<<"ev", g>>) : x \in Bufs /\ ListOf(x) = <<"ev", g>>
    BY <2>1, BufsTyped
  <2> QED
    BY <2>2 DEF ListOf
<1>5. CASE b.pool = "ev" /\ b.group = g
  <2>1. b \in BufsOf(<<"ev", g>>)
    <3>1. b \in BufsOf(ListOf(b))
      BY BufsTyped
    <3> QED
      BY <1>5, <3>1 DEF ListOf
  <2>2. CASE Running'.op = "alloc"
    <3>1. Counting(g)' = 1 /\ b \in FreeEv(g)
      BY <1>2, <1>5, <2>1, <2>2 DEF Counting, FreeEv
    <3>2. FreeEv(g)' = FreeEv(g) \ {b}
      BY <1>3, <1>4, <2>1, <2>2 DEF FreeEv
    <3>3. Cardinality(FreeEv(g)') = Cardinality(FreeEv(g)) - 1
      <4> DEFINE F == FreeEv(g)
      <4>1. IsFiniteSet(F) /\ b \in F
        BY <3>1, FreeEvCount
      <4>2. Cardinality(F \ {b}) = Cardinality(F) - 1
        <5> HIDE DEF F
        <5> QED
          BY <4>1, FS_RemoveElement
      <4> QED
        BY <3>2, <4>2, Zenon
    <3> QED
      BY <1>1, <3>1, <3>3
  <2>3. CASE Running'.op = "free"
    <3>1. Counting(g)' = -1 /\ b \notin FreeEv(g)
      BY <1>2, <1>5, <2>1, <2>3 DEF Counting, FreeEv
    <3>2. FreeEv(g)' = FreeEv(g) \cup {b}
      BY <1>3, <1>4, <2>1, <2>3 DEF FreeEv
    <3>3. Cardinality(FreeEv(g)') = Cardinality(FreeEv(g)) + 1
      <4> DEFINE F == FreeEv(g)
      <4>1. IsFiniteSet(F) /\ b \notin F
        BY <3>1, FreeEvCount
      <4>2. Cardinality(F \cup {b}) = Cardinality(F) + 1
        <5> HIDE DEF F
        <5> QED
          BY <4>1, FS_AddElement
      <4> QED
        BY <3>2, <4>2, Zenon
    <3> QED
      BY <1>1, <3>1, <3>3
  <2> QED
    BY <2>2, <2>3
<1>6. CASE ~(b.pool = "ev" /\ b.group = g)
  <2>1. Counting(g)' = 0
    BY <1>2, <1>6 DEF Counting
  <2>2. FreeEv(g)' = FreeEv(g)
    BY <1>3, <1>4, <1>6 DEF FreeEv
  <2> QED
    BY <1>1, <2>1, <2>2
<1> QED
  BY <1>5, <1>6

(* A buffer leaves its list. *)
LEMMA MovesTake == ASSUME FullInv, Take PROVE FramesInv' /\ ListsInv'
<1>1. PoolTypeOK /\ ListsInv /\ PoolInv /\ FramesInv /\ HeldTyped /\ ChainsInv /\ AvailIs
  BY DEF FullInv, PoolInv, ListsInv
<1>2. At("take") /\ stack # <<>>
  BY DEF Take, At
<1>3. Running.op = "alloc" /\ Running.buf \in Bufs /\ pFree[ListOf(Running.buf)] = Running.buf
  BY <1>1, <1>2 DEF ListsInv, TakeInv
<1>4. PICK b \in Bufs, l \in Lists, qc \in {"avail", "leave"} :
        /\ b = Running.buf /\ l = ListOf(b) /\ To(Running, qc)
        /\ qc = IF b.pool = "ev" THEN "avail" ELSE "leave"
  <2>1. ListOf(Running.buf) \in Lists /\ Running.buf.pool = Running.pool
    BY <1>1, <1>2, <1>3, BufsTyped, RunningFrame
  <2>2. To(Running, IF Running.buf.pool = "ev" THEN "avail" ELSE "leave")
    BY <2>1 DEF Take
  <2> QED
    BY <1>3, <2>1, <2>2
<1>5. /\ pFree' = [pFree EXCEPT ![l] = pNext[b]] /\ pNext' = pNext
      /\ held' = [held EXCEPT ![b] = @ + 1] /\ availBufNum' = availBufNum
  BY <1>4 DEF Take
<1>6. pFree[l] = b /\ b \in BufsOf(l) /\ b # NULL
  BY <1>3, <1>4, BufsTyped
<1>7. qc \in MyPcs \cup EvPcs
  BY DEF MyPcs, EvPcs
<1>8. Chained(l)' /\ held[b] = 0
  BY <1>1, <1>4, <1>5, <1>6, ChainTaken
<1>9. HeldTyped' /\ held'[b] = 1 /\ \A x \in Bufs : x # b => held'[x] = held[x]
  BY <1>1, <1>5, <1>8 DEF HeldTyped
<1>10. \A i \in 1 .. Len(stack) - 1 : MyFree(stack[i]) => held'[stack[i].buf] = 1
  <2>1. \A x \in Bufs : held[x] = 1 => held'[x] = 1
    BY <1>8, <1>9
  <2> QED
    BY <1>1, <1>2, <2>1, OthersHeld
<1>11. /\ FramesInv' /\ Running.pc = "take" /\ stack' # <<>> /\ Running'.pc = qc
       /\ Running'.op = "alloc" /\ Running'.buf = b
  BY <1>1, <1>2, <1>3, <1>4, <1>7, <1>10, RunningTo
<1>12. ChainsInv'
  BY <1>1, <1>4, <1>5, <1>8, <1>9, OtherChains
<1>13. ~At("avail") /\ ~At("take")' /\ ~At("put")'
  BY <1>11 DEF At
<1>14. AvailIs'
  BY <1>1, <1>4, <1>5, <1>8, <1>9, <1>11, <1>13, AvailFollows
<1>15. TakeInv' /\ PutInv'
  BY <1>13 DEF TakeInv, PutInv
<1> QED
  BY <1>9, <1>11, <1>12, <1>14, <1>15 DEF ListsInv

(* A buffer comes to the head of its list. *)
LEMMA MovesPut == ASSUME FullInv, Put PROVE FramesInv' /\ ListsInv'
<1>1. PoolTypeOK /\ ListsInv /\ PoolInv /\ FramesInv /\ HeldTyped /\ ChainsInv /\ AvailIs
  BY DEF FullInv, PoolInv, ListsInv
<1>2. At("put") /\ stack # <<>>
  BY DEF Put, At
<1>3. /\ Running.op = "free" /\ Running.buf \in Bufs /\ held[Running.buf] = 1
      /\ pNext[Running.buf] = pFree[ListOf(Running.buf)]
  BY <1>1, <1>2 DEF ListsInv, PutInv
<1>4. PICK b \in Bufs, l \in Lists, qc \in {"avail", "leave"} :
        /\ b = Running.buf /\ l = ListOf(b) /\ To(Running, qc)
        /\ qc = IF b.pool = "ev" THEN "avail" ELSE "leave"
  <2>1. ListOf(Running.buf) \in Lists /\ Running.buf.pool = Running.pool
    BY <1>1, <1>2, <1>3, BufsTyped, RunningFrame
  <2>2. To(Running, IF Running.buf.pool = "ev" THEN "avail" ELSE "leave")
    BY <2>1 DEF Put
  <2> QED
    BY <1>3, <2>1, <2>2
<1>5. /\ pFree' = [pFree EXCEPT ![l] = b] /\ pNext' = pNext
      /\ held' = [held EXCEPT ![b] = IF @ = 0 THEN 0 ELSE @ - 1] /\ availBufNum' = availBufNum
  BY <1>4 DEF Put
<1>6. held[b] = 1 /\ pNext[b] = pFree[l]
  BY <1>3, <1>4
<1>7. qc \in MyPcs \cup EvPcs /\ qc \notin BeforePut
  BY DEF MyPcs, EvPcs, BeforePut
<1>8. Chained(l)'
  BY <1>1, <1>4, <1>5, <1>6, ChainPut
<1>9. HeldTyped' /\ held'[b] = 0 /\ \A x \in Bufs : x # b => held'[x] = held[x]
  BY <1>1, <1>5, <1>6 DEF HeldTyped
<1>10. \A i \in 1 .. Len(stack) - 1 : MyFree(stack[i]) => held'[stack[i].buf] = 1
  <2> SUFFICES ASSUME NEW i \in 1 .. Len(stack) - 1, MyFree(stack[i])
               PROVE  held'[stack[i].buf] = 1
    OBVIOUS
  <2>1. /\ i \in 1 .. Len(stack) /\ i # Len(stack) /\ Len(stack) \in 1 .. Len(stack)
        /\ Running = stack[Len(stack)]
    BY <1>1, <1>2, RunningIsCall, Below DEF PoolInv
  <2>2. stack[i] \in Calls /\ CallOK(stack[i])
    BY <1>1, <2>1 DEF PoolInv, PoolTypeOK, SectionInv, CallsOK
  <2>3. stack[i].buf \in Bufs
    BY <2>2 DEF CallOK, Calls, MyFree
  <2>4. held[stack[i].buf] = 1
    BY <1>1, <2>1 DEF FramesInv, FreesHeld
  <2>5. stack[i].buf # b
    BY <1>1, <1>3, <1>4, <2>1 DEF FramesInv, FreesDiffer, MyFree
  <2> QED
    BY <1>9, <2>3, <2>4, <2>5
<1>11. /\ FramesInv' /\ Running.pc = "put" /\ stack' # <<>> /\ Running'.pc = qc
       /\ Running'.op = "free" /\ Running'.buf = b
  BY <1>1, <1>2, <1>3, <1>4, <1>7, <1>10, RunningTo
<1>12. ChainsInv'
  BY <1>1, <1>4, <1>5, <1>8, <1>9, OtherChains
<1>13. ~At("avail") /\ ~At("take")' /\ ~At("put")'
  BY <1>11 DEF At
<1>14. AvailIs'
  BY <1>1, <1>4, <1>5, <1>6, <1>9, <1>11, <1>13, AvailFollows
<1>15. TakeInv' /\ PutInv'
  BY <1>13 DEF TakeInv, PutInv
<1> QED
  BY <1>9, <1>11, <1>12, <1>14, <1>15 DEF ListsInv

(* The buffer is linked to the list: it is in nobody's chain yet. *)
LEMMA MovesLink == ASSUME FullInv, Link PROVE FramesInv' /\ ListsInv'
<1>1. PoolTypeOK /\ ListsInv /\ PoolInv /\ FramesInv /\ HeldTyped /\ ChainsInv /\ AvailIs
  BY DEF FullInv, PoolInv, ListsInv
<1>2. /\ At("work") /\ stack # <<>> /\ Running.op = "free" /\ ~FreeAlready(Running.buf)
      /\ To(Running, "put") /\ pFree' = pFree /\ availBufNum' = availBufNum /\ held' = held
  BY DEF Link, At
<1>3. Running \in Calls /\ CallOK(Running) /\ Running.pc = "work"
  BY <1>1, <1>2, AtLabel
<1>4. Running.buf \in Bufs /\ Running.buf # NULL
  BY <1>2, <1>3 DEF CallOK, Calls
<1>5. PICK b \in Bufs, l \in Lists : b = Running.buf /\ l = ListOf(b)
  BY <1>4, BufsTyped
<1>6. pNext' = [pNext EXCEPT ![b] = pFree[l]]
  BY <1>5 DEF Link
<1>7. held[b] = 1
  <2>1. CASE Running.pool = "my"
    <3>1. MyFree(Running)
      BY <1>2, <1>3, <2>1 DEF MyFree, BeforePut
    <3> QED
      BY <1>1, <1>2, <1>5, <3>1, RunningFrame
  <2>2. CASE Running.pool # "my"
    <3>1. b.pool = "ev"
      BY <1>1, <1>2, <1>3, <1>4, <1>5, <2>2, RunningFrame, PoolOfCall
    <3>2. b \notin FreeBufs(l)
      BY <1>2, <1>5, <3>1 DEF FreeAlready
    <3>3. FreeBufs(l) = {x \in BufsOf(l) : held[x] = 0}
      BY <1>1, FreeBufsAre DEF ChainsInv
    <3>4. b \in BufsOf(l)
      BY <1>5, BufsTyped
    <3> QED
      BY <1>1, <3>2, <3>3, <3>4 DEF HeldTyped
  <2> QED
    BY <2>1, <2>2
<1>8. "put" \in MyPcs \cup EvPcs
  BY DEF MyPcs
<1>9. \A i \in 1 .. Len(stack) - 1 : MyFree(stack[i]) => held'[stack[i].buf] = 1
  BY <1>1, <1>2, OthersHeld
<1>10. /\ FramesInv' /\ stack' # <<>> /\ Running'.pc = "put"
       /\ Running'.op = "free" /\ Running'.buf = b
  BY <1>1, <1>2, <1>5, <1>7, <1>8, <1>9, RunningTo
<1>11. ~At("avail") /\ ~At("avail")' /\ ~At("take")'
  BY <1>3, <1>10 DEF At
<1>12. HeldTyped'
  BY <1>1, <1>2 DEF HeldTyped
<1>13. ChainsInv'
  <2> SUFFICES ASSUME NEW k \in Lists PROVE Chained(k)'
    BY DEF ChainsInv
  <2>1. Chained(k)
    BY <1>1 DEF ChainsInv
  <2>2. \A x \in BufsOf(k) : x \in Bufs /\ (held[x] = 0 => x # b)
    BY <1>7, BufsTyped
  <2>3. \A x \in BufsOf(k) : (held[x] = 0 => pNext'[x] = pNext[x]) /\ (held'[x] = 0 <=> held[x] = 0)
    BY <1>1, <1>2, <1>6, <2>2 DEF PoolTypeOK
  <2> QED
    BY <1>2, <2>1, <2>3, ChainRest
<1>14. AvailIs'
  <2>1. \A g \in Groups : Counting(g) = 0 /\ Counting(g)' = 0
    BY <1>11 DEF Counting
  <2>2. \A g \in Groups : FreeEv(g)' = FreeEv(g)
    BY <1>2 DEF FreeEv
  <2> QED
    BY <1>1, <1>2, <2>1, <2>2 DEF AvailIs
<1>15. TakeInv'
  BY <1>11 DEF TakeInv
<1>16. PutInv'
  <2>1. Running'.buf = b /\ ListOf(b) = l /\ pNext'[b] = pFree[l] /\ held'[b] = 1
    BY <1>1, <1>2, <1>5, <1>6, <1>7, <1>10 DEF PoolTypeOK
  <2>2. ListOf(Running.buf)' = l
    BY <2>1 DEF ListOf
  <2> QED
    BY <1>2, <1>10, <2>1, <2>2 DEF PutInv
<1> QED
  BY <1>10, <1>12, <1>13, <1>14, <1>15, <1>16 DEF ListsInv

(* The count follows: what was under way is done. *)
LEMMA MovesCountAvail == ASSUME FullInv, CountAvail PROVE FramesInv' /\ ListsInv'
<1>1. PoolTypeOK /\ ListsInv /\ PoolInv /\ FramesInv /\ HeldTyped /\ ChainsInv /\ AvailIs
  BY DEF FullInv, PoolInv, ListsInv
<1>2. /\ At("avail") /\ stack # <<>> /\ To(Running, "leave")
      /\ pFree' = pFree /\ pNext' = pNext /\ held' = held
  BY DEF CountAvail, At
<1>3. /\ availBufNum' \in [Groups -> Int]
      /\ \A g \in Groups : availBufNum'[g] = availBufNum[g] - Counting(g)
  <2>1. availBufNum \in [Groups -> Int]
    BY <1>1 DEF AvailIs
  <2> DEFINE d == IF Running.op = "alloc" THEN -1 ELSE 1
             h == Running.buf.group
  <2>2. availBufNum' = [availBufNum EXCEPT ![h] = @ + d]
    BY DEF CountAvail
  <2>2a. availBufNum' = [g \in Groups |-> IF g = h THEN availBufNum[g] + d ELSE availBufNum[g]]
    <3> HIDE DEF d, h
    <3> QED
      BY <2>1, <2>2, Zenon
  <2>3. d \in Int
    OBVIOUS
  <2>4. \A g \in Groups : Counting(g) = IF g = h THEN -d ELSE 0
    BY <1>2 DEF Counting
  <2> HIDE DEF d, h
  <2>5. \A g \in Groups : availBufNum[g] \in Int
    BY <2>1
  <2>6. availBufNum' \in [Groups -> Int]
    BY <2>2a, <2>3, <2>5
  <2>7. \A g \in Groups : availBufNum'[g] = IF g = h THEN availBufNum[g] + d ELSE availBufNum[g]
    BY <2>2a
  <2> QED
    BY <2>3, <2>4, <2>5, <2>6, <2>7
<1>4. "leave" \in MyPcs \cup EvPcs /\ "leave" \notin BeforePut
  BY DEF MyPcs, BeforePut
<1>5. \A i \in 1 .. Len(stack) - 1 : MyFree(stack[i]) => held'[stack[i].buf] = 1
  BY <1>1, <1>2, OthersHeld
<1>6. FramesInv' /\ stack' # <<>> /\ Running'.pc = "leave"
  BY <1>1, <1>2, <1>4, <1>5, RunningTo
<1>7. ~At("avail")' /\ ~At("take")' /\ ~At("put")'
  BY <1>6 DEF At
<1>8. HeldTyped' /\ ChainsInv'
  BY <1>1, <1>2 DEF HeldTyped, ChainsInv, Chained, ChainIs, LinkedTo, AllNotHeld, EachOnce
<1>9. AvailIs'
  <2> SUFFICES ASSUME NEW g \in Groups
               PROVE  availBufNum'[g] = Cardinality(FreeEv(g)') + Counting(g)'
    BY <1>3 DEF AvailIs
  <2>1. Counting(g)' = 0 /\ FreeEv(g)' = FreeEv(g)
    BY <1>2, <1>7 DEF Counting, FreeEv
  <2>2. availBufNum[g] = Cardinality(FreeEv(g)) + Counting(g)
    BY <1>1, Zenon DEF AvailIs
  <2>2a. Counting(g) \in Int
    BY DEF Counting
  <2>2b. Cardinality(FreeEv(g)) \in Nat
    BY FreeEvCount, Zenon
  <2>3. availBufNum'[g] = availBufNum[g] - Counting(g)
    BY <1>3
  <2> QED
    BY <2>1, <2>2, <2>2a, <2>2b, <2>3
<1>10. TakeInv' /\ PutInv'
  BY <1>7 DEF TakeInv, PutInv
<1> QED
  BY <1>6, <1>8, <1>9, <1>10 DEF ListsInv

(* At the start every list holds all buffers of its size, in their order. *)
LEMMA FirstChain == ASSUME PoolInit, NEW l \in Lists PROVE Chained(l)
<1> DEFINE k == BufNum[l[2]]
           s == [i \in 1 .. k |-> Buf(l, i)]
<1>1. k \in Nat /\ k # 0
  BY BufsCount
<1>2. \A i \in 1 .. k : /\ Buf(l, i) \in BufsOf(l) /\ Buf(l, i) \in Bufs
                        /\ Buf(l, i).n = i /\ Buf(l, i).group = l[2]
                        /\ [Buf(l, i) EXCEPT !.n = i + 1] = Buf(l, i + 1)
  <2> SUFFICES ASSUME NEW i \in 1 .. k
               PROVE  /\ Buf(l, i) \in BufsOf(l) /\ Buf(l, i) \in Bufs
                      /\ Buf(l, i).n = i /\ Buf(l, i).group = l[2]
                      /\ [Buf(l, i) EXCEPT !.n = i + 1] = Buf(l, i + 1)
    OBVIOUS
  <2>1. Buf(l, i) \in BufsOf(l)
    BY DEF Buf, BufsOf
  <2>2. Buf(l, i).n = i /\ Buf(l, i).group = l[2]
        /\ [Buf(l, i) EXCEPT !.n = i + 1] = Buf(l, i + 1)
    BY DEF Buf
  <2> QED
    BY <2>1, <2>2, BufsTyped
<1>3. s \in [1 .. k -> BufsOf(l)]
  BY <1>2
<1>4. pFree[l] = s[1]
  BY <1>1 DEF PoolInit
<1>5. LinkedTo(k, s)
  <2> SUFFICES ASSUME NEW i \in 1 .. k
               PROVE  pNext[s[i]] = IF i = k THEN NULL ELSE s[i + 1]
    BY DEF LinkedTo
  <2>1. pNext[Buf(l, i)] = IF i < k THEN Buf(l, i + 1) ELSE NULL
    BY <1>2 DEF PoolInit
  <2>2. CASE i = k
    BY <1>1, <2>1, <2>2
  <2>3. CASE i # k
    <3>1. i < k /\ i + 1 \in 1 .. k
      BY <1>1, <2>3
    <3> QED
      BY <2>1, <2>3, <3>1
  <2> QED
    BY <2>2, <2>3
<1>6. EachOnce(k, s)
  BY <1>2 DEF EachOnce
<1>7. AllNotHeld(l, k, s)
  <2> SUFFICES ASSUME NEW b \in BufsOf(l)
               PROVE  held[b] = 0 /\ \E i \in 1 .. k : s[i] = b
    BY DEF AllNotHeld
  <2>1. held[b] = 0
    BY BufsTyped DEF PoolInit
  <2>2. \E i \in 1 .. k : Buf(l, i) = b
    BY DEF Buf, BufsOf
  <2> QED
    BY <2>1, <2>2
<1>8. ChainIs(l, k, s)
  <2> HIDE DEF k, s
  <2> QED
    BY <1>1, <1>3, <1>4, <1>5, <1>6, <1>7 DEF ChainIs
<1> QED
  BY <1>1, <1>8 DEF Chained

(* The start satisfies the invariant. *)
LEMMA InitialLists == PoolInit => FullInv
<1> SUFFICES ASSUME PoolInit PROVE FullInv
  OBVIOUS
<1>1. stack = <<>> /\ Len(stack) = 0 /\ held = [b \in Bufs |-> 0]
  BY DEF PoolInit
<1>2. PoolInv
  BY InitialPools
<1>3. FramesInv
  BY <1>1 DEF FramesInv, OfItsPool, FreesDiffer, FreesHeld
<1>4. HeldTyped /\ ChainsInv
  BY <1>1, FirstChain DEF HeldTyped, ChainsInv
<1>5. ~At("take") /\ ~At("put") /\ ~At("avail")
  BY <1>1 DEF At
<1>6. AvailIs
  <2>1. availBufNum = BufNum /\ availBufNum \in [Groups -> Int]
    BY PoolsAssumed DEF PoolInit
  <2>2. ASSUME NEW g \in Groups
        PROVE  availBufNum[g] = Cardinality(FreeEv(g)) + Counting(g)
    <3>1. <<"ev", g>> \in Lists /\ <<"ev", g>>[2] = g
      BY DEF Lists
    <3>2. FreeEv(g) = BufsOf(<<"ev", g>>)
      BY <1>1, <3>1, BufsTyped DEF FreeEv
    <3>3. Cardinality(BufsOf(<<"ev", g>>)) = BufNum[g] /\ BufNum[g] \in Nat
      BY <3>1, BufsCount, Zenon
    <3>4. Counting(g) = 0
      BY <1>5 DEF Counting
    <3> QED
      BY <2>1, <3>2, <3>3, <3>4
  <2> QED
    BY <2>1, <2>2 DEF AvailIs
<1>7. TakeInv /\ PutInv
  BY <1>5 DEF TakeInv, PutInv
<1> QED
  BY <1>2, <1>3, <1>4, <1>6, <1>7 DEF FullInv, ListsInv

(* Every step keeps it. *)
LEMMA StepKeepsLists == FullInv /\ [PoolNext]_poolVars => FullInv'
<1> SUFFICES ASSUME FullInv, [PoolNext]_poolVars PROVE FullInv'
  OBVIOUS
<1>0. PoolInv'
  BY StepKeepsPools DEF FullInv
<1>1. CASE UNCHANGED poolVars
  <2>1. /\ stack' = stack /\ pFree' = pFree /\ pNext' = pNext
        /\ availBufNum' = availBufNum /\ held' = held
    BY <1>1 DEF poolVars, sectionVars
  <2>2. FramesInv /\ ListsInv
    BY DEF FullInv
  <2>3. FramesInv'
    BY <2>1, <2>2, Zenon DEF FramesInv, OfItsPool, FreesDiffer, FreesHeld, MyFree
  <2>4. ChainsInv' /\ HeldTyped'
    <3>1. HeldTyped'
      BY <2>1, <2>2 DEF ListsInv, HeldTyped
    <3>2. ASSUME NEW l \in Lists PROVE Chained(l)'
      <4>1. Chained(l)
        BY <2>2 DEF ListsInv, ChainsInv
      <4>2. pFree'[l] = pFree[l]
        BY <2>1
      <4>3. \A b \in BufsOf(l) : /\ held[b] = 0 => pNext'[b] = pNext[b]
                                /\ held'[b] = 0 <=> held[b] = 0
        BY <2>1
      <4> QED
        BY <4>1, <4>2, <4>3, ChainRest
    <3> QED
      BY <3>1, <3>2 DEF ChainsInv
  <2>5. AvailIs'
    <3>1. \A g \in Groups : FreeEv(g)' = FreeEv(g)
      BY <2>1, Zenon DEF FreeEv
    <3>2. \A g \in Groups : Counting(g)' = Counting(g)
      BY <2>1, Zenon DEF Counting, At, Running
    <3> QED
      BY <2>1, <2>2, <3>1, <3>2, Zenon DEF ListsInv, AvailIs
  <2>6. TakeInv' /\ PutInv'
    BY <2>1, <2>2, Zenon DEF ListsInv, TakeInv, PutInv, At, Running, ListOf
  <2> QED
    BY <1>0, <2>3, <2>4, <2>5, <2>6 DEF FullInv, ListsInv
<1>2. CASE MainCall \/ Interrupt \/ Return
  BY <1>0, <1>2, MovesMainCall, MovesInterrupt, MovesReturn DEF FullInv
<1>3. CASE TestNesting \/ SaveMie \/ DisableInterrupts \/ CountSection
  BY <1>0, <1>3, MovesTestNesting, MovesSaveMie, MovesDisable, MovesCount DEF FullInv
<1>4. CASE Leave \/ EnableInterrupts \/ NextSize
  BY <1>0, <1>4, MovesLeave, MovesEnable, MovesNextSize DEF FullInv
<1>5. CASE Look \/ Take \/ FreedTwice \/ Link \/ Put \/ CountAvail
  BY <1>0, <1>5, MovesLook, MovesTake, MovesFreedTwice, MovesLink, MovesPut, MovesCountAvail
     DEF FullInv
<1> QED
  BY <1>1, <1>2, <1>3, <1>4, <1>5 DEF PoolNext

(* So it holds throughout. *)
LEMMA FullInvHolds == PoolSpec => []FullInv
  BY InitialLists, StepKeepsLists, PTL DEF PoolSpec

(* PoolsIntact of BufPools, for any sizes and any depth of interrupts: whenever
   no call is between the accesses of a change (myBufAlloc, myBufFree,
   ev_buf_allocate, ev_buf_free), each list ends, holds once each buffer that
   nobody holds and no other, and as many ev buffers are counted as are on it. *)
THEOREM ListsIntact == PoolSpec => []PoolsIntact
<1>1. FullInv => PoolsIntact
  <2> SUFFICES ASSUME FullInv, ~InSection
               PROVE  /\ \A l \in Lists : Ends(l) /\ FreeBufs(l) = {b \in BufsOf(l) : held[b] = 0}
                      /\ \A b \in Bufs : held[b] \in {0, 1}
                      /\ \A g \in Groups : availBufNum[g] = Cardinality(FreeBufs(<<"ev", g>>))
    BY DEF PoolsIntact
  <2>1. PoolTypeOK /\ ChainsInv /\ HeldTyped /\ AvailIs
    BY DEF FullInv, PoolInv, ListsInv
  <2>2. \A l \in Lists : Ends(l) /\ FreeBufs(l) = {b \in BufsOf(l) : held[b] = 0}
    BY <2>1, FreeBufsAre DEF ChainsInv
  <2>3. \A b \in Bufs : held[b] \in {0, 1}
    BY <2>1 DEF HeldTyped
  <2>4. ~At("avail")
    <3> SUFFICES ASSUME At("avail") PROVE FALSE
      OBVIOUS
    <3>1. /\ stack # <<>> /\ Running.pc = "avail"
          /\ Running = stack[Len(stack)] /\ Len(stack) \in DOMAIN stack
      BY <2>1, RunningIsCall DEF At, PoolTypeOK
    <3> QED
      BY <3>1 DEF InSection
  <2>5. ASSUME NEW g \in Groups PROVE availBufNum[g] = Cardinality(FreeBufs(<<"ev", g>>))
    <3>1. <<"ev", g>> \in Lists
      BY FreeEvCount
    <3>2. FreeBufs(<<"ev", g>>) = FreeEv(g)
      BY <2>2, <3>1, Zenon DEF FreeEv
    <3>3. Counting(g) = 0
      BY <2>4 DEF Counting
    <3>4. availBufNum[g] = Cardinality(FreeEv(g)) + 0
      BY <2>1, <3>3, Zenon DEF AvailIs
    <3>5. Cardinality(FreeEv(g)) \in Nat
      BY FreeEvCount, Zenon
    <3> QED
      BY <3>2, <3>4, <3>5
  <2> QED
    BY <2>2, <2>3, <2>5
<1> QED
  BY <1>1, FullInvHolds, PTL
=============================================================================
