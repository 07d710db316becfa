------------------------------ MODULE BufPools ------------------------------
(***************************************************************************)
(* common/buf_pool0 (myBuf.c) and common/buf_pool1 (ev_buffer.c with       *)
(* mempool.c): two allocators which the main loop and interrupt handlers   *)
(* may both call.  The free buffers of a size are a linked list; what      *)
(* keeps the list whole is that interrupts are off while it is changed:    *)
(* the first counts nested sections, the second saves the enable register. *)
(*                                                                         *)
(* A step is an access to what is shared.  While interrupts are on, one    *)
(* may come between any two steps; its handler makes one call and returns. *)
(* Callers free what they hold, and an ev buffer perhaps once too often.   *)
(* Statistics and the asserts, empty in a release build, are left out.     *)
(***************************************************************************)
EXTENDS Integers, Sequences, FiniteSets

CONSTANTS
  BufNum,      \* buffers of each size, smallest size first
  MaxDepth     \* Bound of the model: calls under way, each within the other

ASSUME PoolAssumption == BufNum \in Seq(Nat \ {0}) /\ MaxDepth \in Nat \ {0}

VARIABLES
  mie,         \* NDS_MIE: the enable bits of the interrupts
  mstatus,     \* the global enable bit
  myCsNesting,
  pFree,       \* head of each list: pFree, free_list
  pNext,       \* link of each buffer: pNext, next_block
  availBufNum, \* of the ev sizes
  held,        \* how often each buffer is in a caller's hands
  stack        \* the calls under way, the innermost one last

sectionVars == <<mie, mstatus, myCsNesting>>
poolVars == <<sectionVars, pFree, pNext, availBufNum, held, stack>>

Groups == DOMAIN BufNum
Lists == {"my", "ev"} \X Groups
NULL == [pool |-> "none", group |-> 0, n |-> 0]
BufsOf(l) == {[pool |-> l[1], group |-> l[2], n |-> i] : i \in 1 .. BufNum[l[2]]}
Bufs == UNION {BufsOf(l) : l \in Lists}
Buf(l, i) == [pool |-> l[1], group |-> l[2], n |-> i]
ListOf(b) == <<b.pool, b.group>>

PoolInit ==
  /\ mie = TRUE /\ mstatus = TRUE /\ myCsNesting = 0
  /\ pFree = [l \in Lists |-> Buf(l, 1)]
  /\ pNext = [b \in Bufs |-> IF b.n < BufNum[b.group] THEN [b EXCEPT !.n = b.n + 1] ELSE NULL]
  /\ availBufNum = BufNum
  /\ held = [b \in Bufs |-> 0]
  /\ stack = <<>>

(* The n-th buffer of a list, NULL behind its end *)
NthFree(l) ==
  LET f[n \in Nat] == IF n = 0 THEN pFree[l] ELSE IF f[n - 1] = NULL THEN NULL ELSE pNext[f[n - 1]]
  IN  f
FreeBufs(l) == {NthFree(l)[n] : n \in 0 .. BufNum[l[2]]} \ {NULL}
Ends(l) == NthFree(l)[BufNum[l[2]]] = NULL

(***************************************************************************)
(* Calls, of the main loop and of an interrupt's handler                   *)
(***************************************************************************)
Call(op, pool, g, b) ==
  [op |-> op, pool |-> pool, group |-> g, buf |-> b, r |-> FALSE,
   pc |-> IF pool = "my" THEN "test" ELSE "save"]

Requests ==
  {Call("alloc", l[1], l[2], NULL) : l \in Lists}
    \cup {Call("free", b.pool, b.group, b) :
            b \in {x \in Bufs : (held[x] = 1 \/ x.pool = "ev")
                                  /\ \A i \in DOMAIN stack : stack[i].buf # x}}

MainCall ==
  /\ stack = <<>>
  /\ \E c \in Requests : stack' = <<c>>
  /\ UNCHANGED <<sectionVars, pFree, pNext, availBufNum, held>>

InterruptsOn == mie /\ mstatus

Interrupt ==
  /\ stack # <<>> /\ Len(stack) < MaxDepth /\ InterruptsOn
  /\ \E c \in Requests : stack' = Append(stack, c)
  /\ mstatus' = FALSE
  /\ UNCHANGED <<mie, myCsNesting, pFree, pNext, availBufNum, held>>

Running == stack[Len(stack)]
At(pc) == stack # <<>> /\ Running.pc = pc
To(c, pc) == stack' = [stack EXCEPT ![Len(stack)] = [c EXCEPT !.pc = pc]]

Return ==
  /\ At("done")
  /\ stack' = SubSeq(stack, 1, Len(stack) - 1)
  /\ mstatus' = TRUE
  /\ UNCHANGED <<mie, myCsNesting, pFree, pNext, availBufNum, held>>

(***************************************************************************)
(* The sections                                                            *)
(***************************************************************************)
(* myCsEnter *)
TestNesting ==
  /\ At("test")
  /\ To(Running, IF myCsNesting = 0 THEN "off" ELSE "count")
  /\ UNCHANGED <<sectionVars, pFree, pNext, availBufNum, held>>

(* core_interrupt_disable: the register is read, then cleared. *)
SaveMie ==
  /\ At("save")
  /\ To([Running EXCEPT !.r = mie], "off")
  /\ UNCHANGED <<sectionVars, pFree, pNext, availBufNum, held>>

DisabledNot == mie  \* mutant
Disabled == FALSE
DisableInterrupts ==
  /\ At("off")
  /\ mie' = Disabled
  /\ To(Running, IF Running.pool = "my" THEN "count" ELSE "work")
  /\ UNCHANGED <<mstatus, myCsNesting, pFree, pNext, availBufNum, held>>

CountSection ==
  /\ At("count")
  /\ myCsNesting' = myCsNesting + 1
  /\ To(Running, "work")
  /\ UNCHANGED <<mie, mstatus, pFree, pNext, availBufNum, held>>

(* myCsExit, irq_restore *)
Leave ==
  /\ At("leave")
  /\ IF Running.pool = "my"
     THEN /\ myCsNesting' = myCsNesting - 1
          /\ To(Running, IF myCsNesting = 1 THEN "on" ELSE "left")
          /\ UNCHANGED mie
     ELSE /\ mie' = (mie \/ Running.r)
          /\ To(Running, "done")
          /\ UNCHANGED myCsNesting
  /\ UNCHANGED <<mstatus, pFree, pNext, availBufNum, held>>

(* core_interrupt_enable, within a handler, too *)
EnableInterrupts ==
  /\ At("on")
  /\ mie' = TRUE /\ mstatus' = TRUE
  /\ To(Running, "left")
  /\ UNCHANGED <<myCsNesting, pFree, pNext, availBufNum, held>>

(* A size that is used up: myBufAlloc enters anew for the next one. *)
NextSize ==
  /\ At("left")
  /\ IF Running.op = "alloc" /\ Running.buf = NULL /\ Running.group + 1 \in Groups
     THEN To([Running EXCEPT !.group = @ + 1], "test")
     ELSE To(Running, "done")
  /\ UNCHANGED <<sectionVars, pFree, pNext, availBufNum, held>>
(***************************************************************************)
(* Within a section                                                        *)
(***************************************************************************)
(* The first free buffer of the size, for ev of the first size that fits and
   is counted as available                                                 *)
Fitting(c) ==
  IF c.pool = "my" THEN {c.group} ELSE {g \in Groups : g >= c.group /\ availBufNum[g] > 0}
FirstFree(c) ==
  LET fits == Fitting(c)
  IN  IF fits = {} THEN NULL ELSE pFree[<<c.pool, CHOOSE g \in fits : \A h \in fits : g <= h>>]

WhenNoneDone == IF Running.pool = "ev" THEN "done" ELSE "leave"  \* mutant
WhenNone == "leave"
Look ==
  /\ At("work") /\ Running.op = "alloc"
  /\ To([Running EXCEPT !.buf = FirstFree(Running)], IF FirstFree(Running) = NULL THEN WhenNone ELSE "take")
  /\ UNCHANGED <<sectionVars, pFree, pNext, availBufNum, held>>

Take ==
  /\ At("take")
  /\ pFree' = [pFree EXCEPT ![ListOf(Running.buf)] = pNext[Running.buf]]
  /\ held' = [held EXCEPT ![Running.buf] = @ + 1]
  /\ To(Running, IF Running.pool = "ev" THEN "avail" ELSE "leave")
  /\ UNCHANGED <<sectionVars, pNext, availBufNum>>

(* ev_buf_isExisted *)
FreeAlready(b) == b.pool = "ev" /\ b \in FreeBufs(ListOf(b))
FreedTwice ==
  /\ At("work") /\ Running.op = "free" /\ FreeAlready(Running.buf)
  /\ To(Running, "leave")
  /\ UNCHANGED <<sectionVars, pFree, pNext, availBufNum, held>>

Link ==
  /\ At("work") /\ Running.op = "free" /\ ~FreeAlready(Running.buf)
  /\ pNext' = [pNext EXCEPT ![Running.buf] = pFree[ListOf(Running.buf)]]
  /\ To(Running, "put")
  /\ UNCHANGED <<sectionVars, pFree, availBufNum, held>>

Put ==
  /\ At("put")
  /\ pFree' = [pFree EXCEPT ![ListOf(Running.buf)] = Running.buf]
  /\ held' = [held EXCEPT ![Running.buf] = IF @ = 0 THEN 0 ELSE @ - 1]
  /\ To(Running, IF Running.pool = "ev" THEN "avail" ELSE "leave")
  /\ UNCHANGED <<sectionVars, pNext, availBufNum>>

CountAvail ==
  /\ At("avail")
  /\ availBufNum' = [availBufNum EXCEPT ![Running.buf.group] = @ + (IF Running.op = "alloc" THEN -1 ELSE 1)]
  /\ To(Running, "leave")
  /\ UNCHANGED <<sectionVars, pFree, pNext, held>>

PoolNext ==
  \/ MainCall \/ Interrupt \/ Return
  \/ TestNesting \/ SaveMie \/ DisableInterrupts \/ CountSection
  \/ Leave \/ EnableInterrupts \/ NextSize
  \/ Look \/ Take \/ FreedTwice \/ Link \/ Put \/ CountAvail

PoolSpec == PoolInit /\ [][PoolNext]_poolVars

(***************************************************************************)
(* Properties                                                              *)
(***************************************************************************)
InSection == \E i \in DOMAIN stack : stack[i].pc \in {"work", "take", "put", "avail"}

(* Outside the sections every buffer is at one place, in one caller's hands or
   once on the list of its size, and as many are counted as are on the list:
   no interrupt got between the accesses of a change, and a second free of the
   same buffer changed nothing.                                            *)
PoolsIntact ==
  ~InSection =>
    /\ \A l \in Lists : Ends(l) /\ FreeBufs(l) = {b \in BufsOf(l) : held[b] = 0}
    /\ \A b \in Bufs : held[b] \in {0, 1}
    /\ \A g \in Groups : availBufNum[g] = Cardinality(FreeBufs(<<"ev", g>>))

(* When no call is under way interrupts are on and no section is counted: every
   way out of a section has undone its way in, whatever came between.      *)
InterruptsBack == stack = <<>> => mie /\ mstatus /\ myCsNesting = 0
=============================================================================
