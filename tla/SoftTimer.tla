------------------------------ MODULE SoftTimer ------------------------------
(***************************************************************************)
(* vendor/common/blt_soft_timer.c: software timers on the 32-bit system    *)
(* clock.  The table is kept in the order of the expiry times; the front   *)
(* one is the time at which a sleeping chip is to be woken.                *)
(*                                                                         *)
(* The clock is a counter that wraps.  blt_soft_timer_process is called    *)
(* from the main loop, at the latest Gap ticks after the last call, and    *)
(* takes no time.  Call-backs return what becomes of their timer; those    *)
(* that add or delete timers themselves are not modelled.                  *)
(***************************************************************************)
EXTENDS Integers, SequencesExt

CONSTANTS
  CallBacks,        \* call-back functions
  MAX_TIMER_NUM,    \* 4
  ClockVals,        \* values of the clock: 2^32
  COMPARE_RANGE,    \* BIT(30)
  SAFE_MARGIN_PRE,  \* 128 us
  SAFE_MARGIN_POST, \* 4 s
  WAKEUP_RANGE,     \* 3000 ms
  \* Bounds of the model
  Intervals,        \* intervals asked for
  Gap               \* ticks between two calls of blt_soft_timer_process

ASSUME TimerAssumption ==
  /\ {MAX_TIMER_NUM, ClockVals, COMPARE_RANGE, SAFE_MARGIN_PRE, SAFE_MARGIN_POST,
      WAKEUP_RANGE, Gap} \subseteq Nat \ {0}
  /\ Intervals \subseteq Nat \ {0}
  /\ 4 * COMPARE_RANGE <= ClockVals
  /\ \A i \in Intervals : i + SAFE_MARGIN_POST <= COMPARE_RANGE

(* A timer that is passed over in one call after another, which at most all
   others cause, is still in the window of Expired when its turn comes.    *)
ASSUME GapAssumption == SAFE_MARGIN_PRE + MAX_TIMER_NUM * Gap <= SAFE_MARGIN_POST

VARIABLES
  clock,    \* clock_time()
  timers,   \* blt_timer.timer[0 .. currentNum - 1]
  wakeup,   \* time given to blc_pm_setAppWakeupLowPower, or Off
  process,  \* blt_soft_timer_process: the loop over the table
  idle      \* ticks since it was called

timerVars == <<clock, timers, wakeup, process, idle>>

Off == -1
NoLoop == [on |-> FALSE, i |-> 1, change_flg |-> FALSE]

-----------------------------------------------------------------------------
(* Times that wrap *)
Plus(t, d) == (t + d) % ClockVals
Distance(from, to) == (to - from) % ClockVals
TIME_COMPARE_BIG(t1, t2) == Distance(t2, t1) < COMPARE_RANGE
Expired(t) == Distance(t, Plus(clock, SAFE_MARGIN_PRE)) < SAFE_MARGIN_POST

(* blt_soft_timer_sort: bubble sort; equal times are exchanged, too. *)
BubbleStep(s, j) ==
  IF TIME_COMPARE_BIG(s[j].t, s[j + 1].t)
  THEN [s EXCEPT ![j] = s[j + 1], ![j + 1] = s[j]] ELSE s
BubblePass(s, n) ==
  LET f[j \in 0 .. n] == IF j = 0 THEN s ELSE BubbleStep(f[j - 1], j) IN f[n]
SortNothing(s) == s  \* mutant
Sorted(s) ==  \* the last pass compares nothing
  LET f[i \in 0 .. Len(s)] == IF i = 0 THEN s ELSE BubblePass(f[i - 1], Len(s) - i) IN f[Len(s)]

(* The wake-up time when the entry at the front is front *)
WakeupFor(front) ==
  IF Distance(clock, front.t) < WAKEUP_RANGE THEN front.t ELSE Off

Started(cb, interval) == [cb |-> cb, t |-> Plus(clock, interval), interval |-> interval]

-----------------------------------------------------------------------------
TimerAdd ==
  /\ ~process.on /\ Len(timers) < MAX_TIMER_NUM
  /\ \E cb \in CallBacks, interval \in Intervals :
       timers' = Sorted(Append(timers, Started(cb, interval)))
  /\ wakeup' = timers'[1].t
  /\ UNCHANGED <<clock, process, idle>>

(* blt_soft_timer_delete finds the first timer of a call-back.  timer[0] is
   looked at even when the table has become empty: it is the deleted one.  *)
Without(i) == RemoveAt(timers, i)
WakeupKept(i) == wakeup  \* mutant
WakeupAfterDelete(i) == IF i = 1 THEN WakeupFor((Without(1) \o timers)[1]) ELSE wakeup

TimerDelete ==
  /\ ~process.on
  /\ \E i \in DOMAIN timers :
       /\ \A j \in 1 .. i - 1 : timers[j].cb # timers[i].cb
       /\ timers' = Without(i)
       /\ wakeup' = WakeupAfterDelete(i)
  /\ UNCHANGED <<clock, process, idle>>

(* blt_soft_timer_process: nothing to do *)
ProcessNothing ==
  /\ ~process.on /\ idle' = 0
  /\ \/ timers = <<>> /\ wakeup' = Off
     \/ timers # <<>> /\ ~Expired(timers[1].t) /\ UNCHANGED wakeup
  /\ UNCHANGED <<clock, timers, process>>

ProcessStart ==
  /\ ~process.on /\ timers # <<>> /\ Expired(timers[1].t)
  /\ process' = [NoLoop EXCEPT !.on = TRUE]
  /\ UNCHANGED <<clock, timers, wakeup, idle>>

(* One turn of its loop.  The result of the call-back: below zero, the timer is
   deleted and the one that takes its place is passed over; zero, the interval
   again; above zero, a new interval.                                      *)
Turn == process.on /\ process.i <= Len(timers)
This == timers[process.i]
Next1(changed) == process' = [process EXCEPT !.i = @ + 1, !.change_flg = @ \/ changed]

NotExpired ==
  /\ Turn /\ ~Expired(This.t) /\ Next1(FALSE)
  /\ UNCHANGED <<clock, timers, wakeup, idle>>

CallBackDeletes ==
  /\ Turn /\ Expired(This.t) /\ Next1(FALSE)
  /\ timers' = Without(process.i)
  /\ UNCHANGED <<clock, wakeup, idle>>

CallBackRestarts ==
  /\ Turn /\ Expired(This.t) /\ Next1(TRUE)
  /\ \E interval \in Intervals : timers' = [timers EXCEPT ![process.i] = Started(@.cb, interval)]
  /\ UNCHANGED <<clock, wakeup, idle>>

ProcessEnd ==
  /\ process.on /\ process.i > Len(timers)
  /\ timers' = IF process.change_flg THEN Sorted(timers) ELSE timers
  /\ wakeup' = IF timers = <<>> THEN Off ELSE WakeupFor(timers'[1])
  /\ process' = NoLoop /\ idle' = 0
  /\ UNCHANGED clock

(* Time passes while the main loop does other things or the chip sleeps. *)
Tick ==
  /\ ~process.on /\ idle < Gap
  /\ clock' = Plus(clock, 1) /\ idle' = idle + 1
  /\ UNCHANGED <<timers, wakeup, process>>

-----------------------------------------------------------------------------
TimerInit ==
  /\ clock \in {0, ClockVals - 1} /\ timers = <<>>
  /\ wakeup = Off /\ process = NoLoop /\ idle = 0

TimerNext ==
  \/ TimerAdd \/ TimerDelete \/ ProcessNothing \/ ProcessStart
  \/ NotExpired \/ CallBackDeletes \/ CallBackRestarts \/ ProcessEnd \/ Tick

TimerSpec == TimerInit /\ [][TimerNext]_timerVars

-----------------------------------------------------------------------------
(* Between two calls the table is in the order of the expiry times, also when
   the clock has wrapped between them and whatever was passed over: only the
   front one is looked at to see whether there is anything to do
   (blt_soft_timer.c:82, 208).                                             *)
TimersInOrder ==
  ~process.on => \A i, j \in DOMAIN timers :
                   i < j => Distance(timers[i].t, timers[j].t) < COMPARE_RANGE

(* No timer is missed: its time is ahead, or it is still in the window in which
   the next call runs its call-back; one that left the window would be silent
   until the clock has gone round (blt_soft_timer.h:72).                   *)
NeverMissed ==
  \A i \in DOMAIN timers :
    \/ Distance(clock, timers[i].t) <= timers[i].interval
    \/ Expired(timers[i].t)

(* A chip that goes to sleep is woken for the front timer, unless this one is
   overdue or was started for WAKEUP_RANGE or more: for those the wake-up is
   switched off and nothing switches it on again (blt_soft_timer.c:241).   *)
WakeupIsFront ==
  ~process.on /\ timers # <<>> /\ timers[1].interval < WAKEUP_RANGE
    /\ Distance(clock, timers[1].t) < COMPARE_RANGE => wakeup = timers[1].t
=============================================================================
