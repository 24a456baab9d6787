------------------------------ MODULE SoftTimer ------------------------------
(***************************************************************************)
(* The soft timers of timer.c: a sorted list of timers that a thread       *)
(* serves.  The thread sleeps until the first of them is due, or suspends  *)
(* itself while there is none; rt_timer_start resumes it.                  *)
(*                                                                         *)
(* A time is the number of ticks until it; module Timer shows that the     *)
(* wrapping ticks of the code are such numbers.  The thread has the        *)
(* highest priority, the default, and interrupt handlers leave the soft    *)
(* timers alone.                                                           *)
(***************************************************************************)
EXTENDS Waits

CONSTANTS
  timer_thread,
  SoftTimers,     \* the soft timers
  NoTimer,        \* none; as a node, the head of the list
  SoftTick,       \* init_tick of each
  SoftPeriodic,   \* those with RT_TIMER_FLAG_PERIODIC
  MaxLate         \* bound: ticks in one round of the check; times that have
                  \* passed longer ago are not told apart

ASSUME SoftTimerAssumption ==
  /\ timer_thread \in Thread \ {idle} /\ NoTimer \notin SoftTimers
  /\ SoftTick \in [SoftTimers -> Nat \ {0}]
  /\ SoftPeriodic \subseteq SoftTimers
  /\ MaxLate \in Nat

VARIABLES
  soft,    \* the timers
  sfLoop,  \* the local variables of the timer thread
  sfArg    \* the timer a thread starts or stops

SoftType ==
  /\ soft \in [list   : Seq(SoftTimers),        \* rt_soft_timer_list
               left   : [SoftTimers -> Int],    \* ticks until timeout_tick
               active : SUBSET SoftTimers]      \* RT_TIMER_FLAG_ACTIVATED
  /\ sfLoop \in [next : Int,                    \* next_timeout, from now on
                 lag  : 0 .. MaxLate,           \* the age of current_tick
                 n    : SoftTimers \cup {NoTimer},
                 t    : SoftTimers \cup {NoTimer}]
  /\ sfArg \in [Thread -> SoftTimers \cup {NoTimer}]

SoftPC == {"sf_suspend", "sf_sched", "sf_delta", "sf_delay", "sf_check", "sf_loop",
           "sf_exit", "sf_func", "sf_restart", "sf_unlock", "sf_arm", "sf_insert",
           "sf_started", "sf_resume", "sf_resumed", "sf_stop", "sf_stop_flag"}

Idling == [next |-> 0, lag |-> 0, n |-> NoTimer, t |-> NoTimer]

(* rt_system_timer_thread_init *)
SoftInit ==
  /\ soft = [list |-> <<>>, left |-> [x \in SoftTimers |-> 0], active |-> {}]
  /\ sfLoop = Idling
  /\ sfArg = [t \in Thread |-> NoTimer]

Removed(x) == [soft EXCEPT !.list = Unlink(@, x)]

-----------------------------------------------------------------------------
(* rt_timer_start, from the section that removes the timer.  The timer       *)
(* thread, which restarts a periodic timer, is READY and goes on with its    *)
(* loop.                                                                     *)

SfStart(t, x) ==
  /\ Runs(t, "app")
  /\ soft' = [Removed(x) EXCEPT !.active = @ \ {x}]
  /\ sfArg' = [sfArg EXCEPT ![t] = x]
  /\ Goto(t, "sf_arm")
  /\ UNCHANGED <<k, irqoff, fault, rest, sfLoop>>

SfArm(t) ==
  /\ Runs(t, "sf_arm")
  /\ soft' = [soft EXCEPT !.left[sfArg[t]] = SoftTick[sfArg[t]]]
  /\ Goto(t, "sf_insert")
  /\ UNCHANGED <<k, irqoff, fault, rest, sfLoop, sfArg>>

(* The place before the first timer that is due later *)
SfPlace(x) ==
  CHOOSE i \in 1 .. Len(soft.list) + 1 :
    /\ \A j \in 1 .. i - 1 : soft.left[soft.list[j]] <= soft.left[x]
    /\ i <= Len(soft.list) => soft.left[soft.list[i]] > soft.left[x]

SfInsert(t) ==
  /\ Runs(t, "sf_insert")
  /\ soft' = [soft EXCEPT !.list = LinkAt(@, SfPlace(sfArg[t]), sfArg[t]),
                          !.active = @ \cup {sfArg[t]}]
  /\ sfArg' = [sfArg EXCEPT ![t] = NoTimer]
  /\ Goto(t, IF t = timer_thread THEN "sf_loop" ELSE "sf_started")
  /\ UNCHANGED <<k, irqoff, fault, rest, sfLoop>>

SfStarted(t) ==
  /\ Runs(t, "sf_started")
  /\ Goto(t, IF k.stat[timer_thread] # "READY" THEN "sf_resume" ELSE "app")
  /\ UNCHANGED <<k, irqoff, fault, rest, soft, sfLoop, sfArg>>

SfResume(t) ==
  /\ Runs(t, "sf_resume")
  /\ k' = rt_thread_resume(k, timer_thread)
  /\ Goto(t, "sf_resumed")
  /\ UNCHANGED <<irqoff, fault, rest, soft, sfLoop, sfArg>>

(* rt_timer_stop *)
SfStopTest(t, x) ==
  /\ Runs(t, "app")
  /\ x \in soft.active
  /\ sfArg' = [sfArg EXCEPT ![t] = x]
  /\ Goto(t, "sf_stop")
  /\ UNCHANGED <<k, irqoff, fault, rest, soft, sfLoop>>

SfStop(t) ==
  /\ Runs(t, "sf_stop")
  /\ soft' = Removed(sfArg[t])
  /\ Goto(t, "sf_stop_flag")
  /\ UNCHANGED <<k, irqoff, fault, rest, sfLoop, sfArg>>

SfStopFlag(t) ==
  /\ Runs(t, "sf_stop_flag")
  /\ soft' = [soft EXCEPT !.active = @ \ {sfArg[t]}]
  /\ sfArg' = [sfArg EXCEPT ![t] = NoTimer]
  /\ Goto(t, "app")
  /\ UNCHANGED <<k, irqoff, fault, rest, sfLoop>>

-----------------------------------------------------------------------------
(* rt_thread_timer_entry: the loop of the timer thread, from point app *)

Serves(at) == Runs(timer_thread, at)

SfNext ==
  /\ Serves("app")
  /\ Goto(timer_thread, IF soft.list = <<>> THEN "sf_suspend" ELSE "sf_delta")
  /\ sfLoop' = IF soft.list = <<>> THEN sfLoop
               ELSE [sfLoop EXCEPT !.next = soft.left[Head(soft.list)]]
  /\ UNCHANGED <<k, irqoff, fault, rest, soft, sfArg>>

SfSuspend ==
  /\ Serves("sf_suspend")
  /\ k' = rt_thread_suspend(k, timer_thread)
  /\ Goto(timer_thread, "sf_sched")
  /\ UNCHANGED <<irqoff, fault, rest, soft, sfLoop, sfArg>>

SfDelta ==
  /\ Serves("sf_delta")
  /\ Goto(timer_thread, IF sfLoop.next >= 0 THEN "sf_delay" ELSE "sf_check")
  /\ UNCHANGED <<k, irqoff, fault, rest, soft, sfLoop, sfArg>>

(* rt_thread_delay *)
SfDelay ==
  /\ Serves("sf_delay")
  /\ k' = rt_timer_start(rt_thread_suspend(k, timer_thread), timer_thread, sfLoop.next)
  /\ Goto(timer_thread, "sf_sched")
  /\ UNCHANGED <<irqoff, fault, rest, soft, sfLoop, sfArg>>

SfSchedule(t) ==
  /\ \/ Schedule(t, "sf_sched", "sf_check")
     \/ Schedule(t, "sf_resumed", "app")
  /\ UNCHANGED <<rest, soft, sfLoop, sfArg>>

-----------------------------------------------------------------------------
(* rt_soft_timer_check, with the scheduler locked but while a timeout        *)
(* function runs.  current_tick is read when the check begins and after each *)
(* timeout function, and ages while ticks come.                              *)

(* The node after that of x; a timer that is in no list is linked to itself. *)
NodeAfter(x) ==
  IF ~ On(soft.list, x) THEN x
  ELSE LET i == CHOOSE j \in 1 .. Len(soft.list) : soft.list[j] = x
       IN  IF i = Len(soft.list) THEN NoTimer ELSE soft.list[i + 1]

(* The end of rt_thread_delay, the tick, and the first node *)
SfCheck ==
  /\ Serves("sf_check")
  /\ k' = [k EXCEPT !.lock_nest = @ + 1,
                    !.error[timer_thread] = IF @ = "ETIMEOUT" THEN "EOK" ELSE @]
  /\ sfLoop' = [Idling EXCEPT !.n = IF soft.list = <<>> THEN NoTimer ELSE Head(soft.list)]
  /\ Goto(timer_thread, "sf_loop")
  /\ UNCHANGED <<irqoff, fault, rest, soft, sfArg>>


Due(x) == x # NoTimer /\ soft.left[x] + sfLoop.lag <= 0

SfTake ==
  /\ Serves("sf_loop")
  /\ Due(sfLoop.n)
  /\ sfLoop' = [Idling EXCEPT !.n = NodeAfter(sfLoop.n), !.t = sfLoop.n]
  /\ soft' = Removed(sfLoop.n)
  /\ Goto(timer_thread, "sf_exit")
  /\ UNCHANGED <<k, irqoff, fault, rest, sfArg>>

SfNoMore ==
  /\ Serves("sf_loop")
  /\ ~ Due(sfLoop.n)
  /\ sfLoop' = Idling
  /\ Goto(timer_thread, "sf_unlock")
  /\ UNCHANGED <<k, irqoff, fault, rest, soft, sfArg>>

(* rt_exit_critical, before a timeout function and at the end *)
SfExit ==
  /\ Serves("sf_exit") \/ Serves("sf_unlock")
  /\ k' = rt_schedule([k EXCEPT !.lock_nest = @ - 1])
  /\ Goto(timer_thread, IF pc[timer_thread] = "sf_exit" THEN "sf_func" ELSE "app")
  /\ UNCHANGED <<irqoff, fault, rest, soft, sfLoop, sfArg>>

(* The timeout function returns, or stops its own timer first. *)
SfFunc ==
  /\ Serves("sf_func")
  /\ soft' \in {soft, [soft EXCEPT !.active = @ \ {sfLoop.t}]}
  /\ Goto(timer_thread, "sf_restart")
  /\ UNCHANGED <<k, irqoff, fault, rest, sfLoop, sfArg>>

(* current_tick is read again, and a periodic timer is started again. *)
SfRestart ==
  /\ Serves("sf_restart")
  /\ k' = [k EXCEPT !.lock_nest = @ + 1]
  /\ sfLoop' = [sfLoop EXCEPT !.t = NoTimer]
  /\ IF sfLoop.t \in SoftPeriodic \cap soft.active
     THEN /\ soft' = [Removed(sfLoop.t) EXCEPT !.active = @ \ {sfLoop.t}]
          /\ sfArg' = [sfArg EXCEPT ![timer_thread] = sfLoop.t]
          /\ Goto(timer_thread, "sf_arm")
     ELSE /\ soft' = [soft EXCEPT !.active = @ \ {sfLoop.t}]
          /\ Goto(timer_thread, "sf_loop")
          /\ UNCHANGED sfArg
  /\ UNCHANGED <<irqoff, fault, rest>>

-----------------------------------------------------------------------------
SfCall(t) == t # timer_thread /\ \E x \in SoftTimers : SfStart(t, x) \/ SfStopTest(t, x)

SfContinue(t) ==
  \/ SfArm(t) \/ SfInsert(t) \/ SfStarted(t) \/ SfResume(t) \/ SfStop(t) \/ SfStopFlag(t)
  \/ SfSchedule(t)

SfServe ==
  \/ SfNext \/ SfSuspend \/ SfDelta \/ SfDelay \/ SfCheck \/ SfTake \/ SfNoMore \/ SfExit
  \/ SfFunc \/ SfRestart

(* A tick brings the pending timers, and the times that the timer thread     *)
(* remembers, one tick nearer.                                               *)
Counting(x) ==
  On(soft.list, x) \/ \E t \in Thread : pc[t] = "sf_insert" /\ sfArg[t] = x

Earlier(left) == IF left > - MaxLate THEN left - 1 ELSE left

SfAge ==
  LET here == pc[timer_thread]
      old  == here \in {"sf_loop", "sf_arm", "sf_insert"}   \* current_tick was read before
  IN  /\ old => sfLoop.lag < MaxLate
      /\ soft' = [soft EXCEPT !.left = [x \in SoftTimers |->
                                          IF Counting(x) THEN Earlier(@[x]) ELSE @[x]]]
      /\ sfLoop' = [sfLoop EXCEPT !.next = IF here = "sf_delta" THEN Earlier(@) ELSE @,
                                  !.lag  = IF old THEN @ + 1 ELSE @]
      /\ UNCHANGED sfArg
=============================================================================
