-------------------------------- MODULE Calls --------------------------------
(***************************************************************************)
(* How kernel calls execute on the one processor: a call is a sequence of  *)
(* interrupt-disabled sections, only the running thread executes them, and *)
(* interrupts are served in between.  The modules of the kernel objects    *)
(* extend this one and add the state of their object.                      *)
(***************************************************************************)
EXTENDS Kernel

VARIABLES
  k,         \* the kernel state
  pc,        \* where the call in progress of each thread is
  irqoff,    \* a loop of several steps runs with interrupts disabled
  fault      \* a list head was used as a thread

(* Thread t runs, is at point c of its call, and no interrupt is served. *)
Runs(t, c) ==
  /\ ~fault
  /\ k.interrupt_nest = 0
  /\ k.current = t /\ t # idle
  /\ pc[t] = c

Goto(t, c) == pc' = [pc EXCEPT ![t] = c]

(* An interrupt is taken between two sections. *)
Interruptible == ~fault /\ ~irqoff /\ k.interrupt_nest = 0

(* rt_schedule() called on its own; the thread goes on at c when it is       *)
(* switched to again.                                                        *)
Schedule(t, at, c) ==
  /\ Runs(t, at)
  /\ k' = rt_schedule(k)
  /\ Goto(t, c)
  /\ UNCHANGED <<irqoff, fault>>

-----------------------------------------------------------------------------
(* rt_ipc_list_resume_all tests the list with the interrupts as its caller   *)
(* left them, and resumes its first thread in a section of its own.  An      *)
(* empty list makes that section write through the list head.                *)

ResumeWithError(l) ==
  rt_thread_resume([k EXCEPT !.error[k.susp[l][1]] = "ERROR"], k.susp[l][1])

ResumeAllTest(t, l, test, body, done) ==
  /\ Runs(t, test)
  /\ Goto(t, IF k.susp[l] # <<>> THEN body ELSE done)
  /\ UNCHANGED <<k, irqoff, fault>>

ResumeAllBody(t, l, test, body) ==
  /\ Runs(t, body)
  /\ IF k.susp[l] # <<>> THEN k' = ResumeWithError(l) /\ UNCHANGED fault
                         ELSE fault' = TRUE /\ UNCHANGED k
  /\ Goto(t, test)
  /\ UNCHANGED irqoff

-----------------------------------------------------------------------------
(* rt_thread_sleep, rt_thread_delay *)

SleepBegin(t, d) ==
  /\ Runs(t, "app")
  /\ k' = rt_timer_start(rt_thread_suspend(k, t), t, d)
  /\ Goto(t, "sleep_sched")
  /\ UNCHANGED <<irqoff, fault>>

SleepEnd(t) ==
  /\ Runs(t, "sleep_wait")
  /\ k' = IF k.error[t] = "ETIMEOUT" THEN [k EXCEPT !.error[t] = "EOK"] ELSE k
  /\ Goto(t, "app")
  /\ UNCHANGED <<irqoff, fault>>

-----------------------------------------------------------------------------
(* The tick interrupt: rt_interrupt_enter, rt_tick_increase with the timeout *)
(* function of every expired timer, rt_interrupt_leave.                      *)

TickEnter ==
  /\ Interruptible
  /\ k' = rt_tick_increase(rt_interrupt_enter(k))
  /\ UNCHANGED <<pc, irqoff, fault>>

TickTimeout(t) ==
  /\ k.interrupt_nest > 0
  /\ t \in Expired(k)
  /\ k' = rt_timer_check(k, t)
  /\ UNCHANGED <<pc, irqoff, fault>>

TickLeave ==
  /\ k.interrupt_nest > 0
  /\ Expired(k) = {}
  /\ k' = rt_interrupt_leave(k)
  /\ UNCHANGED <<pc, irqoff, fault>>

-----------------------------------------------------------------------------
(* The ready table, its bitmap, the suspend lists and the thread timers      *)
(* agree after every section of every call, whatever interrupts come between *)
(* the sections.                                                             *)
KernelConsistent == fault \/ KernelOK(k)

(* No READY thread has a higher priority than the running one. *)
RunsHighest ==
  \A t \in Thread : k.stat[t] = "READY" =>
    k.current_priority[k.current] <= k.current_priority[t]
=============================================================================
