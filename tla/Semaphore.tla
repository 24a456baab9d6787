------------------------------ MODULE Semaphore ------------------------------
(***************************************************************************)
(* One semaphore (the rt_sem functions of ipc.c) used by every thread but  *)
(* idle and by an interrupt handler, under the tick interrupt.             *)
(*                                                                         *)
(* A step is an interrupt-disabled section of the code.  Only the running  *)
(* thread k.current takes thread steps; pc[t] is the point its current     *)
(* call has reached, so that an interrupt can come between the section     *)
(* that suspends a thread and the rt_schedule() that switches away.        *)
(***************************************************************************)
EXTENDS Calls, FiniteSets

CONSTANTS
  sem,          \* the suspend list of the semaphore
  FLAG,         \* RT_IPC_FLAG_FIFO or RT_IPC_FLAG_PRIO
  InitValue,    \* the value given to rt_sem_init
  VALUE_MOD,    \* sem->value is a rt_uint16_t: 2^16
  MaxValue,     \* bound: the application never lets the value pass it
  Times,        \* the time arguments of rt_sem_take; -1 waits forever
  NewPriority   \* the priorities rt_thread_control is called with

ASSUME SemaphoreAssumption ==
  /\ IsFiniteSet(Thread)
  /\ WaitList = {sem}
  /\ FLAG \in {"FIFO", "PRIO"}
  /\ MaxValue \in Nat /\ InitValue \in 0 .. MaxValue
  /\ VALUE_MOD \in Nat /\ MaxValue < VALUE_MOD
  /\ Times \subseteq Int
  /\ NewPriority \subseteq Priority

VARIABLES
  value,     \* sem->value
  alive,     \* no thread has begun to detach or delete the semaphore
  tokens     \* history: initial value + releases - successful takes

vars == <<k, value, pc, alive, irqoff, fault, tokens>>

PC == {"app", "take_sched", "take_wait", "release_sched", "reset",
       "reset_sched", "detach_test", "detach_body"}

Waiters == k.susp[sem]

Init ==
  /\ k = Booted
  /\ value = InitValue
  /\ pc = [t \in Thread |-> "app"]
  /\ alive = TRUE /\ irqoff = FALSE /\ fault = FALSE
  /\ tokens = InitValue

-----------------------------------------------------------------------------
(* rt_sem_take *)

(* mutant: the test for a token lets a zero pass *)
TakeNowAtZero(t) ==
  /\ Runs(t, "app") /\ alive
  /\ value >= 0
  /\ value' = value - 1
  /\ tokens' = tokens - 1
  /\ UNCHANGED <<k, pc, alive, irqoff, fault>>

TakeNow(t) ==
  /\ Runs(t, "app") /\ alive
  /\ value > 0
  /\ value' = value - 1
  /\ tokens' = tokens - 1
  /\ UNCHANGED <<k, pc, alive, irqoff, fault>>

(* mutant: thread->error is not reset *)
TakeBlockKeepsError(t, time) ==
  /\ Runs(t, "app") /\ alive
  /\ value = 0 /\ time # 0
  /\ LET wait == rt_ipc_list_suspend(k, sem, t, FLAG)
     IN  k' = IF time > 0 THEN rt_timer_start(wait, t, time) ELSE wait
  /\ Goto(t, "take_sched")
  /\ UNCHANGED <<value, alive, irqoff, fault, tokens>>

TakeBlock(t, time) ==
  /\ Runs(t, "app") /\ alive
  /\ value = 0 /\ time # 0
  /\ LET clear == [k EXCEPT !.error[t] = "EOK"]
         wait  == rt_ipc_list_suspend(clear, sem, t, FLAG)
     IN  k' = IF time > 0 THEN rt_timer_start(wait, t, time) ELSE wait
  /\ Goto(t, "take_sched")
  /\ UNCHANGED <<value, alive, irqoff, fault, tokens>>

TakeSchedule(t) ==
  /\ Schedule(t, "take_sched", "take_wait")
  /\ UNCHANGED <<value, alive, tokens>>

(* rt_schedule() has returned: the thread was switched to again *)
TakeReturn(t) ==
  /\ Runs(t, "take_wait")
  /\ tokens' = IF k.error[t] = "EOK" THEN tokens - 1 ELSE tokens
  /\ Goto(t, "app")
  /\ UNCHANGED <<k, value, alive, irqoff, fault>>

-----------------------------------------------------------------------------
(* rt_sem_release, by a thread and by an interrupt handler *)

ReleaseKernel == IF Waiters # <<>> THEN rt_ipc_list_resume(k, sem) ELSE k
(* mutant: the value is increased for a resumed waiter, too *)
ReleaseAlwaysCounts == (value + 1) % VALUE_MOD
ReleaseValue  == IF Waiters # <<>> THEN value ELSE (value + 1) % VALUE_MOD

Release(t) ==
  /\ Runs(t, "app") /\ alive
  /\ value < MaxValue
  /\ k' = ReleaseKernel
  /\ value' = ReleaseValue
  /\ tokens' = tokens + 1
  /\ IF Waiters # <<>> THEN Goto(t, "release_sched") ELSE UNCHANGED pc
  /\ UNCHANGED <<alive, irqoff, fault>>

(* mutant: need_schedule is not set *)
ReleaseNoSchedule(t) ==
  /\ Runs(t, "release_sched")
  /\ Goto(t, "app")
  /\ UNCHANGED <<k, value, alive, irqoff, fault, tokens>>

ReleaseSchedule(t) ==
  /\ Schedule(t, "release_sched", "app")
  /\ UNCHANGED <<value, alive, tokens>>

IsrRelease ==
  /\ Interruptible /\ alive
  /\ value < MaxValue
  /\ k' = IF Waiters # <<>> THEN rt_schedule(ReleaseKernel) ELSE k
  /\ value' = ReleaseValue
  /\ tokens' = tokens + 1
  /\ UNCHANGED <<pc, alive, irqoff, fault>>

(* rt_sem_trytake in an interrupt handler *)
IsrTryTake ==
  /\ Interruptible /\ alive
  /\ value > 0
  /\ value' = value - 1
  /\ tokens' = tokens - 1
  /\ UNCHANGED <<k, pc, alive, irqoff, fault>>

-----------------------------------------------------------------------------
(* rt_sem_control(RT_IPC_CMD_RESET): the loop runs with interrupts disabled *)
ResetBegin(t) ==
  /\ Runs(t, "app") /\ alive
  /\ irqoff' = TRUE
  /\ Goto(t, "reset")
  /\ UNCHANGED <<k, value, alive, fault, tokens>>

ResetResume(t) ==
  /\ Runs(t, "reset")
  /\ Waiters # <<>>
  /\ k' = ResumeWithError(sem)
  /\ UNCHANGED <<value, pc, alive, irqoff, fault, tokens>>

ResetValue(t, v) ==
  /\ Runs(t, "reset")
  /\ Waiters = <<>>
  /\ value' = v % VALUE_MOD
  /\ tokens' = tokens - value + v
  /\ irqoff' = FALSE
  /\ Goto(t, "reset_sched")
  /\ UNCHANGED <<k, alive, fault>>

ResetSchedule(t) ==
  /\ Schedule(t, "reset_sched", "app")
  /\ UNCHANGED <<value, alive, tokens>>

(* rt_sem_detach, rt_sem_delete: the loop tests the list with interrupts   *)
(* enabled.  The application uses the semaphore no more once it began.     *)
DetachBegin(t) ==
  /\ Runs(t, "app") /\ alive
  /\ alive' = FALSE
  /\ Goto(t, "detach_test")
  /\ UNCHANGED <<k, value, irqoff, fault, tokens>>

DetachTest(t) ==
  /\ ResumeAllTest(t, sem, "detach_test", "detach_body", "app")
  /\ UNCHANGED <<value, alive, tokens>>

DetachResume(t) ==
  /\ ResumeAllBody(t, sem, "detach_test", "detach_body")
  /\ UNCHANGED <<value, alive, tokens>>

-----------------------------------------------------------------------------
(* rt_thread_control(u, RT_THREAD_CTRL_CHANGE_PRIORITY, &p) *)
Control(t, u, p) ==
  /\ Runs(t, "app")
  /\ k' = change_priority(k, u, p)
  /\ UNCHANGED <<value, pc, alive, irqoff, fault, tokens>>

-----------------------------------------------------------------------------
(* The tick interrupt *)

SysTick           == TickEnter /\ UNCHANGED <<value, alive, tokens>>
SysTickTimeout(t) == TickTimeout(t) /\ UNCHANGED <<value, alive, tokens>>
SysTickLeave      == TickLeave /\ UNCHANGED <<value, alive, tokens>>

(* Nothing is said of a kernel whose memory is overwritten. *)
Crashed == fault /\ UNCHANGED vars

-----------------------------------------------------------------------------
(* The rest of a call that has begun, and the tick interrupt *)
Continue(t) ==
  \/ TakeSchedule(t) \/ TakeReturn(t) \/ ReleaseSchedule(t)
  \/ ResetResume(t) \/ (\E v \in 0 .. MaxValue : ResetValue(t, v)) \/ ResetSchedule(t)
  \/ DetachTest(t) \/ DetachResume(t)

Call(t) ==
  \/ TakeNow(t) \/ (\E time \in Times : TakeBlock(t, time))
  \/ Release(t) \/ ResetBegin(t) \/ DetachBegin(t)
  \/ \E u \in Thread \ {idle}, p \in NewPriority : Control(t, u, p)

Tick == SysTick \/ (\E t \in Thread : SysTickTimeout(t)) \/ SysTickLeave

Next ==
  \/ \E t \in Thread : Call(t) \/ Continue(t)
  \/ Tick \/ IsrRelease \/ IsrTryTake
  \/ Crashed

(* The processor executes a call it has begun; the tick interrupt stays     *)
(* pending while interrupts are off and is taken when they are on again.    *)
Fairness == SF_vars(Tick) /\ \A t \in Thread : WF_vars(Continue(t))

Spec == Init /\ [][Next]_vars
FairSpec == Spec /\ Fairness

-----------------------------------------------------------------------------
(* Properties *)

TypeOK ==
  /\ k \in KernelState
  /\ value \in 0 .. VALUE_MOD - 1
  /\ pc \in [Thread -> PC]
  /\ alive \in BOOLEAN /\ irqoff \in BOOLEAN /\ fault \in BOOLEAN
  /\ tokens \in Int

(* No wakeup is lost: a thread waits on the semaphore only while it has no  *)
(* token (rt_sem_take suspends, rt_sem_release increments, never both).     *)
NoWaiterWithToken == value > 0 => Waiters = <<>>

(* The threads that rt_sem_release resumed and that have not returned from  *)
(* rt_sem_take yet: the release handed its token over to them.              *)
Granted ==
  {t \in Thread : /\ pc[t] \in {"take_sched", "take_wait"}
                  /\ k.stat[t] = "READY" /\ k.error[t] = "EOK"}

(* No token is lost or made up: what was released and not yet taken is the  *)
(* value, plus one token on its way to each thread a release has resumed.   *)
TokensConserved == tokens = value + Cardinality(Granted)

(* rt_schedule keeps the highest-priority READY thread running: outside the *)
(* kernel, no READY thread has a higher priority than the running one.      *)
HighestRuns ==
  (alive /\ Interruptible /\ pc[k.current] \in {"app", "take_wait"})
    => RunsHighest

(* A thread leaves the suspend list by a release only when no waiter that   *)
(* stays has a higher priority (RT_IPC_FLAG_PRIO, rt_ipc_list_suspend).     *)
GrantsHighest ==
  [][\A t \in Thread :
       On(Waiters, t) /\ ~ On(Waiters, t)' /\ k.error[t]' = "EOK" =>
         \A u \in Thread :
           On(Waiters', u) => k.current_priority[t] <= k.current_priority[u]]_vars

(* The semaphore does what its users are promised: threads get tokens in    *)
(* the order of the queue, under RT_IPC_FLAG_FIFO the order of their calls, *)
(* and no release is lost between a resume and the return of rt_sem_take.   *)
Abstract == INSTANCE SemaphoreSpec
              WITH queue <- Waiters, granted <- Granted,
                   Limit <- MaxValue, Fifo <- (FLAG = "FIFO")
ImplementsSpec == Abstract!Spec

(* A take with a time limit ends: its thread is made READY again, by a      *)
(* token, a reset, a detach or the timeout.                                 *)
TimedTakeEnds ==
  \A t \in Thread :
    (pc[t] = "take_sched" /\ k.timer[t] # Off) ~> (k.stat[t] = "READY" \/ fault)
=============================================================================
