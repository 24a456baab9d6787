-------------------------------- MODULE Waits --------------------------------
(***************************************************************************)
(* What the services with a waiting loop share (mailbox, message queue,    *)
(* memory pool): a call suspends on a list, and when it is resumed it      *)
(* tests its condition again and waits for the rest of its time limit.     *)
(***************************************************************************)
EXTENDS Calls, FiniteSets

CONSTANTS
  FLAG,    \* RT_IPC_FLAG_FIFO or RT_IPC_FLAG_PRIO, of every object
  Times    \* the time limits of the calls: 0 does not wait, -1 waits forever

ASSUME WaitsAssumption ==
  /\ IsFiniteSet(Thread)
  /\ FLAG \in {"FIFO", "PRIO"}
  /\ Times \subseteq Int

VARIABLE
  rest     \* per thread: timeout - (rt_tick_get() - tick_delta), not below 0

(* The thread suspends, with its timer armed when the wait has a limit. *)
WaitFrom(t, suspended, time, sched) ==
  /\ k' = IF time > 0 THEN rt_timer_start(suspended, t, time) ELSE suspended
  /\ rest' = [rest EXCEPT ![t] = time]
  /\ Goto(t, sched)
  /\ UNCHANGED <<irqoff, fault>>

(* thread->error = RT_EOK; rt_ipc_list_suspend *)
SuspendOn(t, l) == rt_ipc_list_suspend([k EXCEPT !.error[t] = "EOK"], l, t, FLAG)

Wait(t, l, time, sched) == WaitFrom(t, SuspendOn(t, l), time, sched)

(* The call returns. *)
Return(t) ==
  /\ rest' = [rest EXCEPT ![t] = 0]
  /\ Goto(t, "app")

(* rt_schedule() has returned with an error: timeout, reset or detach. *)
ReturnError(t, at) ==
  /\ Runs(t, at)
  /\ k.error[t] # "EOK"
  /\ Return(t)
  /\ UNCHANGED <<k, irqoff, fault>>

(* mutant: only a thread that waits alone is resumed *)
ResumeLone(l) == IF Len(k.susp[l]) = 1 THEN rt_ipc_list_resume(k, l) ELSE k

(* rt_ipc_list_resume, when a thread waits on l *)
ResumeFirst(l) == IF k.susp[l] # <<>> THEN rt_ipc_list_resume(k, l) ELSE k

(* A call ends by resuming a waiter of l, then by rt_schedule() at sched. *)
ReturnResuming(t, l, sched) ==
  /\ k' = ResumeFirst(l)
  /\ rest' = [rest EXCEPT ![t] = 0]
  /\ Goto(t, IF k.susp[l] # <<>> THEN sched ELSE "app")
  /\ UNCHANGED <<irqoff, fault>>

(* The same in an interrupt handler. *)
IsrResuming(l) ==
  /\ k' = IF k.susp[l] # <<>> THEN rt_schedule(ResumeFirst(l)) ELSE k
  /\ UNCHANGED <<pc, irqoff, fault, rest>>

(* The loop of rt_ipc_list_resume_all with interrupts disabled (RESET) *)
ResetBegin(t, at) ==
  /\ Runs(t, "app")
  /\ irqoff' = TRUE
  /\ Goto(t, at)
  /\ UNCHANGED <<k, fault, rest>>

ResetResume(t, at, l) ==
  /\ Runs(t, at)
  /\ k.susp[l] # <<>>
  /\ k' = ResumeWithError(l)
  /\ UNCHANGED <<pc, irqoff, fault, rest>>

ResetEnd(t, at, sched) ==
  /\ Runs(t, at)
  /\ irqoff' = FALSE
  /\ Goto(t, sched)
  /\ UNCHANGED <<k, fault, rest>>

-----------------------------------------------------------------------------
(* The tick interrupt: what is left of the waits that have begun shrinks. *)

(* The points of a call that follow the recalculation of its time limit *)
Recalculated == {"mp_again"}

WaitTick ==
  /\ TickEnter
  /\ rest' = [t \in Thread |-> IF rest[t] > 0 /\ pc[t] \notin Recalculated
                                THEN rest[t] - 1 ELSE rest[t]]

WaitTimeout(t) == TickTimeout(t) /\ UNCHANGED rest
WaitTickLeave  == TickLeave /\ UNCHANGED rest

-----------------------------------------------------------------------------
(* The threads that were resumed on purpose, not by a timeout, a reset or a  *)
(* detach, and have not tested the condition of their loop again.            *)
Woken(at) ==
  {t \in Thread : pc[t] \in at /\ k.stat[t] = "READY" /\ k.error[t] = "EOK"}
=============================================================================
