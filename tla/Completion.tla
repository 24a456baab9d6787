------------------------------ MODULE Completion ------------------------------
(***************************************************************************)
(* Completions (completion.c): one thread waits until another thread or an *)
(* interrupt handler says that something is done.                          *)
(***************************************************************************)
EXTENDS Waits

CONSTANT
  cpList      \* completion->suspended_list

ASSUME CompletionAssumption == cpList \in WaitList

VARIABLE
  cpFlag      \* completion->flag = RT_COMPLETED

CpPC == {"cp_sched", "cp_wait", "cp_done", "cp_done_sched"}

CpInit == cpFlag = FALSE

-----------------------------------------------------------------------------
(* rt_completion_wait, called at point at and returning to point back.  The  *)
(* application has one thread waiting at a time, which the code asserts, and *)
(* a wait of no time for what is not done returns at once.                   *)

CpWaitBlock(t, at, time) ==
  /\ Runs(t, at)
  /\ k.susp[cpList] = <<>> /\ time # 0
  /\ k' = LET off == rt_ipc_list_suspend([k EXCEPT !.error[t] = "EOK"], cpList, t, "FIFO")
          IN  IF time > 0 THEN rt_timer_start(off, t, time) ELSE off
  /\ Goto(t, "cp_sched")
  /\ UNCHANGED <<irqoff, fault, rest, cpFlag>>

CpWait(t, at, time, back) ==
  \/ /\ Runs(t, at)
     /\ cpFlag
     /\ cpFlag' = FALSE
     /\ Goto(t, back)
     /\ UNCHANGED <<k, irqoff, fault, rest>>
  \/ ~ cpFlag /\ CpWaitBlock(t, at, time)

(* rt_schedule() has returned: the flag is cleared whatever woke the thread. *)
CpWaitEnd(t, back) ==
  /\ Runs(t, "cp_wait")
  /\ cpFlag' = FALSE
  /\ Goto(t, back)
  /\ UNCHANGED <<k, irqoff, fault, rest>>

-----------------------------------------------------------------------------
(* rt_completion_done: a first look at the flag with interrupts enabled; a   *)
(* completion that is done already stays as it is.                           *)

CpDoneTest(t) ==
  /\ Runs(t, "app")
  /\ ~ cpFlag
  /\ Goto(t, "cp_done")
  /\ UNCHANGED <<k, irqoff, fault, rest, cpFlag>>

CpDone(t) ==
  /\ Runs(t, "cp_done")
  /\ cpFlag' = TRUE
  /\ k' = ResumeFirst(cpList)
  /\ Goto(t, IF k.susp[cpList] # <<>> THEN "cp_done_sched" ELSE "app")
  /\ UNCHANGED <<irqoff, fault, rest>>

IsrCpDone ==
  /\ Interruptible
  /\ IF cpFlag THEN UNCHANGED <<k, pc, irqoff, fault, rest>> ELSE IsrResuming(cpList)
  /\ cpFlag' = TRUE

CpSchedule(t) ==
  /\ \/ Schedule(t, "cp_sched", "cp_wait")
     \/ Schedule(t, "cp_done_sched", "app")
  /\ UNCHANGED <<rest, cpFlag>>
=============================================================================
