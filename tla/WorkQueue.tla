------------------------------ MODULE WorkQueue ------------------------------
(***************************************************************************)
(* Work queues (workqueue.c): a thread that executes the work other        *)
(* threads hand to it.  What happens between rt_enter_critical and         *)
(* rt_exit_critical is one step: no other thread runs meanwhile, and no    *)
(* interrupt handler looks at the list.                                    *)
(***************************************************************************)
EXTENDS Waits

CONSTANTS
  Work,        \* the work items
  worker       \* queue->work_thread

ASSUME WorkQueueAssumption == worker \in Thread

VARIABLE
  work_list    \* queue->work_list

WqPC == {"wq_suspend", "wq_sched", "wq_take", "wq_resume", "wq_resumed"}

WqInit == work_list = <<>>

-----------------------------------------------------------------------------
(* _workqueue_thread_entry: the loop of the work thread *)

WqTest ==
  /\ Runs(worker, "app")
  /\ Goto(worker, IF work_list = <<>> THEN "wq_suspend" ELSE "wq_take")
  /\ UNCHANGED <<k, irqoff, fault, rest, work_list>>

WqSuspend ==
  /\ Runs(worker, "wq_suspend")
  /\ k' = rt_thread_suspend(k, worker)
  /\ Goto(worker, "wq_sched")
  /\ UNCHANGED <<irqoff, fault, rest, work_list>>

(* The list is not tested again: an empty one yields its head as the work. *)
WqTake ==
  /\ Runs(worker, "wq_take")
  /\ k' = rt_schedule(k)
  /\ IF work_list = <<>> THEN fault' = TRUE /\ UNCHANGED work_list
                         ELSE work_list' = Tail(work_list) /\ UNCHANGED fault
  /\ Goto(worker, "app")
  /\ UNCHANGED <<irqoff, rest>>

-----------------------------------------------------------------------------
(* rt_workqueue_dowork: the work moves to the end of the list; the work      *)
(* thread is resumed if it was not READY, in a section of its own.           *)


WqDowork(t, w) ==
  /\ Runs(t, "app") /\ t # worker
  /\ work_list' = Append(Unlink(work_list, w), w)
  /\ k' = rt_schedule(k)
  /\ Goto(t, IF k.stat[worker] # "READY" THEN "wq_resume" ELSE "app")
  /\ UNCHANGED <<irqoff, fault, rest>>

WqResume(t) ==
  /\ Runs(t, "wq_resume")
  /\ k' = rt_thread_resume(k, worker)
  /\ Goto(t, "wq_resumed")
  /\ UNCHANGED <<irqoff, fault, rest, work_list>>

WqCancel(t, w) ==
  /\ Runs(t, "app") /\ t # worker
  /\ work_list' = Unlink(work_list, w)
  /\ k' = rt_schedule(k)
  /\ UNCHANGED <<pc, irqoff, fault, rest>>

WqSchedule(t) ==
  /\ \/ Schedule(t, "wq_sched", "wq_take")
     \/ Schedule(t, "wq_resumed", "app")
  /\ UNCHANGED <<rest, work_list>>
=============================================================================
