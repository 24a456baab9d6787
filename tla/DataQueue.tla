------------------------------ MODULE DataQueue ------------------------------
(***************************************************************************)
(* Data queues (dataqueue.c): a ring of data items between drivers and     *)
(* threads.  A thread that waits to push is resumed when the queue has     *)
(* drained down to its low water mark.                                     *)
(***************************************************************************)
EXTENDS Waits

CONSTANTS
  dqPush, dqPop,   \* queue->suspended_push_list and suspended_pop_list
  DQ_SIZE,         \* queue->size
  LWM,             \* queue->lwm
  INDEX_MOD,       \* the indices are rt_uint16_t: 2^16
  MaxPush,         \* bound: how many items are pushed
  Item,            \* the data
  NoItem           \* an entry of the ring that was never written

ASSUME DataQueueAssumption ==
  /\ {dqPush, dqPop} \subseteq WaitList /\ dqPush # dqPop
  /\ DQ_SIZE \in Nat \ {0} /\ LWM \in Nat
  /\ INDEX_MOD \in Nat \ {0} /\ INDEX_MOD % DQ_SIZE = 0
  /\ MaxPush \in Nat
  /\ NoItem \notin Item

VARIABLES
  dq,              \* the queue
  dqArg            \* the arguments of the call in progress of each thread

NoArg == [item |-> NoItem, timeout |-> 0]

DqType ==
  /\ dq \in [queue : [0 .. DQ_SIZE - 1 -> Item \cup {NoItem}], waiting_lwm : BOOLEAN,
             get_index : 0 .. INDEX_MOD - 1, put_index : 0 .. INDEX_MOD - 1]
  /\ dqArg \in [Thread -> [item : Item \cup {NoItem}, timeout : Int]]

DqPC == {"dq_push_sched", "dq_push_wait", "dq_pushed", "dq_pop_sched", "dq_pop_wait",
         "dq_popped", "dq_reset_pop", "dq_reset_pop1", "dq_reset_push", "dq_reset_push1",
         "dq_reset_exit", "dq_reset_sched"}

(* rt_data_queue_init *)
DqInit ==
  /\ dq = [queue |-> [i \in 0 .. DQ_SIZE - 1 |-> NoItem], waiting_lwm |-> FALSE,
           get_index |-> 0, put_index |-> 0]
  /\ dqArg = [t \in Thread |-> NoArg]

(* mutant: one item more than there are slots *)
DqFullLate == dq.put_index - dq.get_index > DQ_SIZE

(* The operands are promoted to int: the difference is negative once only    *)
(* put_index has wrapped.                                                    *)
DqFull  == dq.put_index - dq.get_index = DQ_SIZE
DqEmpty == dq.get_index = dq.put_index

DqReturn(t, c) ==
  /\ dqArg' = [dqArg EXCEPT ![t] = NoArg]
  /\ Goto(t, c)

DqSuspend(t, l, arg, sched) ==
  /\ LET off == rt_ipc_list_suspend([k EXCEPT !.error[t] = "EOK"], l, t, "FIFO")
     IN  k' = IF arg.timeout > 0 THEN rt_timer_start(off, t, arg.timeout) ELSE off
  /\ dqArg' = [dqArg EXCEPT ![t] = arg]
  /\ Goto(t, sched)
  /\ UNCHANGED <<irqoff, fault, rest>>

-----------------------------------------------------------------------------
(* rt_data_queue_push: one round of its loop, from point at.  A call that    *)
(* succeeds goes on at point back.                                           *)

DqPushed(d) ==
  dq' = [dq EXCEPT !.queue[dq.put_index % DQ_SIZE] = d,
                   !.put_index = (@ + 1) % INDEX_MOD]

DqPushStore(t, at, d, back) ==
  /\ Runs(t, at)
  /\ ~ DqFull
  /\ DqPushed(d)
  /\ k' = ResumeFirst(dqPop)
  /\ DqReturn(t, IF k.susp[dqPop] # <<>> THEN "dq_pushed" ELSE back)
  /\ UNCHANGED <<irqoff, fault, rest>>

(* A push that finds the queue full leaves waiting_lwm set. *)
DqPushRefuse(t) ==
  /\ Runs(t, "app")
  /\ DqFull
  /\ dq' = [dq EXCEPT !.waiting_lwm = TRUE]
  /\ UNCHANGED <<k, pc, irqoff, fault, rest, dqArg>>


DqPushWait(t, at, arg) ==
  /\ Runs(t, at)
  /\ DqFull /\ arg.timeout # 0
  /\ dq' = [dq EXCEPT !.waiting_lwm = TRUE]
  /\ DqSuspend(t, dqPush, arg, "dq_push_sched")

DqPushBegin(t, d, timeout, back) ==
  /\ dq.put_index < MaxPush
  /\ \/ DqPushStore(t, "app", d, back)
     \/ DqPushWait(t, "app", [item |-> d, timeout |-> timeout])

DqPushAgain(t, back) ==
  /\ k.error[t] = "EOK"
  /\ \/ DqPushStore(t, "dq_push_wait", dqArg[t].item, back)
     \/ DqPushWait(t, "dq_push_wait", dqArg[t])

-----------------------------------------------------------------------------
(* rt_data_queue_pop.  At the low water mark one waiting pusher is resumed;  *)
(* when none waits the call returns without enabling interrupts again, where *)
(* the model stops.                                                          *)

DqLow == dq.waiting_lwm /\ dq.put_index - dq.get_index - 1 <= LWM


DqPopped ==
  dq' = [dq EXCEPT !.get_index = (@ + 1) % INDEX_MOD, !.waiting_lwm = @ /\ ~ DqLow]

DqPopTake(t, at) ==
  /\ Runs(t, at)
  /\ ~ DqEmpty
  /\ DqPopped
  /\ k' = IF DqLow THEN ResumeFirst(dqPush) ELSE k
  /\ fault' = (DqLow /\ k.susp[dqPush] = <<>>)
  /\ DqReturn(t, IF DqLow /\ k.susp[dqPush] # <<>> THEN "dq_popped" ELSE "app")
  /\ UNCHANGED <<irqoff, rest>>

DqPopWait(t, at, arg) ==
  /\ Runs(t, at)
  /\ DqEmpty /\ arg.timeout # 0
  /\ DqSuspend(t, dqPop, arg, "dq_pop_sched")
  /\ UNCHANGED dq

DqPopBegin(t, timeout) ==
  \/ DqPopTake(t, "app")
  \/ DqPopWait(t, "app", [item |-> NoItem, timeout |-> timeout])

DqPopAgain(t) ==
  /\ k.error[t] = "EOK"
  /\ DqPopTake(t, "dq_pop_wait") \/ DqPopWait(t, "dq_pop_wait", dqArg[t])

(* In a handler, with no time to wait *)
IsrDqPop ==
  /\ Interruptible
  /\ ~ DqEmpty
  /\ DqPopped
  /\ k' = IF DqLow /\ k.susp[dqPush] # <<>> THEN rt_schedule(ResumeFirst(dqPush)) ELSE k
  /\ fault' = (DqLow /\ k.susp[dqPush] = <<>>)
  /\ UNCHANGED <<pc, irqoff, rest, dqArg>>
-----------------------------------------------------------------------------
(* A push or pop resumed with an error returns it. *)
DqFail(t) ==
  /\ \E c \in {"dq_push_wait", "dq_pop_wait"} : Runs(t, c)
  /\ k.error[t] # "EOK"
  /\ DqReturn(t, "app")
  /\ UNCHANGED <<k, irqoff, fault, rest, dq>>

DqSchedule(t, back) ==
  /\ \/ Schedule(t, "dq_push_sched", "dq_push_wait")
     \/ Schedule(t, "dq_pop_sched", "dq_pop_wait")
     \/ Schedule(t, "dq_pushed", back)
     \/ Schedule(t, "dq_popped", "app")
     \/ Schedule(t, "dq_reset_sched", "app")
  /\ UNCHANGED <<rest, dq, dqArg>>

(* rt_data_queue_reset, with the scheduler locked and interrupts enabled: it *)
(* resumes every waiter and leaves the data and waiting_lwm as they are.     *)
DqResetBegin(t) ==
  /\ Runs(t, "app")
  /\ k' = [k EXCEPT !.lock_nest = @ + 1]
  /\ Goto(t, "dq_reset_pop")
  /\ UNCHANGED <<irqoff, fault, rest, dq, dqArg>>

DqResetResume(t) ==
  /\ \/ ResumeAllTest(t, dqPop, "dq_reset_pop", "dq_reset_pop1", "dq_reset_push")
     \/ ResumeAllBody(t, dqPop, "dq_reset_pop", "dq_reset_pop1")
     \/ ResumeAllTest(t, dqPush, "dq_reset_push", "dq_reset_push1", "dq_reset_exit")
     \/ ResumeAllBody(t, dqPush, "dq_reset_push", "dq_reset_push1")
  /\ UNCHANGED <<rest, dq, dqArg>>

(* rt_exit_critical *)
DqResetExit(t) ==
  /\ Runs(t, "dq_reset_exit")
  /\ k' = rt_schedule([k EXCEPT !.lock_nest = @ - 1])
  /\ Goto(t, "dq_reset_sched")
  /\ UNCHANGED <<irqoff, fault, rest, dq, dqArg>>
=============================================================================
