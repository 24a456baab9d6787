-------------------------------- MODULE Mutex --------------------------------
(***************************************************************************)
(* The mutexes of ipc.c (rt_mutex functions) with priority inheritance,    *)
(* used by threads that nest them and that also sleep (rt_thread_sleep),   *)
(* under the tick interrupt.                                               *)
(***************************************************************************)
EXTENDS Calls

CONSTANTS
  Mutex,       \* the mutex objects; each is also the name of its suspend list
  RT_NULL,     \* no owner
  FLAG,        \* RT_IPC_FLAG_FIFO or RT_IPC_FLAG_PRIO, of every mutex
  HOLD_MOD,    \* mutex->hold is a rt_uint8_t: 2^8
  MaxHold,     \* bound: how deep the application nests takes of one mutex
  Times,       \* the time arguments of rt_mutex_take; -1 waits forever
  Delays       \* the arguments of rt_thread_sleep

ASSUME MutexAssumption ==
  /\ WaitList = Mutex
  /\ RT_NULL \notin Thread \cup Mutex
  /\ FLAG \in {"FIFO", "PRIO"}
  /\ HOLD_MOD \in Nat /\ MaxHold \in Nat \ {0} /\ MaxHold < HOLD_MOD
  /\ Times \subseteq Int
  /\ Delays \subseteq Nat \ {0}

VARIABLES
  mutex,     \* the mutex control blocks
  wants,     \* the mutex that the call in progress of a thread is about
  alive,     \* the mutexes that no thread has begun to detach or delete
  held       \* history: successful takes less releases, per thread and mutex

obj  == <<mutex, wants, alive, held>>
vars == <<k, pc, irqoff, fault, mutex, wants, alive, held>>

PC == {"app", "take_sched", "take_wait", "release_sched", "sleep_sched",
       "sleep_wait", "detach_test", "detach_body"}

(* original_priority when there is no owner *)
NoPriority == 255

MutexBlock ==
  [value : 0 .. 1, owner : Thread \cup {RT_NULL},
   original_priority : Priority \cup {NoPriority}, hold : 0 .. HOLD_MOD - 1]

rt_mutex_init ==
  [value |-> 1, owner |-> RT_NULL, original_priority |-> NoPriority, hold |-> 0]

Init ==
  /\ k = Booted
  /\ pc = [t \in Thread |-> "app"]
  /\ irqoff = FALSE /\ fault = FALSE
  /\ mutex = [m \in Mutex |-> rt_mutex_init]
  /\ wants = [t \in Thread |-> RT_NULL]
  /\ alive = Mutex
  /\ held = [t \in Thread |-> [m \in Mutex |-> 0]]

owner(m) == mutex[m].owner

(* k with thread->error of t set to e *)
Returns(t, e) == [k EXCEPT !.error[t] = e]

-----------------------------------------------------------------------------
(* rt_mutex_take *)

TakeAgain(t, m) ==
  /\ Runs(t, "app") /\ m \in alive
  /\ owner(m) = t /\ mutex[m].hold < MaxHold
  /\ k' = Returns(t, "EOK")
  /\ mutex' = [mutex EXCEPT ![m].hold = (@ + 1) % HOLD_MOD]
  /\ held' = [held EXCEPT ![t][m] = @ + 1]
  /\ UNCHANGED <<pc, irqoff, fault, wants, alive>>

TakeFree(t, m) ==
  /\ Runs(t, "app") /\ m \in alive
  /\ owner(m) # t /\ mutex[m].value > 0
  /\ k' = Returns(t, "EOK")
  /\ mutex' = [mutex EXCEPT ![m] =
       [value |-> @.value - 1, owner |-> t,
        original_priority |-> k.current_priority[t], hold |-> (@.hold + 1) % HOLD_MOD]]
  /\ held' = [held EXCEPT ![t][m] = @ + 1]
  /\ UNCHANGED <<pc, irqoff, fault, wants, alive>>

TakeNoWait(t, m) ==
  /\ Runs(t, "app") /\ m \in alive
  /\ owner(m) # t /\ mutex[m].value = 0 /\ 0 \in Times
  /\ k' = Returns(t, "ETIMEOUT")
  /\ UNCHANGED <<pc, irqoff, fault, obj>>

(* mutant: no inheritance *)
NotBoosted(kk, o, p) == kk

(* The owner inherits the priority of the thread that is about to wait. *)
Boosted(kk, o, p) ==
  IF p < kk.current_priority[o] THEN change_priority(kk, o, p) ELSE kk

TakeBlock(t, m, time) ==
  /\ Runs(t, "app") /\ m \in alive
  /\ owner(m) # t /\ mutex[m].value = 0 /\ time # 0
  /\ LET boosted == Boosted(Returns(t, "EOK"), owner(m), k.current_priority[t])
         wait    == rt_ipc_list_suspend(boosted, m, t, FLAG)
     IN  k' = IF time > 0 THEN rt_timer_start(wait, t, time) ELSE wait
  /\ wants' = [wants EXCEPT ![t] = m]
  /\ Goto(t, "take_sched")
  /\ UNCHANGED <<irqoff, fault, mutex, alive, held>>

TakeSchedule(t) == Schedule(t, "take_sched", "take_wait") /\ UNCHANGED obj

(* mutant: thread->error is not looked at *)
ReturnUnchecked(t) ==
  /\ Runs(t, "take_wait")
  /\ held' = [held EXCEPT ![t][wants[t]] = @ + 1]
  /\ wants' = [wants EXCEPT ![t] = RT_NULL]
  /\ Goto(t, "app")
  /\ UNCHANGED <<k, irqoff, fault, mutex, alive>>

(* rt_schedule() has returned: the thread was switched to again *)
TakeReturn(t) ==
  /\ Runs(t, "take_wait")
  /\ held' = IF k.error[t] = "EOK" THEN [held EXCEPT ![t][wants[t]] = @ + 1] ELSE held
  /\ wants' = [wants EXCEPT ![t] = RT_NULL]
  /\ Goto(t, "app")
  /\ UNCHANGED <<k, irqoff, fault, mutex, alive>>

-----------------------------------------------------------------------------
(* rt_mutex_release *)

ReleaseOthers(t, m) ==
  /\ Runs(t, "app") /\ m \in alive
  /\ owner(m) # t
  /\ k' = Returns(t, "ERROR")
  /\ UNCHANGED <<pc, irqoff, fault, obj>>

ReleaseInner(t, m) ==
  /\ Runs(t, "app") /\ m \in alive
  /\ owner(m) = t /\ mutex[m].hold # 1
  /\ mutex' = [mutex EXCEPT ![m].hold = (@ - 1) % HOLD_MOD]
  /\ held' = [held EXCEPT ![t][m] = @ - 1]
  /\ UNCHANGED <<k, pc, irqoff, fault, wants, alive>>

(* mutant: the inherited priority is kept *)
NotRestored(m) == k

(* The kernel once the owner has its original priority again *)
Restored(m) ==
  IF mutex[m].original_priority # k.current_priority[owner(m)]
  THEN change_priority(k, owner(m), mutex[m].original_priority)
  ELSE k

(* mutant: the list of waiters is not looked at *)
ReleaseToNobody(t, m) ==
  /\ Runs(t, "app") /\ m \in alive
  /\ owner(m) = t /\ mutex[m].hold = 1
  /\ k' = Restored(m)
  /\ mutex' = [mutex EXCEPT ![m] = rt_mutex_init]
  /\ held' = [held EXCEPT ![t][m] = @ - 1]
  /\ UNCHANGED <<pc, irqoff, fault, wants, alive>>

(* mutant: the new owner is not resumed *)
ReleaseNoResume(t, m) ==
  /\ Runs(t, "app") /\ m \in alive
  /\ owner(m) = t /\ mutex[m].hold = 1
  /\ k' = Restored(m)
  /\ mutex' = [mutex EXCEPT ![m] =
       IF k.susp[m] # <<>>
       THEN [@ EXCEPT !.owner = k.susp[m][1],
                      !.original_priority = k.current_priority[k.susp[m][1]]]
       ELSE rt_mutex_init]
  /\ held' = [held EXCEPT ![t][m] = @ - 1]
  /\ IF k.susp[m] # <<>> THEN Goto(t, "release_sched") ELSE UNCHANGED pc
  /\ UNCHANGED <<irqoff, fault, wants, alive>>

(* The last release hands the mutex to the first waiter, or frees it and    *)
(* then does not schedule.                                                  *)
ReleaseLast(t, m) ==
  /\ Runs(t, "app") /\ m \in alive
  /\ owner(m) = t /\ mutex[m].hold = 1
  /\ LET back == Restored(m)
         w    == k.susp[m][1]
     IN  IF k.susp[m] # <<>>
         THEN /\ k' = rt_ipc_list_resume(back, m)
              /\ mutex' = [mutex EXCEPT ![m].owner = w,
                             ![m].original_priority = back.current_priority[w]]
              /\ Goto(t, "release_sched")
         ELSE /\ k' = back
              /\ mutex' = [mutex EXCEPT ![m] =
                             [value |-> @.value + 1, owner |-> RT_NULL,
                              original_priority |-> NoPriority, hold |-> 0]]
              /\ UNCHANGED pc
  /\ held' = [held EXCEPT ![t][m] = @ - 1]
  /\ UNCHANGED <<irqoff, fault, wants, alive>>

(* mutant: need_schedule stays RT_FALSE *)
ReleaseNoSchedule(t) ==
  /\ Runs(t, "release_sched")
  /\ Goto(t, "app")
  /\ UNCHANGED <<k, irqoff, fault, obj>>

ReleaseSchedule(t) == Schedule(t, "release_sched", "app") /\ UNCHANGED obj

-----------------------------------------------------------------------------
(* rt_mutex_detach, rt_mutex_delete.  The application uses the mutex no more *)
(* once one has begun.                                                       *)
DetachBegin(t, m) ==
  /\ Runs(t, "app") /\ m \in alive
  /\ alive' = alive \ {m}
  /\ wants' = [wants EXCEPT ![t] = m]
  /\ Goto(t, "detach_test")
  /\ UNCHANGED <<k, irqoff, fault, mutex, held>>

DetachTest(t) ==
  /\ ResumeAllTest(t, wants[t], "detach_test", "detach_body", "app")
  /\ UNCHANGED obj

DetachResume(t) ==
  /\ ResumeAllBody(t, wants[t], "detach_test", "detach_body")
  /\ UNCHANGED obj

-----------------------------------------------------------------------------
(* rt_thread_sleep, and the tick interrupt *)

SleepBlock(t, d) == SleepBegin(t, d) /\ UNCHANGED obj
SleepSchedule(t) == Schedule(t, "sleep_sched", "sleep_wait") /\ UNCHANGED obj
SleepReturn(t)   == SleepEnd(t) /\ UNCHANGED obj

SysTick           == TickEnter /\ UNCHANGED obj
SysTickTimeout(t) == TickTimeout(t) /\ UNCHANGED obj
SysTickLeave      == TickLeave /\ UNCHANGED obj

(* Nothing is said of a kernel whose memory is overwritten. *)
Crashed == fault /\ UNCHANGED vars

-----------------------------------------------------------------------------
(* The rest of a call that has begun *)
Continue(t) ==
  \/ TakeSchedule(t) \/ TakeReturn(t) \/ ReleaseSchedule(t)
  \/ DetachTest(t) \/ DetachResume(t)
  \/ SleepSchedule(t) \/ SleepReturn(t)

Call(t) ==
  \/ \E m \in Mutex :
       \/ TakeAgain(t, m) \/ TakeFree(t, m) \/ TakeNoWait(t, m)
       \/ \E time \in Times : TakeBlock(t, m, time)
       \/ ReleaseOthers(t, m) \/ ReleaseInner(t, m) \/ ReleaseLast(t, m)
       \/ DetachBegin(t, m)
  \/ \E d \in Delays : SleepBlock(t, d)

Tick == SysTick \/ (\E t \in Thread : SysTickTimeout(t)) \/ SysTickLeave

Next == (\E t \in Thread : Call(t) \/ Continue(t)) \/ Tick \/ Crashed

(* Between two tick interrupts the processor executes some of the call it   *)
(* is in; a pending tick interrupt is taken once interrupts are on; and the *)
(* application releases in the end what it has taken whenever it is given   *)
(* the processor.                                                           *)
Fairness ==
  /\ SF_vars(Tick)
  /\ \A t \in Thread \ {idle} :
       /\ SF_vars(Continue(t))
       /\ SF_vars(\E m \in Mutex : ReleaseInner(t, m) \/ ReleaseLast(t, m))

Spec == Init /\ [][Next]_vars
FairSpec == Spec /\ Fairness

-----------------------------------------------------------------------------
(* Properties *)

TypeOK ==
  /\ k \in KernelState
  /\ pc \in [Thread -> PC]
  /\ irqoff \in BOOLEAN /\ fault \in BOOLEAN
  /\ mutex \in [Mutex -> MutexBlock]
  /\ wants \in [Thread -> Mutex \cup {RT_NULL}]
  /\ alive \subseteq Mutex
  /\ held \in [Thread -> [Mutex -> Int]]

(* Ready lists, bitmap, suspend lists, timers and thread states agree after  *)
(* every section, through the priority changes of rt_mutex_take and release, *)
(* and the variables keep their types.                                       *)
ListsConsistent == TypeOK /\ KernelConsistent

(* A release made t the owner of m, and t has not returned from its         *)
(* rt_mutex_take yet.                                                       *)
Granted(t, m) ==
  /\ wants[t] = m /\ pc[t] \in {"take_sched", "take_wait"}
  /\ k.stat[t] = "READY" /\ k.error[t] = "EOK"

(* Mutual exclusion: a thread whose takes succeeded more often than it      *)
(* released is the owner, mutex->hold is that difference (one more while    *)
(* the handover is under way), and a mutex nobody holds is free.            *)
OwnerHolds ==
  \A m \in Mutex :
    /\ \A t \in Thread : held[t][m] > 0 \/ Granted(t, m) => owner(m) = t
    /\ IF owner(m) = RT_NULL
       THEN mutex[m].value = 1 /\ mutex[m].hold = 0
       ELSE /\ mutex[m].value = 0 /\ mutex[m].hold > 0
            /\ mutex[m].hold = held[owner(m)][m] + (IF Granted(owner(m), m) THEN 1 ELSE 0)

(* No handover is lost: nobody waits for a free mutex. *)
NoWaiterOnFree == \A m \in Mutex : owner(m) = RT_NULL => k.susp[m] = <<>>

(* Priority inheritance: the owner never has a lower priority than a thread *)
(* that waits for the mutex.                                                *)
Inherits ==
  \A m \in alive : owner(m) # RT_NULL =>
    \A i \in 1 .. Len(k.susp[m]) :
      k.current_priority[owner(m)] <= k.current_priority[k.susp[m][i]]

(* A thread that has released every mutex has its own priority again. *)
PriorityReturned ==
  \A t \in Thread : (\A m \in Mutex : owner(m) # t) =>
    k.current_priority[t] = InitPriority[t]

(* Outside the kernel, no READY thread has a higher priority than the       *)
(* running one.                                                             *)
HighestRuns ==
  (alive = Mutex /\ Interruptible /\ pc[k.current] \in {"app", "take_wait", "sleep_wait"})
    => RunsHighest

(* No unbounded priority inversion: the thread of the highest priority gets *)
(* the mutex it waits for as soon as its owners have run, whatever threads  *)
(* of a priority in between do with the processor.                          *)
HighestIsServed ==
  \A t \in Thread, m \in Mutex :
    (On(k.susp[m], t) /\ InitPriority[t] = 0) ~> (~ On(k.susp[m], t) \/ m \notin alive)
=============================================================================
