------------------------------- MODULE Kernel -------------------------------
(***************************************************************************)
(* The part of the kernel every blocking service is built on: the thread   *)
(* control blocks, the ready table with its priority bitmap, the suspend   *)
(* lists of the IPC objects and the thread timers (scheduler.c, thread.c,  *)
(* clock.c and the list helpers of ipc.c).                                 *)
(*                                                                         *)
(* A kernel state is one record k, and a kernel function is an operator    *)
(* from k to the state it leaves, named after the C function.  The C code  *)
(* calls them in sequence inside one interrupt-disabled section; a handler *)
(* of the modules that extend this one composes them the same way:         *)
(*     rt_schedule(rt_thread_resume(k, t)).                                *)
(* What happens between two such sections is up to those modules.          *)
(***************************************************************************)
EXTENDS Lists

CONSTANTS
  Thread,         \* the thread control blocks, the idle thread among them
  idle,           \* idle.c: the thread that never suspends
  WaitList,       \* the suspend lists (list heads) of the IPC objects
  PRIORITY_MAX,   \* RT_THREAD_PRIORITY_MAX; 0 is the highest priority
  InitPriority,   \* thread->init_priority
  InitTick,       \* thread->init_tick, the time slice
  StartTable      \* the ready table when the scheduler starts

Priority == 0 .. PRIORITY_MAX - 1

ASSUME KernelAssumption ==
  /\ PRIORITY_MAX \in Nat \ {0}
  /\ idle \in Thread
  /\ InitPriority \in [Thread -> Priority]
  /\ InitTick \in [Thread -> Nat \ {0}]

(* Every thread the application started before the scheduler is in the list *)
(* of its priority, in the order of the rt_thread_startup calls; the idle    *)
(* thread is one of them (rt_application_init, rt_thread_idle_init).         *)
ASSUME StartAssumption ==
  /\ StartTable \in [Priority -> Seq(Thread)]
  /\ \A p \in Priority : \A i, j \in 1 .. Len(StartTable[p]) :
       /\ InitPriority[StartTable[p][i]] = p
       /\ StartTable[p][i] = StartTable[p][j] => i = j
  /\ \E i \in 1 .. Len(StartTable[InitPriority[idle]]) :
       StartTable[InitPriority[idle]][i] = idle

(* thread->stat; NONE: the object is not created, or was freed again *)
Stat == {"NONE", "INIT", "READY", "SUSPEND", "CLOSE"}

(* thread->error: RT_EOK, -RT_ETIMEOUT, -RT_ERROR *)
Error == {"EOK", "ETIMEOUT", "ERROR"}

(* A thread timer that is not in the timer list.  An active one is modelled *)
(* by the number of ticks that are left until it expires.                   *)
Off == -1

KernelState ==
  [stat             : [Thread -> Stat],
   current_priority : [Thread -> Priority],
   number_mask      : [Thread -> SUBSET Priority],
   error            : [Thread -> Error],
   remaining_tick   : [Thread -> Int],
   timer            : [Thread -> Nat \cup {Off}],
   table            : [Priority -> Seq(Thread)],   \* rt_thread_priority_table
   group            : SUBSET Priority,             \* rt_thread_ready_priority_group
   susp             : [WaitList -> Seq(Thread)],   \* <object>.suspend_thread
   defunct          : Seq(Thread),                 \* rt_thread_defunct
   current          : Thread,                      \* rt_current_thread
   lock_nest        : Nat,                         \* rt_scheduler_lock_nest
   interrupt_nest   : Nat]                         \* rt_interrupt_nest

-----------------------------------------------------------------------------
(* rt_list_remove(&thread->tlist): tlist leaves whatever list it is linked in. *)
rt_list_remove(k, t) ==
  [k EXCEPT !.table   = [p \in Priority |-> Unlink(k.table[p], t)],
            !.susp    = [l \in WaitList |-> Unlink(k.susp[l], t)],
            !.defunct = Unlink(k.defunct, t)]

-----------------------------------------------------------------------------
(* scheduler.c *)

highest_ready_priority(k) ==
  CHOOSE p \in k.group : \A q \in k.group : p <= q

rt_schedule(k) ==
  IF k.lock_nest # 0 THEN k
  ELSE [k EXCEPT !.current = k.table[highest_ready_priority(k)][1]]

rt_schedule_insert_thread(k, t) ==
  [k EXCEPT !.stat[t] = "READY",
            !.table[k.current_priority[t]] = Append(@, t),
            !.group = @ \cup k.number_mask[t]]

(* mutants: the bit of an empty list stays set; the bit is always cleared *)
remove_keeps_bit(k, t)  == rt_list_remove(k, t)
remove_clears_bit(k, t) == [rt_list_remove(k, t) EXCEPT !.group = @ \ k.number_mask[t]]

rt_schedule_remove_thread(k, t) ==
  LET removed == rt_list_remove(k, t)
  IN  IF removed.table[k.current_priority[t]] = <<>>
      THEN [removed EXCEPT !.group = @ \ k.number_mask[t]]
      ELSE removed

-----------------------------------------------------------------------------
(* The thread timer, as thread.c and ipc.c use it (timer.c). *)

rt_timer_start(k, t, tick) == [k EXCEPT !.timer[t] = tick]
rt_timer_stop(k, t)        == [k EXCEPT !.timer[t] = Off]

-----------------------------------------------------------------------------
(* thread.c: the functions that other kernel code calls with interrupts off *)

rt_thread_suspend(k, t) ==
  IF k.stat[t] # "READY" THEN k
  ELSE rt_timer_stop(
         rt_schedule_remove_thread([k EXCEPT !.stat[t] = "SUSPEND"], t), t)

(* mutant: the timer of the resumed thread stays active *)
resume_keeps_timer(k, t) ==
  IF k.stat[t] # "SUSPEND" THEN k
  ELSE rt_schedule_insert_thread(rt_list_remove(k, t), t)

rt_thread_resume(k, t) ==
  IF k.stat[t] # "SUSPEND" THEN k
  ELSE rt_schedule_insert_thread(rt_timer_stop(rt_list_remove(k, t), t), t)

rt_thread_timeout(k, t) ==
  rt_schedule(
    rt_schedule_insert_thread(
      rt_list_remove([k EXCEPT !.error[t] = "ETIMEOUT"], t), t))

(* RT_THREAD_CTRL_CHANGE_PRIORITY *)
set_priority(k, t, p) ==
  [k EXCEPT !.current_priority[t] = p, !.number_mask[t] = {p}]

(* mutant: a READY thread stays in its old ready list *)
change_in_place(k, t, p) == set_priority(k, t, p)

change_priority(k, t, p) ==
  IF k.stat[t] = "READY"
  THEN rt_schedule_insert_thread(set_priority(rt_schedule_remove_thread(k, t), t, p), t)
  ELSE set_priority(k, t, p)

(* tlist.next # tlist.prev: another thread shares the ready list *)
rt_thread_yield(k) ==
  LET t == k.current
      p == k.current_priority[t]
  IN  IF k.stat[t] = "READY" /\ Len(k.table[p]) > 1
      THEN rt_schedule([k EXCEPT !.table[p] = Append(Unlink(@, t), t)])
      ELSE k

-----------------------------------------------------------------------------
(* ipc.c: the suspend list of an object *)

(* mutant: the comparison is turned round *)
place_before_higher(k, s, p) ==
  CHOOSE i \in 1 .. Len(s) + 1 :
    /\ \A j \in 1 .. i - 1 : k.current_priority[s[j]] >= p
    /\ i <= Len(s) => p > k.current_priority[s[i]]

(* The place of a waiter of priority p: before the first one of a lower     *)
(* priority, else at the end.                                               *)
PrioPlace(k, s, p) ==
  CHOOSE i \in 1 .. Len(s) + 1 :
    /\ \A j \in 1 .. i - 1 : k.current_priority[s[j]] <= p
    /\ i <= Len(s) => p < k.current_priority[s[i]]

(* mutant: rt_list_insert_after(list, ...), a stack *)
list_suspend_lifo(k, l, t, flag) ==
  LET off == rt_thread_suspend(k, t)
  IN  [off EXCEPT !.susp[l] = LinkAt(off.susp[l], 1, t)]

rt_ipc_list_suspend(k, l, t, flag) ==
  LET s     == k.susp[l]
      place == IF flag = "FIFO" THEN Len(s) + 1
               ELSE PrioPlace(k, s, k.current_priority[t])
      off   == rt_thread_suspend(k, t)
  IN  [off EXCEPT !.susp[l] = LinkAt(off.susp[l], place, t)]

rt_ipc_list_resume(k, l) == rt_thread_resume(k, k.susp[l][1])

-----------------------------------------------------------------------------
(* clock.c and timer.c: the tick interrupt.  rt_tick_increase ages every     *)
(* active timer by one tick, charges the running thread and rotates its      *)
(* ready list when the slice is used up; rt_timer_check then runs the        *)
(* timeout function of one expired timer after the other.                    *)

TickAge(k) ==
  [k EXCEPT !.timer = [t \in Thread |-> IF k.timer[t] > 0 THEN k.timer[t] - 1
                                        ELSE k.timer[t]]]

rt_tick_increase(k) ==
  LET t    == k.current
      left == k.remaining_tick[t] - 1
      aged == TickAge(k)
  IN  IF left = 0
      THEN rt_thread_yield([aged EXCEPT !.remaining_tick[t] = InitTick[t]])
      ELSE [aged EXCEPT !.remaining_tick[t] = left]

Expired(k) == {t \in Thread : k.timer[t] = 0}

(* mutant: the timeout function is not called *)
check_without_timeout(k, t) == rt_timer_stop(k, t)

rt_timer_check(k, t) == rt_thread_timeout(rt_timer_stop(k, t), t)

rt_interrupt_enter(k) == [k EXCEPT !.interrupt_nest = @ + 1]
rt_interrupt_leave(k) == [k EXCEPT !.interrupt_nest = @ - 1]

-----------------------------------------------------------------------------
(* rt_system_scheduler_start: the threads of StartTable have been started,  *)
(* none has run yet, and the scheduler selects the first one.               *)
Booted ==
  LET k == [stat             |-> [t \in Thread |->
                                   IF On(StartTable[InitPriority[t]], t)
                                   THEN "READY" ELSE "NONE"],
            current_priority |-> InitPriority,
            number_mask      |-> [t \in Thread |-> {InitPriority[t]}],
            error            |-> [t \in Thread |-> "EOK"],
            remaining_tick   |-> InitTick,
            timer            |-> [t \in Thread |-> Off],
            table            |-> StartTable,
            group            |-> {p \in Priority : StartTable[p] # <<>>},
            susp             |-> [l \in WaitList |-> <<>>],
            defunct          |-> <<>>,
            current          |-> idle,
            lock_nest        |-> 0,
            interrupt_nest   |-> 0]
  IN  rt_schedule(k)

-----------------------------------------------------------------------------
(* What the kernel functions maintain of a kernel state. *)

(* A thread is READY exactly while it is in the ready list of its current   *)
(* priority, and is there once (rt_schedule_insert_thread,                  *)
(* rt_schedule_remove_thread).                                              *)
ReadyListed(k) ==
  \A p \in Priority :
    /\ Distinct(k.table[p])
    /\ \A t \in Thread :
         On(k.table[p], t) <=> k.stat[t] = "READY" /\ k.current_priority[t] = p

(* The bitmap that rt_schedule searches agrees with the ready lists. *)
GroupExact(k) == \A p \in Priority : p \in k.group <=> k.table[p] # <<>>

(* A thread on a suspend list is SUSPENDed, and on that one list once; one  *)
(* on the defunct list is CLOSEd.                                           *)
WaitersSuspended(k) ==
  /\ \A l \in WaitList : Distinct(k.susp[l])
  /\ \A l \in WaitList, t \in Thread : On(k.susp[l], t) => k.stat[t] = "SUSPEND"
  /\ \A l, m \in WaitList, t \in Thread :
       On(k.susp[l], t) /\ On(k.susp[m], t) => l = m
  /\ Distinct(k.defunct)
  /\ \A t \in Thread : On(k.defunct, t) => k.stat[t] = "CLOSE"

(* The assertion of rt_thread_timeout: an armed thread timer belongs to a   *)
(* SUSPENDed thread.                                                        *)
TimersOfSuspended(k) == \A t \in Thread : k.timer[t] # Off => k.stat[t] = "SUSPEND"

(* A thread that runs or can be resumed has the mask of its priority. *)
MaskExact(k) ==
  \A t \in Thread : k.stat[t] \in {"READY", "SUSPEND"} =>
    k.number_mask[t] = {k.current_priority[t]}

(* There is always a thread to switch to. *)
IdleReady(k) == k.stat[idle] = "READY"

KernelOK(k) ==
  /\ ReadyListed(k)
  /\ GroupExact(k)
  /\ WaitersSuspended(k)
  /\ TimersOfSuspended(k)
  /\ MaskExact(k)
  /\ IdleReady(k)
=============================================================================
