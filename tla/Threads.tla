------------------------------- MODULE Threads -------------------------------
(***************************************************************************)
(* The life cycle of threads: creation, startup, suspend and resume, sleep, *)
(* yield, exit, detach and delete (thread.c), the idle thread that reaps   *)
(* dead threads (idle.c), and the scheduler lock (scheduler.c).            *)
(*                                                                         *)
(* Here a call on another thread is cut at every point where the code has  *)
(* interrupts enabled: rt_thread_resume tests thread->stat, unlinks and    *)
(* inserts the thread in three separate steps, rt_thread_delete has five.  *)
(***************************************************************************)
EXTENDS Calls

CONSTANTS
  Heap,       \* the threads made by rt_thread_create; the others are static
  Cleanup,    \* the threads that have a cleanup function
  Garbage,    \* what number_mask may hold in memory from rt_malloc
  Applications, \* what an application may use, see Uses
  Delays,     \* the arguments of rt_thread_sleep
  MaxLock     \* bound: how deep rt_enter_critical is nested

Uses == {"create", "exit", "delete", "delete_unstarted", "suspend", "suspend_other",
         "resume", "isr_resume", "overlap", "yield", "critical", "sleep"}

ASSUME ThreadsAssumption ==
  /\ WaitList = {}
  /\ Heap \subseteq Thread \ {idle} /\ Cleanup \subseteq Thread
  /\ Garbage \subseteq SUBSET Priority
  /\ Applications \subseteq SUBSET Uses
  /\ Delays \subseteq Nat
  /\ MaxLock \in Nat

VARIABLES
  use,     \* the operations the application uses
  arg,     \* the thread that the call in progress of a thread is about
  due      \* history: the dead threads still to be cleaned up or freed

vars == <<k, pc, irqoff, fault, use, arg, due>>

PC == {"app", "sched", "sleep_sched", "sleep_wait", "exited",
       "startup_test", "resume_unlink", "resume_insert", "suspend_body",
       "del_timer", "del_close", "del_link", "excute", "reap", "free"}

Init ==
  /\ k = Booted
  /\ pc = [t \in Thread |-> "app"]
  /\ irqoff = FALSE /\ fault = FALSE
  /\ use \in Applications
  /\ arg = [t \in Thread |-> t]
  /\ due = {}

-----------------------------------------------------------------------------
(* rt_schedule takes the first node of the list the bitmap points to.  When *)
(* there is none it uses the list head as a thread.                         *)
Safe(kk) ==
  kk.lock_nest = 0 =>
    kk.group # {} /\ kk.table[highest_ready_priority(kk)] # <<>>

Switch(kk) ==
  IF Safe(kk) THEN k' = rt_schedule(kk) /\ UNCHANGED fault
              ELSE fault' = TRUE /\ UNCHANGED k

(* tlist of u is linked in some list *)
Linked(u) == On(k.defunct, u) \/ \E p \in Priority : On(k.table[p], u)

(* Linking a node that is linked already destroys the list it is in. *)
Link(u, kk) ==
  IF Linked(u) THEN fault' = TRUE /\ UNCHANGED k
               ELSE k' = kk /\ UNCHANGED fault

(* The threads that a call in progress is about, and those being deleted.    *)
(* The application does not begin a second call on one of them, unless it   *)
(* lets its calls overlap.                                                  *)
DeletePC == {"del_timer", "del_close", "del_link"}
TargetPC == DeletePC \cup {"startup_test", "resume_unlink", "resume_insert", "suspend_body"}

Deleting      == {arg[t] : t \in {u \in Thread : pc[u] \in DeletePC}}
Untargeted(u) == "overlap" \in use \/ \A t \in Thread : pc[t] \in TargetPC => arg[t] # u

CallOn(t, u, c) == arg' = [arg EXCEPT ![t] = u] /\ Goto(t, c)

(* The application makes blocking calls with the scheduler unlocked. *)
MayBlock(t) == Runs(t, "app") /\ k.lock_nest = 0

-----------------------------------------------------------------------------
(* rt_thread_create, rt_thread_init, rt_thread_startup *)

(* _rt_thread_init does not set number_mask: what it holds is old memory. *)
Fresh(u, mask) ==
  [k EXCEPT !.stat[u] = "INIT", !.current_priority[u] = InitPriority[u],
            !.remaining_tick[u] = InitTick[u], !.error[u] = "EOK",
            !.number_mask[u] = mask, !.timer[u] = Off]

Create(t, u) ==
  /\ Runs(t, "app") /\ "create" \in use
  /\ Untargeted(u)
  /\ IF u \in Heap
     THEN k.stat[u] = "NONE" /\ \E mask \in Garbage : k' = Fresh(u, mask)
     ELSE /\ k.stat[u] \in {"NONE", "CLOSE"} /\ u \notin due
          /\ k' = Fresh(u, k.number_mask[u])
  /\ pc' = [pc EXCEPT ![u] = "app"]
  /\ UNCHANGED <<irqoff, fault, arg, due>>

Startup(t, u) ==
  /\ Runs(t, "app")
  /\ k.stat[u] = "INIT" /\ Untargeted(u)
  /\ k' = [set_priority(k, u, InitPriority[u]) EXCEPT !.stat[u] = "SUSPEND"]
  /\ CallOn(t, u, "startup_test")
  /\ UNCHANGED <<irqoff, fault, due>>

StartupTest(t) ==
  /\ Runs(t, "startup_test")
  /\ Goto(t, IF k.stat[arg[t]] = "SUSPEND" THEN "resume_unlink" ELSE "sched")
  /\ UNCHANGED <<k, irqoff, fault, arg, due>>

-----------------------------------------------------------------------------
(* rt_thread_resume, by a thread and by an interrupt handler; the caller    *)
(* schedules afterwards.                                                    *)

Resume(t, u) ==
  /\ Runs(t, "app") /\ "resume" \in use
  /\ k.stat[u] = "SUSPEND" /\ Untargeted(u)
  /\ CallOn(t, u, "resume_unlink")
  /\ UNCHANGED <<k, irqoff, fault, due>>

ResumeUnlink(t) ==
  /\ Runs(t, "resume_unlink")
  /\ k' = rt_timer_stop(rt_list_remove(k, arg[t]), arg[t])
  /\ Goto(t, "resume_insert")
  /\ UNCHANGED <<irqoff, fault, arg, due>>

ResumeInsert(t) ==
  /\ Runs(t, "resume_insert")
  /\ Link(arg[t], rt_schedule_insert_thread(k, arg[t]))
  /\ Goto(t, "sched")
  /\ UNCHANGED <<irqoff, arg, due>>

IsrResume(u) ==
  /\ Interruptible /\ "isr_resume" \in use
  /\ k.stat[u] = "SUSPEND" /\ Untargeted(u)
  /\ Switch(rt_thread_resume(k, u))
  /\ UNCHANGED <<pc, irqoff, arg, due>>

(* rt_thread_suspend.  A thread that suspends itself then calls rt_schedule. *)
Suspend(t, u) ==
  /\ IF u = t THEN MayBlock(t) /\ "suspend" \in use
              ELSE Runs(t, "app") /\ "suspend_other" \in use /\ Untargeted(u)
  /\ k.stat[u] = "READY"
  /\ CallOn(t, u, "suspend_body")
  /\ UNCHANGED <<k, irqoff, fault, due>>

SuspendBody(t) ==
  /\ Runs(t, "suspend_body")
  /\ k' = rt_timer_stop(
            rt_schedule_remove_thread([k EXCEPT !.stat[arg[t]] = "SUSPEND"], arg[t]), arg[t])
  /\ Goto(t, IF arg[t] = t THEN "sched" ELSE "app")
  /\ UNCHANGED <<irqoff, fault, arg, due>>

-----------------------------------------------------------------------------
(* rt_thread_exit; rt_thread_detach (static threads), rt_thread_delete *)

Reapable(u) == u \in Heap \/ u \in Cleanup

(* mutant: the list is begun anew *)
DefunctAnew(kk, u) == [kk EXCEPT !.defunct = <<u>>]

Defunct(kk, u) == [kk EXCEPT !.defunct = <<u>> \o @]

Exit(t) ==
  /\ MayBlock(t) /\ "exit" \in use
  /\ LET off == rt_timer_stop([rt_schedule_remove_thread(k, t) EXCEPT !.stat[t] = "CLOSE"], t)
     IN  k' = IF Reapable(t) THEN Defunct(off, t) ELSE off
  /\ due' = IF Reapable(t) THEN due \cup {t} ELSE due
  /\ Goto(t, "sched")
  /\ UNCHANGED <<irqoff, fault, arg>>

(* mutant: the thread stays in its queue *)
DeleteQueued(t, u) ==
  /\ Runs(t, "app") /\ u \notin {t, idle}
  /\ Untargeted(u) /\ pc[u] \in {"app", "sched", "sleep_wait"}
  /\ "delete" \in use /\ k.stat[u] \in {"READY", "SUSPEND"}
  /\ due' = IF Reapable(u) THEN due \cup {u} ELSE due
  /\ CallOn(t, u, "del_timer")
  /\ UNCHANGED <<k, irqoff, fault>>

Delete(t, u) ==
  /\ Runs(t, "app") /\ u \notin {t, idle}
  /\ Untargeted(u) /\ pc[u] \in {"app", "sched", "sleep_wait"}
  /\ "delete" \in use
  /\ k.stat[u] \in {"READY", "SUSPEND"}
                  \cup (IF "delete_unstarted" \in use THEN {"INIT"} ELSE {})
  /\ k' = rt_schedule_remove_thread(k, u)
  /\ due' = IF Reapable(u) THEN due \cup {u} ELSE due
  /\ CallOn(t, u, "del_timer")
  /\ UNCHANGED <<irqoff, fault>>

DeleteTimer(t) ==
  /\ Runs(t, "del_timer")
  /\ k' = rt_timer_stop(k, arg[t])
  /\ Goto(t, "del_close")
  /\ UNCHANGED <<irqoff, fault, arg, due>>

DeleteClose(t) ==
  /\ Runs(t, "del_close")
  /\ k' = [k EXCEPT !.stat[arg[t]] = "CLOSE"]
  /\ Goto(t, IF Reapable(arg[t]) THEN "del_link" ELSE "app")
  /\ UNCHANGED <<irqoff, fault, arg, due>>

DeleteLink(t) ==
  /\ Runs(t, "del_link")
  /\ Link(arg[t], Defunct(k, arg[t]))
  /\ Goto(t, "app")
  /\ UNCHANGED <<irqoff, arg, due>>

-----------------------------------------------------------------------------
(* rt_schedule at the end of a call *)
DoSchedule(t) ==
  /\ Runs(t, "sched")
  /\ Switch(k)
  /\ Goto(t, IF k.stat[t] = "CLOSE" THEN "exited" ELSE "app")
  /\ UNCHANGED <<irqoff, arg, due>>

(* rt_thread_yield *)
Yield(t) ==
  /\ Runs(t, "app") /\ "yield" \in use
  /\ k.stat[t] = "READY" /\ Len(k.table[k.current_priority[t]]) > 1
  /\ k' = [k EXCEPT !.table[k.current_priority[t]] = Append(Unlink(@, t), t)]
  /\ Goto(t, "sched")
  /\ UNCHANGED <<irqoff, fault, arg, due>>

SleepBlock(t, d) == "sleep" \in use /\ MayBlock(t) /\ SleepBegin(t, d) /\ UNCHANGED <<arg, due>>
SleepSchedule(t) ==
  /\ Runs(t, "sleep_sched")
  /\ Switch(k)
  /\ Goto(t, "sleep_wait")
  /\ UNCHANGED <<irqoff, arg, due>>
SleepReturn(t)   == SleepEnd(t) /\ UNCHANGED <<arg, due>>

(* rt_enter_critical, rt_exit_critical: the nesting level stops at zero *)
EnterCritical(t) ==
  /\ Runs(t, "app") /\ "critical" \in use
  /\ k.lock_nest < MaxLock
  /\ k' = [k EXCEPT !.lock_nest = @ + 1]
  /\ UNCHANGED <<pc, irqoff, fault, arg, due>>

ExitNoSchedule(t) ==
  /\ Runs(t, "app") /\ "critical" \in use
  /\ k' = [k EXCEPT !.lock_nest = IF @ <= 1 THEN 0 ELSE @ - 1]
  /\ UNCHANGED <<pc, irqoff, fault, arg, due>>

ExitCritical(t) ==
  /\ Runs(t, "app") /\ "critical" \in use
  /\ k' = [k EXCEPT !.lock_nest = IF @ <= 1 THEN 0 ELSE @ - 1]
  /\ IF k.lock_nest <= 1 THEN Goto(t, "sched") ELSE UNCHANGED pc
  /\ UNCHANGED <<irqoff, fault, arg, due>>

-----------------------------------------------------------------------------
(* rt_thread_idle_excute, called for ever by the idle thread *)

IdleRuns(c) == ~ fault /\ k.interrupt_nest = 0 /\ k.current = idle /\ pc[idle] = c

IdleCall ==
  /\ IdleRuns("app")
  /\ Goto(idle, "excute")
  /\ UNCHANGED <<k, irqoff, fault, arg, due>>

IdleTest ==
  /\ IdleRuns("excute")
  /\ Goto(idle, IF k.defunct # <<>> THEN "reap" ELSE "app")
  /\ UNCHANGED <<k, irqoff, fault, arg, due>>

(* A static thread is only unlinked and cleaned up, and the call returns. *)
IdleReap ==
  /\ IdleRuns("reap")
  /\ IF k.defunct = <<>>
     THEN Goto(idle, "app") /\ UNCHANGED <<k, arg, due>>
     ELSE LET u == Head(k.defunct)
          IN  /\ k' = rt_list_remove(k, u)
              /\ IF u \in Heap THEN CallOn(idle, u, "free") /\ UNCHANGED due
                               ELSE CallOn(idle, u, "app") /\ due' = due \ {u}
  /\ UNCHANGED <<irqoff, fault>>

IdleFree ==
  /\ IdleRuns("free")
  /\ k' = [k EXCEPT !.stat[arg[idle]] = "NONE"]
  /\ due' = due \ {arg[idle]}
  /\ Goto(idle, "excute")
  /\ UNCHANGED <<irqoff, fault, arg>>

-----------------------------------------------------------------------------
(* The tick interrupt.  Its rt_schedule needs consistent lists, and         *)
(* rt_thread_timeout asserts that the thread is suspended.                  *)

SliceEnds ==
  /\ k.remaining_tick[k.current] = 1 /\ k.stat[k.current] = "READY"
  /\ Len(k.table[k.current_priority[k.current]]) > 1

SysTick ==
  IF SliceEnds => Safe(k) THEN TickEnter /\ UNCHANGED <<arg, due>>
  ELSE Interruptible /\ fault' = TRUE /\ UNCHANGED <<k, pc, irqoff, arg, due>>

SysTickTimeout(u) ==
  IF /\ k.stat[u] = "SUSPEND"
     /\ Safe(rt_schedule_insert_thread(rt_list_remove(k, u), u))
  THEN TickTimeout(u) /\ UNCHANGED <<arg, due>>
  ELSE /\ k.interrupt_nest > 0 /\ u \in Expired(k) /\ fault' = TRUE
       /\ UNCHANGED <<k, pc, irqoff, arg, due>>

SysTickLeave == TickLeave /\ UNCHANGED <<arg, due>>

-----------------------------------------------------------------------------
Continue(t) ==
  \/ StartupTest(t) \/ ResumeUnlink(t) \/ ResumeInsert(t) \/ SuspendBody(t)
  \/ DeleteTimer(t) \/ DeleteClose(t) \/ DeleteLink(t)
  \/ DoSchedule(t) \/ SleepSchedule(t) \/ SleepReturn(t)

Call(t) ==
  \/ \E u \in Thread \ {idle} :
       Create(t, u) \/ Startup(t, u) \/ Suspend(t, u) \/ Resume(t, u) \/ Delete(t, u)
  \/ Exit(t) \/ Yield(t) \/ EnterCritical(t) \/ ExitCritical(t)
  \/ \E d \in Delays : SleepBlock(t, d)

Idle == IdleCall \/ IdleTest \/ IdleReap \/ IdleFree

Tick == SysTick \/ (\E u \in Thread : SysTickTimeout(u)) \/ SysTickLeave

Next ==
  /\ \/ \E t \in Thread : Call(t) \/ Continue(t)
     \/ (\E u \in Thread : IsrResume(u))
     \/ Idle \/ Tick
  /\ UNCHANGED use

Spec == Init /\ [][Next]_vars

-----------------------------------------------------------------------------
(* Properties *)

TypeOK ==
  /\ k \in KernelState
  /\ pc \in [Thread -> PC]
  /\ irqoff = FALSE /\ fault \in BOOLEAN
  /\ use \in Applications
  /\ arg \in [Thread -> Thread]
  /\ due \subseteq Thread

(* No list head is used as a thread, no linked node is linked again and no  *)
(* assertion fails: a deleted thread is out of every queue when it is put   *)
(* on rt_thread_defunct, a resumed one when it is put on its ready list.    *)
NoFault == ~ fault

(* The bitmap agrees with the ready lists at every point of every call, and *)
(* everything else does unless a delete is in progress; the variables keep  *)
(* their types.                                                             *)
ListsConsistent ==
  TypeOK /\ (~ fault => GroupExact(k) /\ (Deleting = {} => KernelOK(k)))

(* No dead thread is lost: until idle has cleaned it up or freed it, it is  *)
(* CLOSEd and on rt_thread_defunct, or in the hands of a delete or of idle; *)
(* and only such threads are on rt_thread_defunct.                          *)
NoLostThread ==
  ~ fault =>
    /\ \A u \in due :
         \/ u \in Deleting
         \/ k.stat[u] = "CLOSE" /\ (On(k.defunct, u) \/ (pc[idle] = "free" /\ arg[idle] = u))
    /\ \A u \in Thread : On(k.defunct, u) => u \in due

(* Outside the kernel and with the scheduler unlocked, no READY thread has  *)
(* a higher priority than the running one: what became READY while the      *)
(* scheduler was locked runs when rt_exit_critical unlocks it.              *)
HighestRuns ==
  (/\ Interruptible /\ k.lock_nest = 0 /\ Deleting = {}
   /\ pc[k.current] \in {"app", "sleep_wait", "excute", "reap", "free"})
    => RunsHighest
=============================================================================
