--------------------------- MODULE SemaphoreProofs ---------------------------
(***************************************************************************)
(* The invariants of module Semaphore, for any number of threads, any      *)
(* priorities, time slices, waiting times and priority changes.            *)
(***************************************************************************)
EXTENDS Semaphore, KernelProofs

Blocking == {"take_sched", "take_wait"}

(* What an inductive proof needs beside the invariants themselves: a thread *)
(* is suspended only inside rt_sem_take, with its error still clear, and    *)
(* the running thread is READY unless it has just suspended itself.         *)
Suspended ==
  \A t \in Thread : k.stat[t] = "SUSPEND" => pc[t] \in Blocking /\ k.error[t] = "EOK"

CurrentReady == k.stat[k.current] = "READY" \/ pc[k.current] = "take_sched"

IInv ==
  /\ TypeOK
  /\ KernelOK(k)
  /\ k.lock_nest = 0
  /\ Suspended
  /\ CurrentReady
  /\ NoWaiterWithToken

(* HighestRuns, also while a handler runs: the thread it interrupted, or the *)
(* one it switched to, is outranked by no READY thread.                      *)
Scheduled ==
  alive /\ pc[k.current] \in {"app", "take_wait"} => Outranks(k, k.current)

-----------------------------------------------------------------------------
(* What a step does to the semaphore.  Module SemaphoreRefinement concludes  *)
(* from it what rt_sem promises its users.                                   *)

Quiet == UNCHANGED <<value, tokens, Waiters, Granted>>

Takes ==
  /\ value > 0 /\ value' = value - 1 /\ tokens' = tokens - 1
  /\ UNCHANGED <<Waiters, Granted>>

Joins(t) ==
  /\ value = 0 /\ ~ On(Waiters, t) /\ t \notin Granted
  /\ Placed(k', k, sem, t, FLAG)
  /\ UNCHANGED <<value, tokens, Granted>>

Grants ==
  /\ Waiters # <<>> /\ Waiters[1] \notin Granted
  /\ Waiters' = Unlink(Waiters, Waiters[1])
  /\ Granted' = Granted \cup {Waiters[1]}
  /\ tokens' = tokens + 1 /\ UNCHANGED value

Puts ==
  /\ Waiters = <<>> /\ value < MaxValue /\ value' = value + 1 /\ tokens' = tokens + 1
  /\ UNCHANGED <<Waiters, Granted>>

Collects(t) ==
  /\ t \in Granted /\ Granted' = Granted \ {t} /\ tokens' = tokens - 1
  /\ UNCHANGED <<value, Waiters>>

Leaves(t) ==
  /\ Waiters' = Unlink(Waiters, t) /\ k'.error[t] # "EOK"
  /\ UNCHANGED <<value, tokens, Granted>>

Resets ==
  /\ Waiters = <<>> /\ value' \in 0 .. MaxValue /\ tokens' = tokens - value + value'
  /\ UNCHANGED <<Waiters, Granted>>

SemStep ==
  \/ Quiet \/ Takes \/ Grants \/ Puts \/ Resets
  \/ \E t \in Thread : Joins(t) \/ Collects(t) \/ Leaves(t)

SamePriority == k'.current_priority = k.current_priority

Does == SemStep /\ SamePriority

LEMMA InitIInv == Init => IInv /\ Scheduled
<1> SUFFICES ASSUME Init PROVE IInv /\ Scheduled
  OBVIOUS
<1>1. /\ k \in KernelState /\ KernelOK(k) /\ k.lock_nest = 0
      /\ k.susp = [l \in WaitList |-> <<>>] /\ Outranks(k, k.current)
      /\ \A t \in Thread : k.stat[t] # "SUSPEND"
  BY BootedProps DEF Init
<1>2. TypeOK
  <2>1. InitValue \in 0 .. VALUE_MOD - 1 /\ InitValue \in Int
    BY SemaphoreAssumption
  <2> QED BY <1>1, <2>1 DEF Init, TypeOK, PC
<1>3. NoWaiterWithToken
  BY <1>1, SemaphoreAssumption DEF NoWaiterWithToken, Waiters
<1> QED BY <1>1, <1>2, <1>3 DEF IInv, Suspended, CurrentReady, Scheduled, Outranks

-----------------------------------------------------------------------------
(* How Granted changes with the threads that steps suspend and resume *)

(* A step that neither starts nor ends a take and leaves the threads alone. *)
LEMMA GrantedSame ==
  ASSUME k'.stat = k.stat, k'.error = k.error,
         \A t \in Thread : pc'[t] \in Blocking <=> pc[t] \in Blocking
  PROVE  Granted' = Granted
BY DEF Granted, Blocking

(* The end of a call that leaves every list as it is *)
LEMMA QuietStep ==
  ASSUME IInv, UNCHANGED k, NEW t \in Thread, k.stat[t] = "READY",
         pc' = pc \/ \E c \in PC \ Blocking : pc[t] \notin Blocking /\ pc' = [pc EXCEPT ![t] = c]
  PROVE  /\ KernelOK(k') /\ k'.lock_nest = 0 /\ Suspended' /\ CurrentReady'
         /\ k' \in KernelState /\ pc' \in [Thread -> PC]
         /\ Granted' = Granted /\ Waiters' = Waiters /\ SamePriority
<1>1. pc \in [Thread -> PC] /\ KernelOK(k) /\ k.lock_nest = 0 /\ Suspended /\ CurrentReady
      /\ k \in KernelState
  BY DEF IInv, TypeOK
<1>2. /\ pc' \in [Thread -> PC]
      /\ \A u \in Thread : pc'[u] \in Blocking <=> pc[u] \in Blocking
      /\ \A u \in Thread : pc'[u] # pc[u] => u = t
  BY <1>1
<1>3. Suspended' /\ CurrentReady'
  <2>1. k.current \in Thread
    BY <1>1 DEF KernelState
  <2> QED BY <1>1, <1>2, <2>1 DEF Suspended, CurrentReady, Blocking
<1>4. Granted' = Granted
  BY <1>2, GrantedSame
<1> QED BY <1>1, <1>2, <1>3, <1>4 DEF Waiters, SamePriority

-----------------------------------------------------------------------------
(* One lemma per action *)

(* The running thread is READY at every point but the one after suspending. *)
LEMMA RunsReady ==
  ASSUME IInv, NEW t \in Thread, NEW c, Runs(t, c), c # "take_sched"
  PROVE  k.stat[t] = "READY"
BY DEF IInv, CurrentReady, Runs

LEMMA TakeNowInv ==
  ASSUME IInv, NEW t \in Thread, TakeNow(t)
  PROVE  IInv' /\ (Scheduled => Scheduled') /\ Does
<1>1. k.stat[t] = "READY"
  BY RunsReady DEF TakeNow
<1>2. /\ KernelOK(k') /\ k'.lock_nest = 0 /\ Suspended' /\ CurrentReady'
      /\ k' \in KernelState /\ pc' \in [Thread -> PC]
      /\ Granted' = Granted /\ Waiters' = Waiters /\ SamePriority
  BY <1>1, QuietStep DEF TakeNow
<1>3. value' = value - 1 /\ value' \in 0 .. VALUE_MOD - 1 /\ tokens' = tokens - 1
  BY SemaphoreAssumption DEF TakeNow, IInv, TypeOK
<1>4. TypeOK'
  BY <1>2, <1>3 DEF TakeNow, IInv, TypeOK
<1>5. NoWaiterWithToken'
  BY <1>2 DEF TakeNow, IInv, TypeOK, NoWaiterWithToken
<1>6. Does
  BY <1>2, <1>3 DEF TakeNow, Does, SemStep, Takes
<1>7. Scheduled => Scheduled'
  BY DEF TakeNow, Scheduled
<1> QED BY <1>2, <1>4, <1>5, <1>6, <1>7 DEF IInv

LEMMA IsrTryTakeInv ==
  ASSUME IInv, IsrTryTake
  PROVE  IInv' /\ (Scheduled => Scheduled') /\ Does
<1>1. Granted' = Granted
  BY GrantedSame DEF IsrTryTake
<1>2. value' = value - 1 /\ value' \in 0 .. VALUE_MOD - 1 /\ tokens' = tokens - 1
  BY SemaphoreAssumption DEF IsrTryTake, IInv, TypeOK
<1>3. TypeOK'
  BY <1>2 DEF IsrTryTake, IInv, TypeOK
<1>4. NoWaiterWithToken' /\ Suspended' /\ CurrentReady' /\ KernelOK(k') /\ k'.lock_nest = 0
  BY DEF IsrTryTake, IInv, TypeOK, NoWaiterWithToken, Suspended, CurrentReady, Waiters
<1>5. Does
  BY <1>1, <1>2 DEF IsrTryTake, Does, SemStep, Takes, Waiters, SamePriority
<1>6. Scheduled => Scheduled'
  BY DEF IsrTryTake, Scheduled
<1> QED BY <1>3, <1>4, <1>5, <1>6 DEF IInv

LEMMA TakeBlockInv ==
  ASSUME IInv, NEW t \in Thread, NEW time \in Times, TakeBlock(t, time)
  PROVE  IInv' /\ (Scheduled => Scheduled') /\ Does
<1> DEFINE clear == [k EXCEPT !.error[t] = "EOK"]
           wait  == rt_ipc_list_suspend(clear, sem, t, FLAG)
<1>0. /\ k \in KernelState /\ KernelOK(k) /\ k.lock_nest = 0 /\ pc \in [Thread -> PC]
      /\ k.current = t /\ t # idle /\ pc[t] = "app" /\ k.stat[t] = "READY"
      /\ sem \in WaitList /\ time \in Int
  BY RunsReady, SemaphoreAssumption DEF IInv, TypeOK, TakeBlock, Runs
<1>1. /\ clear \in KernelState /\ KernelOK(clear) /\ Frame(clear, k)
      /\ clear.stat = k.stat /\ clear.error = [k.error EXCEPT ![t] = "EOK"]
      /\ clear.susp = k.susp
  <2>1. clear = [k EXCEPT !.error[t] = "EOK"] /\ "EOK" \in Error
    BY DEF Error
  <2> HIDE DEF clear
  <2>2. clear \in KernelState /\ KernelOK(clear) /\ ErrorSet(clear, k, t, "EOK")
    BY <1>0, <2>1, SetErrorProps
  <2> QED BY <2>2 DEF ErrorSet
<1> HIDE DEF clear
<1>2. /\ wait \in KernelState /\ KernelOK(wait) /\ Frame(wait, clear)
      /\ wait.stat = [clear.stat EXCEPT ![t] = "SUSPEND"] /\ wait.error = clear.error
      /\ Placed(wait, clear, sem, t, FLAG)
  <2>1. Is(clear, t, "READY") /\ t \in Thread \ {idle}
    BY <1>0, <1>1 DEF Is
  <2>2. wait = rt_ipc_list_suspend(clear, sem, t, FLAG)
    OBVIOUS
  <2> HIDE DEF wait
  <2>3. wait \in KernelState /\ KernelOK(wait) /\ Blocked(wait, clear, sem, t)
    BY <1>0, <1>1, <2>1, <2>2, IpcSuspendProps
  <2>4. Placed(wait, clear, sem, t, FLAG)
    BY <1>0, <1>1, <2>1, <2>2, IpcSuspendPlace
  <2> QED BY <2>3, <2>4 DEF Blocked
<1> HIDE DEF wait
<1>3. /\ k' = IF time > 0 THEN rt_timer_start(wait, t, time) ELSE wait
      /\ pc' = [pc EXCEPT ![t] = "take_sched"]
      /\ value = 0 /\ UNCHANGED <<value, alive, irqoff, fault, tokens>>
  BY DEF TakeBlock, Goto, wait, clear
<1>4. wait.stat[t] = "SUSPEND"
  BY <1>1, <1>2 DEF KernelState
<1>5. /\ k' \in KernelState /\ KernelOK(k') /\ Frame(k', wait)
      /\ k'.stat = wait.stat /\ k'.error = wait.error /\ k'.susp = wait.susp
  <2>1. CASE time > 0
    <3>1. k' = rt_timer_start(wait, t, time) /\ time \in Nat
      BY <1>0, <1>3, <2>1
    <3>2. Is(wait, t, "SUSPEND")
      BY <1>4 DEF Is
    <3>3. k' \in KernelState /\ KernelOK(k') /\ TimerStarted(k', wait, t, time)
      BY <1>2, <3>1, <3>2, TimerStartProps
    <3> QED BY <3>3 DEF TimerStarted
  <2>2. CASE ~ (time > 0)
    BY <1>2, <1>3, <2>2 DEF Frame
  <2> QED BY <2>1, <2>2
<1>6. /\ k'.stat = [k.stat EXCEPT ![t] = "SUSPEND"] /\ k'.error = [k.error EXCEPT ![t] = "EOK"]
      /\ k'.current = t /\ k'.lock_nest = 0 /\ k'.current_priority = k.current_priority
  BY <1>0, <1>1, <1>2, <1>5 DEF Frame
<1>7. k.stat \in [Thread -> Stat] /\ k.error \in [Thread -> Error]
  BY <1>0 DEF KernelState
<1>8. TypeOK'
  BY <1>0, <1>3, <1>5 DEF IInv, TypeOK, PC
<1>9. Suspended'
  BY <1>0, <1>3, <1>6, <1>7 DEF IInv, Suspended, Blocking
<1>10. CurrentReady' /\ (Scheduled => Scheduled')
  BY <1>0, <1>3, <1>6 DEF CurrentReady, Scheduled
<1>11. NoWaiterWithToken'
  BY <1>3 DEF NoWaiterWithToken
<1>12. Does
  <2>1. Granted' = Granted /\ t \notin Granted
    BY <1>0, <1>3, <1>6, <1>7 DEF Granted
  <2>2. ~ On(Waiters, t)
    BY <1>0 DEF KernelOK, WaitersSuspended, Waiters
  <2>3. Placed(k', k, sem, t, FLAG)
    BY <1>1, <1>2, <1>5 DEF Placed, RightPlace, Frame
  <2>4. Joins(t)
    BY <1>3, <2>1, <2>2, <2>3 DEF Joins
  <2> QED BY <1>6, <2>4 DEF Does, SemStep, SamePriority
<1> QED BY <1>5, <1>6, <1>8, <1>9, <1>10, <1>11, <1>12 DEF IInv

(* Every section that is just rt_schedule() *)
LEMMA ScheduleInv ==
  ASSUME IInv, NEW t \in Thread, k.current = t, k' = rt_schedule(k), NEW c \in PC,
         pc' = [pc EXCEPT ![t] = c], c \in Blocking <=> pc[t] \in Blocking,
         UNCHANGED <<value, alive, irqoff, fault, tokens>>
  PROVE  IInv' /\ Scheduled' /\ Does
<1>0. /\ k \in KernelState /\ KernelOK(k) /\ k.lock_nest = 0 /\ pc \in [Thread -> PC]
  BY DEF IInv, TypeOK
<1>1. /\ k' \in KernelState /\ KernelOK(k') /\ SameButCurrent(k', k)
      /\ Outranks(k', k'.current)
  BY <1>0, ScheduleProps
<1>2. /\ k'.stat = k.stat /\ k'.error = k.error /\ k'.susp = k.susp /\ k'.lock_nest = 0
      /\ k'.current_priority = k.current_priority
  BY <1>0, <1>1 DEF SameButCurrent, SameLists
<1>3. \A u \in Thread : pc'[u] \in Blocking <=> pc[u] \in Blocking
  BY <1>0
<1>4. Granted' = Granted
  BY <1>2, <1>3, GrantedSame
<1>5. TypeOK'
  BY <1>0, <1>1 DEF IInv, TypeOK
<1>6. Suspended' /\ NoWaiterWithToken'
  BY <1>2, <1>3 DEF IInv, Suspended, NoWaiterWithToken, Waiters
<1>7. CurrentReady' /\ Scheduled'
  BY <1>1 DEF CurrentReady, Scheduled, Outranks
<1>8. Does
  BY <1>2, <1>4 DEF Does, SemStep, Quiet, SamePriority, Waiters
<1> QED BY <1>1, <1>2, <1>5, <1>6, <1>7, <1>8 DEF IInv

LEMMA TakeReturnInv ==
  ASSUME IInv, NEW t \in Thread, TakeReturn(t)
  PROVE  IInv' /\ (Scheduled => Scheduled') /\ Does
<1>0. /\ k \in KernelState /\ pc \in [Thread -> PC] /\ k.current = t
      /\ pc[t] = "take_wait" /\ k.stat[t] = "READY"
      /\ UNCHANGED <<k, value, alive, irqoff, fault>> /\ pc' = [pc EXCEPT ![t] = "app"]
  BY RunsReady DEF IInv, TypeOK, TakeReturn, Runs, Goto
<1>1. Suspended' /\ CurrentReady'
  BY <1>0 DEF IInv, Suspended, CurrentReady, Blocking
<1>2. Scheduled => Scheduled'
  BY <1>0 DEF Scheduled
<1>3. tokens' = IF k.error[t] = "EOK" THEN tokens - 1 ELSE tokens
  BY DEF TakeReturn
<1>4. TypeOK'
  BY <1>0, <1>3 DEF IInv, TypeOK, PC
<1>5. Does
  <2>1. CASE k.error[t] = "EOK"
    <3>1. t \in Granted /\ Granted' = Granted \ {t}
      BY <1>0, <2>1 DEF Granted
    <3>2. Collects(t)
      BY <1>0, <1>3, <2>1, <3>1 DEF Collects, Waiters
    <3> QED BY <1>0, <3>2 DEF Does, SemStep, SamePriority
  <2>2. CASE k.error[t] # "EOK"
    <3>1. Granted' = Granted
      BY <1>0, <2>2 DEF Granted
    <3> QED BY <1>0, <1>3, <2>2, <3>1 DEF Does, SemStep, Quiet, SamePriority, Waiters
  <2> QED BY <2>1, <2>2
<1> QED BY <1>0, <1>1, <1>2, <1>4, <1>5 DEF IInv, NoWaiterWithToken, Waiters

(* The three sections that only call rt_schedule() *)
LEMMA ScheduleStepInv ==
  ASSUME IInv, NEW t \in Thread,
         TakeSchedule(t) \/ ReleaseSchedule(t) \/ ResetSchedule(t)
  PROVE  IInv' /\ Scheduled' /\ Does
<1>1. CASE TakeSchedule(t)
  <2>1. /\ k.current = t /\ k' = rt_schedule(k) /\ pc' = [pc EXCEPT ![t] = "take_wait"]
        /\ UNCHANGED <<value, alive, irqoff, fault, tokens>>
        /\ "take_wait" \in PC /\ ("take_wait" \in Blocking <=> pc[t] \in Blocking)
    BY <1>1 DEF TakeSchedule, Runs, Goto, PC, Blocking, Schedule
  <2> QED BY <2>1, ScheduleInv
<1>2. CASE ReleaseSchedule(t) \/ ResetSchedule(t)
  <2>1. /\ k.current = t /\ k' = rt_schedule(k) /\ pc' = [pc EXCEPT ![t] = "app"]
        /\ UNCHANGED <<value, alive, irqoff, fault, tokens>>
        /\ "app" \in PC /\ ("app" \in Blocking <=> pc[t] \in Blocking)
    BY <1>2 DEF ReleaseSchedule, ResetSchedule, Runs, Goto, PC, Blocking, Schedule
  <2> QED BY <2>1, ScheduleInv
<1> QED BY <1>1, <1>2

(* rt_sem_release: the waiter it resumes, if there is one *)
LEMMA ReleaseKernelProps ==
  ASSUME IInv, Waiters # <<>>
  PROVE  /\ ReleaseKernel \in KernelState /\ KernelOK(ReleaseKernel)
         /\ Waiters[1] \in Thread /\ Is(k, Waiters[1], "SUSPEND")
         /\ Resumed(ReleaseKernel, k, Waiters[1])
<1>1. k \in KernelState /\ KernelOK(k) /\ sem \in WaitList
  BY SemaphoreAssumption DEF IInv, TypeOK
<1>2. Waiters[1] \in Thread /\ Is(k, Waiters[1], "SUSPEND")
  BY <1>1, FirstWaiter DEF Waiters, Is
<1>3. ReleaseKernel = rt_thread_resume(k, Waiters[1])
  BY DEF ReleaseKernel, rt_ipc_list_resume, Waiters
<1> QED BY <1>1, <1>2, <1>3, ResumeProps

LEMMA ReleaseValueProps ==
  ASSUME IInv, value < MaxValue
  PROVE  /\ ReleaseValue \in 0 .. VALUE_MOD - 1
         /\ ReleaseValue = IF Waiters # <<>> THEN value ELSE value + 1
<1>1. value \in Nat /\ value + 1 < VALUE_MOD /\ VALUE_MOD \in Nat
  BY SemaphoreAssumption DEF IInv, TypeOK
<1>2. (value + 1) % VALUE_MOD = value + 1
  BY <1>1
<1> QED BY <1>1, <1>2 DEF ReleaseValue

(* A section that wakes the waiter w with error e *)
Wakes(w, e) ==
  /\ k' \in KernelState /\ KernelOK(k') /\ k'.lock_nest = 0
  /\ k'.stat = [k.stat EXCEPT ![w] = "READY"]
  /\ k'.error = [k.error EXCEPT ![w] = e]
  /\ k'.susp[sem] = Unlink(k.susp[sem], w)
  /\ k'.current_priority = k.current_priority
  /\ pc' \in [Thread -> PC]
  /\ \A t \in Thread : pc'[t] \in Blocking <=> pc[t] \in Blocking

LEMMA WakeInv ==
  ASSUME IInv, NEW w \in Thread, Is(k, w, "SUSPEND"), NEW e \in Error, Wakes(w, e)
  PROVE  /\ Suspended'
         /\ value' = value => NoWaiterWithToken'
         /\ w \notin Granted
         /\ Granted' = IF e = "EOK" THEN Granted \cup {w} ELSE Granted
         /\ Waiters' = Unlink(Waiters, w) /\ SamePriority
         /\ k'.error[w] = e
<1>0. k.stat \in [Thread -> Stat] /\ k.error \in [Thread -> Error] /\ k.stat[w] = "SUSPEND"
  BY DEF IInv, TypeOK, KernelState, Is
<1>1. Suspended'
  BY <1>0 DEF IInv, Suspended, Wakes
<1>2. value' = value => NoWaiterWithToken'
  BY DEF IInv, NoWaiterWithToken, Waiters, Wakes, Unlink, On
<1>3. w \notin Granted /\ pc[w] \in Blocking
  BY <1>0 DEF Granted, IInv, Suspended
<1>4. Granted' = IF e = "EOK" THEN Granted \cup {w} ELSE Granted
  BY <1>0, <1>3 DEF Granted, Blocking, Wakes
<1>5. Waiters' = Unlink(Waiters, w) /\ SamePriority /\ k'.error[w] = e
  BY <1>0 DEF Wakes, Waiters, SamePriority
<1> QED BY <1>1, <1>2, <1>3, <1>4, <1>5

LEMMA ResumedWakes ==
  ASSUME IInv, NEW w \in Thread, Resumed(k', k, w), Is(k, w, "SUSPEND"),
         k' \in KernelState, KernelOK(k'),
         pc' \in [Thread -> PC],
         \A t \in Thread : pc'[t] \in Blocking <=> pc[t] \in Blocking
  PROVE  Wakes(w, "EOK") /\ "EOK" \in Error /\ k'.current = k.current
<1>1. k.error[w] = "EOK" /\ k.error \in [Thread -> Error]
  BY DEF IInv, Suspended, Is, TypeOK, KernelState
<1>2. [k.error EXCEPT ![w] = "EOK"] = k.error
  BY <1>1
<1> QED BY <1>2, SemaphoreAssumption DEF IInv, Resumed, Frame, Wakes, Error

LEMMA ReleaseInv ==
  ASSUME IInv, NEW t \in Thread, Release(t)
  PROVE  IInv' /\ (Scheduled => Scheduled') /\ Does
<1>0. /\ k \in KernelState /\ KernelOK(k) /\ k.lock_nest = 0 /\ pc \in [Thread -> PC]
      /\ k.current = t /\ pc[t] = "app" /\ k.stat[t] = "READY" /\ value < MaxValue
      /\ tokens \in Int /\ value \in Int
  BY RunsReady DEF IInv, TypeOK, Release, Runs
<1>1. /\ k' = ReleaseKernel /\ value' = ReleaseValue /\ tokens' = tokens + 1
      /\ UNCHANGED <<alive, irqoff, fault>>
      /\ pc' = IF Waiters # <<>> THEN [pc EXCEPT ![t] = "release_sched"] ELSE pc
  BY DEF Release, Goto
<1>2. /\ value' \in 0 .. VALUE_MOD - 1
      /\ value' = IF Waiters # <<>> THEN value ELSE value + 1
  BY <1>0, <1>1, ReleaseValueProps
<1>3. /\ pc' \in [Thread -> PC]
      /\ \A u \in Thread : pc'[u] \in Blocking <=> pc[u] \in Blocking
  BY <1>0, <1>1 DEF PC, Blocking
<1>5. CASE Waiters # <<>>
  <2>1. /\ k' \in KernelState /\ KernelOK(k') /\ Waiters[1] \in Thread
        /\ Is(k, Waiters[1], "SUSPEND") /\ Resumed(k', k, Waiters[1])
    BY <1>1, <1>5, ReleaseKernelProps
  <2>2. Wakes(Waiters[1], "EOK") /\ "EOK" \in Error /\ k'.current = k.current
    BY <1>3, <2>1, ResumedWakes
  <2>3. /\ Suspended' /\ NoWaiterWithToken' /\ Waiters[1] \notin Granted
        /\ Granted' = Granted \cup {Waiters[1]}
        /\ Waiters' = Unlink(Waiters, Waiters[1]) /\ SamePriority
    BY <1>2, <1>5, <2>1, <2>2, WakeInv
  <2>4. TypeOK'
    BY <1>0, <1>1, <1>2, <1>3, <2>1 DEF IInv, TypeOK
  <2>5. Does
    BY <1>1, <1>2, <1>5, <2>3 DEF Does, SemStep, Grants
  <2>6. pc'[k'.current] = "release_sched" /\ k'.stat[k'.current] = "READY" /\ k'.lock_nest = 0
    <3>1. k.stat \in [Thread -> Stat]
      BY <1>0 DEF KernelState
    <3> QED BY <1>0, <1>1, <1>5, <2>1, <2>2, <3>1 DEF Wakes
  <2> QED BY <2>1, <2>3, <2>4, <2>5, <2>6 DEF IInv, CurrentReady, Scheduled
<1>6. CASE Waiters = <<>>
  <2>1. k' = k /\ pc' = pc /\ value' = value + 1
    BY <1>1, <1>2, <1>6 DEF ReleaseKernel
  <2>2. Granted' = Granted
    BY <2>1, GrantedSame
  <2>3. TypeOK'
    BY <1>0, <1>1, <1>2, <1>3, <2>1 DEF IInv, TypeOK
  <2>4. Does
    BY <1>0, <1>1, <1>6, <2>1, <2>2 DEF Does, SemStep, Puts, Waiters, SamePriority
  <2> QED BY <1>0, <1>1, <1>6, <2>1, <2>3, <2>4
          DEF IInv, CurrentReady, Scheduled, Suspended, NoWaiterWithToken, Waiters
<1> QED BY <1>5, <1>6

LEMMA IsrReleaseInv ==
  ASSUME IInv, IsrRelease
  PROVE  IInv' /\ (Scheduled => Scheduled') /\ Does
<1>0. /\ k \in KernelState /\ KernelOK(k) /\ k.lock_nest = 0 /\ pc \in [Thread -> PC]
      /\ value < MaxValue /\ tokens \in Int /\ value \in Int
  BY DEF IInv, TypeOK, IsrRelease
<1>1. /\ k' = IF Waiters # <<>> THEN rt_schedule(ReleaseKernel) ELSE k
      /\ value' = ReleaseValue /\ tokens' = tokens + 1
      /\ UNCHANGED <<pc, alive, irqoff, fault>>
  BY DEF IsrRelease
<1>2. /\ value' \in 0 .. VALUE_MOD - 1
      /\ value' = IF Waiters # <<>> THEN value ELSE value + 1
  BY <1>0, <1>1, ReleaseValueProps
<1>5. CASE Waiters # <<>>
  <2> DEFINE w == Waiters[1]
             x == ReleaseKernel
  <2>1. /\ x \in KernelState /\ KernelOK(x) /\ w \in Thread
        /\ Is(k, w, "SUSPEND") /\ Resumed(x, k, w)
    BY <1>5, ReleaseKernelProps
  <2>2. k' = rt_schedule(x)
    BY <1>1, <1>5
  <2> HIDE DEF w, x
  <2>3. /\ x.lock_nest = 0 /\ x.stat = [k.stat EXCEPT ![w] = "READY"] /\ x.error = k.error
        /\ x.susp[sem] = Unlink(k.susp[sem], w) /\ x.current_priority = k.current_priority
    BY <1>0, <2>1, SemaphoreAssumption DEF Resumed, Frame
  <2>4. k' \in KernelState /\ KernelOK(k') /\ SameButCurrent(k', x) /\ Outranks(k', k'.current)
    BY <2>1, <2>2, <2>3, ScheduleProps
  <2>5. Wakes(w, "EOK") /\ "EOK" \in Error
    <3>1. k.error[w] = "EOK" /\ k.error \in [Thread -> Error]
      BY <2>1 DEF IInv, Suspended, Is, TypeOK, KernelState
    <3>2. [k.error EXCEPT ![w] = "EOK"] = k.error
      BY <3>1
    <3> QED BY <1>0, <1>1, <2>3, <2>4, <3>2 DEF Wakes, SameButCurrent, SameLists, Error
  <2>6. /\ Suspended' /\ NoWaiterWithToken' /\ w \notin Granted
        /\ Granted' = Granted \cup {w}
        /\ Waiters' = Unlink(Waiters, w) /\ SamePriority
    BY <1>2, <1>5, <2>1, <2>5, WakeInv
  <2>7. TypeOK'
    BY <1>0, <1>1, <1>2, <2>4 DEF IInv, TypeOK
  <2>8. Does
    BY <1>1, <1>2, <1>5, <2>6 DEF Does, SemStep, Grants, w
  <2> QED BY <2>4, <2>5, <2>6, <2>7, <2>8
          DEF IInv, CurrentReady, Scheduled, Outranks, Wakes
<1>6. CASE Waiters = <<>>
  <2>1. k' = k /\ pc' = pc /\ value' = value + 1
    BY <1>1, <1>2, <1>6
  <2>2. Granted' = Granted
    BY <2>1, GrantedSame
  <2>3. TypeOK'
    BY <1>0, <1>1, <1>2, <2>1 DEF IInv, TypeOK
  <2>4. Does
    BY <1>0, <1>1, <1>6, <2>1, <2>2 DEF Does, SemStep, Puts, Waiters, SamePriority
  <2> QED BY <1>0, <1>1, <1>6, <2>1, <2>3, <2>4
          DEF IInv, CurrentReady, Scheduled, Suspended, NoWaiterWithToken, Waiters
<1> QED BY <1>5, <1>6

(* One turn of rt_ipc_list_resume_all *)
LEMMA ResumeAllInv ==
  ASSUME IInv, Waiters # <<>>, k' = ResumeWithError(sem), NEW t \in Thread,
         k.current = t, pc[t] \in PC \ (Blocking \cup {"app"}),
         NEW c \in PC \ (Blocking \cup {"app"}), pc' = [pc EXCEPT ![t] = c],
         UNCHANGED <<value, alive, irqoff, fault, tokens>>
  PROVE  IInv' /\ Scheduled' /\ Does
<1> DEFINE w == Waiters[1]
           x == [k EXCEPT !.error[w] = "ERROR"]
<1>0. /\ k \in KernelState /\ KernelOK(k) /\ k.lock_nest = 0 /\ pc \in [Thread -> PC]
      /\ k.stat[t] = "READY"
  BY DEF IInv, TypeOK, CurrentReady, Blocking
<1>1. w \in Thread /\ k.stat[w] = "SUSPEND" /\ Is(k, w, "SUSPEND")
  BY <1>0, FirstWaiter, SemaphoreAssumption DEF Waiters, Is
<1>2. k' = rt_thread_resume(x, w)
  BY DEF ResumeWithError, Waiters
<1>3. x = [k EXCEPT !.error[w] = "ERROR"] /\ "ERROR" \in Error
  BY DEF Error
<1> HIDE DEF w, x
<1>4. x \in KernelState /\ KernelOK(x) /\ ErrorSet(x, k, w, "ERROR")
  BY <1>0, <1>1, <1>3, SetErrorProps
<1>5. /\ Frame(x, k) /\ x.stat = k.stat /\ x.error = [k.error EXCEPT ![w] = "ERROR"]
      /\ x.susp = k.susp /\ Is(x, w, "SUSPEND")
  BY <1>1, <1>4 DEF ErrorSet, Is
<1>6. k' \in KernelState /\ KernelOK(k') /\ Resumed(k', x, w)
  BY <1>1, <1>2, <1>4, <1>5, ResumeProps
<1>7. /\ pc' \in [Thread -> PC]
      /\ \A u \in Thread : pc'[u] \in Blocking <=> pc[u] \in Blocking
  BY <1>0
<1>8. Wakes(w, "ERROR") /\ k'.current = t
  BY <1>0, <1>5, <1>6, <1>7, SemaphoreAssumption DEF Resumed, Frame, Wakes
<1>9. /\ Suspended' /\ NoWaiterWithToken' /\ Granted' = Granted
      /\ Waiters' = Unlink(Waiters, w) /\ SamePriority /\ k'.error[w] = "ERROR"
  BY <1>1, <1>3, <1>8, WakeInv
<1>10. Does
  <2>1. Leaves(w)
    BY <1>9 DEF Leaves
  <2> QED BY <1>1, <1>9, <2>1 DEF Does, SemStep
<1>11. TypeOK'
  BY <1>6, <1>7 DEF IInv, TypeOK
<1>12. CurrentReady' /\ Scheduled'
  <2>1. k.stat \in [Thread -> Stat]
    BY <1>0 DEF KernelState
  <2>2. k'.stat[t] = "READY" /\ pc'[t] = c
    BY <1>0, <1>8, <2>1 DEF Wakes
  <2> QED BY <1>8, <2>2 DEF CurrentReady, Scheduled, Blocking
<1> QED BY <1>8, <1>9, <1>10, <1>11, <1>12 DEF IInv, Wakes

LEMMA ResetInv ==
  ASSUME IInv, NEW t \in Thread,
         ResetBegin(t) \/ ResetResume(t) \/ \E v \in 0 .. MaxValue : ResetValue(t, v)
  PROVE  IInv' /\ (Scheduled => Scheduled') /\ Does
<1>0. pc \in [Thread -> PC] /\ k.current \in Thread
  BY DEF IInv, TypeOK, KernelState
<1>1. CASE ResetBegin(t)
  <2>1. k.stat[t] = "READY"
    BY <1>1, RunsReady DEF ResetBegin
  <2>2. /\ KernelOK(k') /\ k'.lock_nest = 0 /\ Suspended' /\ CurrentReady'
        /\ k' \in KernelState /\ pc' \in [Thread -> PC]
        /\ Granted' = Granted /\ Waiters' = Waiters /\ SamePriority
    <3>1. /\ "reset" \in PC \ Blocking /\ pc[t] \notin Blocking
          /\ pc' = [pc EXCEPT ![t] = "reset"] /\ UNCHANGED k
      BY <1>1 DEF ResetBegin, Runs, Goto, PC, Blocking
    <3> QED BY <2>1, <3>1, QuietStep
  <2>3. pc'[k'.current] = "reset" /\ irqoff' = TRUE /\ UNCHANGED <<value, alive, fault, tokens>>
    BY <1>0, <1>1 DEF ResetBegin, Runs, Goto
  <2>4. TypeOK'
    BY <2>2, <2>3 DEF IInv, TypeOK
  <2>5. Does
    BY <2>2, <2>3 DEF Does, SemStep, Quiet
  <2> QED BY <2>2, <2>3, <2>4, <2>5 DEF IInv, NoWaiterWithToken, Scheduled
<1>2. CASE ResetResume(t)
  <2>1. /\ Waiters # <<>> /\ k' = ResumeWithError(sem) /\ k.current = t
        /\ pc[t] \in PC \ (Blocking \cup {"app"})
        /\ "reset" \in PC \ (Blocking \cup {"app"}) /\ pc' = [pc EXCEPT ![t] = "reset"]
        /\ UNCHANGED <<value, alive, irqoff, fault, tokens>>
    BY <1>0, <1>2 DEF ResetResume, Runs, PC, Blocking
  <2> QED BY <2>1, ResumeAllInv
<1>3. ASSUME NEW v \in 0 .. MaxValue, ResetValue(t, v)
      PROVE  IInv' /\ (Scheduled => Scheduled') /\ Does
  <2>1. k.stat[t] = "READY"
    BY <1>3, RunsReady DEF ResetValue
  <2>2. /\ KernelOK(k') /\ k'.lock_nest = 0 /\ Suspended' /\ CurrentReady'
        /\ k' \in KernelState /\ pc' \in [Thread -> PC]
        /\ Granted' = Granted /\ Waiters' = Waiters /\ SamePriority
    <3>1. /\ "reset_sched" \in PC \ Blocking /\ pc[t] \notin Blocking
          /\ pc' = [pc EXCEPT ![t] = "reset_sched"] /\ UNCHANGED k
      BY <1>3 DEF ResetValue, Runs, Goto, PC, Blocking
    <3> QED BY <2>1, <3>1, QuietStep
  <2>3. /\ Waiters = <<>> /\ pc'[k'.current] = "reset_sched" /\ irqoff' = FALSE
        /\ value' = v % VALUE_MOD /\ tokens' = tokens - value + v /\ UNCHANGED <<alive, fault>>
    BY <1>0, <1>3 DEF ResetValue, Runs, Goto
  <2>4. value' = v /\ v \in 0 .. VALUE_MOD - 1 /\ tokens' \in Int
    <3>1. v \in Nat /\ v < VALUE_MOD /\ VALUE_MOD \in Nat
      BY SemaphoreAssumption
    <3>2. v % VALUE_MOD = v
      BY <3>1
    <3> QED BY <2>3, <3>1, <3>2 DEF IInv, TypeOK
  <2>5. TypeOK'
    BY <2>2, <2>3, <2>4 DEF IInv, TypeOK
  <2>6. Does
    BY <2>2, <2>3, <2>4 DEF Does, SemStep, Resets
  <2> QED BY <2>2, <2>3, <2>5, <2>6 DEF IInv, NoWaiterWithToken, Scheduled
<1> QED BY <1>1, <1>2, <1>3

LEMMA DetachInv ==
  ASSUME IInv, NEW t \in Thread, DetachBegin(t) \/ DetachTest(t) \/ DetachResume(t)
  PROVE  IInv' /\ (~ alive => ~ alive') /\ (DetachBegin(t) => ~ alive') /\ Does
<1>0. pc \in [Thread -> PC] /\ k.current \in Thread
  BY DEF IInv, TypeOK, KernelState
<1>1. k.stat[t] = "READY" /\ k.current = t
  BY RunsReady DEF DetachBegin, DetachTest, DetachResume, Runs, ResumeAllTest,
        ResumeAllBody, Waiters
<1>2. CASE DetachResume(t) /\ Waiters # <<>>
  <2>1. /\ k' = ResumeWithError(sem)
        /\ pc[t] \in PC \ (Blocking \cup {"app"})
        /\ "detach_test" \in PC \ (Blocking \cup {"app"}) /\ pc' = [pc EXCEPT ![t] = "detach_test"]
        /\ UNCHANGED <<value, alive, irqoff, fault, tokens>>
    BY <1>0, <1>2 DEF DetachResume, Runs, Goto, PC, Blocking, ResumeAllBody, Waiters
  <2>2. IInv' /\ Does
    BY <1>1, <1>2, <2>1, ResumeAllInv
  <2> QED BY <1>2, <2>1, <2>2 DEF DetachResume, DetachBegin, Runs, ResumeAllBody, Waiters
<1>3. CASE ~ (DetachResume(t) /\ Waiters # <<>>)
  <2>1. PICK c \in PC \ Blocking : pc' = [pc EXCEPT ![t] = c]
    <3>1. CASE DetachBegin(t)
      BY <3>1 DEF DetachBegin, Goto, PC, Blocking
    <3>2. CASE DetachTest(t)
      <4> DEFINE d == IF Waiters # <<>> THEN "detach_body" ELSE "app"
      <4>1. pc' = [pc EXCEPT ![t] = d]
        BY <3>2 DEF DetachTest, Goto, ResumeAllTest, Waiters
      <4>2. d \in PC \ Blocking
        BY DEF PC, Blocking
      <4> QED BY <4>1, <4>2
    <3>3. CASE DetachResume(t)
      BY <3>3 DEF DetachResume, Goto, PC, Blocking, ResumeAllBody, Waiters
    <3> QED BY <3>1, <3>2, <3>3
  <2>2. /\ pc[t] \notin Blocking /\ UNCHANGED <<k, value, irqoff, tokens>>
    BY <1>3 DEF DetachBegin, DetachTest, DetachResume, Runs, Blocking, ResumeAllTest,
          ResumeAllBody, Waiters
  <2>3. /\ alive' \in BOOLEAN /\ fault' \in BOOLEAN
        /\ (~ alive => ~ alive') /\ (DetachBegin(t) => ~ alive')
    <3>1. CASE DetachBegin(t)
      BY <3>1 DEF DetachBegin, IInv, TypeOK
    <3>2. CASE DetachTest(t) \/ DetachResume(t)
      <4>1. UNCHANGED alive /\ pc[t] # "app" /\ fault' \in {TRUE, fault}
        BY <3>2 DEF DetachTest, DetachResume, Runs, ResumeAllTest, ResumeAllBody, Waiters
      <4> QED BY <4>1 DEF DetachBegin, Runs, IInv, TypeOK
    <3> QED BY <3>1, <3>2
  <2>4. /\ KernelOK(k') /\ k'.lock_nest = 0 /\ Suspended' /\ CurrentReady'
        /\ k' \in KernelState /\ pc' \in [Thread -> PC]
        /\ Granted' = Granted /\ Waiters' = Waiters /\ SamePriority
    BY <1>1, <2>1, <2>2, QuietStep
  <2>5. TypeOK'
    BY <2>2, <2>3, <2>4 DEF IInv, TypeOK
  <2>6. Does
    BY <2>2, <2>4 DEF Does, SemStep, Quiet
  <2> QED BY <2>2, <2>3, <2>4, <2>5, <2>6 DEF IInv, NoWaiterWithToken
<1> QED BY <1>2, <1>3

LEMMA ControlInv ==
  ASSUME IInv, NEW t \in Thread, NEW u \in Thread, NEW p \in NewPriority, Control(t, u, p)
  PROVE  IInv' /\ SemStep
<1>0. /\ k \in KernelState /\ KernelOK(k) /\ k.lock_nest = 0 /\ p \in Priority
      /\ k' = change_priority(k, u, p)
      /\ UNCHANGED <<value, pc, alive, irqoff, fault, tokens>>
  BY SemaphoreAssumption DEF IInv, TypeOK, Control
<1>1. k' \in KernelState /\ KernelOK(k') /\ PriorityChanged(k', k, u, p)
  BY <1>0, ChangePriorityProps
<1>2. /\ k'.stat = k.stat /\ k'.error = k.error /\ k'.susp = k.susp
      /\ k'.current = k.current /\ k'.lock_nest = 0
  BY <1>0, <1>1 DEF PriorityChanged
<1>3. Granted' = Granted
  BY <1>0, <1>2, GrantedSame
<1>4. TypeOK'
  BY <1>0, <1>1 DEF IInv, TypeOK
<1>5. SemStep
  BY <1>0, <1>2, <1>3 DEF SemStep, Quiet, Waiters
<1> QED BY <1>0, <1>1, <1>2, <1>4, <1>5
        DEF IInv, Suspended, CurrentReady, NoWaiterWithToken, Waiters

LEMMA SysTickInv ==
  ASSUME IInv, SysTick
  PROVE  IInv' /\ (Scheduled => Scheduled') /\ Does
<1> DEFINE x == rt_interrupt_enter(k)
           n == k.interrupt_nest + 1
<1>0. /\ k \in KernelState /\ KernelOK(k) /\ k.lock_nest = 0 /\ n \in Nat
      /\ k' = rt_tick_increase(x)
      /\ UNCHANGED <<value, pc, alive, irqoff, fault, tokens>>
  <2>1. k.interrupt_nest \in Nat /\ k \in KernelState
    BY DEF IInv, TypeOK, KernelState
  <2>2. n \in Nat
    BY <2>1
  <2> HIDE DEF n
  <2> QED BY <2>1, <2>2 DEF IInv, SysTick, TickEnter
<1>1. x = [k EXCEPT !.interrupt_nest = n]
  BY DEF rt_interrupt_enter
<1> HIDE DEF x, n
<1>2. x \in KernelState /\ KernelOK(x) /\ Nested(x, k, n)
  BY <1>0, <1>1, NestProps
<1>3. k' \in KernelState /\ KernelOK(k') /\ Ticked(k', x)
  BY <1>0, <1>2, TickProps
<1>4. /\ k'.stat = k.stat /\ k'.error = k.error /\ k'.susp = k.susp
      /\ k'.current_priority = k.current_priority /\ k'.lock_nest = 0
      /\ k'.current = k.current \/ Outranks(k', k'.current)
  BY <1>0, <1>2, <1>3 DEF Nested, Ticked
<1>5. Granted' = Granted
  BY <1>0, <1>4, GrantedSame
<1>6. TypeOK'
  BY <1>0, <1>3 DEF IInv, TypeOK
<1>7. CurrentReady' /\ (Scheduled => Scheduled')
  BY <1>0, <1>4 DEF IInv, CurrentReady, Scheduled, Outranks
<1>8. Does
  BY <1>0, <1>4, <1>5 DEF Does, SemStep, Quiet, SamePriority, Waiters
<1> QED BY <1>0, <1>3, <1>4, <1>6, <1>7, <1>8
        DEF IInv, Suspended, NoWaiterWithToken, Waiters

LEMMA SysTickTimeoutInv ==
  ASSUME IInv, NEW t \in Thread, SysTickTimeout(t)
  PROVE  IInv' /\ Scheduled' /\ Does
<1>0. /\ k \in KernelState /\ KernelOK(k) /\ k.lock_nest = 0 /\ pc \in [Thread -> PC]
      /\ k' = rt_timer_check(k, t)
      /\ UNCHANGED <<value, pc, alive, irqoff, fault, tokens>>
  BY DEF IInv, TypeOK, SysTickTimeout, TickTimeout
<1>1. Armed(k, t) /\ Is(k, t, "SUSPEND") /\ "ETIMEOUT" \in Error /\ "ETIMEOUT" # "EOK"
  <2>1. k.timer[t] = 0
    BY DEF SysTickTimeout, Expired, TickTimeout
  <2>2. k.timer[t] # Off
    BY <2>1 DEF Off
  <2> QED BY <1>0, <2>2 DEF Armed, Is, KernelOK, TimersOfSuspended, Error
<1>2. k' \in KernelState /\ KernelOK(k') /\ TimedOut(k', k, t)
  BY <1>0, <1>1, TimeoutProps
<1>3. Wakes(t, "ETIMEOUT") /\ Outranks(k', k'.current)
  BY <1>0, <1>2, SemaphoreAssumption DEF TimedOut, Wakes
<1>4. /\ Suspended' /\ NoWaiterWithToken' /\ Granted' = Granted
      /\ Waiters' = Unlink(Waiters, t) /\ SamePriority /\ k'.error[t] = "ETIMEOUT"
  BY <1>0, <1>1, <1>3, WakeInv
<1>5. Does
  <2>1. Leaves(t)
    BY <1>0, <1>4 DEF Leaves
  <2> QED BY <1>4, <2>1 DEF Does, SemStep
<1>6. TypeOK'
  BY <1>0, <1>2 DEF IInv, TypeOK
<1> QED BY <1>3, <1>4, <1>5, <1>6 DEF IInv, CurrentReady, Scheduled, Outranks, Wakes

LEMMA SysTickLeaveInv ==
  ASSUME IInv, SysTickLeave
  PROVE  IInv' /\ (Scheduled => Scheduled') /\ Does
<1> DEFINE n == k.interrupt_nest - 1
<1>0. /\ k \in KernelState /\ KernelOK(k) /\ k.lock_nest = 0 /\ n \in Nat
      /\ UNCHANGED <<value, pc, alive, irqoff, fault, tokens>>
  <2>1. k.interrupt_nest \in Nat /\ k \in KernelState
    BY DEF IInv, TypeOK, KernelState
  <2>2. k.interrupt_nest > 0
    BY DEF SysTickLeave, TickLeave
  <2>3. n \in Nat
    BY <2>1, <2>2
  <2> HIDE DEF n
  <2> QED BY <2>1, <2>3 DEF IInv, SysTickLeave, TickLeave
<1>1. k' = [k EXCEPT !.interrupt_nest = n]
  BY DEF SysTickLeave, rt_interrupt_leave, TickLeave
<1> HIDE DEF n
<1>2. k' \in KernelState /\ KernelOK(k') /\ Nested(k', k, n)
  BY <1>0, <1>1, NestProps
<1>3. /\ k'.stat = k.stat /\ k'.error = k.error /\ k'.susp = k.susp
      /\ k'.current_priority = k.current_priority /\ k'.lock_nest = 0
      /\ k'.current = k.current
  BY <1>0, <1>2 DEF Nested
<1>4. Granted' = Granted
  BY <1>0, <1>3, GrantedSame
<1>5. TypeOK'
  BY <1>0, <1>2 DEF IInv, TypeOK
<1>6. Does
  BY <1>0, <1>3, <1>4 DEF Does, SemStep, Quiet, SamePriority, Waiters
<1> QED BY <1>0, <1>2, <1>3, <1>5, <1>6
        DEF IInv, Suspended, CurrentReady, Scheduled, Outranks,
            NoWaiterWithToken, Waiters

LEMMA StutterInv ==
  ASSUME IInv, UNCHANGED vars
  PROVE  IInv' /\ (Scheduled => Scheduled') /\ Does
<1>1. UNCHANGED <<k, value, pc, alive, irqoff, fault, tokens>>
  BY DEF vars
<1>2. Granted' = Granted
  BY <1>1 DEF Granted
<1>3. Does
  BY <1>1, <1>2 DEF Does, SemStep, Quiet, SamePriority, Waiters
<1> QED BY <1>1, <1>3
        DEF IInv, TypeOK, Suspended, CurrentReady, Scheduled, NoWaiterWithToken, Waiters

-----------------------------------------------------------------------------
(* Every step keeps the invariant. *)
LEMMA NextIInv == IInv /\ [Next]_vars => IInv'
<1> SUFFICES ASSUME IInv, [Next]_vars PROVE IInv'
  OBVIOUS
<1>1. ASSUME NEW t \in Thread, Call(t) PROVE IInv'
  BY <1>1, TakeNowInv, TakeBlockInv, ReleaseInv, ResetInv, DetachInv, ControlInv DEF Call
<1>2. ASSUME NEW t \in Thread, Continue(t) PROVE IInv'
  BY <1>2, ScheduleStepInv, TakeReturnInv, ResetInv, DetachInv DEF Continue
<1>3. CASE Tick
  BY <1>3, SysTickInv, SysTickTimeoutInv, SysTickLeaveInv DEF Tick
<1>4. CASE IsrRelease \/ IsrTryTake
  BY <1>4, IsrReleaseInv, IsrTryTakeInv
<1>5. CASE Crashed \/ UNCHANGED vars
  BY <1>5, StutterInv DEF Crashed
<1> QED BY <1>1, <1>2, <1>3, <1>4, <1>5 DEF Next

(* The sections of rt_sem_take, rt_sem_release, rt_sem_control and           *)
(* rt_sem_detach keep every variable in its type.                            *)
THEOREM TypeCorrect == Spec => []TypeOK
<1>1. IInv => TypeOK
  BY DEF IInv
<1> QED BY InitIInv, NextIInv, <1>1, PTL DEF Spec

(* The ready table, the bitmap, the suspend list and the thread timers agree *)
(* after every interrupt-disabled section.                                   *)
THEOREM KernelStaysConsistent == Spec => []KernelConsistent
<1>1. IInv => KernelConsistent
  BY DEF IInv, KernelConsistent
<1> QED BY InitIInv, NextIInv, <1>1, PTL DEF Spec

(* rt_sem_take and rt_sem_release never leave a thread waiting beside a      *)
(* token.                                                                    *)
THEOREM NoLostWakeup == Spec => []NoWaiterWithToken
<1>1. IInv => NoWaiterWithToken
  BY DEF IInv
<1> QED BY InitIInv, NextIInv, <1>1, PTL DEF Spec
=============================================================================
