------------------------- MODULE SemaphoreRefinement -------------------------
(***************************************************************************)
(* From what each section does to the semaphore (SemStep of module         *)
(* SemaphoreProofs): every token is accounted for, the semaphore           *)
(* implements SemaphoreSpec, waiters are served in the order of their      *)
(* priorities, and the highest-priority READY thread runs.                 *)
(***************************************************************************)
EXTENDS SemaphoreProofs, FiniteSetTheorems

-----------------------------------------------------------------------------
LEMMA NextSemStep == IInv /\ [Next]_vars => SemStep
<1> SUFFICES ASSUME IInv, [Next]_vars PROVE SemStep
  OBVIOUS
<1>1. ASSUME NEW t \in Thread, Call(t) PROVE SemStep
  BY <1>1, TakeNowInv, TakeBlockInv, ReleaseInv, ResetInv, DetachInv, ControlInv DEF Call, Does
<1>2. ASSUME NEW t \in Thread, Continue(t) PROVE SemStep
  BY <1>2, ScheduleStepInv, TakeReturnInv, ResetInv, DetachInv DEF Continue, Does
<1>3. CASE Tick
  BY <1>3, SysTickInv, SysTickTimeoutInv, SysTickLeaveInv DEF Tick, Does
<1>4. CASE IsrRelease \/ IsrTryTake
  BY <1>4, IsrReleaseInv, IsrTryTakeInv DEF Does
<1>5. CASE Crashed \/ UNCHANGED vars
  BY <1>5, StutterInv DEF Crashed, Does
<1> QED BY <1>1, <1>2, <1>3, <1>4, <1>5 DEF Next

(* Only rt_thread_control changes a priority. *)
LEMMA NextPriority ==
  ASSUME NewPriority = {}
  PROVE  IInv /\ [Next]_vars => SamePriority
<1> SUFFICES ASSUME IInv, [Next]_vars PROVE SamePriority
  OBVIOUS
<1>1. ASSUME NEW t \in Thread, Call(t) PROVE SamePriority
  BY <1>1, TakeNowInv, TakeBlockInv, ReleaseInv, ResetInv, DetachInv DEF Call, Does
<1>2. ASSUME NEW t \in Thread, Continue(t) PROVE SamePriority
  BY <1>2, ScheduleStepInv, TakeReturnInv, ResetInv, DetachInv DEF Continue, Does
<1>3. CASE Tick
  BY <1>3, SysTickInv, SysTickTimeoutInv, SysTickLeaveInv DEF Tick, Does
<1>4. CASE IsrRelease \/ IsrTryTake
  BY <1>4, IsrReleaseInv, IsrTryTakeInv DEF Does
<1>5. CASE Crashed \/ UNCHANGED vars
  BY <1>5, StutterInv DEF Crashed, Does
<1> QED BY <1>1, <1>2, <1>3, <1>4, <1>5 DEF Next

-----------------------------------------------------------------------------
(* Tokens *)

LEMMA GrantedFinite == IsFiniteSet(Granted) /\ Cardinality(Granted) \in Nat
<1>1. Granted \subseteq Thread
  BY DEF Granted
<1> QED BY <1>1, FS_Subset, FS_CardinalityType, SemaphoreAssumption

LEMMA InitTokens == Init => TokensConserved
<1> SUFFICES ASSUME Init PROVE TokensConserved
  OBVIOUS
<1>1. Granted = {}
  BY DEF Init, Granted
<1> QED BY <1>1, FS_EmptySet, SemaphoreAssumption DEF Init, TokensConserved

LEMMA StepTokens == IInv /\ TokensConserved /\ SemStep => TokensConserved'
<1> SUFFICES ASSUME IInv, TokensConserved, SemStep PROVE TokensConserved'
  OBVIOUS
<1>0. /\ IsFiniteSet(Granted) /\ Cardinality(Granted) \in Nat
      /\ value \in Int /\ tokens = value + Cardinality(Granted)
  BY GrantedFinite DEF IInv, TypeOK, TokensConserved
<1>1. CASE Quiet \/ Takes \/ Puts
  BY <1>0, <1>1 DEF Quiet, Takes, Puts, TokensConserved
<1>2. CASE Resets
  <2>1. value' \in Int /\ MaxValue \in Nat
    BY <1>2, SemaphoreAssumption DEF Resets
  <2> QED BY <1>0, <1>2, <2>1 DEF Resets, TokensConserved
<1>3. CASE Grants
  <2>1. Cardinality(Granted \cup {Waiters[1]}) = Cardinality(Granted) + 1
    BY <1>0, <1>3, FS_AddElement DEF Grants
  <2> QED BY <1>0, <1>3, <2>1 DEF Grants, TokensConserved
<1>4. ASSUME NEW t \in Thread, Joins(t) \/ Leaves(t) PROVE TokensConserved'
  BY <1>0, <1>4 DEF Joins, Leaves, TokensConserved
<1>5. ASSUME NEW t \in Thread, Collects(t) PROVE TokensConserved'
  <2>1. Cardinality(Granted \ {t}) = Cardinality(Granted) - 1
    BY <1>0, <1>5, FS_RemoveElement DEF Collects
  <2> QED BY <1>0, <1>5, <2>1 DEF Collects, TokensConserved
<1> QED BY <1>1, <1>2, <1>3, <1>4, <1>5 DEF SemStep

(* Every release is matched by one unit of the value or by one resumed       *)
(* thread whose rt_sem_take succeeds.                                        *)
THEOREM TokensAreConserved == Spec => []TokensConserved
<1>1. IInv /\ TokensConserved /\ [Next]_vars => TokensConserved'
  BY NextSemStep, StepTokens
<1> QED BY InitIInv, InitTokens, NextIInv, <1>1, PTL DEF Spec

-----------------------------------------------------------------------------
(* The semaphore implements SemaphoreSpec. *)

LEMMA ShiftedSeq ==
  ASSUME NEW s \in Seq(Thread), NEW r \in Seq(Thread), NEW n \in Nat, Len(r) = n,
         \A j \in 1 .. n : r[j] = s[j + 1]
  PROVE  r = [j \in 1 .. n |-> s[j + 1]]
OBVIOUS

(* Taking the first waiter off the list leaves the others in their order. *)
LEMMA UnlinkFirst ==
  ASSUME NEW s \in Seq(Thread), Distinct(s), s # <<>>
  PROVE  Unlink(s, s[1]) = Tail(s)
<1> DEFINE i == CHOOSE j \in 1 .. Len(s) : s[j] = s[1]
<1>1. On(s, s[1]) /\ i \in 1 .. Len(s) /\ s[i] = s[1]
  BY DEF On
<1>2. Unlink(s, s[1]) = CutAt(s, i)
  BY <1>1 DEF Unlink
<1> HIDE DEF i
<1>3. i = 1
  BY <1>1 DEF Distinct
<1>4. CutAt(s, 1) = [j \in 1 .. Len(s) - 1 |-> s[j + 1]]
  BY DEF CutAt
<1>5. Tail(s) = [j \in 1 .. Len(s) - 1 |-> s[j + 1]]
  <2>1. /\ Tail(s) \in Seq(Thread) /\ Len(s) - 1 \in Nat /\ Len(Tail(s)) = Len(s) - 1
        /\ \A j \in 1 .. Len(s) - 1 : Tail(s)[j] = s[j + 1]
    OBVIOUS
  <2> QED BY <2>1, ShiftedSeq
<1> QED BY <1>2, <1>3, <1>4, <1>5

LEMMA InitAbstract == Init => Abstract!Init
<1> SUFFICES ASSUME Init PROVE Abstract!Init
  OBVIOUS
<1>1. k.susp = [l \in WaitList |-> <<>>]
  BY BootedProps DEF Init
<1>2. Waiters = <<>>
  BY <1>1, SemaphoreAssumption DEF Waiters
<1>3. Granted = {} /\ value = InitValue
  BY DEF Init, Granted
<1> QED BY <1>2, <1>3 DEF Abstract!Init

LEMMA StepAbstract == IInv /\ SemStep => [Abstract!Next]_Abstract!vars
<1> SUFFICES ASSUME IInv, SemStep PROVE Abstract!Next \/ UNCHANGED Abstract!vars
  OBVIOUS
<1>0. Waiters \in Seq(Thread) /\ Distinct(Waiters)
  BY SemaphoreAssumption
     DEF IInv, TypeOK, KernelState, KernelOK, WaitersSuspended, Waiters
<1>1. CASE Quiet
  BY <1>1 DEF Quiet, Abstract!vars
<1>2. CASE Takes
  <2>1. Abstract!Take
    BY <1>2 DEF Takes, Abstract!Take
  <2> QED BY <2>1 DEF Abstract!Next
<1>3. CASE Puts
  <2>1. Abstract!Put
    BY <1>3 DEF Puts, Abstract!Put
  <2> QED BY <2>1 DEF Abstract!Next
<1>4. CASE Resets
  <2>1. Abstract!Reset
    BY <1>4 DEF Resets, Abstract!Reset
  <2> QED BY <2>1 DEF Abstract!Next
<1>5. CASE Grants
  <2>1. Waiters # <<>> /\ Waiters' = Tail(Waiters) /\ Head(Waiters) = Waiters[1]
    BY <1>0, <1>5, UnlinkFirst DEF Grants
  <2>2. Abstract!Grant
    BY <1>5, <2>1 DEF Grants, Abstract!Grant
  <2> QED BY <2>2 DEF Abstract!Next
<1>6. ASSUME NEW t \in Thread, Joins(t) PROVE Abstract!Next
  <2>1. PICK i \in 1 .. Len(Waiters) + 1 :
          /\ Waiters' = LinkAt(Waiters, i, t)
          /\ FLAG = "FIFO" => i = Len(Waiters) + 1
    BY <1>6 DEF Joins, Placed, RightPlace, Waiters
  <2>2. ~ Abstract!Queued(t)
    BY <1>6 DEF Joins, On, Abstract!Queued
  <2>3. Abstract!Join(t)
    BY <1>6, <2>1, <2>2 DEF Joins, LinkAt, Abstract!Join
  <2> QED BY <2>3 DEF Abstract!Next
<1>7. ASSUME NEW t \in Thread, Collects(t) PROVE Abstract!Next
  <2>1. Abstract!Collect(t)
    BY <1>7 DEF Collects, Abstract!Collect
  <2> QED BY <2>1 DEF Abstract!Next
<1>8. ASSUME NEW t \in Thread, Leaves(t) PROVE Abstract!Next \/ UNCHANGED Abstract!vars
  <2>1. CASE On(Waiters, t)
    <3> DEFINE i == CHOOSE j \in 1 .. Len(Waiters) : Waiters[j] = t
    <3>1. i \in 1 .. Len(Waiters)
      BY <2>1 DEF On
    <3>2. Waiters' = CutAt(Waiters, i)
      BY <1>8, <2>1 DEF Leaves, Unlink
    <3> HIDE DEF i
    <3>3. Waiters' = Abstract!Drop(i)
      BY <3>2 DEF CutAt, Abstract!Drop
    <3>4. Abstract!Leave
      BY <1>8, <3>1, <3>3 DEF Leaves, Abstract!Leave
    <3> QED BY <3>4 DEF Abstract!Next
  <2>2. CASE ~ On(Waiters, t)
    BY <1>8, <2>2 DEF Leaves, Unlink, Abstract!vars
  <2> QED BY <2>1, <2>2
<1> QED BY <1>1, <1>2, <1>3, <1>4, <1>5, <1>6, <1>7, <1>8 DEF SemStep

(* What ipc.c does to a semaphore, its suspend list and the threads is what  *)
(* SemaphoreSpec allows: each section is one step of it or none.             *)
THEOREM SemaphoreImplements == Spec => ImplementsSpec
<1>1. IInv /\ [Next]_vars => [Abstract!Next]_Abstract!vars
  BY NextSemStep, StepAbstract
<1> QED BY InitIInv, InitAbstract, NextIInv, <1>1, PTL DEF Spec, ImplementsSpec, Abstract!Spec

-----------------------------------------------------------------------------
(* The running thread is the right one, as long as no thread's priority is   *)
(* changed from outside (rt_thread_control does not reschedule) and the      *)
(* semaphore is not being detached (neither does rt_sem_detach).             *)

DetachPC == {"detach_test", "detach_body"}
Detaching == \A t \in Thread : pc[t] \in DetachPC => ~ alive

LEMMA NextDetaching == IInv /\ Detaching /\ [Next]_vars => Detaching'
<1> SUFFICES ASSUME IInv, Detaching, [Next]_vars PROVE Detaching'
  OBVIOUS
<1>0. pc \in [Thread -> PC]
  BY DEF IInv, TypeOK
<1>1. CASE UNCHANGED <<pc, alive>>
  BY <1>1 DEF Detaching
<1>2. ASSUME NEW t \in Thread, NEW c, Goto(t, c), c \notin DetachPC, UNCHANGED alive
      PROVE  Detaching'
  BY <1>0, <1>2 DEF Detaching, Goto
<1>3. ASSUME NEW t \in Thread, Call(t) PROVE Detaching'
  <2>1. CASE DetachBegin(t)
    BY <2>1 DEF DetachBegin, Detaching
  <2>2. CASE ResetBegin(t)
    BY <1>2, <2>2 DEF ResetBegin, DetachPC
  <2>3. CASE Release(t)
    BY <1>1, <1>2, <2>3 DEF Release, DetachPC
  <2>4. CASE \E time \in Times : TakeBlock(t, time)
    BY <1>2, <2>4 DEF TakeBlock, DetachPC
  <2>5. CASE TakeNow(t) \/ \E u \in Thread \ {idle}, p \in NewPriority : Control(t, u, p)
    BY <1>1, <2>5 DEF TakeNow, Control
  <2> QED BY <1>3, <2>1, <2>2, <2>3, <2>4, <2>5 DEF Call
<1>4. ASSUME NEW t \in Thread, Continue(t) PROVE Detaching'
  <2>1. CASE DetachTest(t) \/ DetachResume(t)
    <3>1. pc[t] \in DetachPC /\ UNCHANGED alive
      BY <2>1 DEF DetachTest, DetachResume, Runs, DetachPC, ResumeAllTest, ResumeAllBody,
            Waiters
    <3> QED BY <3>1 DEF Detaching
  <2>2. CASE TakeSchedule(t) \/ TakeReturn(t) \/ ReleaseSchedule(t) \/ ResetSchedule(t)
    BY <1>2, <2>2 DEF TakeSchedule, TakeReturn, ReleaseSchedule, ResetSchedule, DetachPC,
          Schedule
  <2>3. CASE ResetResume(t)
    BY <1>1, <2>3 DEF ResetResume
  <2>4. CASE \E v \in 0 .. MaxValue : ResetValue(t, v)
    BY <1>2, <2>4 DEF ResetValue, DetachPC
  <2> QED BY <1>4, <2>1, <2>2, <2>3, <2>4 DEF Continue
<1>5. CASE Tick \/ IsrRelease \/ IsrTryTake \/ Crashed \/ UNCHANGED vars
  BY <1>1, <1>5 DEF Tick, SysTick, SysTickTimeout, SysTickLeave, IsrRelease, IsrTryTake,
                    Crashed, vars, TickEnter, TickTimeout, TickLeave
<1> QED BY <1>3, <1>4, <1>5 DEF Next

LEMMA NextScheduled ==
  ASSUME NewPriority = {}
  PROVE  IInv /\ Detaching /\ Scheduled /\ [Next]_vars => Scheduled'
<1> SUFFICES ASSUME IInv, Detaching, Scheduled, [Next]_vars PROVE Scheduled'
  OBVIOUS
<1>0. ASSUME NEW t \in Thread, DetachBegin(t) \/ DetachTest(t) \/ DetachResume(t)
      PROVE  Scheduled'
  <2>1. ~ alive \/ DetachBegin(t)
    BY <1>0 DEF DetachTest, DetachResume, Runs, Detaching, DetachPC, ResumeAllTest,
          ResumeAllBody, Waiters
  <2>2. ~ alive'
    BY <1>0, <2>1, DetachInv
  <2> QED BY <2>2 DEF Scheduled
<1>1. ASSUME NEW t \in Thread, Call(t) PROVE Scheduled'
  BY <1>0, <1>1, TakeNowInv, TakeBlockInv, ReleaseInv, ResetInv DEF Call
<1>2. ASSUME NEW t \in Thread, Continue(t) PROVE Scheduled'
  BY <1>0, <1>2, ScheduleStepInv, TakeReturnInv, ResetInv DEF Continue
<1>3. CASE Tick
  BY <1>3, SysTickInv, SysTickTimeoutInv, SysTickLeaveInv DEF Tick
<1>4. CASE IsrRelease \/ IsrTryTake
  BY <1>4, IsrReleaseInv, IsrTryTakeInv
<1>5. CASE Crashed \/ UNCHANGED vars
  BY <1>5, StutterInv DEF Crashed
<1> QED BY <1>1, <1>2, <1>3, <1>4, <1>5 DEF Next

(* rt_sem_take, rt_sem_release, rt_sem_control and the tick interrupt leave  *)
(* the processor to a READY thread that no READY thread outranks.            *)
THEOREM HighestThreadRuns ==
  ASSUME NewPriority = {}
  PROVE  Spec => []HighestRuns
<1>1. Init => IInv /\ Detaching /\ Scheduled
  BY InitIInv DEF Init, Detaching, DetachPC
<1>2. IInv /\ Detaching /\ Scheduled /\ [Next]_vars => IInv' /\ Detaching' /\ Scheduled'
  BY NextIInv, NextDetaching, NextScheduled
<1>3. Scheduled => HighestRuns
  BY DEF Scheduled, HighestRuns, Outranks, RunsHighest
<1> QED BY <1>1, <1>2, <1>3, PTL DEF Spec

-----------------------------------------------------------------------------
(* RT_IPC_FLAG_PRIO: the suspend list is in the order of the priorities. *)

Sorted == InOrder(Waiters, k.current_priority)

LEMMA StepSorted ==
  ASSUME FLAG = "PRIO"
  PROVE  IInv /\ Sorted /\ SemStep /\ SamePriority => Sorted'
<1> SUFFICES ASSUME IInv, Sorted, SemStep, SamePriority PROVE Sorted'
  OBVIOUS
<1> DEFINE f == k.current_priority
<1>0. /\ Waiters \in Seq(Thread) /\ f \in [Thread -> Nat] /\ InOrder(Waiters, f)
      /\ k'.current_priority = f
  <2>1. Waiters \in Seq(Thread) /\ f \in [Thread -> Priority]
    BY SemaphoreAssumption DEF IInv, TypeOK, KernelState, Waiters
  <2>2. Priority \subseteq Nat
    BY KernelAssumption DEF Priority
  <2> QED BY <2>1, <2>2 DEF Sorted, SamePriority
<1> SUFFICES InOrder(Waiters', f)
  BY <1>0 DEF Sorted
<1>1. CASE Quiet \/ Takes \/ Puts \/ Resets \/ \E t \in Thread : Collects(t)
  BY <1>0, <1>1 DEF Quiet, Takes, Puts, Resets, Collects
<1>2. CASE Grants
  BY <1>0, <1>2, UnlinkKeepsOrder DEF Grants
<1>3. ASSUME NEW t \in Thread, Leaves(t) PROVE InOrder(Waiters', f)
  BY <1>0, <1>3, UnlinkKeepsOrder DEF Leaves
<1>4. ASSUME NEW t \in Thread, Joins(t) PROVE InOrder(Waiters', f)
  <2>1. PICK i \in 1 .. Len(Waiters) + 1 :
          Waiters' = LinkAt(Waiters, i, t) /\ RightPlace(k, Waiters, f[t], FLAG, i)
    BY <1>4 DEF Joins, Placed, Waiters
  <2>2. /\ \A j \in 1 .. i - 1 : f[Waiters[j]] <= f[t]
        /\ i <= Len(Waiters) => f[t] < f[Waiters[i]]
    <3>1. FLAG # "FIFO"
      OBVIOUS
    <3> QED BY <2>1, <3>1 DEF RightPlace
  <2> HIDE DEF f
  <2> QED BY <1>0, <2>1, <2>2, LinkKeepsOrder
<1> QED BY <1>1, <1>2, <1>3, <1>4 DEF SemStep

(* A waiter that leaves the list with a token is the first of it. *)
LEMMA StepGrants ==
  ASSUME IInv, SemStep, NEW t \in Thread, On(Waiters, t), ~ On(Waiters', t), k'.error[t] = "EOK"
  PROVE  t = Waiters[1] /\ Waiters' = Unlink(Waiters, t)
<1>0. Waiters \in Seq(Thread) /\ Distinct(Waiters)
  BY SemaphoreAssumption
     DEF IInv, TypeOK, KernelState, KernelOK, WaitersSuspended, Waiters
<1>1. CASE Quiet \/ Takes \/ Puts \/ Resets \/ \E u \in Thread : Collects(u)
  BY <1>1 DEF Quiet, Takes, Puts, Resets, Collects
<1>2. CASE Grants
  <2>1. Waiters' = Unlink(Waiters, Waiters[1])
    BY <1>2 DEF Grants
  <2>2. t = Waiters[1]
    BY <1>0, <2>1, UnlinkProps
  <2> QED BY <2>1, <2>2
<1>3. ASSUME NEW u \in Thread, Leaves(u) PROVE FALSE
  <2>1. Waiters' = Unlink(Waiters, u) /\ k'.error[u] # "EOK"
    BY <1>3 DEF Leaves
  <2>2. t = u
    BY <1>0, <2>1, UnlinkProps
  <2> QED BY <2>1, <2>2
<1>4. ASSUME NEW u \in Thread, Joins(u) PROVE FALSE
  <2>1. PICK i \in 1 .. Len(Waiters) + 1 : Waiters' = LinkAt(Waiters, i, u)
    BY <1>4 DEF Joins, Placed, Waiters
  <2>2. ~ On(Waiters, u)
    BY <1>4 DEF Joins
  <2>3. On(Waiters', t)
    BY <1>0, <2>1, <2>2, LinkAtProps
  <2> QED BY <2>3
<1> QED BY <1>1, <1>2, <1>3, <1>4 DEF SemStep

LEMMA SortedGrants ==
  ASSUME IInv, Sorted, SemStep, NEW t \in Thread, On(Waiters, t), ~ On(Waiters', t),
         k'.error[t] = "EOK", NEW u \in Thread, On(Waiters', u)
  PROVE  k.current_priority[t] <= k.current_priority[u]
<1>0. Waiters \in Seq(Thread) /\ Distinct(Waiters)
  BY SemaphoreAssumption
     DEF IInv, TypeOK, KernelState, KernelOK, WaitersSuspended, Waiters
<1>1. t = Waiters[1] /\ Waiters' = Unlink(Waiters, t)
  BY StepGrants
<1>2. On(Waiters, u) /\ u # t
  BY <1>0, <1>1, UnlinkProps
<1>3. PICK j \in 1 .. Len(Waiters) : Waiters[j] = u
  BY <1>2 DEF On
<1>4. 1 \in 1 .. Len(Waiters) /\ 1 < j
  BY <1>0, <1>1, <1>2, <1>3
<1> QED BY <1>1, <1>3, <1>4 DEF Sorted, InOrder

(* rt_sem_release hands its token to a waiter of the highest priority among  *)
(* those on the list of a RT_IPC_FLAG_PRIO semaphore.                        *)
THEOREM HighestWaiterServed ==
  ASSUME FLAG = "PRIO", NewPriority = {}
  PROVE  Spec => GrantsHighest
<1>1. Init => Sorted
  BY InitAbstract DEF Abstract!Init, Sorted, InOrder
<1>2. IInv /\ Sorted /\ [Next]_vars => Sorted'
  BY NextSemStep, NextPriority, StepSorted
<1>3. IInv /\ Sorted /\ [Next]_vars =>
        [\A t \in Thread :
           On(Waiters, t) /\ ~ On(Waiters, t)' /\ k.error[t]' = "EOK" =>
             \A u \in Thread :
               On(Waiters', u) => k.current_priority[t] <= k.current_priority[u]]_vars
  BY NextSemStep, SortedGrants
<1> QED BY InitIInv, NextIInv, <1>1, <1>2, <1>3, PTL DEF Spec, GrantsHighest
=============================================================================
