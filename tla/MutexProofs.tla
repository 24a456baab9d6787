----------------------------- MODULE MutexProofs -----------------------------
(***************************************************************************)
(* The invariants of module Mutex: rt_mutex_release, rt_mutex_detach,      *)
(* rt_thread_sleep and the tick interrupt keep the inductive invariant of  *)
(* MutexTakeProofs as well.                                                *)
(***************************************************************************)
EXTENDS MutexTakeProofs

LEMMA ReleaseInnerInv ==
  ASSUME IInv, NEW t \in Thread, NEW m \in Mutex, ReleaseInner(t, m)
  PROVE  IInv'
<1> DEFINE n == mutex[m].hold - 1
           b == [mutex[m] EXCEPT !.hold = n]
<1>0. /\ mutex \in [Mutex -> MutexBlock] /\ mutex[m].hold \in 0 .. HOLD_MOD - 1
      /\ HOLD_MOD \in Nat /\ owner(m) = t /\ mutex[m].hold # 1
      /\ t # RT_NULL /\ Owned(m) /\ pc[t] \notin Blocking
      /\ held \in [Thread -> [Mutex -> Int]]
  BY OwnedEach, MutexAssumption
     DEF IInv, TypeOK, MutexBlock, ReleaseInner, Runs, Blocking
<1>1. mutex[m].hold > 0
  BY <1>0 DEF Owned
<1>2. n \in Nat /\ n \in 0 .. HOLD_MOD - 1 /\ n > 0 /\ n % HOLD_MOD = n
  BY <1>0, <1>1
<1>3. held[t][m] = mutex[m].hold
  BY <1>0, OwnerAlone
<1>4. mutex' = [mutex EXCEPT ![m] = b] /\ held' = [held EXCEPT ![t][m] = n]
  BY <1>0, <1>2, <1>3 DEF ReleaseInner
<1>5. /\ b \in MutexBlock /\ b.owner = t /\ b.value = 0 /\ b.hold = n
      /\ b.original_priority \in Priority
  BY <1>0, <1>2 DEF MutexBlock, Owned, owner, IInv, Counted
<1>6. ThreadsSame /\ CurrentReady'
  BY DEF ReleaseInner, ThreadsSame, IInv, TypeOK, Waiting, CurrentReady
<1> HIDE DEF n, b
<1>7. Holds(t, m, b, n)
  BY <1>0, <1>2, <1>4, <1>5 DEF ReleaseInner, Holds
<1> QED BY <1>2, <1>5, <1>6, <1>7, HeldStep

(* The priority that the owner gets back changes the place of no thread. *)
LEMMA RestoredProps ==
  ASSUME IInv, NEW m \in Mutex, owner(m) # RT_NULL, NEW r, r = Restored(m)
  PROVE  /\ r \in KernelState /\ KernelOK(r)
         /\ r.stat = k.stat /\ r.error = k.error /\ r.susp = k.susp
         /\ r.current = k.current /\ r.lock_nest = 0
<1>0. /\ k \in KernelState /\ KernelOK(k) /\ k.lock_nest = 0
      /\ owner(m) \in Thread /\ mutex[m].original_priority \in Priority
  BY DEF IInv, TypeOK, Counted, MutexBlock, owner
<1>1. CASE mutex[m].original_priority # k.current_priority[owner(m)]
  <2>1. r = change_priority(k, owner(m), mutex[m].original_priority)
    BY <1>1 DEF Restored
  <2>2. /\ r \in KernelState /\ KernelOK(r)
        /\ PriorityChanged(r, k, owner(m), mutex[m].original_priority)
    BY <1>0, <2>1, ChangePriorityProps
  <2> QED BY <1>0, <2>2 DEF PriorityChanged
<1>2. CASE mutex[m].original_priority = k.current_priority[owner(m)]
  BY <1>0, <1>2 DEF Restored
<1> QED BY <1>1, <1>2

(* The last release of a mutex that nobody waits for *)
LEMMA ReleaseFreeInv ==
  ASSUME IInv, NEW t \in Thread, NEW m \in Mutex, ReleaseLast(t, m), k.susp[m] = <<>>
  PROVE  IInv'
<1> DEFINE b == [value |-> 1, owner |-> RT_NULL, original_priority |-> NoPriority, hold |-> 0]
<1>0. /\ owner(m) = t /\ t # RT_NULL /\ mutex[m].hold = 1 /\ pc[t] = "app" /\ pc[t] \notin Blocking
      /\ k' = Restored(m) /\ Owned(m) /\ k.current = t /\ k.stat[t] = "READY"
      /\ UNCHANGED <<pc, irqoff, fault, wants, alive>>
      /\ held \in [Thread -> [Mutex -> Int]]
  BY RunsReady, OwnedEach, MutexAssumption DEF ReleaseLast, Runs, Blocking, IInv, TypeOK
<1>1. /\ k' \in KernelState /\ KernelOK(k')
      /\ k'.stat = k.stat /\ k'.error = k.error /\ k'.susp = k.susp
      /\ k'.current = k.current /\ k'.lock_nest = 0
  BY <1>0, RestoredProps
<1>2. ThreadsSame /\ CurrentReady'
  BY <1>0, <1>1 DEF ThreadsSame, IInv, TypeOK, Waiting, CurrentReady
<1>3. held[t][m] - 1 = 0 /\ mutex[m].value + 1 = 1
  <2>1. held[t][m] = 1
    BY <1>0, OwnerAlone
  <2>2. mutex[m].value = 0
    BY <1>0 DEF Owned
  <2> QED BY <2>1, <2>2
<1>4. mutex' = [mutex EXCEPT ![m] = b] /\ held' = [held EXCEPT ![t][m] = 0]
  BY <1>3 DEF ReleaseLast
<1>5. b \in MutexBlock /\ b.owner = RT_NULL /\ b.value = 1 /\ b.hold = 0
  BY MutexAssumption DEF MutexBlock
<1> HIDE DEF b
<1>6. Holds(t, m, b, 0)
  BY <1>0, <1>4, <1>5 DEF Holds
<1> QED BY <1>2, <1>5, <1>6, HeldStep

(* The last release of a mutex that threads wait for hands it over. *)
LEMMA HandoverInv ==
  ASSUME IInv, NEW t \in Thread, NEW m \in Mutex, ReleaseLast(t, m), k.susp[m] # <<>>
  PROVE  IInv'
<1> DEFINE back == Restored(m)
<1> PICK w : w = k.susp[m][1]
  OBVIOUS
<1> DEFINE b == [mutex[m] EXCEPT !.owner = w, !.original_priority = back.current_priority[w]]
<1>0. /\ k \in KernelState /\ KernelOK(k) /\ m \in WaitList /\ pc \in [Thread -> PC]
      /\ owner(m) = t /\ t # RT_NULL /\ RT_NULL \notin Thread
      /\ mutex[m].hold = 1 /\ pc[t] = "app" /\ pc[t] \notin Blocking
      /\ Owned(m) /\ Waiting /\ k.current = t /\ k.stat[t] = "READY"
      /\ mutex \in [Mutex -> MutexBlock] /\ held \in [Thread -> [Mutex -> Int]]
      /\ k.stat \in [Thread -> Stat] /\ k.error \in [Thread -> Error]
  BY RunsReady, OwnedEach, MutexAssumption
     DEF ReleaseLast, Runs, Blocking, IInv, TypeOK, KernelState
<1>1. w \in Thread /\ On(k.susp[m], w) /\ k.stat[w] = "SUSPEND" /\ w # t
  <2>1. w \in Thread /\ On(k.susp[m], w) /\ k.stat[w] = "SUSPEND"
    BY <1>0, FirstWaiter
  <2> QED BY <1>0, <2>1
<1>2. pc[w] \in Blocking /\ wants[w] = m /\ k.error[w] = "EOK"
  BY <1>0, <1>1 DEF Waiting
<1>3. /\ back \in KernelState /\ KernelOK(back)
      /\ back.stat = k.stat /\ back.error = k.error /\ back.susp = k.susp
      /\ back.current = k.current /\ back.lock_nest = 0
  BY <1>0, RestoredProps
<1>4. /\ k' = rt_thread_resume(back, w)
      /\ mutex' = [mutex EXCEPT ![m] = b]
      /\ pc' = [pc EXCEPT ![t] = "release_sched"]
      /\ held' = [held EXCEPT ![t][m] = held[t][m] - 1]
      /\ UNCHANGED <<irqoff, fault, wants, alive>>
  BY <1>0, <1>3 DEF ReleaseLast, rt_ipc_list_resume, Goto
<1>5. b \in MutexBlock /\ b.owner = w /\ b.value = 0 /\ b.hold = 1 /\ b.original_priority \in Priority
  <2>1. back.current_priority[w] \in Priority
    BY <1>1, <1>3 DEF KernelState
  <2>2. mutex[m] \in MutexBlock /\ mutex[m].value = 0
    BY <1>0 DEF Owned
  <2> QED BY <1>0, <1>1, <2>1, <2>2 DEF MutexBlock
<1> HIDE DEF back, b
<1>6. k' \in KernelState /\ KernelOK(k') /\ Resumed(k', back, w)
  <2>1. Is(back, w, "SUSPEND")
    BY <1>1, <1>3 DEF Is
  <2> QED BY <1>1, <1>3, <1>4, <2>1, ResumeProps
<1>7. Wakes(w, "EOK") /\ "EOK" \in Error
  <2>1. [k.error EXCEPT ![w] = "EOK"] = k.error
    BY <1>0, <1>2
  <2>2. /\ pc' \in [Thread -> PC]
        /\ \A u \in Thread : pc'[u] \in Blocking <=> pc[u] \in Blocking
        /\ \A u \in Thread : pc'[u] \in DetachPC => wants[u] \in Mutex
    BY <1>0, <1>4 DEF PC, Blocking, DetachPC, Waiting
  <2> QED BY <1>3, <1>4, <1>6, <2>1, <2>2, MutexAssumption DEF Resumed, Frame, Wakes, Error
<1>8. /\ Waiting'
      /\ \A l \in Mutex : k.susp[l] = <<>> => k'.susp[l] = <<>>
      /\ \A l \in Mutex : ~ Granted(w, l) /\ (Granted(w, l)' <=> l = m)
      /\ \A u \in Thread, l \in Mutex : u # w => (Granted(u, l)' <=> Granted(u, l))
  <2>1. /\ Waiting'
        /\ \A l \in Mutex : k.susp[l] = <<>> => k'.susp[l] = <<>>
        /\ \A l \in Mutex : ~ Granted(w, l)
        /\ \A l \in Mutex :
             Granted(w, l)' <=> "EOK" = "EOK" /\ pc[w] \in Blocking /\ wants[w] = l
        /\ \A u \in Thread, l \in Mutex : u # w => (Granted(u, l)' <=> Granted(u, l))
    BY <1>1, <1>7, WakeThreads
  <2> QED BY <1>2, <2>1
<1>9. /\ ~ Granted(t, m) /\ held[t][m] = 1
      /\ \A u \in Thread : u # t => held[u][m] = 0 /\ ~ Granted(u, m)
  BY <1>0, OwnerAlone
<1>10. /\ mutex'[m] = b /\ \A u \in Thread : held'[u][m] = 0
       /\ \A l \in Mutex : l # m => mutex'[l] = mutex[l] /\ \A u \in Thread : held'[u][l] = held[u][l]
  BY <1>0, <1>4, <1>9
<1>11. TypeOK'
  <2>1. mutex' \in [Mutex -> MutexBlock] /\ held' \in [Thread -> [Mutex -> Int]]
    BY <1>0, <1>4, <1>5
  <2> QED BY <1>4, <1>6, <1>7, <2>1 DEF IInv, TypeOK, Wakes
<1>12. OwnerHolds'
  <2>1. Owned(m)'
    <3>1. owner(m)' = w /\ w # RT_NULL /\ Granted(w, m)'
      BY <1>0, <1>1, <1>5, <1>8, <1>10 DEF owner
    <3>2. \A u \in Thread : held'[u][m] > 0 \/ Granted(u, m)' => owner(m)' = u
      BY <1>8, <1>9, <1>10, <3>1
    <3>3. mutex'[m].value = 0 /\ mutex'[m].hold = 1 /\ held'[w][m] = 0
      BY <1>1, <1>5, <1>10
    <3> QED BY <3>1, <3>2, <3>3 DEF Owned
  <2>2. ASSUME NEW l \in Mutex, l # m PROVE Owned(l)'
    BY <1>8, <1>10, <2>2, OwnedSame
  <2> QED BY <2>1, <2>2, OwnedEach DEF OwnerHolds, Owned
<1>13. Counted'
  BY <1>5, <1>10 DEF IInv, Counted, owner
<1>14. NoWaiterOnFree'
  <2>1. b.owner # RT_NULL
    BY <1>0, <1>1, <1>5
  <2> QED BY <1>8, <1>10, <2>1 DEF IInv, NoWaiterOnFree, owner
<1>15. CurrentReady' /\ k'.lock_nest = 0
  BY <1>0, <1>1, <1>3, <1>6, <1>7 DEF CurrentReady, Resumed, Frame, Wakes
<1> QED BY <1>6, <1>8, <1>11, <1>12, <1>13, <1>14, <1>15 DEF IInv

(* Every section that is just rt_schedule() *)
LEMMA ScheduleInv ==
  ASSUME IInv, NEW t \in Thread,
         TakeSchedule(t) \/ ReleaseSchedule(t) \/ SleepSchedule(t)
  PROVE  IInv'
<1>0. /\ k \in KernelState /\ KernelOK(k) /\ k.lock_nest = 0 /\ pc \in [Thread -> PC]
      /\ Waiting /\ k' = rt_schedule(k)
      /\ UNCHANGED <<irqoff, fault, mutex, wants, alive, held>>
  BY DEF IInv, TypeOK, TakeSchedule, ReleaseSchedule, SleepSchedule, Schedule, obj
<1>1. /\ k' \in KernelState /\ KernelOK(k') /\ SameButCurrent(k', k)
      /\ Outranks(k', k'.current)
  BY <1>0, ScheduleProps
<1>2. PICK c \in PC : /\ pc' = [pc EXCEPT ![t] = c] /\ c \notin DetachPC
                      /\ c \in Blocking <=> pc[t] \in Blocking
  BY DEF TakeSchedule, ReleaseSchedule, SleepSchedule, Schedule, Runs, Goto, PC, Blocking,
         DetachPC
<1>3. ThreadsSame
  BY <1>0, <1>1, <1>2 DEF ThreadsSame, SameButCurrent, SameLists, Waiting
<1>4. CurrentReady'
  BY <1>1 DEF CurrentReady, Outranks
<1> QED BY <1>0, <1>3, <1>4, QuietStep DEF IInv, TypeOK

LEMMA SleepBlockInv ==
  ASSUME IInv, NEW t \in Thread, NEW d \in Delays, SleepBlock(t, d)
  PROVE  IInv'
<1> DEFINE x == rt_thread_suspend(k, t)
<1>0. /\ k \in KernelState /\ KernelOK(k) /\ k.lock_nest = 0 /\ pc \in [Thread -> PC]
      /\ k.stat \in [Thread -> Stat] /\ Waiting /\ d \in Nat
      /\ k.current = t /\ t # idle /\ k.stat[t] = "READY" /\ pc[t] = "app"
      /\ k' = rt_timer_start(x, t, d) /\ pc' = [pc EXCEPT ![t] = "sleep_sched"]
      /\ UNCHANGED <<irqoff, fault, mutex, wants, alive, held>>
  BY RunsReady, MutexAssumption
     DEF IInv, TypeOK, KernelState, SleepBlock, SleepBegin, Runs, Goto, obj
<1>1. /\ x \in KernelState /\ KernelOK(x) /\ Frame(x, k) /\ x.error = k.error /\ x.susp = k.susp
      /\ x.stat = [k.stat EXCEPT ![t] = "SUSPEND"]
  <2>1. t \in Thread \ {idle} /\ Is(k, t, "READY")
    BY <1>0 DEF Is
  <2>2. x \in KernelState /\ KernelOK(x) /\ SuspendedFrom(x, k, t)
    BY <1>0, <2>1, ThreadSuspendProps
  <2> QED BY <2>2 DEF SuspendedFrom
<1> HIDE DEF x
<1>2. k' \in KernelState /\ KernelOK(k') /\ TimerStarted(k', x, t, d)
  <2>1. Is(x, t, "SUSPEND")
    BY <1>0, <1>1 DEF Is
  <2> QED BY <1>0, <1>1, <2>1, TimerStartProps
<1>3. /\ k'.stat = [k.stat EXCEPT ![t] = "SUSPEND"] /\ k'.error = k.error /\ k'.susp = k.susp
      /\ k'.current = t /\ k'.lock_nest = 0
  BY <1>0, <1>1, <1>2 DEF TimerStarted, Frame
<1>4. TypeOK'
  BY <1>0, <1>2 DEF IInv, TypeOK, PC
<1>5. Waiting' /\ CurrentReady'
  BY <1>0, <1>3 DEF Waiting, Blocking, DetachPC, CurrentReady
<1>6. \A u \in Thread, m \in Mutex : Granted(u, m)' <=> Granted(u, m)
  BY <1>0, <1>3 DEF Granted
<1>7. OwnerHolds'
  <2>1. ASSUME NEW m \in Mutex PROVE Owned(m)'
    BY <1>0, <1>6, OwnedSame
  <2> QED BY <2>1, OwnedEach DEF OwnerHolds, Owned
<1> QED BY <1>0, <1>2, <1>3, <1>4, <1>5, <1>7 DEF IInv, Counted, NoWaiterOnFree, owner

LEMMA SleepReturnInv ==
  ASSUME IInv, NEW t \in Thread, SleepReturn(t)
  PROVE  IInv'
<1>0. /\ k \in KernelState /\ KernelOK(k) /\ k.lock_nest = 0 /\ pc \in [Thread -> PC]
      /\ k.error \in [Thread -> Error] /\ Waiting /\ "EOK" \in Error
      /\ k.current = t /\ k.stat[t] = "READY" /\ pc[t] = "sleep_wait"
      /\ k' = IF k.error[t] = "ETIMEOUT" THEN [k EXCEPT !.error[t] = "EOK"] ELSE k
      /\ pc' = [pc EXCEPT ![t] = "app"]
      /\ UNCHANGED <<irqoff, fault, mutex, wants, alive, held>>
  BY RunsReady DEF IInv, TypeOK, KernelState, SleepReturn, SleepEnd, Runs, Goto, obj, Error
<1>1. /\ k' \in KernelState /\ KernelOK(k') /\ k'.lock_nest = 0 /\ k'.current = t
      /\ k'.stat = k.stat /\ k'.susp = k.susp
      /\ \A u \in Thread : u # t => k'.error[u] = k.error[u]
  <2>1. CASE k.error[t] = "ETIMEOUT"
    <3>1. k' \in KernelState /\ KernelOK(k') /\ ErrorSet(k', k, t, "EOK")
      BY <1>0, <2>1, SetErrorProps
    <3> QED BY <1>0, <3>1 DEF ErrorSet, Frame
  <2>2. CASE k.error[t] # "ETIMEOUT"
    BY <1>0, <2>2
  <2> QED BY <2>1, <2>2
<1>2. ThreadsSame /\ CurrentReady'
  BY <1>0, <1>1 DEF ThreadsSame, CurrentReady, Waiting, PC, Blocking, DetachPC
<1> QED BY <1>0, <1>2, QuietStep DEF IInv, TypeOK

(* Beginning to detach, and the tests of the list on the way; when the list  *)
(* has become empty behind the test, the loop writes through its head.       *)
LEMMA DetachQuietInv ==
  ASSUME IInv, NEW t \in Thread,
         \/ \E m \in Mutex : DetachBegin(t, m)
         \/ DetachTest(t)
         \/ DetachResume(t) /\ k.susp[wants[t]] = <<>>
  PROVE  IInv'
<1>0. /\ k \in KernelState /\ KernelOK(k) /\ k.lock_nest = 0 /\ pc \in [Thread -> PC]
      /\ wants \in [Thread -> Mutex \cup {RT_NULL}] /\ Waiting /\ CurrentReady
      /\ UNCHANGED <<k, irqoff, mutex, held>> /\ pc[t] \notin Blocking
  BY DEF IInv, TypeOK, DetachBegin, DetachTest, DetachResume, ResumeAllTest, ResumeAllBody,
         Runs, Blocking, obj
<1>1. PICK c \in PC : /\ pc' = [pc EXCEPT ![t] = c] /\ c \notin Blocking
                      /\ c \notin {"take_sched", "sleep_sched"}
  <2>1. CASE DetachTest(t)
    <3> DEFINE c == IF k.susp[wants[t]] # <<>> THEN "detach_body" ELSE "app"
    <3>1. pc' = [pc EXCEPT ![t] = c] /\ c \in PC /\ c \notin Blocking
          /\ c \notin {"take_sched", "sleep_sched"}
      BY <2>1 DEF DetachTest, ResumeAllTest, Goto, PC, Blocking
    <3> QED BY <3>1
  <2>2. CASE (\E m \in Mutex : DetachBegin(t, m)) \/ DetachResume(t)
    BY <2>2 DEF DetachBegin, DetachResume, ResumeAllBody, Goto, PC, Blocking
  <2> QED BY <2>1, <2>2
<1>2. /\ wants' \in [Thread -> Mutex \cup {RT_NULL}] /\ wants'[t] \in Mutex
      /\ \A u \in Thread : u # t => wants'[u] = wants[u]
      /\ alive' \subseteq Mutex /\ fault' \in BOOLEAN
  <2>1. CASE \E m \in Mutex : DetachBegin(t, m)
    BY <1>0, <2>1 DEF DetachBegin, IInv, TypeOK
  <2>2. CASE DetachTest(t) \/ DetachResume(t)
    <3>1. UNCHANGED <<wants, alive>> /\ pc[t] \in DetachPC /\ fault' \in {TRUE, fault}
      BY <2>2 DEF DetachTest, DetachResume, ResumeAllTest, ResumeAllBody, Runs, DetachPC, obj
    <3> QED BY <1>0, <3>1 DEF Waiting, IInv, TypeOK
  <2> QED BY <2>1, <2>2
<1>3. ThreadsSame
  BY <1>0, <1>1, <1>2 DEF ThreadsSame, Waiting
<1>4. CurrentReady'
  <2>1. k.stat[t] = "READY" /\ k.current = t
    BY RunsReady DEF DetachBegin, DetachTest, DetachResume, ResumeAllTest, ResumeAllBody, Runs
  <2> QED BY <1>0, <2>1 DEF CurrentReady
<1> QED BY <1>0, <1>2, <1>3, <1>4, QuietStep DEF IInv, TypeOK

(* One turn of rt_ipc_list_resume_all *)
LEMMA DetachResumeInv ==
  ASSUME IInv, NEW t \in Thread, DetachResume(t), k.susp[wants[t]] # <<>>
  PROVE  IInv'
<1> DEFINE m == wants[t]
<1>0. /\ k \in KernelState /\ KernelOK(k) /\ k.lock_nest = 0 /\ pc \in [Thread -> PC]
      /\ Waiting /\ m \in Mutex /\ m \in WaitList
      /\ k.current = t /\ k.stat[t] = "READY" /\ pc[t] = "detach_body"
      /\ k' = ResumeWithError(m) /\ pc' = [pc EXCEPT ![t] = "detach_test"]
      /\ UNCHANGED <<irqoff, fault, mutex, wants, alive, held>>
  BY RunsReady, MutexAssumption
     DEF IInv, TypeOK, DetachResume, ResumeAllBody, Runs, Goto, obj, Waiting, DetachPC
<1> PICK w : w = k.susp[m][1]
  OBVIOUS
<1> DEFINE x == [k EXCEPT !.error[w] = "ERROR"]
<1>1. w \in Thread /\ k.stat[w] = "SUSPEND" /\ w # t /\ "ERROR" \in Error
  <2>1. w \in Thread /\ k.stat[w] = "SUSPEND"
    BY <1>0, FirstWaiter
  <2> QED BY <1>0, <2>1 DEF Error
<1>2. k' = rt_thread_resume(x, w)
  BY <1>0 DEF ResumeWithError
<1>3. x \in KernelState /\ KernelOK(x) /\ ErrorSet(x, k, w, "ERROR")
  BY <1>0, <1>1, SetErrorProps
<1> HIDE DEF x, m
<1>4. k' \in KernelState /\ KernelOK(k') /\ Resumed(k', x, w)
  <2>1. Is(x, w, "SUSPEND")
    BY <1>1, <1>3 DEF Is, ErrorSet
  <2> QED BY <1>1, <1>2, <1>3, <2>1, ResumeProps
<1>5. Wakes(w, "ERROR")
  <2>1. /\ pc' \in [Thread -> PC]
        /\ \A u \in Thread : pc'[u] \in Blocking <=> pc[u] \in Blocking
        /\ \A u \in Thread : pc'[u] \in DetachPC => wants[u] \in Mutex
    BY <1>0 DEF PC, Blocking, DetachPC, Waiting
  <2> QED BY <1>0, <1>3, <1>4, <2>1, MutexAssumption DEF Resumed, ErrorSet, Frame, Wakes
<1>6. CurrentReady'
  <2>1. k'.current = t
    BY <1>0, <1>3, <1>4 DEF Resumed, ErrorSet, Frame
  <2>2. k.stat \in [Thread -> Stat]
    BY <1>0 DEF KernelState
  <2> QED BY <1>0, <1>1, <1>5, <2>1, <2>2 DEF CurrentReady, Wakes
<1> QED BY <1>0, <1>1, <1>5, <1>6, WakeErrorStep

(* The tick interrupt leaves every thread in its state and its list, *)
LEMMA SysTickInv ==
  ASSUME IInv, SysTick
  PROVE  IInv'
<1> DEFINE n == k.interrupt_nest + 1
           x == [k EXCEPT !.interrupt_nest = n]
<1>0. /\ k \in KernelState /\ KernelOK(k) /\ k.lock_nest = 0 /\ n \in Nat
      /\ Waiting /\ pc \in [Thread -> PC]
      /\ UNCHANGED <<pc, irqoff, fault, mutex, wants, alive, held>>
  BY DEF IInv, TypeOK, KernelState, SysTick, TickEnter, obj
<1>1. k' = rt_tick_increase(x)
  BY DEF SysTick, TickEnter, rt_interrupt_enter
<1>2. x \in KernelState /\ KernelOK(x) /\ Nested(x, k, n)
  BY <1>0, NestProps
<1> HIDE DEF n, x
<1>3. k' \in KernelState /\ KernelOK(k') /\ Ticked(k', x)
  BY <1>1, <1>2, TickProps
<1>4. ThreadsSame
  BY <1>0, <1>2, <1>3 DEF ThreadsSame, Nested, Ticked, Waiting
<1>5. CurrentReady'
  BY <1>0, <1>2, <1>3 DEF IInv, CurrentReady, Nested, Ticked, Outranks
<1> QED BY <1>0, <1>4, <1>5, QuietStep DEF IInv, TypeOK

(* its end too, *)
LEMMA SysTickLeaveInv ==
  ASSUME IInv, SysTickLeave
  PROVE  IInv'
<1> DEFINE n == k.interrupt_nest - 1
<1>0. /\ k \in KernelState /\ KernelOK(k) /\ k.lock_nest = 0 /\ k.interrupt_nest \in Nat
      /\ k.interrupt_nest > 0 /\ Waiting /\ pc \in [Thread -> PC]
      /\ UNCHANGED <<pc, irqoff, fault, mutex, wants, alive, held>>
  BY DEF IInv, TypeOK, KernelState, SysTickLeave, TickLeave, obj
<1>1. n \in Nat
  BY <1>0
<1>2. k' = [k EXCEPT !.interrupt_nest = n]
  BY DEF SysTickLeave, TickLeave, rt_interrupt_leave
<1> HIDE DEF n
<1>3. k' \in KernelState /\ KernelOK(k') /\ Nested(k', k, n)
  BY <1>0, <1>1, <1>2, NestProps
<1>4. ThreadsSame /\ CurrentReady'
  BY <1>0, <1>3 DEF ThreadsSame, Nested, Waiting, IInv, CurrentReady
<1> QED BY <1>0, <1>4, QuietStep DEF IInv, TypeOK

(* and a timeout wakes a thread with an error. *)
LEMMA SysTickTimeoutInv ==
  ASSUME IInv, NEW t \in Thread, SysTickTimeout(t)
  PROVE  IInv'
<1>0. /\ k \in KernelState /\ KernelOK(k) /\ k.lock_nest = 0 /\ pc \in [Thread -> PC] /\ Waiting
      /\ k' = rt_timer_check(k, t)
      /\ UNCHANGED <<pc, irqoff, fault, mutex, wants, alive, held>>
  BY DEF IInv, TypeOK, SysTickTimeout, TickTimeout, obj
<1>1. Armed(k, t) /\ k.stat[t] = "SUSPEND" /\ "ETIMEOUT" \in Error
  <2>1. k.timer[t] = 0
    BY DEF SysTickTimeout, TickTimeout, Expired
  <2>2. k.timer[t] # Off
    BY <2>1 DEF Off
  <2> QED BY <1>0, <2>2 DEF Armed, KernelOK, TimersOfSuspended, Error
<1>2. k' \in KernelState /\ KernelOK(k') /\ TimedOut(k', k, t)
  BY <1>0, <1>1, TimeoutProps
<1>3. Wakes(t, "ETIMEOUT") /\ CurrentReady'
  BY <1>0, <1>2, MutexAssumption DEF TimedOut, Wakes, Waiting, CurrentReady, Outranks
<1> QED BY <1>0, <1>1, <1>3, WakeErrorStep

LEMMA StutterInv ==
  ASSUME IInv, UNCHANGED vars
  PROVE  IInv'
<1>1. UNCHANGED <<k, pc, irqoff, fault, mutex, wants, alive, held>>
  BY DEF vars
<1>2. ThreadsSame /\ CurrentReady'
  BY <1>1 DEF ThreadsSame, IInv, TypeOK, Waiting, CurrentReady
<1> QED BY <1>1, <1>2, QuietStep DEF IInv, TypeOK

-----------------------------------------------------------------------------
(* Every step keeps the invariant. *)
LEMMA NextIInv == IInv /\ [Next]_vars => IInv'
<1> SUFFICES ASSUME IInv, [Next]_vars PROVE IInv'
  OBVIOUS
<1>1. ASSUME NEW t \in Thread, Call(t) PROVE IInv'
  <2>1. ASSUME NEW m \in Mutex,
               TakeAgain(t, m) \/ TakeFree(t, m) \/ TakeNoWait(t, m)
        PROVE  IInv'
    BY <2>1, TakeAgainInv, TakeFreeInv, RefusedInv
  <2>2. ASSUME NEW m \in Mutex, NEW time \in Times, TakeBlock(t, m, time) PROVE IInv'
    BY <2>2, TakeBlockInv
  <2>3. ASSUME NEW m \in Mutex,
               ReleaseOthers(t, m) \/ ReleaseInner(t, m) \/ ReleaseLast(t, m)
        PROVE  IInv'
    BY <2>3, RefusedInv, ReleaseInnerInv, ReleaseFreeInv, HandoverInv
  <2>4. ASSUME NEW m \in Mutex, DetachBegin(t, m) PROVE IInv'
    BY <2>4, DetachQuietInv
  <2>5. ASSUME NEW d \in Delays, SleepBlock(t, d) PROVE IInv'
    BY <2>5, SleepBlockInv
  <2> QED BY <1>1, <2>1, <2>2, <2>3, <2>4, <2>5 DEF Call
<1>2. ASSUME NEW t \in Thread, Continue(t) PROVE IInv'
  BY <1>2, ScheduleInv, TakeReturnInv, DetachQuietInv, DetachResumeInv, SleepReturnInv
     DEF Continue
<1>3. CASE Tick
  BY <1>3, SysTickInv, SysTickTimeoutInv, SysTickLeaveInv DEF Tick
<1>4. CASE Crashed \/ UNCHANGED vars
  BY <1>4, StutterInv DEF Crashed
<1> QED BY <1>1, <1>2, <1>3, <1>4 DEF Next

(* The ready table, the bitmap, the suspend lists and the thread timers      *)
(* agree after every section of rt_mutex_take, rt_mutex_release and          *)
(* rt_mutex_detach, through every inherited and every returned priority.     *)
THEOREM MutexKernelConsistent == Spec => []ListsConsistent
<1>1. IInv => ListsConsistent
  BY DEF IInv, ListsConsistent, KernelConsistent
<1> QED BY InitIInv, NextIInv, <1>1, PTL DEF Spec

(* Mutual exclusion: rt_mutex_take succeeds for one thread at a time, and    *)
(* mutex->hold counts how often.                                             *)
THEOREM MutualExclusion == Spec => []OwnerHolds
<1>1. IInv => OwnerHolds
  BY DEF IInv
<1> QED BY InitIInv, NextIInv, <1>1, PTL DEF Spec

(* rt_mutex_release never frees a mutex that a thread waits for. *)
THEOREM NoLostHandover == Spec => []NoWaiterOnFree
<1>1. IInv => NoWaiterOnFree
  BY DEF IInv
<1> QED BY InitIInv, NextIInv, <1>1, PTL DEF Spec
=============================================================================
