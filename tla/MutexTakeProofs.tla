--------------------------- MODULE MutexTakeProofs ---------------------------
(***************************************************************************)
(* The inductive invariant of module Mutex, and why rt_mutex_take keeps it *)
(* for any number of threads and mutexes, any nesting, priorities, time    *)
(* slices, waiting times and delays.                                       *)
(***************************************************************************)
EXTENDS Mutex, KernelProofs

Blocking == {"take_sched", "take_wait"}
DetachPC == {"detach_test", "detach_body"}

(* What an inductive proof needs beside the invariants themselves: a thread *)
(* on the list of a mutex is inside rt_mutex_take of that mutex, and its    *)
(* error is clear until somebody wakes it;                                  *)
Waiting ==
  \A t \in Thread :
    /\ pc[t] \in Blocking \cup DetachPC => wants[t] \in Mutex
    /\ pc[t] \in Blocking /\ k.stat[t] = "SUSPEND" => k.error[t] = "EOK"
    /\ \A m \in Mutex : On(k.susp[m], t) => pc[t] \in Blocking /\ wants[t] = m

(* the running thread is READY unless it has just suspended itself;         *)
CurrentReady ==
  k.stat[k.current] = "READY" \/ pc[k.current] \in {"take_sched", "sleep_sched"}

(* no thread has released more than it took, and the priority an owner is   *)
(* to get back is known.                                                    *)
Counted ==
  /\ \A t \in Thread, m \in Mutex : held[t][m] >= 0
  /\ \A m \in Mutex : owner(m) # RT_NULL => mutex[m].original_priority \in Priority

IInv ==
  /\ TypeOK
  /\ KernelOK(k)
  /\ k.lock_nest = 0
  /\ Waiting
  /\ CurrentReady
  /\ Counted
  /\ OwnerHolds
  /\ NoWaiterOnFree

LEMMA InitIInv == Init => IInv
<1> SUFFICES ASSUME Init PROVE IInv
  OBVIOUS
<1>1. /\ k \in KernelState /\ KernelOK(k) /\ k.lock_nest = 0
      /\ k.susp = [l \in WaitList |-> <<>>] /\ Outranks(k, k.current)
  BY BootedProps DEF Init
<1>2. mutex \in [Mutex -> MutexBlock]
  <2>1. 0 \in 0 .. HOLD_MOD - 1
    BY MutexAssumption
  <2>2. rt_mutex_init \in MutexBlock
    BY <2>1 DEF MutexBlock, rt_mutex_init
  <2> QED BY <2>2 DEF Init
<1>3. TypeOK
  <2>1. wants \in [Thread -> Mutex \cup {RT_NULL}] /\ held \in [Thread -> [Mutex -> Int]]
    BY DEF Init
  <2> QED BY <1>1, <1>2, <2>1 DEF Init, TypeOK, PC
<1>4. NoWaiterOnFree /\ \A m \in Mutex : k.susp[m] = <<>>
  BY <1>1, MutexAssumption DEF NoWaiterOnFree
<1>5. Waiting
  <2>1. \A m \in Mutex, t \in Thread : ~ On(k.susp[m], t)
    BY <1>4 DEF On
  <2>2. \A t \in Thread : pc[t] = "app"
    BY DEF Init
  <2> QED BY <2>1, <2>2 DEF Waiting, Blocking, DetachPC
<1>6. Counted /\ OwnerHolds
  BY MutexAssumption DEF Init, Counted, OwnerHolds, Granted, owner, rt_mutex_init
<1> QED BY <1>1, <1>3, <1>4, <1>5, <1>6 DEF IInv, CurrentReady, Outranks

-----------------------------------------------------------------------------
(* What OwnerHolds says of one mutex *)
Owned(m) ==
  /\ \A t \in Thread : held[t][m] > 0 \/ Granted(t, m) => owner(m) = t
  /\ IF owner(m) = RT_NULL
     THEN mutex[m].value = 1 /\ mutex[m].hold = 0
     ELSE /\ mutex[m].value = 0 /\ mutex[m].hold > 0
          /\ mutex[m].hold = held[owner(m)][m] + (IF Granted(owner(m), m) THEN 1 ELSE 0)

LEMMA OwnedEach == OwnerHolds <=> \A m \in Mutex : Owned(m)
BY DEF OwnerHolds, Owned

(* A step that leaves the block of a mutex, and who holds it, alone *)
LEMMA OwnedSame ==
  ASSUME IInv, NEW m \in Mutex, mutex'[m] = mutex[m],
         \A t \in Thread : held'[t][m] = held[t][m],
         \A t \in Thread : Granted(t, m)' <=> Granted(t, m)
  PROVE  Owned(m)'
<1>1. Owned(m)
  BY OwnedEach DEF IInv
<1>2. owner(m)' = owner(m) /\ owner(m) \in Thread \cup {RT_NULL}
  BY DEF owner, IInv, TypeOK, MutexBlock
<1> QED BY <1>1, <1>2 DEF Owned

(* The threads as a step leaves them that suspends and wakes nobody and that *)
(* neither begins nor ends a wait in rt_mutex_take; the error of a thread    *)
(* that does not wait may change.                                            *)
ThreadsSame ==
  /\ k' \in KernelState /\ KernelOK(k') /\ k'.lock_nest = 0
  /\ k'.stat = k.stat /\ k'.susp = k.susp
  /\ pc' \in [Thread -> PC]
  /\ \A t \in Thread : pc'[t] \in Blocking <=> pc[t] \in Blocking
  /\ \A t \in Thread : pc[t] \in Blocking => k'.error[t] = k.error[t] /\ wants'[t] = wants[t]
  /\ \A t \in Thread : pc'[t] \in DetachPC => wants'[t] \in Mutex

LEMMA ThreadsSameProps ==
  ASSUME IInv, ThreadsSame
  PROVE  Waiting' /\ \A t \in Thread, m \in Mutex : Granted(t, m)' <=> Granted(t, m)
<1>1. Waiting
  BY DEF IInv
<1>2. Waiting'
  BY <1>1 DEF Waiting, ThreadsSame
<1>3. ASSUME NEW t \in Thread, NEW m \in Mutex
      PROVE  Granted(t, m)' <=> Granted(t, m)
  BY DEF ThreadsSame, Granted, Blocking
<1> QED BY <1>2, <1>3

(* A step of that kind that leaves the mutexes alone too *)
LEMMA QuietStep ==
  ASSUME IInv, ThreadsSame, CurrentReady', UNCHANGED <<mutex, held>>,
         wants' \in [Thread -> Mutex \cup {RT_NULL}], alive' \subseteq Mutex,
         irqoff' \in BOOLEAN, fault' \in BOOLEAN
  PROVE  IInv'
<1>1. Waiting' /\ \A t \in Thread, m \in Mutex : Granted(t, m)' <=> Granted(t, m)
  BY ThreadsSameProps
<1>2. TypeOK'
  BY DEF IInv, TypeOK, ThreadsSame
<1>3. OwnerHolds'
  <2>1. ASSUME NEW m \in Mutex PROVE Owned(m)'
    BY <1>1, OwnedSame
  <2> QED BY <2>1, OwnedEach DEF OwnerHolds, Owned
<1>4. Counted' /\ NoWaiterOnFree'
  BY DEF IInv, Counted, NoWaiterOnFree, owner, ThreadsSame
<1> QED BY <1>1, <1>2, <1>3, <1>4 DEF IInv, ThreadsSame

(* A section that wakes the thread w with error e *)
Wakes(w, e) ==
  /\ k' \in KernelState /\ KernelOK(k') /\ k'.lock_nest = 0
  /\ k'.stat = [k.stat EXCEPT ![w] = "READY"]
  /\ k'.error = [k.error EXCEPT ![w] = e]
  /\ \A m \in Mutex : k'.susp[m] = Unlink(k.susp[m], w)
  /\ pc' \in [Thread -> PC] /\ wants' = wants
  /\ \A t \in Thread : pc'[t] \in Blocking <=> pc[t] \in Blocking
  /\ \A t \in Thread : pc'[t] \in DetachPC => wants[t] \in Mutex

LEMMA WakeThreads ==
  ASSUME IInv, NEW w \in Thread, k.stat[w] = "SUSPEND", NEW e \in Error, Wakes(w, e)
  PROVE  /\ Waiting'
         /\ \A m \in Mutex : k.susp[m] = <<>> => k'.susp[m] = <<>>
         /\ \A m \in Mutex : ~ Granted(w, m)
         /\ \A m \in Mutex : Granted(w, m)' <=> e = "EOK" /\ pc[w] \in Blocking /\ wants[w] = m
         /\ \A t \in Thread, m \in Mutex : t # w => (Granted(t, m)' <=> Granted(t, m))
<1>0. /\ k.stat \in [Thread -> Stat] /\ k.error \in [Thread -> Error] /\ Waiting
      /\ \A m \in Mutex : k.susp[m] \in Seq(Thread) /\ Distinct(k.susp[m])
  BY MutexAssumption DEF IInv, TypeOK, KernelState, KernelOK, WaitersSuspended
<1>1. \A m \in Mutex, t \in Thread : On(k'.susp[m], t) <=> On(k.susp[m], t) /\ t # w
  BY <1>0, UnlinkProps DEF Wakes
<1>2. Waiting'
  <2> SUFFICES ASSUME NEW t \in Thread
               PROVE  /\ pc'[t] \in Blocking \cup DetachPC => wants'[t] \in Mutex
                      /\ pc'[t] \in Blocking /\ k'.stat[t] = "SUSPEND" => k'.error[t] = "EOK"
                      /\ \A m \in Mutex : On(k'.susp[m], t) => pc'[t] \in Blocking /\ wants'[t] = m
    BY DEF Waiting
  <2>1. pc'[t] \in Blocking \cup DetachPC => wants'[t] \in Mutex
    BY <1>0 DEF Waiting, Wakes
  <2>2. pc'[t] \in Blocking /\ k'.stat[t] = "SUSPEND" => k'.error[t] = "EOK"
    BY <1>0 DEF Waiting, Wakes
  <2>3. \A m \in Mutex : On(k'.susp[m], t) => pc'[t] \in Blocking /\ wants'[t] = m
    BY <1>0, <1>1 DEF Waiting, Wakes
  <2> QED BY <2>1, <2>2, <2>3
<1>3. \A m \in Mutex : k.susp[m] = <<>> => k'.susp[m] = <<>>
  BY DEF Wakes, Unlink, On
<1>4. \A m \in Mutex : ~ Granted(w, m)
  BY DEF Granted
<1>5. \A m \in Mutex : Granted(w, m)' <=> e = "EOK" /\ pc[w] \in Blocking /\ wants[w] = m
  BY <1>0 DEF Granted, Wakes, Blocking
<1>6. \A t \in Thread, m \in Mutex : t # w => (Granted(t, m)' <=> Granted(t, m))
  BY <1>0 DEF Granted, Wakes, Blocking
<1> QED BY <1>2, <1>3, <1>4, <1>5, <1>6

(* Waking a thread with an error grants it nothing. *)
LEMMA WakeErrorStep ==
  ASSUME IInv, NEW w \in Thread, k.stat[w] = "SUSPEND", NEW e \in Error, e # "EOK",
         Wakes(w, e), CurrentReady', UNCHANGED <<mutex, held, alive, irqoff, fault>>
  PROVE  IInv'
<1>1. /\ Waiting' /\ \A m \in Mutex : k.susp[m] = <<>> => k'.susp[m] = <<>>
      /\ \A t \in Thread, m \in Mutex : Granted(t, m)' <=> Granted(t, m)
  BY WakeThreads
<1>2. TypeOK'
  BY DEF IInv, TypeOK, Wakes
<1>3. OwnerHolds'
  <2>1. ASSUME NEW m \in Mutex PROVE Owned(m)'
    BY <1>1, OwnedSame
  <2> QED BY <2>1, OwnedEach DEF OwnerHolds, Owned
<1>4. Counted' /\ NoWaiterOnFree'
  BY <1>1 DEF IInv, Counted, NoWaiterOnFree, owner
<1> QED BY <1>1, <1>2, <1>3, <1>4 DEF IInv, Wakes

(* What a thread outside rt_mutex_take knows of a mutex that is free or its  *)
(* own: nobody else holds it, and it holds it as often as mutex->hold says.  *)
LEMMA OwnerAlone ==
  ASSUME IInv, NEW t \in Thread, NEW m \in Mutex, pc[t] \notin Blocking,
         owner(m) \in {t, RT_NULL}
  PROVE  /\ ~ Granted(t, m)
         /\ \A u \in Thread : u # t => held[u][m] = 0 /\ ~ Granted(u, m)
         /\ held[t][m] = mutex[m].hold
<1>0. /\ held \in [Thread -> [Mutex -> Int]] /\ RT_NULL \notin Thread /\ Owned(m)
      /\ \A u \in Thread : held[u][m] >= 0
  BY OwnedEach, MutexAssumption DEF IInv, TypeOK, Counted
<1>1. ~ Granted(t, m)
  BY DEF Granted, Blocking
<1>2. \A u \in Thread : held[u][m] \in Int
  BY <1>0
<1>3. ASSUME NEW u \in Thread, u # t
      PROVE  held[u][m] = 0 /\ ~ Granted(u, m)
  <2>1. owner(m) # u
    BY <1>0, <1>3
  <2>2. ~ (held[u][m] > 0) /\ ~ Granted(u, m)
    BY <1>0, <2>1 DEF Owned
  <2> QED BY <1>0, <1>2, <2>2
<1>4. held[t][m] = mutex[m].hold
  <2>1. CASE owner(m) = t
    BY <1>0, <1>1, <1>2, <2>1 DEF Owned
  <2>2. CASE owner(m) = RT_NULL
    <3>1. owner(m) # t
      BY <1>0, <2>2
    <3>2. ~ (held[t][m] > 0) /\ mutex[m].hold = 0
      BY <1>0, <2>2, <3>1 DEF Owned
    <3> QED BY <1>0, <1>2, <3>2
  <2> QED BY <2>1, <2>2
<1> QED BY <1>1, <1>3, <1>4

(* A step of thread t that leaves it with n takes of mutex m, or m free *)
Holds(t, m, b, n) ==
  /\ pc[t] \notin Blocking /\ owner(m) \in {t, RT_NULL}
  /\ mutex' = [mutex EXCEPT ![m] = b]
  /\ held' = [held EXCEPT ![t][m] = n]
  /\ IF b.owner = RT_NULL
     THEN b.value = 1 /\ b.hold = 0 /\ n = 0 /\ k.susp[m] = <<>>
     ELSE /\ b.owner = t /\ b.value = 0 /\ b.hold = n /\ n > 0
          /\ b.original_priority \in Priority
  /\ UNCHANGED <<wants, alive, irqoff, fault>>

LEMMA HeldStep ==
  ASSUME IInv, ThreadsSame, CurrentReady', NEW t \in Thread, NEW m \in Mutex,
         NEW b \in MutexBlock, NEW n \in Nat, Holds(t, m, b, n)
  PROVE  IInv'
<1> USE DEF Holds
<1>0. /\ mutex \in [Mutex -> MutexBlock] /\ held \in [Thread -> [Mutex -> Int]]
      /\ RT_NULL \notin Thread
  BY MutexAssumption DEF IInv, TypeOK
<1>1. /\ Waiting' /\ \A u \in Thread, l \in Mutex : Granted(u, l)' <=> Granted(u, l)
  BY ThreadsSameProps
<1>2. /\ mutex'[m] = b /\ held'[t][m] = n
      /\ \A l \in Mutex : l # m => mutex'[l] = mutex[l] /\ \A u \in Thread : held'[u][l] = held[u][l]
      /\ \A u \in Thread : u # t => held'[u][m] = held[u][m]
  BY <1>0
<1>3. TypeOK'
  <2>1. mutex' \in [Mutex -> MutexBlock] /\ held' \in [Thread -> [Mutex -> Int]]
    BY <1>0
  <2> QED BY <2>1 DEF IInv, TypeOK, ThreadsSame
<1>4. Owned(m)'
  <2>1. /\ ~ Granted(t, m)
        /\ \A u \in Thread : u # t => held[u][m] = 0 /\ ~ Granted(u, m)
    BY OwnerAlone
  <2>2. owner(m)' = b.owner /\ b.owner \in {t, RT_NULL}
    BY <1>2 DEF owner
  <2>3. \A u \in Thread : held'[u][m] > 0 \/ Granted(u, m)' => owner(m)' = u
    BY <1>1, <1>2, <2>1, <2>2
  <2> QED BY <1>0, <1>1, <1>2, <2>1, <2>2, <2>3 DEF Owned
<1>5. OwnerHolds'
  <2>1. ASSUME NEW l \in Mutex, l # m PROVE Owned(l)'
    BY <1>1, <1>2, <2>1, OwnedSame
  <2> QED BY <1>4, <2>1, OwnedEach DEF OwnerHolds, Owned
<1>6. Counted'
  BY <1>2 DEF IInv, Counted, owner
<1>7. NoWaiterOnFree'
  BY <1>2 DEF IInv, NoWaiterOnFree, owner, ThreadsSame
<1> QED BY <1>1, <1>3, <1>5, <1>6, <1>7 DEF IInv, ThreadsSame

-----------------------------------------------------------------------------
(* One lemma per action *)

(* The running thread is READY at every point but the one after suspending. *)
LEMMA RunsReady ==
  ASSUME IInv, NEW t \in Thread, NEW c, Runs(t, c), c \notin {"take_sched", "sleep_sched"}
  PROVE  k.stat[t] = "READY"
BY DEF IInv, CurrentReady, Runs

(* Setting the error of the caller disturbs nobody. *)
LEMMA ReturnsSame ==
  ASSUME IInv, NEW t \in Thread, Runs(t, "app"), NEW e \in Error, k' = Returns(t, e),
         UNCHANGED <<pc, wants>>
  PROVE  ThreadsSame /\ CurrentReady'
<1>0. k \in KernelState /\ KernelOK(k) /\ k.lock_nest = 0 /\ pc[t] = "app" /\ Waiting
      /\ pc \in [Thread -> PC] /\ k.error \in [Thread -> Error]
  BY DEF IInv, TypeOK, Runs, KernelState
<1>1. k' \in KernelState /\ KernelOK(k') /\ ErrorSet(k', k, t, e)
  BY <1>0, SetErrorProps DEF Returns
<1>2. \A u \in Thread : pc[u] \in Blocking => k'.error[u] = k.error[u]
  BY <1>0, <1>1 DEF ErrorSet, Blocking
<1> QED BY <1>0, <1>1, <1>2
        DEF ThreadsSame, ErrorSet, Frame, Waiting, IInv, CurrentReady

LEMMA TakeAgainInv ==
  ASSUME IInv, NEW t \in Thread, NEW m \in Mutex, TakeAgain(t, m)
  PROVE  IInv'
<1> DEFINE n == mutex[m].hold + 1
           b == [mutex[m] EXCEPT !.hold = n]
<1>0. /\ mutex \in [Mutex -> MutexBlock] /\ mutex[m].hold \in Nat /\ HOLD_MOD \in Nat
      /\ mutex[m].hold < MaxHold /\ MaxHold < HOLD_MOD /\ MaxHold \in Nat /\ owner(m) = t
      /\ t # RT_NULL /\ Runs(t, "app") /\ Owned(m) /\ pc[t] \notin Blocking
  BY OwnedEach, MutexAssumption
     DEF IInv, TypeOK, MutexBlock, TakeAgain, Runs, Blocking
<1>1. n \in Nat /\ n \in 0 .. HOLD_MOD - 1 /\ n > 0 /\ n % HOLD_MOD = n
  BY <1>0
<1>2. held[t][m] = mutex[m].hold
  BY <1>0, OwnerAlone
<1>3. mutex' = [mutex EXCEPT ![m] = b] /\ held' = [held EXCEPT ![t][m] = n]
  BY <1>0, <1>1, <1>2 DEF TakeAgain
<1>4. /\ b \in MutexBlock /\ b.owner = t /\ b.value = 0 /\ b.hold = n
      /\ b.original_priority \in Priority
  BY <1>0, <1>1 DEF MutexBlock, Owned, owner, IInv, Counted
<1>5. ThreadsSame /\ CurrentReady'
  BY ReturnsSame DEF TakeAgain, Error
<1> HIDE DEF n, b
<1>6. Holds(t, m, b, n)
  BY <1>0, <1>1, <1>3, <1>4 DEF TakeAgain, Holds
<1> QED BY <1>1, <1>4, <1>5, <1>6, HeldStep

LEMMA TakeFreeInv ==
  ASSUME IInv, NEW t \in Thread, NEW m \in Mutex, TakeFree(t, m)
  PROVE  IInv'
<1> DEFINE b == [value |-> 0, owner |-> t,
                 original_priority |-> k.current_priority[t], hold |-> 1]
<1>0. /\ mutex \in [Mutex -> MutexBlock] /\ mutex[m].value > 0 /\ Owned(m)
      /\ t # RT_NULL /\ Runs(t, "app") /\ pc[t] \notin Blocking
      /\ k.current_priority[t] \in Priority
  BY OwnedEach, MutexAssumption
     DEF IInv, TypeOK, TakeFree, Runs, Blocking, KernelState
<1>1. owner(m) = RT_NULL /\ mutex[m].value = 1 /\ mutex[m].hold = 0
  BY <1>0 DEF Owned
<1>2. held[t][m] = 0
  BY <1>0, <1>1, OwnerAlone
<1>3. 1 % HOLD_MOD = 1 /\ 1 \in 0 .. HOLD_MOD - 1
  BY MutexAssumption
<1>4. mutex' = [mutex EXCEPT ![m] = b] /\ held' = [held EXCEPT ![t][m] = 1]
  <2>1. mutex[m].value - 1 = 0 /\ (mutex[m].hold + 1) % HOLD_MOD = 1 /\ held[t][m] + 1 = 1
    BY <1>1, <1>2, <1>3
  <2> QED BY <2>1 DEF TakeFree
<1>5. b \in MutexBlock
  BY <1>0, <1>3 DEF MutexBlock
<1>6. ThreadsSame /\ CurrentReady'
  BY ReturnsSame DEF TakeFree, Error
<1>7. b.owner = t /\ b.value = 0 /\ b.hold = 1 /\ b.original_priority \in Priority
  BY <1>0
<1> HIDE DEF b
<1>8. Holds(t, m, b, 1)
  BY <1>0, <1>1, <1>4, <1>7 DEF TakeFree, Holds
<1> QED BY <1>5, <1>6, <1>8, HeldStep

(* rt_mutex_take that does not wait, rt_mutex_release by a thread that is not *)
(* the owner                                                                  *)
LEMMA RefusedInv ==
  ASSUME IInv, NEW t \in Thread, NEW m \in Mutex, TakeNoWait(t, m) \/ ReleaseOthers(t, m)
  PROVE  IInv'
<1>1. Runs(t, "app") /\ UNCHANGED <<pc, irqoff, fault, mutex, wants, alive, held>>
  BY DEF TakeNoWait, ReleaseOthers, obj
<1>2. PICK e \in Error : k' = Returns(t, e)
  BY DEF TakeNoWait, ReleaseOthers, Error
<1>3. ThreadsSame /\ CurrentReady'
  BY <1>1, <1>2, ReturnsSame
<1> QED BY <1>1, <1>3, QuietStep DEF IInv, TypeOK

(* The priority that the owner inherits changes the place of no thread. *)
LEMMA BoostedProps ==
  ASSUME NEW x \in KernelState, KernelOK(x), NEW o \in Thread, NEW p \in Priority,
         NEW r, r = Boosted(x, o, p)
  PROVE  /\ r \in KernelState /\ KernelOK(r)
         /\ r.stat = x.stat /\ r.error = x.error /\ r.susp = x.susp
         /\ r.current = x.current /\ r.lock_nest = x.lock_nest
<1>1. CASE p < x.current_priority[o]
  <2>1. r = change_priority(x, o, p)
    BY <1>1 DEF Boosted
  <2>2. r \in KernelState /\ KernelOK(r) /\ PriorityChanged(r, x, o, p)
    BY <2>1, ChangePriorityProps
  <2> QED BY <2>2 DEF PriorityChanged
<1>2. CASE ~ (p < x.current_priority[o])
  BY <1>2 DEF Boosted
<1> QED BY <1>1, <1>2

(* The kernel in which rt_mutex_take has suspended its caller *)
LEMMA TakeBlockKernel ==
  ASSUME IInv, NEW t \in Thread, NEW m \in Mutex, NEW time \in Times, TakeBlock(t, m, time)
  PROVE  /\ k' \in KernelState /\ KernelOK(k') /\ k'.lock_nest = 0 /\ k'.current = t
         /\ k'.stat = [k.stat EXCEPT ![t] = "SUSPEND"]
         /\ k'.error = [k.error EXCEPT ![t] = "EOK"]
         /\ \A u : On(k'.susp[m], u) <=> On(k.susp[m], u) \/ u = t
         /\ \A l \in Mutex : l # m => k'.susp[l] = k.susp[l]
         /\ owner(m) # RT_NULL
<1> DEFINE clear == Returns(t, "EOK")
           boosted == Boosted(clear, owner(m), k.current_priority[t])
           wait == rt_ipc_list_suspend(boosted, m, t, FLAG)
<1>0. /\ k \in KernelState /\ KernelOK(k) /\ k.lock_nest = 0
      /\ k.current = t /\ t # idle /\ k.stat[t] = "READY"
      /\ m \in WaitList /\ time \in Int /\ "EOK" \in Error /\ k.current_priority[t] \in Priority
  BY RunsReady, MutexAssumption DEF IInv, TypeOK, TakeBlock, Runs, Error, KernelState
<1>1. owner(m) \in Thread /\ owner(m) # RT_NULL
  <2>1. Owned(m) /\ mutex[m].value = 0
    BY OwnedEach DEF IInv, TakeBlock
  <2> QED BY <2>1, MutexAssumption DEF Owned, IInv, TypeOK, MutexBlock, owner
<1>2. k' = IF time > 0 THEN rt_timer_start(wait, t, time) ELSE wait
  BY DEF TakeBlock
<1>3. clear \in KernelState /\ KernelOK(clear) /\ ErrorSet(clear, k, t, "EOK")
  BY <1>0, SetErrorProps DEF Returns
<1> HIDE DEF clear
<1>4. /\ boosted \in KernelState /\ KernelOK(boosted)
      /\ boosted.stat = clear.stat /\ boosted.error = clear.error /\ boosted.susp = clear.susp
      /\ boosted.current = clear.current /\ boosted.lock_nest = clear.lock_nest
  BY <1>0, <1>1, <1>3, BoostedProps
<1> HIDE DEF boosted
<1>5. wait \in KernelState /\ KernelOK(wait) /\ Blocked(wait, boosted, m, t)
  <2>1. Is(boosted, t, "READY") /\ t \in Thread \ {idle}
    BY <1>0, <1>3, <1>4 DEF Is, ErrorSet
  <2> QED BY <1>0, <1>4, <2>1, IpcSuspendProps
<1> HIDE DEF wait
<1>6. /\ wait.stat = [k.stat EXCEPT ![t] = "SUSPEND"]
      /\ wait.error = [k.error EXCEPT ![t] = "EOK"]
      /\ wait.current = t /\ wait.lock_nest = 0
      /\ \A u : On(wait.susp[m], u) <=> On(k.susp[m], u) \/ u = t
      /\ \A l \in Mutex : l # m => wait.susp[l] = k.susp[l]
  BY <1>0, <1>3, <1>4, <1>5, MutexAssumption DEF ErrorSet, Frame, Blocked
<1>7. CASE time > 0
  <2>1. k' = rt_timer_start(wait, t, time) /\ time \in Nat
    BY <1>0, <1>2, <1>7
  <2>2. Is(wait, t, "SUSPEND")
    BY <1>0, <1>6 DEF Is, KernelState
  <2>3. k' \in KernelState /\ KernelOK(k') /\ TimerStarted(k', wait, t, time)
    BY <1>5, <2>1, <2>2, TimerStartProps
  <2> QED BY <1>1, <1>6, <2>3 DEF TimerStarted, Frame
<1>8. CASE ~ (time > 0)
  BY <1>1, <1>2, <1>5, <1>6, <1>8
<1> QED BY <1>7, <1>8

LEMMA TakeBlockInv ==
  ASSUME IInv, NEW t \in Thread, NEW m \in Mutex, NEW time \in Times, TakeBlock(t, m, time)
  PROVE  IInv'
<1>0. /\ pc \in [Thread -> PC] /\ wants \in [Thread -> Mutex \cup {RT_NULL}]
      /\ k.stat \in [Thread -> Stat] /\ k.error \in [Thread -> Error]
      /\ pc[t] = "app" /\ Waiting
      /\ pc' = [pc EXCEPT ![t] = "take_sched"] /\ wants' = [wants EXCEPT ![t] = m]
      /\ UNCHANGED <<irqoff, fault, mutex, alive, held>>
  BY DEF IInv, TypeOK, KernelState, TakeBlock, Runs, Goto
<1>1. /\ k' \in KernelState /\ KernelOK(k') /\ k'.lock_nest = 0 /\ k'.current = t
      /\ k'.stat = [k.stat EXCEPT ![t] = "SUSPEND"]
      /\ k'.error = [k.error EXCEPT ![t] = "EOK"]
      /\ \A u : On(k'.susp[m], u) <=> On(k.susp[m], u) \/ u = t
      /\ \A l \in Mutex : l # m => k'.susp[l] = k.susp[l]
      /\ owner(m) # RT_NULL
  BY TakeBlockKernel
<1>2. TypeOK'
  BY <1>0, <1>1 DEF IInv, TypeOK, PC
<1>3. Waiting'
  <2> SUFFICES ASSUME NEW u \in Thread
               PROVE  /\ pc'[u] \in Blocking \cup DetachPC => wants'[u] \in Mutex
                      /\ pc'[u] \in Blocking /\ k'.stat[u] = "SUSPEND" => k'.error[u] = "EOK"
                      /\ \A l \in Mutex : On(k'.susp[l], u) => pc'[u] \in Blocking /\ wants'[u] = l
    BY DEF Waiting
  <2>1. CASE u = t
    <3>1. \A l \in Mutex : ~ On(k.susp[l], t)
      BY <1>0 DEF Waiting, Blocking
    <3> QED BY <1>0, <1>1, <2>1, <3>1 DEF Blocking
  <2>2. CASE u # t
    BY <1>0, <1>1, <2>2 DEF Waiting
  <2> QED BY <2>1, <2>2
<1>4. \A u \in Thread, l \in Mutex : Granted(u, l)' <=> Granted(u, l)
  BY <1>0, <1>1 DEF Granted
<1>5. OwnerHolds'
  <2>1. ASSUME NEW l \in Mutex PROVE Owned(l)'
    BY <1>0, <1>4, OwnedSame
  <2> QED BY <2>1, OwnedEach DEF OwnerHolds, Owned
<1>6. Counted' /\ NoWaiterOnFree' /\ CurrentReady'
  BY <1>0, <1>1 DEF IInv, Counted, NoWaiterOnFree, owner, CurrentReady
<1> QED BY <1>1, <1>2, <1>3, <1>5, <1>6 DEF IInv

(* Back from its wait, a thread that a release made the owner counts the take. *)
LEMMA TakeReturnInv ==
  ASSUME IInv, NEW t \in Thread, TakeReturn(t)
  PROVE  IInv'
<1> DEFINE m == wants[t]
<1>0. /\ pc \in [Thread -> PC] /\ wants \in [Thread -> Mutex \cup {RT_NULL}]
      /\ held \in [Thread -> [Mutex -> Int]] /\ Waiting
      /\ pc[t] = "take_wait" /\ k.current = t /\ k.stat[t] = "READY" /\ m \in Mutex
      /\ pc' = [pc EXCEPT ![t] = "app"] /\ wants' = [wants EXCEPT ![t] = RT_NULL]
      /\ UNCHANGED <<k, irqoff, fault, mutex, alive>>
  BY RunsReady DEF IInv, TypeOK, TakeReturn, Runs, Goto, Waiting, Blocking
<1>1. held' = IF k.error[t] = "EOK" THEN [held EXCEPT ![t][m] = held[t][m] + 1] ELSE held
  BY DEF TakeReturn
<1> HIDE DEF m
<1>2. \A l \in Mutex : ~ On(k.susp[l], t)
  BY <1>0, MutexAssumption DEF IInv, KernelOK, WaitersSuspended
<1>3. TypeOK'
  <2>1. held' \in [Thread -> [Mutex -> Int]]
    BY <1>0, <1>1
  <2> QED BY <1>0, <2>1 DEF IInv, TypeOK, PC
<1>4. Waiting' /\ CurrentReady'
  BY <1>0, <1>2 DEF Waiting, Blocking, DetachPC, CurrentReady
<1>5. /\ \A l \in Mutex : ~ Granted(t, l)'
      /\ \A l \in Mutex : Granted(t, l) <=> l = m /\ k.error[t] = "EOK"
      /\ \A u \in Thread, l \in Mutex : u # t => (Granted(u, l)' <=> Granted(u, l))
  BY <1>0 DEF Granted, m
<1>6. /\ \A u \in Thread, l \in Mutex :
           held'[u][l] = held[u][l] + (IF u = t /\ Granted(t, l) THEN 1 ELSE 0)
      /\ \A u \in Thread, l \in Mutex : held[u][l] \in Int
  BY <1>0, <1>1, <1>5
<1>7. OwnerHolds'
  <2> SUFFICES ASSUME NEW l \in Mutex PROVE Owned(l)'
    BY OwnedEach DEF OwnerHolds, Owned
  <2>1. CASE Granted(t, l)
    <3>1. Owned(l) /\ owner(l) = t /\ t # RT_NULL /\ owner(l)' = t
      BY <1>0, <2>1, OwnedEach, MutexAssumption DEF IInv, Owned, owner
    <3>2. mutex[l].value = 0 /\ mutex[l].hold > 0 /\ mutex[l].hold = held[t][l] + 1
      BY <2>1, <3>1 DEF Owned
    <3>3. held'[t][l] = held[t][l] + 1 /\ ~ Granted(t, l)' /\ held[t][l] + 1 \in Int
      BY <1>5, <1>6, <2>1
    <3>4. \A u \in Thread : held'[u][l] > 0 \/ Granted(u, l)' => owner(l)' = u
      BY <1>5, <1>6, <3>1 DEF Owned
    <3> QED BY <1>0, <3>1, <3>2, <3>3, <3>4 DEF Owned
  <2>2. CASE ~ Granted(t, l)
    <3>1. \A u \in Thread : held'[u][l] = held[u][l]
      BY <1>6, <2>2
    <3>2. \A u \in Thread : Granted(u, l)' <=> Granted(u, l)
      BY <1>5, <2>2
    <3> QED BY <1>0, <3>1, <3>2, OwnedSame
  <2> QED BY <2>1, <2>2
<1>8. Counted' /\ NoWaiterOnFree'
  <2>1. \A u \in Thread, l \in Mutex : held[u][l] >= 0
    BY DEF IInv, Counted
  <2>2. \A u \in Thread, l \in Mutex : held'[u][l] >= 0
    BY <1>6, <2>1
  <2> QED BY <1>0, <2>2 DEF IInv, Counted, NoWaiterOnFree, owner
<1> QED BY <1>0, <1>3, <1>4, <1>7, <1>8 DEF IInv
=============================================================================
