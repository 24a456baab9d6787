------------------------- MODULE MutexPriorityProofs -------------------------
(***************************************************************************)
(* The priorities that one mutex hands around: an owner inherits from its  *)
(* waiters, gets its own priority back, and the highest-priority READY     *)
(* thread runs.  With two mutexes these do not hold: rt_mutex_release      *)
(* restores what the owner had when it took the mutex, which another mutex *)
(* may have raised.                                                        *)
(***************************************************************************)
EXTENDS MutexProofs

(* The points of a call at which rt_schedule() is still to come *)
SchedPC == {"take_sched", "release_sched", "sleep_sched"}

(* Every take waits for ever or not at all. *)
NoTimedTake == \A time \in Times : time <= 0

-----------------------------------------------------------------------------
(* What a section does to the owner, the waiters and the priorities *)

Kept(m) ==
  /\ owner(m)' = owner(m)
  /\ mutex'[m].original_priority = mutex[m].original_priority

Still(m) ==
  /\ Kept(m)
  /\ k'.current_priority = k.current_priority /\ k'.susp[m] = k.susp[m]

Acquires(m, t) ==
  /\ owner(m) = RT_NULL /\ owner(m)' = t
  /\ mutex'[m].original_priority = k.current_priority[t]
  /\ k'.current_priority = k.current_priority /\ k'.susp[m] = k.susp[m]

(* The owner inherits the priority of t, which finds its place in the list. *)
Waits(m, t) ==
  /\ Kept(m) /\ owner(m) \in Thread \ {t} /\ ~ On(k.susp[m], t)
  /\ k'.current_priority =
       [k.current_priority EXCEPT ![owner(m)] =
          IF k.current_priority[t] < @ THEN k.current_priority[t] ELSE @]
  /\ \E i \in 1 .. Len(k.susp[m]) + 1 :
       /\ k'.susp[m] = LinkAt(k.susp[m], i, t)
       /\ RightPlace(k', k.susp[m], k'.current_priority[t], FLAG, i)

(* t wakes without the mutex: its timer has expired, or a detach is going on. *)
Leaves(m, t) ==
  /\ Kept(m) /\ k'.current_priority = k.current_priority
  /\ k'.susp[m] = Unlink(k.susp[m], t)
  /\ On(k.susp[m], t) => Armed(k, t) \/ \E u \in Thread : pc[u] \in DetachPC

Restores(m) ==
  /\ owner(m) \in Thread
  /\ k'.current_priority = [k.current_priority EXCEPT ![owner(m)] = mutex[m].original_priority]

Frees(m) ==
  /\ Restores(m)
  /\ k.susp[m] = <<>> /\ k'.susp[m] = <<>> /\ owner(m)' = RT_NULL

Hands(m, w) ==
  /\ Restores(m)
  /\ k.susp[m] # <<>> /\ w = k.susp[m][1] /\ w # owner(m)
  /\ k'.susp[m] = Unlink(k.susp[m], w)
  /\ owner(m)' = w /\ mutex'[m].original_priority = k'.current_priority[w]

MutexStep(m) ==
  /\ alive' \subseteq alive
  /\ \/ Still(m) \/ Frees(m)
     \/ \E t \in Thread : Acquires(m, t) \/ Waits(m, t) \/ Leaves(m, t) \/ Hands(m, t)

(* A thread that waits for the mutex has no timer unless it had one. *)
Timed(m) ==
  NoTimedTake =>
    \A t \in Thread : On(k'.susp[m], t) /\ Armed(k', t) => On(k.susp[m], t) /\ Armed(k, t)

(* The running thread has been chosen, is about to be chosen again, or is     *)
(* the one it was among the READY threads there were.                         *)
Switches(m) ==
  \/ Outranks(k', k'.current)
  \/ pc'[k'.current] \in SchedPC
  \/ m \notin alive'
  \/ /\ k'.stat = k.stat /\ k'.current_priority = k.current_priority
     /\ k'.current = k.current /\ pc[k.current] \notin SchedPC

(* A section that touches neither lists nor priorities *)
Calm(m) ==
  /\ k'.stat = k.stat /\ k'.current_priority = k.current_priority
  /\ k'.susp[m] = k.susp[m] /\ k'.timer = k.timer /\ k'.current = k.current
  /\ alive' \subseteq alive
  /\ pc' = pc \/ pc[k.current] \notin SchedPC

LEMMA CalmDoes ==
  ASSUME NEW m \in Mutex, Calm(m)
  PROVE  Timed(m) /\ Switches(m) /\ (Kept(m) => MutexStep(m))
BY DEF Calm, Timed, Switches, MutexStep, Still, Armed

LEMMA OneTypes ==
  ASSUME IInv, NEW m \in Mutex
  PROVE  /\ owner(m) \in Thread \cup {RT_NULL} /\ RT_NULL \notin Thread
         /\ k.susp[m] \in Seq(Thread) /\ Distinct(k.susp[m])
         /\ k.current_priority \in [Thread -> Nat]
<1>1. k.current_priority \in [Thread -> Priority] /\ Priority \subseteq Nat
  BY KernelAssumption DEF IInv, TypeOK, KernelState, Priority
<1>2. k.current_priority \in [Thread -> Nat]
  BY <1>1, Zenon
<1> QED BY <1>2, MutexAssumption
        DEF IInv, TypeOK, KernelState, KernelOK, WaitersSuspended, MutexBlock, owner

LEMMA StillListed ==
  ASSUME NEW s \in Seq(Thread), Distinct(s), NEW w, NEW r, r = Unlink(s, w)
  PROVE  \A u \in Thread : On(r, u) <=> On(s, u) /\ u # w
BY UnlinkProps

(* Priorities of threads that are not in a list do not matter for its order. *)
LEMMA SameOrder ==
  ASSUME NEW s \in Seq(Thread), NEW f, NEW g, InOrder(s, f),
         \A t \in Thread : On(s, t) => g[t] = f[t]
  PROVE  InOrder(s, g)
<1>1. \A j \in 1 .. Len(s) : s[j] \in Thread /\ On(s, s[j])
  BY DEF On
<1>2. \A j \in 1 .. Len(s) : g[s[j]] = f[s[j]]
  BY <1>1
<1> QED BY <1>2 DEF InOrder

(* Threads listed in s are not o, and none has a higher priority than o. *)
Under(s, o, f) == \A u \in Thread : On(s, u) => u # o /\ f[o] <= f[u]

(* The waiters s of a mutex owned by o, with the priorities f. *)
Queue(s, o, f) ==
  /\ s \in Seq(Thread) /\ Distinct(s) /\ f \in [Thread -> Nat] /\ InOrder(s, f)
  /\ \A u \in Thread : On(s, u) => u # o
  /\ \A u \in Thread : o \in Thread /\ On(s, u) => f[o] <= f[u]

Joins(s, o, f, t, i, g) ==
  /\ o \in Thread /\ o # t /\ ~ On(s, t)
  /\ g = [f EXCEPT ![o] = IF f[t] < @ THEN f[t] ELSE @]
  /\ i \in 1 .. Len(s) + 1
  /\ \A j \in 1 .. i - 1 : g[s[j]] <= g[t]
  /\ i <= Len(s) => g[t] < g[s[i]]

TakesOver(s, o, f, w, g) ==
  /\ s # <<>> /\ w = s[1] /\ w # o
  /\ \A u \in Thread : u # o => g[u] = f[u]

(* A thread t joins the list s of the waiters of a mutex owned by o, which   *)
(* inherits the priority of t.                                               *)
LEMMA WaiterJoins ==
  ASSUME NEW s, NEW o, NEW f, NEW t \in Thread, NEW i, NEW g, NEW r,
         Queue(s, o, f), Joins(s, o, f, t, i, g), r = LinkAt(s, i, t)
  PROVE  InOrder(r, g) /\ Under(r, o, g)
<1>0. /\ s \in Seq(Thread) /\ Distinct(s) /\ f \in [Thread -> Nat] /\ InOrder(s, f)
      /\ o \in Thread /\ o # t /\ ~ On(s, t) /\ i \in 1 .. Len(s) + 1
      /\ \A u \in Thread : On(s, u) => u # o /\ f[o] <= f[u]
  BY Zenon DEF Queue, Joins
<1>a. g = [f EXCEPT ![o] = IF f[t] < @ THEN f[t] ELSE @]
  BY DEF Joins
<1>b. /\ \A j \in 1 .. i - 1 : g[s[j]] <= g[t]
      /\ i <= Len(s) => g[t] < g[s[i]]
  BY DEF Joins
<1>1. /\ g \in [Thread -> Nat] /\ g[o] <= f[o] /\ g[o] <= g[t]
      /\ \A u \in Thread : u # o => g[u] = f[u]
  BY <1>0, <1>a
<1>2. \A u \in Thread : On(s, u) => g[u] = f[u]
  BY <1>0, <1>1, Zenon
<1>3. InOrder(s, g)
  BY <1>0, <1>2, SameOrder, Zenon
<1>4. InOrder(LinkAt(s, i, t), g)
  BY <1>0, <1>1, <1>3, <1>b, LinkKeepsOrder, Zenon
<1>5. \A u : On(LinkAt(s, i, t), u) <=> On(s, u) \/ u = t
  BY <1>0, LinkAtProps, Zenon
<1>6. ASSUME NEW u \in Thread, On(r, u) PROVE u # o /\ g[o] <= g[u]
  <2>1. CASE u = t
    BY <1>0, <1>1, <2>1
  <2>2. CASE On(s, u)
    <3>1. u # o /\ f[o] <= f[u] /\ g[u] = f[u]
      BY <1>0, <1>2, <2>2, Zenon
    <3>2. f[o] \in Nat /\ f[u] \in Nat /\ g[o] \in Nat
      BY <1>0, <1>1
    <3> QED BY <1>1, <3>1, <3>2
  <2> QED BY <1>5, <1>6, <2>1, <2>2
<1> QED BY <1>4, <1>6 DEF Under

(* The first waiter w leaves the list and becomes the owner in place of o.   *)
LEMMA FirstTakesOver ==
  ASSUME NEW s, NEW o, NEW f, NEW w \in Thread, NEW g, NEW r,
         Queue(s, o, f), TakesOver(s, o, f, w, g), r = Unlink(s, w)
  PROVE  InOrder(r, g) /\ Under(r, w, g)
<1>0. /\ s \in Seq(Thread) /\ Distinct(s) /\ f \in [Thread -> Nat] /\ InOrder(s, f)
      /\ s # <<>> /\ w = s[1] /\ w # o
      /\ \A u \in Thread : On(s, u) => u # o
      /\ \A u \in Thread : u # o => g[u] = f[u]
  BY Zenon DEF Queue, TakesOver
<1>1. \A u \in Thread : On(r, u) <=> On(s, u) /\ u # w
  BY <1>0, StillListed
<1>2. InOrder(Unlink(s, w), f)
  BY <1>0, UnlinkKeepsOrder
<1>3. Unlink(s, w) \in Seq(Thread)
  BY <1>0, UnlinkProps
<1>4. \A u \in Thread : On(r, u) => g[u] = f[u]
  BY <1>0, <1>1, Zenon
<1>5. InOrder(r, g)
  BY <1>2, <1>3, <1>4, SameOrder
<1>6. ASSUME NEW u \in Thread, On(r, u) PROVE u # w /\ g[w] <= g[u]
  <2>1. On(s, u) /\ u # w /\ u # o
    BY <1>0, <1>1, <1>6, Zenon
  <2>2. PICK j \in 1 .. Len(s) : s[j] = u
    BY <2>1 DEF On
  <2>3. 1 \in 1 .. Len(s) /\ 1 < j
    BY <1>0, <2>1, <2>2
  <2>4. f[w] <= f[u]
    BY <1>0, <2>2, <2>3 DEF InOrder
  <2> QED BY <1>0, <2>1, <2>4
<1> QED BY <1>5, <1>6 DEF Under

-----------------------------------------------------------------------------
(* One lemma per kind of section *)

LEMMA ReturnsCalm ==
  ASSUME IInv, NEW m \in Mutex, NEW t \in Thread, NEW e \in Error, k' = Returns(t, e),
         Runs(t, "app"), alive' = alive
  PROVE  Calm(m)
<1>0. k \in KernelState /\ KernelOK(k) /\ k.current = t /\ pc[t] = "app"
  BY DEF IInv, TypeOK, Runs
<1>1. ErrorSet(k', k, t, e)
  BY <1>0, SetErrorProps DEF Returns
<1> QED BY <1>0, <1>1 DEF ErrorSet, Frame, Calm, SchedPC

LEMMA TakeNowStep ==
  ASSUME IInv, NEW t \in Thread, NEW m \in Mutex,
         \/ TakeAgain(t, m) \/ TakeFree(t, m) \/ TakeNoWait(t, m) \/ ReleaseOthers(t, m)
  PROVE  MutexStep(m) /\ Timed(m) /\ Switches(m)
<1>0. mutex \in [Mutex -> MutexBlock] /\ Runs(t, "app") /\ alive' = alive
  BY DEF IInv, TypeOK, TakeAgain, TakeFree, TakeNoWait, ReleaseOthers, obj
<1>1. PICK e \in Error : k' = Returns(t, e)
  BY DEF TakeAgain, TakeFree, TakeNoWait, ReleaseOthers, Error
<1>2. Calm(m)
  BY <1>0, <1>1, ReturnsCalm
<1>3. Timed(m) /\ Switches(m) /\ (Kept(m) => MutexStep(m))
  BY <1>2, CalmDoes
<1>4. CASE TakeFree(t, m)
  <2>1. owner(m) = RT_NULL
    BY <1>4, OwnedEach DEF IInv, TypeOK, MutexBlock, TakeFree, Owned
  <2>2. Acquires(m, t)
    BY <1>0, <1>2, <1>4, <2>1 DEF TakeFree, Acquires, Calm, owner
  <2> QED BY <1>0, <1>3, <2>2 DEF MutexStep
<1>5. CASE TakeAgain(t, m) \/ TakeNoWait(t, m) \/ ReleaseOthers(t, m)
  <2>1. Kept(m)
    BY <1>0, <1>5 DEF TakeAgain, TakeNoWait, ReleaseOthers, Kept, owner, obj, MutexBlock
  <2> QED BY <1>3, <2>1
<1> QED BY <1>4, <1>5

LEMMA ReleaseInnerStep ==
  ASSUME IInv, NEW t \in Thread, NEW m \in Mutex, ReleaseInner(t, m)
  PROVE  MutexStep(m) /\ Timed(m) /\ Switches(m)
<1>0. mutex \in [Mutex -> MutexBlock] /\ mutex[m] \in MutexBlock
  BY DEF IInv, TypeOK
<1>1. Kept(m)
  BY <1>0 DEF ReleaseInner, Kept, owner, MutexBlock
<1>2. Calm(m)
  BY DEF ReleaseInner, Calm, Runs, SchedPC
<1> QED BY <1>1, <1>2, CalmDoes

LEMMA InheritedProps ==
  ASSUME NEW x \in KernelState, KernelOK(x), NEW o \in Thread, NEW p \in Priority,
         NEW r, r = Boosted(x, o, p)
  PROVE  /\ r.timer = x.timer
         /\ r.current_priority = [x.current_priority EXCEPT ![o] = IF p < @ THEN p ELSE @]
<1>0. x.current_priority \in [Thread -> Priority]
  BY DEF KernelState
<1>1. CASE p < x.current_priority[o]
  <2>1. r = change_priority(x, o, p)
    BY <1>1 DEF Boosted
  <2>2. PriorityChanged(r, x, o, p)
    BY <2>1, ChangePriorityProps
  <2> QED BY <1>1, <2>2 DEF PriorityChanged
<1>2. CASE ~ (p < x.current_priority[o])
  BY <1>0, <1>2 DEF Boosted
<1> QED BY <1>1, <1>2

LEMMA TakeBlockStep ==
  ASSUME IInv, NEW t \in Thread, NEW m \in Mutex, NEW time \in Times, TakeBlock(t, m, time)
  PROVE  MutexStep(m) /\ Timed(m) /\ Switches(m)
<1> DEFINE clear == Returns(t, "EOK")
           boosted == Boosted(clear, owner(m), k.current_priority[t])
           wait == rt_ipc_list_suspend(boosted, m, t, FLAG)
<1>0. /\ k \in KernelState /\ KernelOK(k)
      /\ k.current = t /\ t \in Thread \ {idle} /\ k.stat[t] = "READY"
      /\ m \in WaitList /\ time \in Int /\ "EOK" \in Error /\ k.current_priority[t] \in Priority
      /\ k.current_priority \in [Thread -> Priority] /\ k.susp[m] \in Seq(Thread)
      /\ pc \in [Thread -> PC] /\ pc' = [pc EXCEPT ![t] = "take_sched"]
      /\ owner(m) # t /\ UNCHANGED <<mutex, alive>>
  BY RunsReady, MutexAssumption DEF IInv, TypeOK, TakeBlock, Runs, Goto, Error, KernelState
<1>1. owner(m) \in Thread
  <2>1. Owned(m) /\ mutex[m].value = 0
    BY OwnedEach DEF IInv, TakeBlock
  <2> QED BY <2>1 DEF Owned, IInv, TypeOK, MutexBlock, owner
<1>2. k' = IF time > 0 THEN rt_timer_start(wait, t, time) ELSE wait
  BY DEF TakeBlock
<1>3. clear \in KernelState /\ KernelOK(clear) /\ ErrorSet(clear, k, t, "EOK")
  BY <1>0, SetErrorProps DEF Returns
<1> HIDE DEF clear
<1>4. /\ boosted \in KernelState /\ KernelOK(boosted)
      /\ boosted.stat = k.stat /\ boosted.susp = k.susp /\ boosted.current = t
  <2>1. clear.stat = k.stat /\ clear.susp = k.susp /\ clear.current = t
    BY <1>0, <1>3 DEF ErrorSet, Frame
  <2>2. /\ boosted \in KernelState /\ KernelOK(boosted)
        /\ boosted.stat = clear.stat /\ boosted.susp = clear.susp
        /\ boosted.current = clear.current
    <3> PICK b, o, p : b = boosted /\ o = owner(m) /\ p = k.current_priority[t]
      OBVIOUS
    <3>1. o \in Thread /\ p \in Priority /\ b = Boosted(clear, o, p)
      BY <1>0, <1>1
    <3> HIDE DEF boosted
    <3> QED BY <1>3, <3>1, BoostedProps
  <2> QED BY <2>1, <2>2
<1>5. /\ boosted.timer = k.timer
      /\ boosted.current_priority =
           [k.current_priority EXCEPT ![owner(m)] =
              IF k.current_priority[t] < @ THEN k.current_priority[t] ELSE @]
  <2>1. clear.timer = k.timer /\ clear.current_priority = k.current_priority
    BY <1>3 DEF ErrorSet, Frame
  <2> QED BY <1>0, <1>1, <1>3, <2>1, InheritedProps
<1> HIDE DEF boosted
<1>6. /\ wait \in KernelState /\ KernelOK(wait) /\ Blocked(wait, boosted, m, t)
      /\ Placed(wait, boosted, m, t, FLAG)
  <2>1. Is(boosted, t, "READY")
    BY <1>0, <1>4 DEF Is
  <2> QED BY <1>0, <1>4, <2>1, IpcSuspendProps, IpcSuspendPlace
<1> HIDE DEF wait
<1>7. /\ k'.current_priority = boosted.current_priority /\ k'.susp = wait.susp
      /\ k'.current = t /\ (time <= 0 => k'.timer = wait.timer)
  <2>1. wait.current_priority = boosted.current_priority /\ wait.current = t
    BY <1>4, <1>6 DEF Blocked, Frame
  <2>2. CASE time > 0
    <3>1. k' = rt_timer_start(wait, t, time) /\ time \in Nat
      BY <1>0, <1>2, <2>2
    <3>2. Is(wait, t, "SUSPEND")
      BY <1>0, <1>4, <1>6 DEF Is, Blocked, KernelState
    <3>3. TimerStarted(k', wait, t, time)
      BY <1>6, <3>1, <3>2, TimerStartProps
    <3> QED BY <1>0, <2>1, <2>2, <3>3 DEF TimerStarted, Frame
  <2>3. CASE ~ (time > 0)
    BY <1>2, <2>1, <2>3
  <2> QED BY <2>2, <2>3
<1>8. Waits(m, t)
  <2>1. PICK i \in 1 .. Len(k.susp[m]) + 1 :
          /\ wait.susp[m] = LinkAt(k.susp[m], i, t)
          /\ RightPlace(boosted, k.susp[m], boosted.current_priority[t], FLAG, i)
    BY <1>4, <1>6 DEF Placed
  <2>2. RightPlace(k', k.susp[m], k'.current_priority[t], FLAG, i)
    BY <1>7, <2>1 DEF RightPlace
  <2>3. Kept(m)
    BY <1>0 DEF Kept, owner
  <2>4. ~ On(k.susp[m], t)
    BY DEF IInv, Waiting, TakeBlock, Runs, Blocking
  <2> QED BY <1>0, <1>1, <1>5, <1>7, <2>1, <2>2, <2>3, <2>4 DEF Waits
<1>9. Timed(m)
  <2> SUFFICES ASSUME NoTimedTake, NEW u \in Thread, On(k'.susp[m], u), Armed(k', u)
               PROVE  On(k.susp[m], u) /\ Armed(k, u)
    BY DEF Timed
  <2>1. time <= 0
    BY DEF NoTimedTake
  <2>2. /\ k'.timer = [k.timer EXCEPT ![t] = Off]
        /\ On(k.susp[m], u) \/ u = t
    BY <1>4, <1>5, <1>6, <1>7, <2>1 DEF Blocked
  <2>3. k.timer \in [Thread -> Nat \cup {Off}]
    BY <1>0 DEF KernelState
  <2> QED BY <2>2, <2>3 DEF Armed
<1>10. Switches(m)
  BY <1>0, <1>7 DEF Switches, SchedPC
<1> QED BY <1>0, <1>8, <1>9, <1>10 DEF MutexStep

LEMMA ReturnedProps ==
  ASSUME IInv, NEW m \in Mutex, owner(m) # RT_NULL, NEW r, r = Restored(m)
  PROVE  /\ owner(m) \in Thread /\ r.timer = k.timer
         /\ r.current_priority =
              [k.current_priority EXCEPT ![owner(m)] = mutex[m].original_priority]
<1>0. /\ k \in KernelState /\ KernelOK(k) /\ k.current_priority \in [Thread -> Priority]
      /\ owner(m) \in Thread /\ mutex[m].original_priority \in Priority
  BY DEF IInv, TypeOK, KernelState, Counted, MutexBlock, owner
<1>1. CASE mutex[m].original_priority # k.current_priority[owner(m)]
  <2>1. r = change_priority(k, owner(m), mutex[m].original_priority)
    BY <1>1 DEF Restored
  <2>2. PriorityChanged(r, k, owner(m), mutex[m].original_priority)
    BY <1>0, <2>1, ChangePriorityProps
  <2> QED BY <1>0, <2>2 DEF PriorityChanged
<1>2. CASE mutex[m].original_priority = k.current_priority[owner(m)]
  BY <1>0, <1>2 DEF Restored
<1> QED BY <1>1, <1>2

(* A release that nobody waits for does not schedule: the caller goes on     *)
(* running with the priority it gets back.                                   *)
LEMMA ReleaseFreeStep ==
  ASSUME IInv, NEW t \in Thread, NEW m \in Mutex, ReleaseLast(t, m), k.susp[m] = <<>>
  PROVE  /\ MutexStep(m) /\ Timed(m)
         /\ k.current_priority[t] = mutex[m].original_priority => Switches(m)
<1>0. /\ owner(m) = t /\ t # RT_NULL /\ k' = Restored(m) /\ alive' = alive /\ pc[t] = "app"
      /\ mutex \in [Mutex -> MutexBlock] /\ owner(m)' = RT_NULL
      /\ k.current_priority \in [Thread -> Priority] /\ k.current = t
  BY MutexAssumption DEF ReleaseLast, Runs, IInv, TypeOK, KernelState, owner
<1>1. k'.stat = k.stat /\ k'.susp = k.susp /\ k'.current = k.current
  BY <1>0, RestoredProps
<1>2. /\ owner(m) \in Thread /\ k'.timer = k.timer
      /\ k'.current_priority =
           [k.current_priority EXCEPT ![owner(m)] = mutex[m].original_priority]
  BY <1>0, ReturnedProps
<1>3. Frees(m) /\ Timed(m)
  BY <1>0, <1>1, <1>2 DEF Frees, Restores, Timed, Armed
<1>4. ASSUME k.current_priority[t] = mutex[m].original_priority PROVE Switches(m)
  <2>1. k'.current_priority = k.current_priority
    BY <1>0, <1>2, <1>4
  <2> QED BY <1>0, <1>1, <2>1 DEF Switches, SchedPC
<1> QED BY <1>0, <1>3, <1>4 DEF MutexStep

LEMMA HandoverStep ==
  ASSUME IInv, NEW t \in Thread, NEW m \in Mutex, ReleaseLast(t, m), k.susp[m] # <<>>
  PROVE  MutexStep(m) /\ Timed(m) /\ Switches(m)
<1> DEFINE back == Restored(m)
<1> PICK w : w = k.susp[m][1]
  OBVIOUS
<1>0. /\ k \in KernelState /\ KernelOK(k) /\ m \in WaitList /\ pc \in [Thread -> PC]
      /\ owner(m) = t /\ t # RT_NULL /\ k.current = t /\ k.stat[t] = "READY"
      /\ mutex \in [Mutex -> MutexBlock] /\ alive' = alive
      /\ k.susp[m] \in Seq(Thread) /\ Distinct(k.susp[m])
  BY RunsReady, MutexAssumption
     DEF ReleaseLast, Runs, IInv, TypeOK, KernelState, KernelOK, WaitersSuspended
<1>1. w \in Thread /\ k.stat[w] = "SUSPEND" /\ w # t
  <2>1. w \in Thread /\ k.stat[w] = "SUSPEND"
    BY <1>0, FirstWaiter
  <2> QED BY <1>0, <2>1
<1>2. /\ back \in KernelState /\ KernelOK(back)
      /\ back.stat = k.stat /\ back.susp = k.susp /\ back.current = k.current
  BY <1>0, RestoredProps
<1>3. /\ back.timer = k.timer
      /\ back.current_priority =
           [k.current_priority EXCEPT ![owner(m)] = mutex[m].original_priority]
  BY <1>0, ReturnedProps, Zenon
<1>4. /\ k' = rt_thread_resume(back, w)
      /\ owner(m)' = w /\ mutex'[m].original_priority = back.current_priority[w]
      /\ pc' = [pc EXCEPT ![t] = "release_sched"]
  BY <1>0, <1>2 DEF ReleaseLast, rt_ipc_list_resume, Goto, owner, MutexBlock
<1> HIDE DEF back
<1>5. Resumed(k', back, w)
  <2>1. Is(back, w, "SUSPEND")
    BY <1>1, <1>2 DEF Is
  <2> QED BY <1>1, <1>2, <1>4, <2>1, ResumeProps
<1>6. /\ k'.current_priority = back.current_priority /\ k'.current = t
      /\ k'.susp[m] = Unlink(k.susp[m], w)
      /\ k'.timer = [k.timer EXCEPT ![w] = Off]
  BY <1>0, <1>2, <1>3, <1>5 DEF Resumed, Frame
<1>7. Hands(m, w)
  BY <1>0, <1>1, <1>3, <1>4, <1>6 DEF Hands, Restores
<1>8. Timed(m)
  <2>1. \A u \in Thread : On(k'.susp[m], u) => On(k.susp[m], u) /\ u # w
    BY <1>0, <1>6, StillListed
  <2>2. k.timer \in [Thread -> Nat \cup {Off}]
    BY <1>0 DEF KernelState
  <2> QED BY <1>6, <2>1, <2>2 DEF Timed, Armed
<1>9. Switches(m)
  BY <1>0, <1>4, <1>6 DEF Switches, SchedPC
<1> QED BY <1>0, <1>1, <1>7, <1>8, <1>9 DEF MutexStep

LEMMA ScheduleStep ==
  ASSUME IInv, NEW t \in Thread, NEW m \in Mutex,
         TakeSchedule(t) \/ ReleaseSchedule(t) \/ SleepSchedule(t)
  PROVE  MutexStep(m) /\ Timed(m) /\ Switches(m)
<1>0. /\ k \in KernelState /\ KernelOK(k) /\ k.lock_nest = 0
      /\ k' = rt_schedule(k) /\ UNCHANGED <<mutex, alive>>
  BY DEF IInv, TypeOK, TakeSchedule, ReleaseSchedule, SleepSchedule, Schedule, obj
<1>1. SameButCurrent(k', k) /\ Outranks(k', k'.current)
  BY <1>0, ScheduleProps
<1> QED BY <1>0, <1>1
        DEF SameButCurrent, SameLists, MutexStep, Still, Kept, owner, Timed, Armed, Switches

LEMMA SleepBlockStep ==
  ASSUME IInv, NEW t \in Thread, NEW m \in Mutex, NEW d \in Delays, SleepBlock(t, d)
  PROVE  MutexStep(m) /\ Timed(m) /\ Switches(m)
<1> DEFINE x == rt_thread_suspend(k, t)
<1>0. /\ k \in KernelState /\ KernelOK(k) /\ pc \in [Thread -> PC] /\ d \in Nat
      /\ k.current = t /\ t \in Thread \ {idle} /\ Is(k, t, "READY") /\ pc[t] = "app"
      /\ k' = rt_timer_start(x, t, d) /\ pc' = [pc EXCEPT ![t] = "sleep_sched"]
      /\ UNCHANGED <<mutex, alive>> /\ Waiting
      /\ k.timer \in [Thread -> Nat \cup {Off}] /\ k.stat \in [Thread -> Stat]
  BY RunsReady, MutexAssumption
     DEF IInv, TypeOK, KernelState, SleepBlock, SleepBegin, Runs, Goto, obj, Is
<1>1. x \in KernelState /\ KernelOK(x) /\ SuspendedFrom(x, k, t)
  BY <1>0, ThreadSuspendProps
<1> HIDE DEF x
<1>2. TimerStarted(k', x, t, d)
  <2>1. Is(x, t, "SUSPEND")
    BY <1>0, <1>1 DEF Is, SuspendedFrom
  <2> QED BY <1>0, <1>1, <2>1, TimerStartProps
<1>3. /\ k'.current_priority = k.current_priority /\ k'.susp = k.susp /\ k'.current = t
      /\ \A u \in Thread : u # t => k'.timer[u] = k.timer[u]
  BY <1>0, <1>1, <1>2 DEF SuspendedFrom, TimerStarted, Frame
<1>4. ~ On(k.susp[m], t)
  BY <1>0 DEF Waiting, Blocking
<1>5. MutexStep(m)
  BY <1>0, <1>3 DEF MutexStep, Still, Kept, owner
<1>6. Timed(m)
  BY <1>3, <1>4 DEF Timed, Armed
<1>7. Switches(m)
  BY <1>0, <1>3 DEF Switches, SchedPC
<1> QED BY <1>5, <1>6, <1>7

LEMMA ReturnStep ==
  ASSUME IInv, NEW t \in Thread, NEW m \in Mutex, TakeReturn(t) \/ SleepReturn(t)
  PROVE  MutexStep(m) /\ Timed(m) /\ Switches(m)
<1>0. /\ k \in KernelState /\ KernelOK(k) /\ k.current = t /\ pc[t] \notin SchedPC
      /\ UNCHANGED <<mutex, alive>> /\ "EOK" \in Error
      /\ k' = k \/ k' = [k EXCEPT !.error[t] = "EOK"]
  BY DEF IInv, TypeOK, TakeReturn, SleepReturn, SleepEnd, Runs, SchedPC, obj, Error
<1>1. Calm(m)
  <2>1. CASE k' = k
    BY <1>0, <2>1 DEF Calm
  <2>2. CASE k' = [k EXCEPT !.error[t] = "EOK"]
    <3>1. ErrorSet(k', k, t, "EOK")
      BY <1>0, <2>2, SetErrorProps
    <3> QED BY <1>0, <3>1 DEF ErrorSet, Frame, Calm
  <2> QED BY <1>0, <2>1, <2>2
<1> QED BY <1>0, <1>1, CalmDoes DEF Kept, owner

LEMMA DetachQuietStep ==
  ASSUME IInv, NEW t \in Thread, NEW m \in Mutex,
         \/ DetachBegin(t, m)
         \/ DetachTest(t)
         \/ DetachResume(t) /\ k.susp[wants[t]] = <<>>
  PROVE  MutexStep(m) /\ Timed(m) /\ Switches(m)
<1>1. /\ UNCHANGED <<k, mutex>> /\ alive' \subseteq alive
      /\ k.current = t /\ pc[t] \notin SchedPC
  BY DEF DetachBegin, DetachTest, DetachResume, ResumeAllTest, ResumeAllBody, Runs, SchedPC, obj
<1>2. Calm(m) /\ Kept(m)
  BY <1>1 DEF Calm, Kept, owner
<1> QED BY <1>2, CalmDoes

LEMMA DetachResumeStep ==
  ASSUME IInv, NEW t \in Thread, NEW m \in Mutex, wants[t] = m, m \notin alive,
         DetachResume(t), k.susp[m] # <<>>
  PROVE  MutexStep(m) /\ Timed(m) /\ Switches(m)
<1>0. /\ k \in KernelState /\ KernelOK(k) /\ m \in WaitList /\ pc[t] \in DetachPC
      /\ k' = ResumeWithError(m) /\ UNCHANGED <<mutex, alive>>
      /\ k.susp[m] \in Seq(Thread) /\ Distinct(k.susp[m])
      /\ k.timer \in [Thread -> Nat \cup {Off}]
  <2>1. k.timer \in [Thread -> Nat \cup {Off}]
    BY DEF IInv, TypeOK, KernelState
  <2> QED BY <2>1, OneTypes, MutexAssumption
          DEF IInv, TypeOK, DetachResume, ResumeAllBody, Runs, DetachPC, obj
<1> PICK w : w = k.susp[m][1]
  OBVIOUS
<1> DEFINE x == [k EXCEPT !.error[w] = "ERROR"]
<1>1. w \in Thread /\ k.stat[w] = "SUSPEND" /\ "ERROR" \in Error
  BY <1>0, FirstWaiter DEF Error
<1>2. k' = rt_thread_resume(x, w)
  BY <1>0 DEF ResumeWithError
<1>3. x \in KernelState /\ KernelOK(x) /\ ErrorSet(x, k, w, "ERROR")
  BY <1>0, <1>1, SetErrorProps
<1> HIDE DEF x
<1>4. Resumed(k', x, w)
  <2>1. Is(x, w, "SUSPEND")
    BY <1>1, <1>3 DEF Is, ErrorSet
  <2> QED BY <1>1, <1>2, <1>3, <2>1, ResumeProps
<1>5. /\ k'.current_priority = k.current_priority
      /\ k'.susp[m] = Unlink(k.susp[m], w)
      /\ k'.timer = [k.timer EXCEPT ![w] = Off]
  <2>1. x.current_priority = k.current_priority /\ x.susp = k.susp /\ x.timer = k.timer
    BY <1>3 DEF ErrorSet, Frame
  <2>2. /\ k'.current_priority = x.current_priority
        /\ k'.susp[m] = Unlink(x.susp[m], w)
        /\ k'.timer = [x.timer EXCEPT ![w] = Off]
    BY <1>0, <1>4, Zenon DEF Resumed, Frame
  <2> QED BY <2>1, <2>2
<1>6. Leaves(m, w)
  BY <1>0, <1>5 DEF Leaves, Kept, owner
<1>7. Timed(m)
  <2>1. \A u \in Thread : On(k'.susp[m], u) => On(k.susp[m], u) /\ u # w
    BY <1>0, <1>5, StillListed
  <2> QED BY <1>0, <1>5, <2>1 DEF Timed, Armed
<1> QED BY <1>0, <1>1, <1>6, <1>7 DEF MutexStep, Switches

LEMMA SysTickStep ==
  ASSUME IInv, NEW m \in Mutex, SysTick
  PROVE  MutexStep(m) /\ Timed(m) /\ Switches(m)
<1> DEFINE n == k.interrupt_nest + 1
           x == [k EXCEPT !.interrupt_nest = n]
<1>0. /\ k \in KernelState /\ KernelOK(k) /\ k.lock_nest = 0 /\ n \in Nat
      /\ UNCHANGED <<pc, mutex, alive>>
  <2>1. k \in KernelState /\ KernelOK(k) /\ k.lock_nest = 0 /\ UNCHANGED <<pc, mutex, alive>>
    BY DEF IInv, TypeOK, SysTick, TickEnter, obj
  <2>2. k.interrupt_nest \in Nat
    BY <2>1 DEF KernelState
  <2> QED BY <2>1, <2>2
<1>1. k' = rt_tick_increase(x)
  BY DEF SysTick, TickEnter, rt_interrupt_enter
<1>2. x \in KernelState /\ KernelOK(x) /\ Nested(x, k, n)
  BY <1>0, NestProps
<1> HIDE DEF n, x
<1>3. Ticked(k', x)
  BY <1>1, <1>2, TickProps
<1>4. /\ k'.stat = k.stat /\ k'.susp = k.susp /\ k'.current_priority = k.current_priority
      /\ \A u \in Thread : Armed(k', u) <=> Armed(k, u)
      /\ k'.current = k.current \/ Outranks(k', k'.current)
  BY <1>0, <1>2, <1>3 DEF Nested, Ticked, Armed
<1> QED BY <1>0, <1>4 DEF MutexStep, Still, Kept, owner, Timed, Switches

LEMMA SysTickLeaveStep ==
  ASSUME IInv, NEW m \in Mutex, SysTickLeave
  PROVE  MutexStep(m) /\ Timed(m) /\ Switches(m)
<1> DEFINE n == k.interrupt_nest - 1
<1>0. /\ k \in KernelState /\ KernelOK(k) /\ n \in Nat /\ UNCHANGED <<pc, mutex, alive>>
  <2>1. /\ k \in KernelState /\ KernelOK(k) /\ UNCHANGED <<pc, mutex, alive>>
        /\ k.interrupt_nest > 0
    BY DEF IInv, TypeOK, SysTickLeave, TickLeave, obj
  <2>2. k.interrupt_nest \in Nat
    BY <2>1 DEF KernelState
  <2> QED BY <2>1, <2>2
<1>1. k' = [k EXCEPT !.interrupt_nest = n]
  BY DEF SysTickLeave, TickLeave, rt_interrupt_leave
<1> HIDE DEF n
<1>2. Nested(k', k, n)
  BY <1>0, <1>1, NestProps
<1>3. Calm(m) /\ Kept(m)
  BY <1>0, <1>2 DEF Nested, Calm, Kept, owner
<1> QED BY <1>3, CalmDoes

LEMMA SysTickTimeoutStep ==
  ASSUME IInv, NEW t \in Thread, NEW m \in Mutex, SysTickTimeout(t)
  PROVE  MutexStep(m) /\ Timed(m) /\ Switches(m)
<1>0. /\ k \in KernelState /\ KernelOK(k) /\ k.lock_nest = 0 /\ m \in WaitList
      /\ k' = rt_timer_check(k, t) /\ UNCHANGED <<mutex, alive>>
      /\ k.susp[m] \in Seq(Thread) /\ Distinct(k.susp[m])
      /\ k.timer \in [Thread -> Nat \cup {Off}]
  <2>1. k.timer \in [Thread -> Nat \cup {Off}]
    BY DEF IInv, TypeOK, KernelState
  <2> QED BY <2>1, OneTypes, MutexAssumption
          DEF IInv, TypeOK, SysTickTimeout, TickTimeout, obj
<1>1. Armed(k, t)
  <2>1. k.timer[t] = 0
    BY DEF SysTickTimeout, TickTimeout, Expired
  <2> QED BY <2>1 DEF Armed, Off
<1>2. TimedOut(k', k, t)
  BY <1>0, <1>1, TimeoutProps
<1>3. Leaves(m, t)
  BY <1>0, <1>1, <1>2, Zenon DEF TimedOut, Leaves, Kept, owner
<1>4. Timed(m)
  <2>1. \A u \in Thread : On(k'.susp[m], u) => On(k.susp[m], u) /\ u # t
    BY <1>0, <1>2, StillListed DEF TimedOut
  <2> QED BY <1>0, <1>2, <2>1 DEF Timed, Armed, TimedOut
<1> QED BY <1>0, <1>2, <1>3, <1>4 DEF MutexStep, Switches, TimedOut

LEMMA StutterStep ==
  ASSUME NEW m \in Mutex, UNCHANGED vars
  PROVE  MutexStep(m) /\ Timed(m) /\ Switches(m)
<1>1. Calm(m) /\ Kept(m)
  BY DEF Calm, Kept, owner, vars
<1> QED BY <1>1, CalmDoes

-----------------------------------------------------------------------------
(* What holds of the only mutex *)

(* Once a thread is in the loop of a detach, the mutex is not used any more; *)
Detaching(m) == \A t \in Thread : pc[t] \in DetachPC => m \notin alive

(* a thread that does not own it has its own priority, and the priority that *)
(* its owner is to get back is the owner's own;                              *)
Lent(m) ==
  /\ \A t \in Thread : t # owner(m) => k.current_priority[t] = InitPriority[t]
  /\ owner(m) \in Thread => mutex[m].original_priority = InitPriority[owner(m)]

(* no owner waits, the waiters are in the order of their priorities, and     *)
(* none has a higher one than the owner;                                     *)
Queued(m) ==
  /\ \A t \in Thread : On(k.susp[m], t) => t # owner(m)
  /\ InOrder(k.susp[m], k.current_priority)
  /\ \A t \in Thread : owner(m) \in Thread /\ On(k.susp[m], t) =>
       k.current_priority[owner(m)] <= k.current_priority[t]

(* without timed takes, a waiter leaves only with the mutex, so that an      *)
(* owner that inherits has a waiter to inherit from.                         *)
Untimed(m) == \A t \in Thread : On(k.susp[m], t) => ~ Armed(k, t)

Earned(m) ==
  m \in alive /\ owner(m) \in Thread =>
    \/ k.current_priority[owner(m)] = InitPriority[owner(m)]
    \/ k.susp[m] # <<>>

Scheduled(m) ==
  m \in alive => pc[k.current] \in SchedPC \/ Outranks(k, k.current)

LEMMA NextDetaching ==
  ASSUME NEW m, Mutex = {m}
  PROVE  IInv /\ Detaching(m) /\ [Next]_vars => Detaching(m)'
<1> SUFFICES ASSUME IInv, Detaching(m), [Next]_vars PROVE Detaching(m)'
  OBVIOUS
<1>0. pc \in [Thread -> PC] /\ wants \in [Thread -> Mutex \cup {RT_NULL}]
  BY DEF IInv, TypeOK
<1>1. CASE UNCHANGED <<pc, alive>>
  BY <1>1 DEF Detaching
<1>2. ASSUME NEW t \in Thread, NEW c \in PC \ DetachPC, pc' = [pc EXCEPT ![t] = c], alive' = alive
      PROVE  Detaching(m)'
  BY <1>0, <1>2 DEF Detaching
<1>3. ASSUME NEW t \in Thread, Call(t) PROVE Detaching(m)'
  <2>1. ASSUME NEW l \in Mutex, DetachBegin(t, l) PROVE Detaching(m)'
    BY <2>1 DEF DetachBegin, Detaching
  <2>2. ASSUME NEW l \in Mutex,
               \/ TakeAgain(t, l) \/ TakeFree(t, l) \/ TakeNoWait(t, l)
               \/ ReleaseOthers(t, l) \/ ReleaseInner(t, l)
        PROVE  Detaching(m)'
    BY <1>1, <2>2 DEF TakeAgain, TakeFree, TakeNoWait, ReleaseOthers, ReleaseInner, obj
  <2>3. ASSUME NEW l \in Mutex, NEW time \in Times, TakeBlock(t, l, time) PROVE Detaching(m)'
    BY <1>2, <2>3, Zenon DEF TakeBlock, Goto, PC, DetachPC
  <2>4. ASSUME NEW l \in Mutex, ReleaseLast(t, l) PROVE Detaching(m)'
    BY <1>1, <1>2, <2>4, Zenon DEF ReleaseLast, Goto, PC, DetachPC
  <2>5. ASSUME NEW d \in Delays, SleepBlock(t, d) PROVE Detaching(m)'
    BY <1>2, <2>5, Zenon DEF SleepBlock, SleepBegin, Goto, PC, DetachPC, obj
  <2> QED BY <1>3, <2>1, <2>2, <2>3, <2>4, <2>5 DEF Call
<1>4. ASSUME NEW t \in Thread, Continue(t) PROVE Detaching(m)'
  <2>1. CASE DetachTest(t) \/ DetachResume(t)
    <3>1. pc[t] \in DetachPC /\ UNCHANGED alive
      BY <2>1 DEF DetachTest, DetachResume, ResumeAllTest, ResumeAllBody, Runs, DetachPC, obj
    <3> QED BY <3>1 DEF Detaching
  <2>2. CASE TakeSchedule(t) \/ ReleaseSchedule(t) \/ SleepSchedule(t)
    BY <1>2, <2>2 DEF TakeSchedule, ReleaseSchedule, SleepSchedule, Schedule, Goto, PC, DetachPC,
                      obj
  <2>3. CASE TakeReturn(t) \/ SleepReturn(t)
    BY <1>2, <2>3 DEF TakeReturn, SleepReturn, SleepEnd, Goto, PC, DetachPC, obj
  <2> QED BY <1>4, <2>1, <2>2, <2>3 DEF Continue
<1>5. CASE Tick \/ Crashed \/ UNCHANGED vars
  BY <1>1, <1>5 DEF Tick, SysTick, SysTickTimeout, SysTickLeave, TickEnter, TickTimeout,
                    TickLeave, Crashed, vars, obj
<1> QED BY <1>3, <1>4, <1>5 DEF Next

(* What every section does to the only mutex *)
Does(m) == MutexStep(m) /\ Timed(m) /\ (Lent(m) /\ Earned(m) => Switches(m))

LEMMA NextStep ==
  ASSUME NEW m, Mutex = {m}
  PROVE  IInv /\ Detaching(m) /\ [Next]_vars => Does(m)
<1> SUFFICES ASSUME IInv, Detaching(m), [Next]_vars PROVE Does(m)
  OBVIOUS
<1> m \in Mutex
  OBVIOUS
<1>1. ASSUME NEW t \in Thread, ReleaseLast(t, m), k.susp[m] = <<>> PROVE Does(m)
  <2>1. /\ MutexStep(m) /\ Timed(m)
        /\ k.current_priority[t] = mutex[m].original_priority => Switches(m)
    BY <1>1, ReleaseFreeStep
  <2>2. m \in alive /\ owner(m) = t
    BY <1>1 DEF ReleaseLast
  <2>3. Lent(m) /\ Earned(m) => k.current_priority[t] = mutex[m].original_priority
    BY <1>1, <2>2 DEF Lent, Earned
  <2> QED BY <2>1, <2>3 DEF Does
<1>2. ASSUME NEW t \in Thread, Call(t) PROVE Does(m)
  <2>1. CASE \/ TakeAgain(t, m) \/ TakeFree(t, m) \/ TakeNoWait(t, m) \/ ReleaseOthers(t, m)
             \/ ReleaseInner(t, m)
    BY <2>1, TakeNowStep, ReleaseInnerStep DEF Does
  <2>2. ASSUME NEW time \in Times, TakeBlock(t, m, time) PROVE Does(m)
    BY <2>2, TakeBlockStep DEF Does
  <2>3. CASE ReleaseLast(t, m)
    BY <1>1, <2>3, HandoverStep DEF Does
  <2>4. CASE DetachBegin(t, m)
    BY <2>4, DetachQuietStep DEF Does
  <2>5. ASSUME NEW d \in Delays, SleepBlock(t, d) PROVE Does(m)
    BY <2>5, SleepBlockStep DEF Does
  <2> QED BY <1>2, <2>1, <2>2, <2>3, <2>4, <2>5 DEF Call
<1>3. ASSUME NEW t \in Thread, Continue(t) PROVE Does(m)
  <2>1. CASE TakeSchedule(t) \/ ReleaseSchedule(t) \/ SleepSchedule(t)
    BY <2>1, ScheduleStep DEF Does
  <2>2. CASE TakeReturn(t) \/ SleepReturn(t)
    BY <2>2, ReturnStep DEF Does
  <2>3. CASE DetachTest(t)
    BY <2>3, DetachQuietStep DEF Does
  <2>4. CASE DetachResume(t)
    <3>1. pc[t] \in DetachPC
      BY <2>4 DEF DetachResume, ResumeAllBody, Runs, DetachPC
    <3>2. wants[t] = m /\ m \notin alive
      BY <3>1 DEF IInv, Waiting, Detaching
    <3> QED BY <2>4, <3>2, DetachQuietStep, DetachResumeStep DEF Does
  <2> QED BY <1>3, <2>1, <2>2, <2>3, <2>4 DEF Continue
<1>4. CASE Tick
  BY <1>4, SysTickStep, SysTickTimeoutStep, SysTickLeaveStep DEF Tick, Does
<1>5. CASE Crashed \/ UNCHANGED vars
  BY <1>5, StutterStep DEF Crashed, Does
<1> QED BY <1>2, <1>3, <1>4, <1>5 DEF Next

-----------------------------------------------------------------------------
(* Priorities come back. *)

LEMMA InitOne ==
  ASSUME NEW m, Mutex = {m}
  PROVE  Init => /\ Detaching(m) /\ Lent(m) /\ Queued(m) /\ Untimed(m) /\ Earned(m)
                 /\ Scheduled(m)
<1> SUFFICES ASSUME Init
             PROVE  /\ Detaching(m) /\ Lent(m) /\ Queued(m) /\ Untimed(m) /\ Earned(m)
                    /\ Scheduled(m)
  OBVIOUS
<1>1. k.susp[m] = <<>> /\ owner(m) = RT_NULL /\ RT_NULL \notin Thread
  BY BootedProps, MutexAssumption DEF Init, owner, rt_mutex_init
<1>2. k.current_priority = InitPriority
  BY BootedProps DEF Init
<1>3. Outranks(k, k.current)
  BY BootedProps DEF Init
<1>4. \A t \in Thread : ~ On(k.susp[m], t)
  BY <1>1 DEF On
<1>5. InOrder(k.susp[m], k.current_priority)
  BY <1>1 DEF InOrder
<1>6. Detaching(m)
  BY DEF Init, Detaching, DetachPC
<1> QED BY <1>1, <1>2, <1>3, <1>4, <1>5, <1>6 DEF Lent, Queued, Untimed, Earned, Scheduled

LEMMA StepLent ==
  ASSUME NEW m, Mutex = {m}
  PROVE  IInv /\ Lent(m) /\ MutexStep(m) => Lent(m)'
<1> SUFFICES ASSUME IInv, Lent(m), MutexStep(m) PROVE Lent(m)'
  OBVIOUS
<1>0. /\ owner(m) \in Thread \cup {RT_NULL} /\ RT_NULL \notin Thread
      /\ k.current_priority \in [Thread -> Nat]
  BY OneTypes
<1>1. CASE Still(m)
  BY <1>1 DEF Still, Kept, Lent
<1>2. CASE Frees(m)
  BY <1>0, <1>2 DEF Frees, Restores, Lent
<1>3. ASSUME NEW t \in Thread, Acquires(m, t) PROVE Lent(m)'
  BY <1>0, <1>3 DEF Acquires, Lent
<1>4. ASSUME NEW t \in Thread, Waits(m, t) PROVE Lent(m)'
  BY <1>0, <1>4 DEF Waits, Kept, Lent
<1>5. ASSUME NEW t \in Thread, Leaves(m, t) PROVE Lent(m)'
  BY <1>0, <1>5 DEF Leaves, Kept, Lent
<1>6. ASSUME NEW t \in Thread, Hands(m, t) PROVE Lent(m)'
  BY <1>0, <1>6 DEF Hands, Restores, Lent
<1> QED BY <1>1, <1>2, <1>3, <1>4, <1>5, <1>6 DEF MutexStep

(* With one mutex, rt_mutex_release gives its caller the priority back that  *)
(* it had before anybody waited for the mutex, whoever boosted it, however   *)
(* often, and whether or not those waiters timed out.                        *)
THEOREM PriorityComesBack ==
  ASSUME NEW m, Mutex = {m}
  PROVE  Spec => []PriorityReturned
<1>1. Init => IInv /\ Detaching(m) /\ Lent(m)
  BY InitIInv, InitOne
<1>2. IInv /\ Detaching(m) /\ Lent(m) /\ [Next]_vars => IInv' /\ Detaching(m)' /\ Lent(m)'
  BY NextIInv, NextDetaching, NextStep, StepLent DEF Does
<1>3. Lent(m) => PriorityReturned
  BY DEF Lent, PriorityReturned
<1> QED BY <1>1, <1>2, <1>3, PTL DEF Spec

-----------------------------------------------------------------------------
(* Priorities are inherited. *)

LEMMA StepQueued ==
  ASSUME NEW m, Mutex = {m}, FLAG = "PRIO"
  PROVE  IInv /\ Queued(m) /\ MutexStep(m) => Queued(m)'
<1> SUFFICES ASSUME IInv, Queued(m), MutexStep(m) PROVE Queued(m)'
  OBVIOUS
<1> PICK s, f, o : s = k.susp[m] /\ f = k.current_priority /\ o = owner(m)
  OBVIOUS
<1>0. /\ o \in Thread \cup {RT_NULL} /\ RT_NULL \notin Thread
      /\ s \in Seq(Thread) /\ Distinct(s) /\ f \in [Thread -> Nat]
  BY OneTypes
<1>q. /\ \A t \in Thread : On(s, t) => t # o
      /\ InOrder(s, f)
      /\ \A t \in Thread : o \in Thread /\ On(s, t) => f[o] <= f[t]
  BY DEF Queued
<1>s. Queue(s, o, f)
  BY <1>0, <1>q, Zenon DEF Queue
<1>1. CASE Still(m)
  BY <1>1 DEF Still, Kept, Queued
<1>2. CASE k.susp[m] = <<>> /\ k'.susp[m] = <<>>
  <2>1. \A t : ~ On(k'.susp[m], t)
    BY <1>2 DEF On
  <2>2. InOrder(k'.susp[m], k'.current_priority)
    BY <1>2 DEF InOrder
  <2> QED BY <2>1, <2>2 DEF Queued
<1>3. ASSUME NEW t \in Thread, Acquires(m, t) PROVE Queued(m)'
  <2>1. k.susp[m] = <<>> /\ k'.susp[m] = <<>>
    BY <1>3 DEF Acquires, IInv, NoWaiterOnFree
  <2> QED BY <1>2, <2>1
<1>4. ASSUME NEW t \in Thread, Leaves(m, t) PROVE Queued(m)'
  <2>1. \A u \in Thread : On(Unlink(s, t), u) => On(s, u)
    BY <1>0, UnlinkProps
  <2>2. InOrder(Unlink(s, t), f)
    BY <1>0, <1>q, UnlinkKeepsOrder
  <2> QED BY <1>4, <1>q, <2>1, <2>2 DEF Leaves, Kept, Queued
<1>5. ASSUME NEW t \in Thread, Waits(m, t) PROVE Queued(m)'
  <2> PICK g, r : g = k'.current_priority /\ r = k'.susp[m]
    OBVIOUS
  <2>1. /\ g = [f EXCEPT ![o] = IF f[t] < @ THEN f[t] ELSE @]
        /\ o \in Thread /\ o # t /\ owner(m)' = o /\ ~ On(s, t)
    BY <1>5, Zenon DEF Waits, Kept
  <2>2. PICK i \in 1 .. Len(s) + 1 : r = LinkAt(s, i, t) /\ RightPlace(k', s, g[t], FLAG, i)
    BY <1>5 DEF Waits
  <2>3. /\ \A j \in 1 .. i - 1 : g[s[j]] <= g[t]
        /\ i <= Len(s) => g[t] < g[s[i]]
    <3>1. FLAG # "FIFO"
      OBVIOUS
    <3> QED BY <2>2, <3>1 DEF RightPlace
  <2>4. InOrder(r, g) /\ Under(r, o, g)
    <3>1. Joins(s, o, f, t, i, g)
      BY <2>1, <2>2, <2>3, Zenon DEF Joins
    <3> QED BY <1>s, <2>2, <3>1, WaiterJoins
  <2> QED BY <2>1, <2>4 DEF Queued, Under
<1>6. ASSUME NEW w \in Thread, Hands(m, w) PROVE Queued(m)'
  <2> PICK g, r : g = k'.current_priority /\ r = k'.susp[m]
    OBVIOUS
  <2>1. /\ s # <<>> /\ w = s[1] /\ w # o /\ o \in Thread /\ owner(m)' = w
        /\ r = Unlink(s, w) /\ \A u \in Thread : u # o => g[u] = f[u]
    BY <1>0, <1>6 DEF Hands, Restores
  <2>2. InOrder(r, g) /\ Under(r, w, g)
    <3>1. TakesOver(s, o, f, w, g)
      BY <2>1, Zenon DEF TakesOver
    <3> QED BY <1>s, <2>1, <3>1, FirstTakesOver
  <2> QED BY <2>1, <2>2 DEF Queued, Under
<1> QED BY <1>1, <1>2, <1>3, <1>4, <1>5, <1>6 DEF MutexStep, Frees

(* The owner of a RT_IPC_FLAG_PRIO mutex never has a lower priority than a   *)
(* thread that waits for it, through every handover and timeout.             *)
THEOREM OwnerInherits ==
  ASSUME NEW m, Mutex = {m}, FLAG = "PRIO"
  PROVE  Spec => []Inherits
<1>1. Init => IInv /\ Detaching(m) /\ Queued(m)
  BY InitIInv, InitOne
<1>2. IInv /\ Detaching(m) /\ Queued(m) /\ [Next]_vars => IInv' /\ Detaching(m)' /\ Queued(m)'
  BY NextIInv, NextDetaching, NextStep, StepQueued DEF Does
<1>3. IInv /\ Queued(m) => Inherits
  <2> SUFFICES ASSUME IInv, Queued(m), owner(m) # RT_NULL, NEW i \in 1 .. Len(k.susp[m])
               PROVE  k.current_priority[owner(m)] <= k.current_priority[k.susp[m][i]]
    BY DEF Inherits, IInv, TypeOK
  <2>1. owner(m) \in Thread /\ k.susp[m][i] \in Thread /\ On(k.susp[m], k.susp[m][i])
    BY OneTypes DEF On
  <2> QED BY <2>1 DEF Queued
<1> QED BY <1>1, <1>2, <1>3, PTL DEF Spec

-----------------------------------------------------------------------------
(* The running thread is the right one. *)

LEMMA StepUntimed ==
  ASSUME NEW m, Mutex = {m}, NoTimedTake
  PROVE  Untimed(m) /\ Timed(m) => Untimed(m)'
BY DEF Untimed, Timed

LEMMA StepEarned ==
  ASSUME NEW m, Mutex = {m}
  PROVE  IInv /\ Detaching(m) /\ Lent(m) /\ Untimed(m) /\ Earned(m) /\ MutexStep(m) => Earned(m)'
<1> SUFFICES ASSUME IInv, Detaching(m), Lent(m), Untimed(m), Earned(m), MutexStep(m),
                    m \in alive', owner(m)' \in Thread
             PROVE  \/ k'.current_priority[owner(m)'] = InitPriority[owner(m)']
                    \/ k'.susp[m] # <<>>
  BY DEF Earned
<1>0. /\ m \in alive /\ RT_NULL \notin Thread /\ k.susp[m] \in Seq(Thread)
      /\ k.current_priority \in [Thread -> Nat]
  BY OneTypes, Zenon DEF MutexStep
<1>1. CASE Still(m) \/ Frees(m)
  BY <1>0, <1>1 DEF Still, Kept, Frees, Earned
<1>2. ASSUME NEW t \in Thread, Acquires(m, t)
      PROVE  k'.current_priority[owner(m)'] = InitPriority[owner(m)']
  BY <1>0, <1>2 DEF Acquires, Lent
<1>3. ASSUME NEW t \in Thread, Waits(m, t) PROVE k'.susp[m] # <<>>
  <2>1. PICK i \in 1 .. Len(k.susp[m]) + 1 : k'.susp[m] = LinkAt(k.susp[m], i, t)
    BY <1>3, Zenon DEF Waits
  <2>2. Len(LinkAt(k.susp[m], i, t)) = Len(k.susp[m]) + 1
    BY <1>0 DEF LinkAt
  <2>3. Len(k.susp[m]) \in Nat
    BY <1>0
  <2>4. Len(k'.susp[m]) # 0
    BY <2>1, <2>2, <2>3
  <2> QED BY <2>4
<1>4. ASSUME NEW t \in Thread, Leaves(m, t)
      PROVE  \/ k'.current_priority[owner(m)'] = InitPriority[owner(m)']
             \/ k'.susp[m] # <<>>
  <2>1. ~ On(k.susp[m], t)
    BY <1>0, <1>4, Zenon DEF Leaves, Untimed, Detaching
  <2>2. k'.susp[m] = k.susp[m]
    BY <1>4, <2>1, Zenon DEF Leaves, Unlink
  <2> QED BY <1>0, <1>4, <2>2 DEF Leaves, Kept, Earned
<1>5. ASSUME NEW w \in Thread, Hands(m, w)
      PROVE  k'.current_priority[owner(m)'] = InitPriority[owner(m)']
  BY <1>0, <1>5, Zenon DEF Hands, Restores, Lent
<1> QED BY <1>1, <1>2, <1>3, <1>4, <1>5 DEF MutexStep

LEMMA StepScheduled ==
  ASSUME NEW m
  PROVE  Scheduled(m) /\ Switches(m) /\ alive' \subseteq alive => Scheduled(m)'
BY DEF Scheduled, Switches, Outranks

(* rt_mutex_take, rt_mutex_release, rt_thread_sleep and the tick interrupt   *)
(* leave the processor to a READY thread that no READY thread outranks, when *)
(* there is one mutex and no take of it is timed: then a release without     *)
(* waiters, which does not schedule, returns the priority it found.          *)
THEOREM HighestOwnerRuns ==
  ASSUME NEW m, Mutex = {m}, NoTimedTake
  PROVE  Spec => []HighestRuns
<1> DEFINE Inv == /\ IInv /\ Detaching(m) /\ Lent(m) /\ Untimed(m) /\ Earned(m)
                  /\ Scheduled(m)
<1>1. Init => Inv
  BY InitIInv, InitOne
<1>2. Inv /\ [Next]_vars => Inv'
  <2> SUFFICES ASSUME Inv, [Next]_vars PROVE Inv'
    OBVIOUS
  <2>1. MutexStep(m) /\ Timed(m) /\ Switches(m)
    BY NextStep DEF Does
  <2>2. IInv' /\ Detaching(m)'
    BY NextIInv, NextDetaching
  <2>3. Lent(m)' /\ Untimed(m)' /\ Earned(m)'
    BY <2>1, StepLent, StepUntimed, StepEarned
  <2>4. Scheduled(m)'
    BY <2>1, StepScheduled DEF MutexStep
  <2> QED BY <2>2, <2>3, <2>4
<1>3. Inv => HighestRuns
  BY DEF Scheduled, SchedPC, HighestRuns, Outranks, RunsHighest
<1> QED BY <1>1, <1>2, <1>3, PTL DEF Spec
=============================================================================
