---------------------------- MODULE KernelProofs ----------------------------
(***************************************************************************)
(* What the kernel functions of module Kernel keep true of a kernel state. *)
(* Every module that builds a service from them proves its invariants from *)
(* these lemmas, for any set of threads, priorities and suspend lists.     *)
(***************************************************************************)
EXTENDS Kernel, WellFoundedInduction, TLAPS

-----------------------------------------------------------------------------
(* Lists *)

(* Cutting a node out of a list (rt_list_remove) keeps the other nodes. *)
LEMMA CutAtProps ==
  ASSUME NEW S, NEW s \in Seq(S), Distinct(s), NEW i \in 1 .. Len(s)
  PROVE  /\ CutAt(s, i) \in Seq(S)
         /\ Len(CutAt(s, i)) = Len(s) - 1
         /\ Distinct(CutAt(s, i))
         /\ \A u : On(CutAt(s, i), u) <=> On(s, u) /\ u # s[i]
<1>1. CutAt(s, i) \in Seq(S) /\ Len(CutAt(s, i)) = Len(s) - 1
  BY DEF CutAt
<1>2. Distinct(CutAt(s, i))
  BY <1>1 DEF CutAt, Distinct
<1>3. ASSUME NEW u, On(CutAt(s, i), u) PROVE On(s, u) /\ u # s[i]
  <2>1. PICK j \in 1 .. Len(s) - 1 : CutAt(s, i)[j] = u
    BY <1>1, <1>3 DEF On
  <2>2. CASE j < i
    BY <2>1, <2>2 DEF CutAt, On, Distinct
  <2>3. CASE ~ (j < i)
    BY <2>1, <2>3 DEF CutAt, On, Distinct
  <2> QED BY <2>2, <2>3
<1>4. ASSUME NEW u, On(s, u), u # s[i] PROVE On(CutAt(s, i), u)
  <2>1. PICK j \in 1 .. Len(s) : s[j] = u /\ j # i
    BY <1>4 DEF On
  <2>2. CASE j < i
    BY <1>1, <2>1, <2>2 DEF CutAt, On
  <2>3. CASE j > i
    <3>1. j - 1 \in 1 .. Len(s) - 1 /\ CutAt(s, i)[j - 1] = u
      BY <2>1, <2>3 DEF CutAt
    <3> QED BY <1>1, <3>1 DEF On
  <2> QED BY <2>1, <2>2, <2>3
<1> QED BY <1>1, <1>2, <1>3, <1>4

(* rt_list_remove takes exactly the given thread off a list. *)
LEMMA UnlinkProps ==
  ASSUME NEW S, NEW s \in Seq(S), Distinct(s), NEW t
  PROVE  /\ Unlink(s, t) \in Seq(S)
         /\ Distinct(Unlink(s, t))
         /\ \A u : On(Unlink(s, t), u) <=> On(s, u) /\ u # t
<1>1. CASE On(s, t)
  <2> DEFINE i == CHOOSE j \in 1 .. Len(s) : s[j] = t
  <2>1. i \in 1 .. Len(s) /\ s[i] = t
    BY <1>1 DEF On
  <2>2. Unlink(s, t) = CutAt(s, i)
    BY <1>1 DEF Unlink
  <2> HIDE DEF i
  <2> QED BY <2>1, <2>2, CutAtProps
<1>2. CASE ~ On(s, t)
  BY <1>2 DEF Unlink
<1> QED BY <1>1, <1>2

(* Linking a node in (rt_list_insert_before) keeps the others. *)
LEMMA LinkAtProps ==
  ASSUME NEW S, NEW s \in Seq(S), Distinct(s), NEW i \in 1 .. Len(s) + 1,
         NEW t \in S, ~ On(s, t)
  PROVE  /\ LinkAt(s, i, t) \in Seq(S)
         /\ Distinct(LinkAt(s, i, t))
         /\ \A u : On(LinkAt(s, i, t), u) <=> On(s, u) \/ u = t
<1> DEFINE r == LinkAt(s, i, t)
<1>1. r \in Seq(S) /\ Len(r) = Len(s) + 1
  BY DEF LinkAt
<1>2. \A j \in 1 .. Len(s) + 1 :
        /\ j < i => r[j] = s[j]
        /\ j = i => r[j] = t
        /\ j > i => r[j] = s[j - 1] /\ j - 1 \in 1 .. Len(s)
  BY DEF LinkAt
<1> HIDE DEF r
<1>3. Distinct(r)
  <2> SUFFICES ASSUME NEW j \in 1 .. Len(s) + 1, NEW m \in 1 .. Len(s) + 1,
                      r[j] = r[m], j < m
               PROVE  FALSE
    BY <1>1 DEF Distinct
  <2>1. CASE m < i
    BY <1>2, <2>1 DEF Distinct
  <2>2. CASE m = i
    BY <1>2, <2>2 DEF On
  <2>3. CASE m > i
    <3>1. r[m] = s[m - 1] /\ m - 1 \in 1 .. Len(s)
      BY <1>2, <2>3
    <3>2. CASE j < i
      <4>1. j \in 1 .. Len(s) /\ r[j] = s[j] /\ j # m - 1
        BY <1>2, <2>3, <3>2
      <4> QED BY <3>1, <4>1 DEF Distinct
    <3>3. CASE j = i
      BY <1>2, <3>1, <3>3 DEF On
    <3>4. CASE j > i
      BY <1>2, <3>1, <3>4 DEF Distinct
    <3> QED BY <3>2, <3>3, <3>4
  <2> QED BY <2>1, <2>2, <2>3
<1>4. ASSUME NEW u, On(r, u) PROVE On(s, u) \/ u = t
  BY <1>1, <1>2, <1>4 DEF On
<1>5. On(r, t)
  BY <1>1, <1>2 DEF On
<1>6. ASSUME NEW u, On(s, u) PROVE On(r, u)
  <2>1. PICK j \in 1 .. Len(s) : s[j] = u
    BY <1>6 DEF On
  <2>2. CASE j < i
    BY <1>1, <1>2, <2>1, <2>2 DEF On
  <2>3. CASE ~ (j < i)
    <3>1. j + 1 \in 1 .. Len(s) + 1 /\ r[j + 1] = s[j]
      BY <1>2, <2>3
    <3> QED BY <1>1, <2>1, <3>1 DEF On
  <2> QED BY <2>2, <2>3
<1> QED BY <1>1, <1>3, <1>4, <1>5, <1>6 DEF r

LEMMA AppendOn ==
  ASSUME NEW S, NEW s \in Seq(S), Distinct(s), NEW t \in S, ~ On(s, t)
  PROVE  /\ Append(s, t) \in Seq(S)
         /\ Append(s, t) # <<>>
         /\ Distinct(Append(s, t))
         /\ \A u : On(Append(s, t), u) <=> On(s, u) \/ u = t
<1> DEFINE r == Append(s, t)
<1>1. /\ r \in Seq(S) /\ Len(r) = Len(s) + 1 /\ r[Len(s) + 1] = t
      /\ \A j \in 1 .. Len(s) : r[j] = s[j]
  OBVIOUS
<1>2. \A u : On(r, u) <=> On(s, u) \/ u = t
  BY <1>1 DEF On
<1>3. Distinct(r)
  BY <1>1 DEF On, Distinct
<1>4. r # <<>>
  BY <1>1
<1> QED BY <1>1, <1>2, <1>3, <1>4

LEMMA EmptyOn ==
  ASSUME NEW S, NEW s \in Seq(S)
  PROVE  s # <<>> <=> \E u \in S : On(s, u)
BY DEF On

(* The elements of s are in the order of their values in f. *)
InOrder(s, f) == \A i, j \in 1 .. Len(s) : i < j => f[s[i]] <= f[s[j]]

LEMMA CutKeepsOrder ==
  ASSUME NEW s \in Seq(Thread), NEW f \in [Thread -> Nat], InOrder(s, f), NEW n \in 1 .. Len(s)
  PROVE  InOrder(CutAt(s, n), f)
<1>1. /\ Len(CutAt(s, n)) = Len(s) - 1
      /\ \A i \in 1 .. Len(s) - 1 : CutAt(s, n)[i] = IF i < n THEN s[i] ELSE s[i + 1]
  BY DEF CutAt
<1>2. ASSUME NEW i \in 1 .. Len(s) - 1, NEW j \in 1 .. Len(s) - 1, i < j
      PROVE  f[CutAt(s, n)[i]] <= f[CutAt(s, n)[j]]
  <2>1. PICK a \in 1 .. Len(s), b \in 1 .. Len(s) :
          a < b /\ CutAt(s, n)[i] = s[a] /\ CutAt(s, n)[j] = s[b]
    <3>1. CASE j < n
      <4>1. /\ i \in 1 .. Len(s) /\ j \in 1 .. Len(s)
            /\ CutAt(s, n)[i] = s[i] /\ CutAt(s, n)[j] = s[j]
        BY <1>1, <1>2, <3>1
      <4> QED BY <1>2, <4>1
    <3>2. CASE i < n /\ ~ (j < n)
      <4>1. /\ i \in 1 .. Len(s) /\ j + 1 \in 1 .. Len(s) /\ i < j + 1
            /\ CutAt(s, n)[i] = s[i] /\ CutAt(s, n)[j] = s[j + 1]
        BY <1>1, <1>2, <3>2
      <4> QED BY <4>1
    <3>3. CASE ~ (i < n)
      <4>1. /\ i + 1 \in 1 .. Len(s) /\ j + 1 \in 1 .. Len(s) /\ i + 1 < j + 1
            /\ CutAt(s, n)[i] = s[i + 1] /\ CutAt(s, n)[j] = s[j + 1]
        BY <1>1, <1>2, <3>3
      <4> QED BY <4>1
    <3> QED BY <3>1, <3>2, <3>3
  <2> QED BY <2>1 DEF InOrder
<1> QED BY <1>1, <1>2 DEF InOrder

LEMMA LinkKeepsOrder ==
  ASSUME NEW s \in Seq(Thread), NEW f \in [Thread -> Nat], InOrder(s, f), NEW t \in Thread,
         NEW n \in 1 .. Len(s) + 1,
         \A j \in 1 .. n - 1 : f[s[j]] <= f[t],
         n <= Len(s) => f[t] < f[s[n]]
  PROVE  InOrder(LinkAt(s, n, t), f)
<1>0. /\ Len(LinkAt(s, n, t)) = Len(s) + 1
      /\ \A i \in 1 .. Len(s) + 1 :
           LinkAt(s, n, t)[i] = IF i < n THEN s[i] ELSE IF i = n THEN t ELSE s[i - 1]
  BY DEF LinkAt
<1>1. ASSUME NEW i \in n .. Len(s) PROVE f[t] <= f[s[i]]
  BY <1>1 DEF InOrder
<1>2. ASSUME NEW i \in 1 .. Len(s) + 1, NEW j \in 1 .. Len(s) + 1, i < j
      PROVE  f[LinkAt(s, n, t)[i]] <= f[LinkAt(s, n, t)[j]]
  <2>1. CASE j < n
    <3>1. /\ i \in 1 .. Len(s) /\ j \in 1 .. Len(s)
          /\ LinkAt(s, n, t)[i] = s[i] /\ LinkAt(s, n, t)[j] = s[j]
      BY <1>0, <1>2, <2>1
    <3> QED BY <1>2, <3>1 DEF InOrder
  <2>2. CASE j = n
    BY <1>0, <1>2, <2>2
  <2>3. CASE j > n /\ i = n
    BY <1>0, <1>1, <1>2, <2>3
  <2>4. CASE j > n /\ i > n
    <3>1. /\ i - 1 \in 1 .. Len(s) /\ j - 1 \in 1 .. Len(s) /\ i - 1 < j - 1
          /\ LinkAt(s, n, t)[i] = s[i - 1] /\ LinkAt(s, n, t)[j] = s[j - 1]
      BY <1>0, <1>2, <2>4
    <3> QED BY <3>1 DEF InOrder
  <2>5. CASE j > n /\ i < n
    <3>1. /\ i \in 1 .. Len(s) /\ j - 1 \in n .. Len(s) /\ s[i] \in Thread /\ s[j - 1] \in Thread
          /\ LinkAt(s, n, t)[i] = s[i] /\ LinkAt(s, n, t)[j] = s[j - 1]
      BY <1>0, <1>2, <2>5
    <3>2. f[s[i]] <= f[t] /\ f[t] <= f[s[j - 1]]
      BY <1>1, <2>5, <3>1
    <3> QED BY <3>1, <3>2
  <2> QED BY <2>1, <2>2, <2>3, <2>4, <2>5
<1> QED BY <1>0, <1>2 DEF InOrder

LEMMA UnlinkKeepsOrder ==
  ASSUME NEW s \in Seq(Thread), NEW f \in [Thread -> Nat], InOrder(s, f), NEW t
  PROVE  InOrder(Unlink(s, t), f)
<1>1. CASE On(s, t)
  <2> DEFINE i == CHOOSE j \in 1 .. Len(s) : s[j] = t
  <2>1. i \in 1 .. Len(s) /\ Unlink(s, t) = CutAt(s, i)
    BY <1>1 DEF On, Unlink
  <2> HIDE DEF i
  <2> QED BY <2>1, CutKeepsOrder
<1>2. CASE ~ On(s, t)
  BY <1>2 DEF Unlink
<1> QED BY <1>1, <1>2

-----------------------------------------------------------------------------
(* Every non-empty set of naturals has a least element: the CHOOSE of the    *)
(* scheduler's bitmap search and of the sorted insertion is a real choice.   *)
LEMMA LeastExists ==
  ASSUME NEW S \in SUBSET Nat, S # {}
  PROVE  \E m \in S : \A n \in S : m <= n
<1>1. PICK m \in S : \A n \in S : ~ (<<n, m>> \in OpToRel(<, Nat))
  BY WFMin, NatLessThanWellFounded
<1>2. \A n \in S : ~ (n < m)
  BY <1>1 DEF OpToRel
<1> QED BY <1>2

-----------------------------------------------------------------------------
(* Thread t is in state st; its timer runs. *)
Is(k, t, st) == k.stat[t] = st
Armed(k, t) == k.timer[t] # Off

(* Kernel states.  Loose(k, t): everything that KernelOK says, except that   *)
(* thread t is linked in no list and holds no place in the scheduler; the    *)
(* state between rt_list_remove and the insertion that follows it.           *)
Loose(k, t) ==
  /\ \A p \in Priority :
       /\ Distinct(k.table[p])
       /\ \A u \in Thread : On(k.table[p], u) <=>
            u # t /\ k.stat[u] = "READY" /\ k.current_priority[u] = p
  /\ \A l \in WaitList : Distinct(k.susp[l])
  /\ \A l \in WaitList, u \in Thread :
       On(k.susp[l], u) => u # t /\ k.stat[u] = "SUSPEND"
  /\ \A l, m \in WaitList, u \in Thread :
       On(k.susp[l], u) /\ On(k.susp[m], u) => l = m
  /\ Distinct(k.defunct)
  /\ \A u \in Thread : On(k.defunct, u) => u # t /\ k.stat[u] = "CLOSE"

(* The fields that the list operations leave alone. *)
Frame(r, k) ==
  /\ r.current_priority = k.current_priority
  /\ r.number_mask = k.number_mask
  /\ r.remaining_tick = k.remaining_tick
  /\ r.current = k.current
  /\ r.lock_nest = k.lock_nest
  /\ r.interrupt_nest = k.interrupt_nest

(* rt_list_remove changes nothing but the three kinds of lists, and leaves   *)
(* the thread in none of them.                                               *)
LEMMA ListRemoveProps ==
  ASSUME NEW k \in KernelState, NEW t \in Thread,
         ReadyListed(k), WaitersSuspended(k),
         NEW r, r = rt_list_remove(k, t)
  PROVE  /\ r \in KernelState
         /\ Frame(r, k)
         /\ r.stat = k.stat /\ r.error = k.error /\ r.timer = k.timer /\ r.group = k.group
         /\ Loose(r, t)
         /\ \A p \in Priority : r.table[p] = Unlink(k.table[p], t)
         /\ \A l \in WaitList : r.susp[l] = Unlink(k.susp[l], t)
<1>0. /\ k.table \in [Priority -> Seq(Thread)] /\ k.susp \in [WaitList -> Seq(Thread)]
      /\ k.defunct \in Seq(Thread)
  BY DEF KernelState
<1>1. /\ r.table = [p \in Priority |-> Unlink(k.table[p], t)]
      /\ r.susp = [l \in WaitList |-> Unlink(k.susp[l], t)]
      /\ r.defunct = Unlink(k.defunct, t)
  BY DEF KernelState, rt_list_remove
<1>2. \A p \in Priority :
        /\ r.table[p] \in Seq(Thread)
        /\ Distinct(r.table[p])
        /\ \A u : On(r.table[p], u) <=> On(k.table[p], u) /\ u # t
  BY <1>0, <1>1, UnlinkProps DEF ReadyListed
<1>3. \A l \in WaitList :
        /\ r.susp[l] \in Seq(Thread)
        /\ Distinct(r.susp[l])
        /\ \A u : On(r.susp[l], u) <=> On(k.susp[l], u) /\ u # t
  BY <1>0, <1>1, UnlinkProps DEF WaitersSuspended
<1>4. /\ r.defunct \in Seq(Thread)
      /\ Distinct(r.defunct)
      /\ \A u : On(r.defunct, u) <=> On(k.defunct, u) /\ u # t
  BY <1>0, <1>1, UnlinkProps DEF WaitersSuspended
<1>5. /\ Frame(r, k)
      /\ r.stat = k.stat /\ r.error = k.error /\ r.timer = k.timer /\ r.group = k.group
  BY DEF KernelState, rt_list_remove, Frame
<1>6. /\ r.table \in [Priority -> Seq(Thread)] /\ r.susp \in [WaitList -> Seq(Thread)]
  BY <1>1, <1>2, <1>3
<1>7. r \in KernelState
  <2>1. r = [k EXCEPT !.table = r.table, !.susp = r.susp, !.defunct = r.defunct]
    BY <1>1 DEF KernelState, rt_list_remove
  <2> QED BY <1>4, <1>6, <2>1 DEF KernelState
<1>8. Loose(r, t)
  <2>1. r.stat = k.stat /\ r.current_priority = k.current_priority
    BY <1>5 DEF Frame
  <2>2. \A p \in Priority :
          /\ Distinct(r.table[p])
          /\ \A u \in Thread : On(r.table[p], u) <=>
               u # t /\ r.stat[u] = "READY" /\ r.current_priority[u] = p
    BY <1>2, <2>1 DEF ReadyListed
  <2>3. /\ \A l \in WaitList : Distinct(r.susp[l])
        /\ \A l \in WaitList, u \in Thread :
             On(r.susp[l], u) => u # t /\ r.stat[u] = "SUSPEND"
        /\ \A l, m \in WaitList, u \in Thread :
             On(r.susp[l], u) /\ On(r.susp[m], u) => l = m
    BY <1>3, <2>1 DEF WaitersSuspended
  <2>4. \A u \in Thread : On(r.defunct, u) => u # t /\ r.stat[u] = "CLOSE"
    BY <1>4, <2>1 DEF WaitersSuspended
  <2> QED BY <1>4, <2>2, <2>3, <2>4 DEF Loose
<1> QED BY <1>1, <1>5, <1>7, <1>8

(* t can be put into the ready list of its priority: it is in no list, and   *)
(* the kernel state is consistent but for t.                                 *)
Insertable(k, t) ==
  /\ Loose(k, t)
  /\ k.number_mask[t] = {k.current_priority[t]}
  /\ \A p \in Priority :
       p # k.current_priority[t] => (p \in k.group <=> k.table[p] # <<>>)
  /\ k.timer[t] = Off
  /\ \A u \in Thread : u # t /\ k.timer[u] # Off => k.stat[u] = "SUSPEND"
  /\ \A u \in Thread : u # t /\ k.stat[u] \in {"READY", "SUSPEND"} =>
       k.number_mask[u] = {k.current_priority[u]}
  /\ t = idle \/ k.stat[idle] = "READY"

(* rt_schedule_insert_thread puts a loose thread in the list of its priority *)
(* and sets its bit: the thread is READY and the kernel consistent again.    *)
LEMMA InsertProps ==
  ASSUME NEW k \in KernelState, NEW t \in Thread, Insertable(k, t),
         NEW r, r = rt_schedule_insert_thread(k, t)
  PROVE  /\ r \in KernelState
         /\ KernelOK(r)
         /\ Frame(r, k)
         /\ r.stat = [k.stat EXCEPT ![t] = "READY"]
         /\ r.error = k.error /\ r.timer = k.timer /\ r.susp = k.susp
<1> DEFINE q == k.current_priority[t]
<1>a. /\ Loose(k, t)
      /\ k.number_mask[t] = {k.current_priority[t]}
      /\ \A p \in Priority :
           p # k.current_priority[t] => (p \in k.group <=> k.table[p] # <<>>)
  BY DEF Insertable
<1>b. /\ k.timer[t] = Off
      /\ \A u \in Thread : u # t /\ k.timer[u] # Off => k.stat[u] = "SUSPEND"
      /\ \A u \in Thread : u # t /\ k.stat[u] \in {"READY", "SUSPEND"} =>
           k.number_mask[u] = {k.current_priority[u]}
      /\ t = idle \/ k.stat[idle] = "READY"
  BY DEF Insertable
<1>0. /\ k.table \in [Priority -> Seq(Thread)] /\ q \in Priority
      /\ k.stat \in [Thread -> Stat] /\ k.group \in SUBSET Priority
  BY DEF KernelState
<1>1. /\ r.stat = [k.stat EXCEPT ![t] = "READY"]
      /\ r.table = [k.table EXCEPT ![q] = Append(k.table[q], t)]
      /\ r.group = k.group \cup {q}
  BY <1>a DEF KernelState, rt_schedule_insert_thread
<1>2. k.table[q] \in Seq(Thread) /\ Distinct(k.table[q]) /\ ~ On(k.table[q], t)
  BY <1>a, <1>0 DEF Loose
<1>3. /\ r.table[q] \in Seq(Thread) /\ r.table[q] # <<>> /\ Distinct(r.table[q])
      /\ \A u : On(r.table[q], u) <=> On(k.table[q], u) \/ u = t
  <2>1. r.table[q] = Append(k.table[q], t)
    BY <1>0, <1>1
  <2> HIDE DEF q
  <2> QED BY <1>2, <2>1, AppendOn
<1>4. \A p \in Priority : p # q => r.table[p] = k.table[p]
  BY <1>0, <1>1
<1>5. r \in KernelState
  <2>1. r.table \in [Priority -> Seq(Thread)] /\ r.stat \in [Thread -> Stat]
        /\ r.group \in SUBSET Priority
    BY <1>0, <1>1, <1>3 DEF Stat
  <2>2. r = [k EXCEPT !.stat = r.stat, !.table = r.table, !.group = r.group]
    BY <1>1 DEF KernelState, rt_schedule_insert_thread
  <2> QED BY <2>1, <2>2 DEF KernelState
<1>6. /\ Frame(r, k) /\ r.error = k.error /\ r.timer = k.timer
      /\ r.susp = k.susp /\ r.defunct = k.defunct
  BY DEF KernelState, rt_schedule_insert_thread, Frame
<1>7. \A u \in Thread : r.stat[u] = IF u = t THEN "READY" ELSE k.stat[u]
  BY <1>0, <1>1
<1>8. ReadyListed(r)
  BY <1>a, <1>0, <1>3, <1>4, <1>6, <1>7 DEF ReadyListed, Loose, Frame
<1>9. GroupExact(r)
  BY <1>a, <1>0, <1>1, <1>3, <1>4 DEF GroupExact
<1>10. WaitersSuspended(r)
  BY <1>a, <1>6, <1>7 DEF WaitersSuspended, Loose
<1>11. TimersOfSuspended(r) /\ MaskExact(r) /\ IdleReady(r)
  BY <1>a, <1>b, <1>6, <1>7, KernelAssumption DEF TimersOfSuspended, MaskExact, IdleReady, Frame
<1> QED BY <1>1, <1>5, <1>6, <1>8, <1>9, <1>10, <1>11 DEF KernelOK

(* rt_schedule_remove_thread of a READY thread: it leaves its ready list and *)
(* the bit of its priority is cleared with the last thread of the list.      *)
LEMMA RemoveProps ==
  ASSUME NEW k \in KernelState, KernelOK(k), NEW t \in Thread, k.stat[t] = "READY",
         NEW r, r = rt_schedule_remove_thread(k, t)
  PROVE  /\ r \in KernelState
         /\ Loose(r, t)
         /\ GroupExact(r)
         /\ Frame(r, k)
         /\ r.stat = k.stat /\ r.error = k.error /\ r.timer = k.timer /\ r.susp = k.susp
<1> DEFINE q == k.current_priority[t]
           e == rt_list_remove(k, t)
           g == IF e.table[q] = <<>> THEN k.group \ {q} ELSE k.group
<1>0. /\ q \in Priority /\ k.number_mask[t] = {q} /\ k.group \in SUBSET Priority
      /\ k.table \in [Priority -> Seq(Thread)] /\ k.susp \in [WaitList -> Seq(Thread)]
  BY DEF KernelState, KernelOK, MaskExact
<1>1. /\ e \in KernelState /\ Loose(e, t) /\ Frame(e, k)
      /\ e.stat = k.stat /\ e.error = k.error /\ e.timer = k.timer /\ e.group = k.group
      /\ \A l \in WaitList : e.susp[l] = Unlink(k.susp[l], t)
  BY ListRemoveProps DEF KernelOK
<1>2. r = IF e.table[q] = <<>> THEN [e EXCEPT !.group = e.group \ {q}] ELSE e
  BY <1>0 DEF rt_schedule_remove_thread
<1> HIDE DEF e, q
<1>3. e.susp = k.susp
  <2>1. \A l \in WaitList : Unlink(k.susp[l], t) = k.susp[l]
    BY DEF KernelOK, WaitersSuspended, Unlink
  <2>2. e.susp \in [WaitList -> Seq(Thread)]
    BY <1>1 DEF KernelState
  <2> QED BY <1>0, <1>1, <2>1, <2>2
<1>4. g \in SUBSET Priority
  BY <1>0
<1>5. r = [e EXCEPT !.group = g]
  BY <1>1, <1>2 DEF KernelState
<1> HIDE DEF g
<1>6. r \in KernelState
  BY <1>1, <1>4, <1>5 DEF KernelState
<1>7. /\ r.stat = e.stat /\ r.error = e.error /\ r.timer = e.timer /\ r.susp = e.susp
      /\ r.table = e.table /\ r.defunct = e.defunct /\ r.group = g /\ Frame(r, e)
  BY <1>1, <1>5 DEF KernelState, Frame
<1>8. Loose(r, t)
  BY <1>1, <1>7 DEF Loose, Frame
<1>9. GroupExact(r)
  <2>1. \A p \in Priority : p # q => (k.table[p] # <<>> <=> e.table[p] # <<>>)
    <3> TAKE p \in Priority
    <3> HAVE p # q
    <3>1. ASSUME NEW u \in Thread PROVE On(k.table[p], u) <=> On(e.table[p], u)
      <4>1. On(k.table[p], u) <=> k.stat[u] = "READY" /\ k.current_priority[u] = p
        BY DEF KernelOK, ReadyListed
      <4>2. On(e.table[p], u) <=> u # t /\ k.stat[u] = "READY" /\ k.current_priority[u] = p
        BY <1>1 DEF Loose, Frame
      <4> QED BY <4>1, <4>2 DEF q
    <3>2. e.table[p] \in Seq(Thread) /\ k.table[p] \in Seq(Thread)
      BY <1>0, <1>1 DEF KernelState
    <3> QED BY <3>1, <3>2, EmptyOn
  <2>2. q \in k.group
    <3>1. On(k.table[q], t)
      BY <1>0 DEF KernelOK, ReadyListed, q
    <3> QED BY <1>0, <3>1, EmptyOn DEF KernelOK, GroupExact
  <2> QED BY <1>7, <2>1, <2>2 DEF KernelOK, GroupExact, g
<1> QED BY <1>1, <1>3, <1>6, <1>7, <1>8, <1>9 DEF Frame

(* rt_thread_suspend of a READY thread. *)
LEMMA SuspendProps ==
  ASSUME NEW k \in KernelState, KernelOK(k), NEW t \in Thread \ {idle},
         k.stat[t] = "READY",
         NEW r, r = rt_thread_suspend(k, t)
  PROVE  /\ r \in KernelState
         /\ KernelOK(r)
         /\ Frame(r, k)
         /\ r.stat = [k.stat EXCEPT ![t] = "SUSPEND"]
         /\ r.error = k.error
         /\ r.susp = k.susp
         /\ r.timer = [k.timer EXCEPT ![t] = Off]
<1> DEFINE c == rt_schedule_remove_thread(k, t)
           st == [k.stat EXCEPT ![t] = "SUSPEND"]
           tm == [k.timer EXCEPT ![t] = Off]
<1>0. /\ k.stat \in [Thread -> Stat] /\ k.timer \in [Thread -> Nat \cup {Off}]
      /\ st \in [Thread -> Stat] /\ tm \in [Thread -> Nat \cup {Off}]
  BY DEF KernelState, Stat
<1>1. /\ c \in KernelState /\ Loose(c, t) /\ GroupExact(c) /\ Frame(c, k)
      /\ c.stat = k.stat /\ c.error = k.error /\ c.timer = k.timer /\ c.susp = k.susp
  BY RemoveProps
<1>2. rt_schedule_remove_thread([k EXCEPT !.stat[t] = "SUSPEND"], t) = [c EXCEPT !.stat = st]
  <2> DEFINE a == [k EXCEPT !.stat[t] = "SUSPEND"]
             e == rt_list_remove(k, t)
             q == k.current_priority[t]
             m == k.number_mask[t]
  <2>1. rt_list_remove(a, t) = [e EXCEPT !.stat = st]
    BY DEF rt_list_remove, KernelState
  <2>2. a.current_priority[t] = q /\ a.number_mask[t] = m
    BY DEF KernelState
  <2>3. e \in KernelState
    BY ListRemoveProps DEF KernelOK
  <2>4. c = IF e.table[q] = <<>> THEN [e EXCEPT !.group = e.group \ m] ELSE e
    BY DEF rt_schedule_remove_thread
  <2> HIDE DEF a, e, q, m, st, c
  <2>5. /\ [e EXCEPT !.stat = st].table = e.table /\ [e EXCEPT !.stat = st].group = e.group
    BY <2>3 DEF KernelState
  <2>6. rt_schedule_remove_thread(a, t) =
          IF e.table[q] = <<>>
          THEN [[e EXCEPT !.stat = st] EXCEPT !.group = e.group \ m]
          ELSE [e EXCEPT !.stat = st]
    BY <2>1, <2>2, <2>5 DEF rt_schedule_remove_thread
  <2>7. rt_schedule_remove_thread(a, t) = [c EXCEPT !.stat = st]
    BY <2>3, <2>4, <2>6 DEF KernelState
  <2> QED BY <2>7 DEF a
<1>3. r = [[c EXCEPT !.stat = st] EXCEPT !.timer[t] = Off]
  BY <1>2 DEF rt_thread_suspend, rt_timer_stop
<1> HIDE DEF c, st
<1>4. r = [c EXCEPT !.stat = st, !.timer = tm]
  BY <1>1, <1>3 DEF KernelState
<1> HIDE DEF tm
<1>5. r \in KernelState
  <2>1. st \in [Thread -> Stat] /\ tm \in [Thread -> Nat \cup {Off}]
    BY <1>0
  <2>2. c \in KernelState
    BY <1>1
  <2> QED BY ONLY <1>4, <2>1, <2>2 DEF KernelState
<1>6. /\ r.stat = st /\ r.timer = tm /\ r.error = c.error /\ r.susp = c.susp
      /\ r.table = c.table /\ r.group = c.group /\ r.defunct = c.defunct /\ Frame(r, c)
  BY <1>1, <1>4 DEF KernelState, Frame
<1>7. \A u \in Thread : r.stat[u] = IF u = t THEN "SUSPEND" ELSE k.stat[u]
  BY <1>0, <1>6 DEF st
<1>8. \A u \in Thread : r.timer[u] = IF u = t THEN Off ELSE k.timer[u]
  BY <1>0, <1>6 DEF tm
<1>9. ReadyListed(r)
  BY <1>1, <1>6, <1>7 DEF ReadyListed, Loose, Frame
<1>10. GroupExact(r)
  BY <1>1, <1>6 DEF GroupExact
<1>11. WaitersSuspended(r)
  BY <1>1, <1>6, <1>7 DEF WaitersSuspended, Loose
<1>12. TimersOfSuspended(r)
  BY <1>7, <1>8 DEF KernelOK, TimersOfSuspended
<1>13. MaskExact(r) /\ IdleReady(r)
  BY <1>1, <1>6, <1>7, KernelAssumption DEF KernelOK, MaskExact, IdleReady, Frame
<1> QED BY <1>1, <1>5, <1>6, <1>9, <1>10, <1>11, <1>12, <1>13 DEF KernelOK, st, tm, Frame

SuspendedFrom(r, k, t) ==
  /\ Frame(r, k)
  /\ r.stat = [k.stat EXCEPT ![t] = "SUSPEND"]
  /\ r.error = k.error /\ r.susp = k.susp
  /\ r.timer = [k.timer EXCEPT ![t] = Off]

LEMMA ThreadSuspendProps ==
  ASSUME NEW k \in KernelState, KernelOK(k), NEW t \in Thread \ {idle}, Is(k, t, "READY"),
         NEW r, r = rt_thread_suspend(k, t)
  PROVE  r \in KernelState /\ KernelOK(r) /\ SuspendedFrom(r, k, t)
<1> k.stat[t] = "READY"
  BY DEF Is
<1> QED BY SuspendProps DEF SuspendedFrom

(* A SUSPENDed thread taken off its list with its timer stopped, and then    *)
(* inserted: what rt_thread_resume and rt_thread_timeout have in common.     *)
Woken(k, t, er) ==
  rt_schedule_insert_thread(
    [rt_list_remove(k, t) EXCEPT !.timer = [k.timer EXCEPT ![t] = Off], !.error = er], t)

LEMMA WakeProps ==
  ASSUME NEW k \in KernelState, KernelOK(k), NEW t \in Thread,
         k.stat[t] = "SUSPEND", NEW er \in [Thread -> Error],
         NEW r, r = Woken(k, t, er)
  PROVE  /\ r \in KernelState
         /\ KernelOK(r)
         /\ Frame(r, k)
         /\ r.stat = [k.stat EXCEPT ![t] = "READY"]
         /\ r.error = er
         /\ r.timer = [k.timer EXCEPT ![t] = Off]
         /\ \A l \in WaitList : r.susp[l] = Unlink(k.susp[l], t)
<1> DEFINE e == rt_list_remove(k, t)
           tm == [k.timer EXCEPT ![t] = Off]
           a == [e EXCEPT !.timer = tm, !.error = er]
<1>0. /\ k.timer \in [Thread -> Nat \cup {Off}] /\ k.number_mask[t] = {k.current_priority[t]}
      /\ k.table \in [Priority -> Seq(Thread)] /\ tm \in [Thread -> Nat \cup {Off}]
  BY DEF KernelState, KernelOK, MaskExact
<1>1. /\ e \in KernelState /\ Loose(e, t) /\ Frame(e, k)
      /\ e.stat = k.stat /\ e.group = k.group
      /\ \A p \in Priority : e.table[p] = Unlink(k.table[p], t)
      /\ \A l \in WaitList : e.susp[l] = Unlink(k.susp[l], t)
  BY ListRemoveProps DEF KernelOK
<1>2. \A p \in Priority : e.table[p] = k.table[p]
  BY <1>1 DEF KernelOK, ReadyListed, Unlink
<1>3. r = rt_schedule_insert_thread(a, t)
  BY DEF Woken
<1> HIDE DEF e, tm
<1>4. /\ a.stat = e.stat /\ Frame(a, e) /\ a.table = e.table /\ a.group = e.group
      /\ a.timer = tm /\ a.susp = e.susp /\ a.defunct = e.defunct /\ a.error = er
      /\ a \in KernelState
  BY <1>0, <1>1 DEF KernelState, Frame
<1> HIDE DEF a
<1>5. Loose(a, t)
  BY <1>1, <1>4 DEF Loose, Frame
<1>6. \A u \in Thread : a.timer[u] = IF u = t THEN Off ELSE k.timer[u]
  BY <1>0, <1>4 DEF tm
<1>7. /\ \A p \in Priority :
           p # a.current_priority[t] => (p \in a.group <=> a.table[p] # <<>>)
      /\ \A u \in Thread : u # t /\ a.timer[u] # Off => a.stat[u] = "SUSPEND"
      /\ \A u \in Thread : u # t /\ a.stat[u] \in {"READY", "SUSPEND"} =>
           a.number_mask[u] = {a.current_priority[u]}
      /\ a.number_mask[t] = {a.current_priority[t]}
      /\ a.timer[t] = Off
      /\ t = idle \/ a.stat[idle] = "READY"
  BY <1>0, <1>1, <1>2, <1>4, <1>6
     DEF KernelOK, GroupExact, TimersOfSuspended, MaskExact, IdleReady, Frame
<1>8. /\ r \in KernelState
      /\ KernelOK(r)
      /\ Frame(r, a)
      /\ r.stat = [a.stat EXCEPT ![t] = "READY"]
      /\ r.error = a.error /\ r.timer = a.timer /\ r.susp = a.susp
  <2>1. Insertable(a, t)
    BY <1>5, <1>7 DEF Insertable
  <2> QED BY <1>3, <1>4, <2>1, InsertProps
<1> QED BY <1>1, <1>4, <1>8 DEF tm, Frame

Resumed(r, k, t) ==
  /\ Frame(r, k)
  /\ r.stat = [k.stat EXCEPT ![t] = "READY"]
  /\ r.error = k.error
  /\ r.timer = [k.timer EXCEPT ![t] = Off]
  /\ \A l \in WaitList : r.susp[l] = Unlink(k.susp[l], t)

(* rt_thread_resume of a SUSPENDed thread. *)
LEMMA ResumeProps ==
  ASSUME NEW k \in KernelState, KernelOK(k), NEW t \in Thread, Is(k, t, "SUSPEND"),
         NEW r, r = rt_thread_resume(k, t)
  PROVE  r \in KernelState /\ KernelOK(r) /\ Resumed(r, k, t)
<1> k.stat[t] = "SUSPEND"
  BY DEF Is
<1>1. rt_timer_stop(rt_list_remove(k, t), t) =
        [rt_list_remove(k, t) EXCEPT !.timer = [k.timer EXCEPT ![t] = Off], !.error = k.error]
  BY DEF rt_timer_stop, rt_list_remove, KernelState
<1>2. r = Woken(k, t, k.error)
  BY <1>1 DEF rt_thread_resume, Woken
<1>3. k.error \in [Thread -> Error]
  BY DEF KernelState
<1> QED BY <1>2, <1>3, WakeProps DEF Resumed

(* What every part of KernelOK is about: two states that agree on it are     *)
(* both consistent or both not.                                              *)
SameLists(r, k) ==
  /\ r.stat = k.stat /\ r.current_priority = k.current_priority
  /\ r.number_mask = k.number_mask
  /\ r.table = k.table /\ r.group = k.group /\ r.susp = k.susp
  /\ r.defunct = k.defunct

LEMMA SameListsOK ==
  ASSUME NEW k, NEW r, KernelOK(k), SameLists(r, k),
         \A t \in Thread : r.timer[t] # Off => k.stat[t] = "SUSPEND"
  PROVE  KernelOK(r)
<1>1. ReadyListed(r) /\ GroupExact(r)
  BY DEF KernelOK, SameLists, ReadyListed, GroupExact
<1>2. WaitersSuspended(r)
  BY DEF KernelOK, SameLists, WaitersSuspended
<1>3. TimersOfSuspended(r) /\ MaskExact(r) /\ IdleReady(r)
  BY DEF KernelOK, SameLists, TimersOfSuspended, MaskExact, IdleReady
<1> QED BY <1>1, <1>2, <1>3 DEF KernelOK

SameButCurrent(r, k) ==
  /\ SameLists(r, k)
  /\ r.timer = k.timer /\ r.error = k.error /\ r.remaining_tick = k.remaining_tick
  /\ r.lock_nest = k.lock_nest /\ r.interrupt_nest = k.interrupt_nest

(* No READY thread has a higher priority than c. *)
Outranks(k, c) ==
  /\ k.stat[c] = "READY"
  /\ \A t \in Thread : k.stat[t] = "READY" =>
       k.current_priority[c] <= k.current_priority[t]

(* rt_schedule: whatever the lock, the state stays consistent and only the   *)
(* running thread changes; when it is not locked, a READY thread that no     *)
(* READY thread outranks is the running one afterwards.                      *)
LEMMA ScheduleProps ==
  ASSUME NEW k \in KernelState, KernelOK(k),
         NEW r, r = rt_schedule(k)
  PROVE  /\ r \in KernelState
         /\ KernelOK(r)
         /\ SameButCurrent(r, k)
         /\ k.lock_nest = 0 => Outranks(r, r.current)
<1>0. /\ k.group \in SUBSET Priority /\ Priority \subseteq Nat
      /\ k.table \in [Priority -> Seq(Thread)] /\ k.current_priority \in [Thread -> Priority]
      /\ idle \in Thread
  <2>1. Priority \subseteq Nat /\ idle \in Thread
    BY KernelAssumption DEF Priority
  <2> QED BY <2>1 DEF KernelState
<1>1. \A t \in Thread : k.stat[t] = "READY" => k.current_priority[t] \in k.group
  <2> TAKE t \in Thread
  <2> HAVE k.stat[t] = "READY"
  <2>1. On(k.table[k.current_priority[t]], t)
    BY <1>0 DEF KernelOK, ReadyListed
  <2> QED BY <1>0, <2>1, EmptyOn DEF KernelOK, GroupExact
<1>2. \E m \in k.group : \A n \in k.group : m <= n
  BY <1>0, <1>1, LeastExists DEF KernelOK, IdleReady
<1> DEFINE h == highest_ready_priority(k)
           c == k.table[h][1]
<1>3. h \in k.group /\ \A n \in k.group : h <= n
  BY <1>2 DEF highest_ready_priority
<1> HIDE DEF h
<1>4. k.table[h] \in Seq(Thread) /\ k.table[h] # <<>>
  BY <1>0, <1>3 DEF KernelOK, GroupExact
<1>5. c \in Thread /\ On(k.table[h], c)
  BY <1>4 DEF On
<1>6. k.stat[c] = "READY" /\ k.current_priority[c] = h
  BY <1>0, <1>3, <1>5 DEF KernelOK, ReadyListed
<1>7. CASE k.lock_nest = 0
  <2>1. r = [k EXCEPT !.current = c]
    BY <1>7 DEF rt_schedule, h
  <2> HIDE DEF c
  <2>2. r.current = c
    BY <2>1 DEF KernelState
  <2>3. r \in KernelState
    BY <1>5, <2>1 DEF KernelState
  <2>4. SameButCurrent(r, k)
    BY <2>1 DEF KernelState, SameButCurrent, SameLists
  <2>5. KernelOK(r)
    BY <2>4, SameListsOK DEF SameButCurrent, KernelOK, TimersOfSuspended
  <2>6. Outranks(r, r.current)
    BY <1>1, <1>3, <1>6, <2>2, <2>4 DEF Outranks, SameButCurrent, SameLists
  <2> QED BY <2>3, <2>4, <2>5, <2>6
<1>8. CASE k.lock_nest # 0
  <2>1. r = k
    BY <1>8 DEF rt_schedule
  <2> QED BY <1>8, <2>1 DEF SameButCurrent, SameLists
<1> QED BY <1>7, <1>8

TimedOut(r, k, t) ==
  /\ r.stat = [k.stat EXCEPT ![t] = "READY"]
  /\ r.error = [k.error EXCEPT ![t] = "ETIMEOUT"]
  /\ r.timer = [k.timer EXCEPT ![t] = Off]
  /\ \A l \in WaitList : r.susp[l] = Unlink(k.susp[l], t)
  /\ r.current_priority = k.current_priority
  /\ r.lock_nest = k.lock_nest /\ r.interrupt_nest = k.interrupt_nest
  /\ k.lock_nest = 0 => Outranks(r, r.current)

(* rt_timer_check runs rt_thread_timeout of an expired thread timer. *)
LEMMA TimeoutProps ==
  ASSUME NEW k \in KernelState, KernelOK(k), NEW t \in Thread, Armed(k, t),
         NEW r, r = rt_timer_check(k, t)
  PROVE  r \in KernelState /\ KernelOK(r) /\ TimedOut(r, k, t)
<1> k.timer[t] # Off
  BY DEF Armed
<1> DEFINE er == [k.error EXCEPT ![t] = "ETIMEOUT"]
           w == Woken(k, t, er)
<1>1. rt_list_remove([rt_timer_stop(k, t) EXCEPT !.error[t] = "ETIMEOUT"], t)
        = [rt_list_remove(k, t) EXCEPT !.timer = [k.timer EXCEPT ![t] = Off], !.error = er]
  BY DEF rt_list_remove, rt_timer_stop, KernelState
<1>2. r = rt_schedule(w)
  BY <1>1 DEF rt_timer_check, rt_thread_timeout, Woken
<1>3. k.stat[t] = "SUSPEND" /\ er \in [Thread -> Error]
  BY DEF KernelOK, TimersOfSuspended, KernelState, Error
<1> HIDE DEF er
<1>4. /\ w \in KernelState
      /\ KernelOK(w)
      /\ Frame(w, k)
      /\ w.stat = [k.stat EXCEPT ![t] = "READY"]
      /\ w.error = er
      /\ w.timer = [k.timer EXCEPT ![t] = Off]
      /\ \A l \in WaitList : w.susp[l] = Unlink(k.susp[l], t)
  BY <1>3, WakeProps
<1> HIDE DEF w
<1>5. /\ r \in KernelState /\ KernelOK(r) /\ SameButCurrent(r, w)
      /\ w.lock_nest = 0 => Outranks(r, r.current)
  BY <1>2, <1>4, ScheduleProps
<1> QED BY <1>4, <1>5 DEF er, SameButCurrent, SameLists, Frame, TimedOut

(* The place that rt_ipc_list_suspend finds for a waiter is in the list. *)
LEMMA PlaceExists ==
  ASSUME NEW k \in KernelState, NEW s \in Seq(Thread), NEW p \in Priority
  PROVE  /\ PrioPlace(k, s, p) \in 1 .. Len(s) + 1
         /\ \A j \in 1 .. PrioPlace(k, s, p) - 1 : k.current_priority[s[j]] <= p
         /\ PrioPlace(k, s, p) <= Len(s) => p < k.current_priority[s[PrioPlace(k, s, p)]]
<1> DEFINE I == {i \in 1 .. Len(s) + 1 : i <= Len(s) => p < k.current_priority[s[i]]}
<1>0. /\ Len(s) \in Nat /\ p \in Nat
      /\ \A i \in 1 .. Len(s) : k.current_priority[s[i]] \in Nat
  <2>1. k.current_priority \in [Thread -> Priority]
    BY DEF KernelState
  <2>2. Priority \subseteq Nat
    BY KernelAssumption DEF Priority
  <2>3. Len(s) \in Nat /\ \A i \in 1 .. Len(s) : s[i] \in Thread
    OBVIOUS
  <2>4. \A u \in Thread : k.current_priority[u] \in Nat
    BY <2>1, <2>2
  <2> QED BY <2>2, <2>3, <2>4
<1>1. Len(s) + 1 \in I /\ I \in SUBSET Nat
  BY <1>0
<1>2. PICK m \in I : \A n \in I : m <= n
  <2> HIDE DEF I
  <2> QED BY <1>1, LeastExists
<1>3. /\ m \in 1 .. Len(s) + 1
      /\ \A j \in 1 .. m - 1 : k.current_priority[s[j]] <= p
      /\ m <= Len(s) => p < k.current_priority[s[m]]
  BY <1>0, <1>2
<1> QED BY <1>3 DEF PrioPlace

Blocked(r, k, l, t) ==
  /\ Frame(r, k)
  /\ r.stat = [k.stat EXCEPT ![t] = "SUSPEND"]
  /\ r.error = k.error
  /\ r.timer = [k.timer EXCEPT ![t] = Off]
  /\ \A u : On(r.susp[l], u) <=> On(k.susp[l], u) \/ u = t
  /\ \A m \in WaitList : m # l => r.susp[m] = k.susp[m]

(* rt_ipc_list_suspend puts the running thread on the list, SUSPENDed; the   *)
(* threads that wait on the lists otherwise stay.                            *)
LEMMA IpcSuspendProps ==
  ASSUME NEW k \in KernelState, KernelOK(k), NEW t \in Thread \ {idle},
         Is(k, t, "READY"), NEW l \in WaitList, NEW flag,
         NEW r, r = rt_ipc_list_suspend(k, l, t, flag)
  PROVE  r \in KernelState /\ KernelOK(r) /\ Blocked(r, k, l, t)
<1> k.stat[t] = "READY"
  BY DEF Is
<1> DEFINE s == k.susp[l]
           place == IF flag = "FIFO" THEN Len(s) + 1
                    ELSE PrioPlace(k, s, k.current_priority[t])
           o == rt_thread_suspend(k, t)
<1>0. s \in Seq(Thread) /\ k.current_priority[t] \in Priority
  BY DEF KernelState
<1>1. place \in 1 .. Len(s) + 1
  BY <1>0, PlaceExists
<1>2. /\ o \in KernelState /\ KernelOK(o) /\ Frame(o, k)
      /\ o.stat = [k.stat EXCEPT ![t] = "SUSPEND"] /\ o.error = k.error
      /\ o.susp = k.susp /\ o.timer = [k.timer EXCEPT ![t] = Off]
  BY SuspendProps
<1>3. r = [o EXCEPT !.susp[l] = LinkAt(o.susp[l], place, t)]
  BY DEF rt_ipc_list_suspend
<1> HIDE DEF o, place
<1>4. Distinct(s) /\ ~ On(s, t)
  BY DEF KernelOK, WaitersSuspended
<1> DEFINE w == LinkAt(s, place, t)
<1>5. /\ w \in Seq(Thread)
      /\ Distinct(w)
      /\ \A u : On(w, u) <=> On(s, u) \/ u = t
  BY <1>0, <1>1, <1>4, LinkAtProps
<1> HIDE DEF w
<1>6. /\ r = [o EXCEPT !.susp = [k.susp EXCEPT ![l] = w]]
  BY <1>2, <1>3 DEF KernelState, w
<1>7. /\ [k.susp EXCEPT ![l] = w] \in [WaitList -> Seq(Thread)]
      /\ [k.susp EXCEPT ![l] = w][l] = w
      /\ \A m \in WaitList : m # l => [k.susp EXCEPT ![l] = w][m] = k.susp[m]
  BY <1>5 DEF KernelState
<1>8. r \in KernelState
  BY <1>2, <1>6, <1>7 DEF KernelState
<1>9. /\ Frame(r, o) /\ r.stat = o.stat /\ r.error = o.error /\ r.timer = o.timer
      /\ r.table = o.table /\ r.group = o.group /\ r.defunct = o.defunct
      /\ r.susp = [k.susp EXCEPT ![l] = w]
  BY <1>2, <1>6 DEF KernelState, Frame
<1>10. ReadyListed(r) /\ GroupExact(r) /\ TimersOfSuspended(r) /\ MaskExact(r) /\ IdleReady(r)
  <2>1. ReadyListed(r)
    BY <1>2, <1>9 DEF KernelOK, ReadyListed, Frame
  <2>2. GroupExact(r) /\ TimersOfSuspended(r)
    BY <1>2, <1>9 DEF KernelOK, GroupExact, TimersOfSuspended
  <2>3. MaskExact(r) /\ IdleReady(r)
    BY <1>2, <1>9 DEF KernelOK, MaskExact, IdleReady, Frame
  <2> QED BY <2>1, <2>2, <2>3
<1>11. WaitersSuspended(r)
  <2>1. \A m \in WaitList : ~ On(k.susp[m], t)
    BY DEF KernelOK, WaitersSuspended
  <2>2. \A u \in Thread : r.stat[u] = IF u = t THEN "SUSPEND" ELSE k.stat[u]
    <3>1. k.stat \in [Thread -> Stat]
      BY DEF KernelState
    <3> QED BY <1>2, <1>9, <3>1
  <2>3. \A m \in WaitList : Distinct(r.susp[m])
    BY <1>5, <1>7, <1>9 DEF KernelOK, WaitersSuspended
  <2>4. \A m \in WaitList, u \in Thread :
          On(r.susp[m], u) <=> On(k.susp[m], u) \/ (m = l /\ u = t)
    BY <1>5, <1>7, <1>9
  <2>5. Distinct(r.defunct) /\ \A u \in Thread : On(r.defunct, u) => r.stat[u] = "CLOSE"
    BY <1>2, <1>9 DEF KernelOK, WaitersSuspended
  <2>6. \A m \in WaitList, u \in Thread : On(r.susp[m], u) => r.stat[u] = "SUSPEND"
    BY <2>2, <2>4 DEF KernelOK, WaitersSuspended
  <2>7. \A m, n \in WaitList, u \in Thread :
          On(r.susp[m], u) /\ On(r.susp[n], u) => m = n
    BY <2>1, <2>4 DEF KernelOK, WaitersSuspended
  <2> QED BY <2>3, <2>5, <2>6, <2>7 DEF WaitersSuspended
<1> QED BY <1>2, <1>5, <1>7, <1>8, <1>9, <1>10, <1>11 DEF KernelOK, Frame, Blocked

(* Where the list takes the thread in: at its end, or under RT_IPC_FLAG_PRIO *)
(* before the first waiter of a lower priority.                              *)
RightPlace(k, s, p, flag, i) ==
  /\ flag = "FIFO" => i = Len(s) + 1
  /\ flag # "FIFO" => /\ \A j \in 1 .. i - 1 : k.current_priority[s[j]] <= p
                      /\ i <= Len(s) => p < k.current_priority[s[i]]

Placed(r, k, l, t, flag) ==
  \E i \in 1 .. Len(k.susp[l]) + 1 :
    /\ r.susp[l] = LinkAt(k.susp[l], i, t)
    /\ RightPlace(k, k.susp[l], k.current_priority[t], flag, i)

LEMMA IpcSuspendPlace ==
  ASSUME NEW k \in KernelState, KernelOK(k), NEW t \in Thread \ {idle},
         Is(k, t, "READY"), NEW l \in WaitList, NEW flag,
         NEW r, r = rt_ipc_list_suspend(k, l, t, flag)
  PROVE  Placed(r, k, l, t, flag)
<1> DEFINE s == k.susp[l]
           p == k.current_priority[t]
           place == IF flag = "FIFO" THEN Len(s) + 1 ELSE PrioPlace(k, s, p)
           o == rt_thread_suspend(k, t)
<1>0. s \in Seq(Thread) /\ p \in Priority
  BY DEF KernelState
<1>1. place \in 1 .. Len(s) + 1 /\ RightPlace(k, s, p, flag, place)
  <2> HIDE DEF s, p
  <2> QED BY <1>0, PlaceExists DEF RightPlace
<1>2. r = [o EXCEPT !.susp[l] = LinkAt(o.susp[l], place, t)]
  BY DEF rt_ipc_list_suspend
<1> HIDE DEF o, place
<1>3. o \in KernelState /\ o.susp = k.susp
  BY ThreadSuspendProps DEF SuspendedFrom, o
<1>4. r.susp[l] = LinkAt(s, place, t)
  BY <1>2, <1>3 DEF KernelState
<1> QED BY <1>1, <1>4 DEF Placed

(* rt_thread_yield moves the running thread to the end of its ready list;    *)
(* the threads, their states and the suspend lists stay.                     *)
LEMMA YieldProps ==
  ASSUME NEW k \in KernelState, KernelOK(k),
         NEW r, r = rt_thread_yield(k)
  PROVE  /\ r \in KernelState
         /\ KernelOK(r)
         /\ r.stat = k.stat /\ r.error = k.error /\ r.timer = k.timer /\ r.susp = k.susp
         /\ r.current_priority = k.current_priority
         /\ r.lock_nest = k.lock_nest /\ r.interrupt_nest = k.interrupt_nest
         /\ k.lock_nest = 0 => r.current = k.current \/ Outranks(r, r.current)
<1> DEFINE t == k.current
           p == k.current_priority[t]
           s == k.table[p]
           w == Append(Unlink(s, t), t)
           a == [k EXCEPT !.table[p] = w]
<1>1. CASE k.stat[t] = "READY" /\ Len(s) > 1
  <2>0. /\ t \in Thread /\ p \in Priority /\ s \in Seq(Thread) /\ Distinct(s) /\ On(s, t)
    BY <1>1 DEF KernelState, KernelOK, ReadyListed
  <2>1. r = rt_schedule(a)
    BY <1>1 DEF rt_thread_yield
  <2> HIDE DEF t, p, s
  <2>2. /\ Unlink(s, t) \in Seq(Thread) /\ Distinct(Unlink(s, t))
        /\ \A u : On(Unlink(s, t), u) <=> On(s, u) /\ u # t
    BY <2>0, UnlinkProps
  <2>3. /\ w \in Seq(Thread) /\ w # <<>> /\ Distinct(w)
        /\ \A u : On(w, u) <=> On(s, u)
    <3> HIDE DEF w
    <3>1. /\ w \in Seq(Thread) /\ w # <<>> /\ Distinct(w)
          /\ \A u : On(w, u) <=> On(Unlink(s, t), u) \/ u = t
      BY <2>0, <2>2, AppendOn DEF w
    <3> QED BY <2>0, <2>2, <3>1
  <2>4. s # <<>>
    BY <2>0, EmptyOn
  <2> HIDE DEF w
  <2> DEFINE tb == [k.table EXCEPT ![p] = w]
  <2>5. /\ tb \in [Priority -> Seq(Thread)] /\ tb[p] = w
        /\ \A q \in Priority : q # p => tb[q] = k.table[q]
    BY <2>0, <2>3 DEF KernelState
  <2> HIDE DEF tb
  <2>6. a = [k EXCEPT !.table = tb]
    BY DEF KernelState, tb
  <2> HIDE DEF a
  <2>7. a \in KernelState
    BY <2>5, <2>6 DEF KernelState
  <2>8. /\ a.stat = k.stat /\ a.current_priority = k.current_priority /\ a.table = tb
        /\ a.number_mask = k.number_mask /\ a.group = k.group /\ a.susp = k.susp
        /\ a.defunct = k.defunct /\ a.timer = k.timer /\ a.error = k.error
        /\ a.lock_nest = k.lock_nest /\ a.interrupt_nest = k.interrupt_nest
    BY <2>6 DEF KernelState
  <2>9. \A q \in Priority :
          /\ Distinct(tb[q]) /\ (tb[q] # <<>> <=> k.table[q] # <<>>)
          /\ \A u \in Thread : On(tb[q], u) <=> On(k.table[q], u)
    BY <2>3, <2>4, <2>5 DEF KernelOK, ReadyListed, s
  <2>10. ReadyListed(a) /\ GroupExact(a)
    BY <2>8, <2>9 DEF KernelOK, ReadyListed, GroupExact
  <2>11. WaitersSuspended(a) /\ TimersOfSuspended(a) /\ MaskExact(a) /\ IdleReady(a)
    <3>1. WaitersSuspended(a)
      BY <2>8 DEF KernelOK, WaitersSuspended
    <3>2. TimersOfSuspended(a)
      BY <2>8 DEF KernelOK, TimersOfSuspended
    <3>3. MaskExact(a) /\ IdleReady(a)
      BY <2>8 DEF KernelOK, MaskExact, IdleReady
    <3> QED BY <3>1, <3>2, <3>3
  <2>12. /\ r \in KernelState /\ KernelOK(r) /\ SameButCurrent(r, a)
         /\ a.lock_nest = 0 => Outranks(r, r.current)
    BY <2>1, <2>7, <2>10, <2>11, ScheduleProps DEF KernelOK
  <2> QED BY <2>8, <2>12 DEF SameButCurrent, SameLists
<1>2. CASE ~ (k.stat[t] = "READY" /\ Len(s) > 1)
  <2>1. r = k
    BY <1>2 DEF rt_thread_yield
  <2> QED BY <2>1
<1> QED BY <1>1, <1>2

Ticked(r, k) ==
  /\ r.stat = k.stat /\ r.error = k.error /\ r.susp = k.susp
  /\ \A t \in Thread : r.timer[t] = Off <=> k.timer[t] = Off
  /\ r.current_priority = k.current_priority
  /\ r.lock_nest = k.lock_nest /\ r.interrupt_nest = k.interrupt_nest
  /\ k.lock_nest = 0 => r.current = k.current \/ Outranks(r, r.current)

(* rt_tick_increase keeps the kernel consistent: no timer is lost, no thread *)
(* changes its state, and a thread it switches to outranks the READY ones.    *)
LEMMA TickProps ==
  ASSUME NEW k \in KernelState, KernelOK(k),
         NEW r, r = rt_tick_increase(k)
  PROVE  r \in KernelState /\ KernelOK(r) /\ Ticked(r, k)
<1> DEFINE t == k.current
           left == k.remaining_tick[t] - 1
           aged == TickAge(k)
           a == [aged EXCEPT !.remaining_tick[t] = InitTick[t]]
           b == [aged EXCEPT !.remaining_tick[t] = left]
           tm == [u \in Thread |-> IF k.timer[u] > 0 THEN k.timer[u] - 1 ELSE k.timer[u]]
<1>0. /\ k.timer \in [Thread -> Nat \cup {Off}] /\ k.remaining_tick \in [Thread -> Int]
      /\ t \in Thread /\ InitTick[t] \in Int
  BY KernelAssumption DEF KernelState
<1>1. /\ tm \in [Thread -> Nat \cup {Off}]
      /\ \A u \in Thread : tm[u] = Off <=> k.timer[u] = Off
  BY <1>0 DEF Off
<1> HIDE DEF tm, t
<1>2. aged = [k EXCEPT !.timer = tm]
  BY DEF TickAge, tm
<1>3. ASSUME NEW n \in Int, NEW x, x = [aged EXCEPT !.remaining_tick[t] = n]
      PROVE  /\ x \in KernelState /\ KernelOK(x)
             /\ x.stat = k.stat /\ x.error = k.error /\ x.susp = k.susp /\ x.timer = tm
             /\ x.current_priority = k.current_priority /\ x.current = k.current
             /\ x.lock_nest = k.lock_nest /\ x.interrupt_nest = k.interrupt_nest
  <2> DEFINE rt == [k.remaining_tick EXCEPT ![t] = n]
  <2>1. rt \in [Thread -> Int]
    BY <1>0, <1>3
  <2> HIDE DEF aged
  <2>2. x = [k EXCEPT !.timer = tm, !.remaining_tick = rt]
    BY <1>2, <1>3 DEF KernelState
  <2> HIDE DEF rt
  <2>3. x \in KernelState
    BY <1>1, <2>1, <2>2 DEF KernelState
  <2>4. /\ SameLists(x, k) /\ x.timer = tm /\ x.error = k.error /\ x.current = k.current
        /\ x.lock_nest = k.lock_nest /\ x.interrupt_nest = k.interrupt_nest
    BY <2>2 DEF KernelState, SameLists
  <2>5. KernelOK(x)
    BY <1>1, <2>4, SameListsOK DEF KernelOK, TimersOfSuspended
  <2> QED BY <2>3, <2>4, <2>5 DEF SameLists
<1>4. CASE left = 0
  <2>1. r = rt_thread_yield(a)
    BY <1>4 DEF rt_tick_increase, t
  <2> DEFINE it == InitTick[t]
  <2>2. /\ a \in KernelState /\ KernelOK(a)
        /\ a.stat = k.stat /\ a.error = k.error /\ a.susp = k.susp /\ a.timer = tm
        /\ a.current_priority = k.current_priority /\ a.current = k.current
        /\ a.lock_nest = k.lock_nest /\ a.interrupt_nest = k.interrupt_nest
    BY <1>0, <1>3
  <2> HIDE DEF a
  <2>3. /\ r \in KernelState /\ KernelOK(r)
        /\ r.stat = a.stat /\ r.error = a.error /\ r.timer = a.timer /\ r.susp = a.susp
        /\ r.current_priority = a.current_priority
        /\ r.lock_nest = a.lock_nest /\ r.interrupt_nest = a.interrupt_nest
        /\ a.lock_nest = 0 => r.current = a.current \/ Outranks(r, r.current)
    BY <2>1, <2>2, YieldProps
  <2> QED BY <1>1, <2>2, <2>3 DEF Ticked
<1>5. CASE left # 0
  <2>1. r = b
    BY <1>5 DEF rt_tick_increase, t
  <2>2. left \in Int
    BY <1>0
  <2>3. /\ b \in KernelState /\ KernelOK(b)
        /\ b.stat = k.stat /\ b.error = k.error /\ b.susp = k.susp /\ b.timer = tm
        /\ b.current_priority = k.current_priority /\ b.current = k.current
        /\ b.lock_nest = k.lock_nest /\ b.interrupt_nest = k.interrupt_nest
    BY <1>3, <2>2
  <2> HIDE DEF b
  <2> QED BY <1>1, <2>1, <2>3 DEF Ticked
<1> QED BY <1>4, <1>5 DEF Ticked

Reprioritised(x, s, t, p) ==
  /\ x.current_priority = [s.current_priority EXCEPT ![t] = p]
  /\ x.number_mask = [s.number_mask EXCEPT ![t] = {p}]
  /\ x.current_priority[t] = p /\ x.number_mask[t] = {p}
  /\ \A u \in Thread : u # t => x.current_priority[u] = s.current_priority[u]
  /\ \A u \in Thread : u # t => x.number_mask[u] = s.number_mask[u]
  /\ x.stat = s.stat /\ x.error = s.error /\ x.timer = s.timer /\ x.susp = s.susp
  /\ x.table = s.table /\ x.group = s.group /\ x.defunct = s.defunct
  /\ x.current = s.current
  /\ x.lock_nest = s.lock_nest /\ x.interrupt_nest = s.interrupt_nest

LEMMA SetPriorityProps ==
  ASSUME NEW s \in KernelState, NEW t \in Thread, NEW p \in Priority,
         NEW x, x = set_priority(s, t, p)
  PROVE  x \in KernelState /\ Reprioritised(x, s, t, p)
<1> DEFINE cp == [s.current_priority EXCEPT ![t] = p]
           nm == [s.number_mask EXCEPT ![t] = {p}]
<1>1. /\ s.current_priority \in [Thread -> Priority]
      /\ s.number_mask \in [Thread -> SUBSET Priority]
  BY DEF KernelState
<1>2. cp \in [Thread -> Priority] /\ nm \in [Thread -> SUBSET Priority]
  BY <1>1
<1>3. x = [s EXCEPT !.current_priority = cp, !.number_mask = nm]
  BY DEF KernelState, set_priority
<1>4. /\ cp[t] = p /\ nm[t] = {p}
      /\ \A u \in Thread : u # t => cp[u] = s.current_priority[u]
      /\ \A u \in Thread : u # t => nm[u] = s.number_mask[u]
  BY <1>1
<1> HIDE DEF cp, nm
<1>5. /\ x \in KernelState /\ x.current_priority = cp /\ x.number_mask = nm
      /\ x.stat = s.stat /\ x.error = s.error /\ x.timer = s.timer /\ x.susp = s.susp
      /\ x.table = s.table /\ x.group = s.group /\ x.defunct = s.defunct
      /\ x.current = s.current
      /\ x.lock_nest = s.lock_nest /\ x.interrupt_nest = s.interrupt_nest
  BY <1>2, <1>3 DEF KernelState
<1> QED BY <1>4, <1>5 DEF cp, nm, Reprioritised

PriorityChanged(r, k, t, p) ==
  /\ r.stat = k.stat /\ r.error = k.error /\ r.timer = k.timer /\ r.susp = k.susp
  /\ r.current_priority = [k.current_priority EXCEPT ![t] = p]
  /\ r.current = k.current
  /\ r.lock_nest = k.lock_nest /\ r.interrupt_nest = k.interrupt_nest

(* RT_THREAD_CTRL_CHANGE_PRIORITY moves a READY thread to the ready list of  *)
(* its new priority; any other thread keeps its place in its list.           *)
LEMMA ChangePriorityProps ==
  ASSUME NEW k \in KernelState, KernelOK(k), NEW t \in Thread, NEW p \in Priority,
         NEW r, r = change_priority(k, t, p)
  PROVE  r \in KernelState /\ KernelOK(r) /\ PriorityChanged(r, k, t, p)
<1>1. CASE k.stat[t] = "READY"
  <2> DEFINE c == rt_schedule_remove_thread(k, t)
             x == set_priority(c, t, p)
  <2>1. r = rt_schedule_insert_thread(x, t)
    BY <1>1 DEF change_priority
  <2>2. /\ c \in KernelState /\ Loose(c, t) /\ GroupExact(c) /\ Frame(c, k)
        /\ c.stat = k.stat /\ c.error = k.error /\ c.timer = k.timer /\ c.susp = k.susp
    BY <1>1, RemoveProps
  <2> HIDE DEF c
  <2>3. /\ x \in KernelState
        /\ x.current_priority = [c.current_priority EXCEPT ![t] = p]
        /\ x.current_priority[t] = p /\ x.number_mask[t] = {p}
        /\ \A u \in Thread : u # t => x.current_priority[u] = c.current_priority[u]
        /\ \A u \in Thread : u # t => x.number_mask[u] = c.number_mask[u]
        /\ x.stat = c.stat /\ x.error = c.error /\ x.timer = c.timer /\ x.susp = c.susp
        /\ x.table = c.table /\ x.group = c.group /\ x.defunct = c.defunct
        /\ x.current = c.current
        /\ x.lock_nest = c.lock_nest /\ x.interrupt_nest = c.interrupt_nest
    <3>1. x \in KernelState /\ Reprioritised(x, c, t, p)
      BY <2>2, SetPriorityProps
    <3> QED BY <3>1 DEF Reprioritised
  <2> HIDE DEF x
  <2>4. Loose(x, t)
    <3>1. ASSUME NEW q \in Priority
          PROVE  /\ Distinct(x.table[q])
                 /\ \A u \in Thread : On(x.table[q], u) <=>
                      u # t /\ x.stat[u] = "READY" /\ x.current_priority[u] = q
      BY <2>2, <2>3 DEF Loose
    <3> QED BY <2>2, <2>3, <3>1 DEF Loose
  <2>5. /\ x.number_mask[t] = {x.current_priority[t]}
        /\ \A q \in Priority :
             q # x.current_priority[t] => (q \in x.group <=> x.table[q] # <<>>)
    BY <2>2, <2>3 DEF GroupExact
  <2>6. k.timer[t] = Off
    BY <1>1 DEF KernelOK, TimersOfSuspended
  <2>7. /\ x.timer[t] = Off
        /\ \A u \in Thread : u # t /\ x.timer[u] # Off => x.stat[u] = "SUSPEND"
        /\ \A u \in Thread : u # t /\ x.stat[u] \in {"READY", "SUSPEND"} =>
             x.number_mask[u] = {x.current_priority[u]}
        /\ t = idle \/ x.stat[idle] = "READY"
    <3>1. /\ x.timer[t] = Off
          /\ \A u \in Thread : u # t /\ x.timer[u] # Off => x.stat[u] = "SUSPEND"
      BY <2>2, <2>3, <2>6 DEF KernelOK, TimersOfSuspended
    <3>2. ASSUME NEW u \in Thread, u # t, x.stat[u] \in {"READY", "SUSPEND"}
          PROVE  x.number_mask[u] = {x.current_priority[u]}
      BY <2>2, <2>3, <3>2 DEF KernelOK, MaskExact, Frame
    <3>3. x.stat[idle] = "READY"
      BY <2>2, <2>3 DEF KernelOK, IdleReady
    <3> QED BY <3>1, <3>2, <3>3
  <2>8. /\ r \in KernelState
        /\ KernelOK(r)
        /\ Frame(r, x)
        /\ r.stat = [x.stat EXCEPT ![t] = "READY"]
        /\ r.error = x.error /\ r.timer = x.timer /\ r.susp = x.susp
    <3>1. Insertable(x, t)
      BY <2>4, <2>5, <2>7 DEF Insertable
    <3> QED BY <2>1, <2>3, <3>1, InsertProps
  <2>9. [k.stat EXCEPT ![t] = "READY"] = k.stat
    BY <1>1 DEF KernelState
  <2> QED BY <2>2, <2>3, <2>8, <2>9 DEF Frame, PriorityChanged
<1>2. CASE k.stat[t] # "READY"
  <2>1. r = set_priority(k, t, p)
    BY <1>2 DEF change_priority
  <2>2. /\ r \in KernelState
        /\ r.current_priority = [k.current_priority EXCEPT ![t] = p]
        /\ r.current_priority[t] = p /\ r.number_mask[t] = {p}
        /\ \A u \in Thread : u # t => r.current_priority[u] = k.current_priority[u]
        /\ \A u \in Thread : u # t => r.number_mask[u] = k.number_mask[u]
        /\ r.stat = k.stat /\ r.error = k.error /\ r.timer = k.timer /\ r.susp = k.susp
        /\ r.table = k.table /\ r.group = k.group /\ r.defunct = k.defunct
        /\ r.current = k.current
        /\ r.lock_nest = k.lock_nest /\ r.interrupt_nest = k.interrupt_nest
    <3>1. r \in KernelState /\ Reprioritised(r, k, t, p)
      BY <2>1, SetPriorityProps
    <3> QED BY <3>1 DEF Reprioritised
  <2>3. ReadyListed(r)
    <3>1. ASSUME NEW q \in Priority, NEW u \in Thread
          PROVE  On(r.table[q], u) <=> r.stat[u] = "READY" /\ r.current_priority[u] = q
      BY <1>2, <2>2 DEF KernelOK, ReadyListed
    <3> QED BY <2>2, <3>1 DEF KernelOK, ReadyListed
  <2>4. GroupExact(r) /\ WaitersSuspended(r) /\ TimersOfSuspended(r) /\ IdleReady(r)
    <3>1. WaitersSuspended(r)
      BY <2>2 DEF KernelOK, WaitersSuspended
    <3>2. GroupExact(r) /\ TimersOfSuspended(r) /\ IdleReady(r)
      BY <2>2 DEF KernelOK, GroupExact, TimersOfSuspended, IdleReady
    <3> QED BY <3>1, <3>2
  <2>5. MaskExact(r)
    BY <2>2 DEF KernelOK, MaskExact
  <2> QED BY <2>2, <2>3, <2>4, <2>5 DEF KernelOK, PriorityChanged
<1> QED BY <1>1, <1>2 DEF PriorityChanged

ErrorSet(r, k, t, e) ==
  /\ Frame(r, k)
  /\ r.stat = k.stat /\ r.timer = k.timer /\ r.susp = k.susp
  /\ r.error = [k.error EXCEPT ![t] = e]

(* Setting the error of a thread changes nothing else. *)
LEMMA SetErrorProps ==
  ASSUME NEW k \in KernelState, KernelOK(k), NEW t \in Thread, NEW e \in Error,
         NEW r, r = [k EXCEPT !.error[t] = e]
  PROVE  r \in KernelState /\ KernelOK(r) /\ ErrorSet(r, k, t, e)
<1> DEFINE er == [k.error EXCEPT ![t] = e]
<1>1. er \in [Thread -> Error]
  BY DEF KernelState
<1>2. r = [k EXCEPT !.error = er]
  BY DEF KernelState
<1> HIDE DEF er
<1>3. r \in KernelState /\ r.error = er
  BY <1>1, <1>2 DEF KernelState
<1>4. SameLists(r, k) /\ Frame(r, k) /\ r.timer = k.timer
  BY <1>2 DEF KernelState, SameLists, Frame
<1>5. KernelOK(r)
  <2>1. \A u \in Thread : r.timer[u] # Off => k.stat[u] = "SUSPEND"
    BY <1>4 DEF KernelOK, TimersOfSuspended
  <2> QED BY <1>4, <2>1, SameListsOK
<1> QED BY <1>3, <1>4, <1>5 DEF SameLists, er, ErrorSet

TimerStarted(r, k, t, n) ==
  /\ Frame(r, k)
  /\ r.stat = k.stat /\ r.error = k.error /\ r.susp = k.susp
  /\ r.timer = [k.timer EXCEPT ![t] = n]

(* Starting the timer of a SUSPENDed thread changes nothing else. *)
LEMMA TimerStartProps ==
  ASSUME NEW k \in KernelState, KernelOK(k), NEW t \in Thread, NEW n \in Nat,
         Is(k, t, "SUSPEND"),
         NEW r, r = rt_timer_start(k, t, n)
  PROVE  r \in KernelState /\ KernelOK(r) /\ TimerStarted(r, k, t, n)
<1> k.stat[t] = "SUSPEND"
  BY DEF Is
<1> DEFINE tm == [k.timer EXCEPT ![t] = n]
<1>0. k.timer \in [Thread -> Nat \cup {Off}]
  BY DEF KernelState
<1>1. /\ tm \in [Thread -> Nat \cup {Off}]
      /\ \A u \in Thread : tm[u] # Off => u = t \/ k.timer[u] # Off
  BY <1>0
<1>2. r = [k EXCEPT !.timer = tm]
  BY DEF KernelState, rt_timer_start
<1> HIDE DEF tm
<1>3. r \in KernelState /\ r.timer = tm
  BY <1>1, <1>2 DEF KernelState
<1>4. SameLists(r, k) /\ Frame(r, k) /\ r.error = k.error
  BY <1>2 DEF KernelState, SameLists, Frame
<1>5. KernelOK(r)
  <2>1. \A u \in Thread : r.timer[u] # Off => k.stat[u] = "SUSPEND"
    BY <1>1, <1>3 DEF KernelOK, TimersOfSuspended
  <2> QED BY <1>4, <2>1, SameListsOK
<1> QED BY <1>3, <1>4, <1>5 DEF SameLists, tm, TimerStarted

Nested(r, k, n) ==
  /\ r.stat = k.stat /\ r.error = k.error /\ r.timer = k.timer /\ r.susp = k.susp
  /\ r.current_priority = k.current_priority /\ r.current = k.current
  /\ r.lock_nest = k.lock_nest /\ r.interrupt_nest = n

(* Entering and leaving an interrupt handler only counts its nesting. *)
LEMMA NestProps ==
  ASSUME NEW k \in KernelState, KernelOK(k), NEW n \in Nat,
         NEW r, r = [k EXCEPT !.interrupt_nest = n]
  PROVE  r \in KernelState /\ KernelOK(r) /\ Nested(r, k, n)
<1>1. r \in KernelState /\ r.interrupt_nest = n
  BY DEF KernelState
<1>2. /\ SameLists(r, k) /\ r.timer = k.timer /\ r.error = k.error
      /\ r.current = k.current /\ r.lock_nest = k.lock_nest
  BY DEF KernelState, SameLists
<1>3. KernelOK(r)
  <2>1. \A u \in Thread : r.timer[u] # Off => k.stat[u] = "SUSPEND"
    BY <1>2 DEF KernelOK, TimersOfSuspended
  <2> QED BY <1>2, <2>1, SameListsOK
<1> QED BY <1>1, <1>2, <1>3 DEF SameLists, Nested

(* The first thread of a suspend list is a SUSPENDed thread. *)
LEMMA FirstWaiter ==
  ASSUME NEW k \in KernelState, KernelOK(k), NEW l \in WaitList, k.susp[l] # <<>>
  PROVE  /\ k.susp[l][1] \in Thread
         /\ On(k.susp[l], k.susp[l][1])
         /\ k.stat[k.susp[l][1]] = "SUSPEND"
<1>1. k.susp[l] \in Seq(Thread)
  BY DEF KernelState
<1>2. k.susp[l][1] \in Thread /\ On(k.susp[l], k.susp[l][1])
  BY <1>1 DEF On
<1> QED BY <1>2 DEF KernelOK, WaitersSuspended

(* rt_system_scheduler_start: the state the scheduler starts in. *)
LEMMA BootedProps ==
  /\ Booted \in KernelState
  /\ KernelOK(Booted)
  /\ Outranks(Booted, Booted.current)
  /\ Booted.interrupt_nest = 0 /\ Booted.lock_nest = 0
  /\ Booted.susp = [l \in WaitList |-> <<>>]
  /\ Booted.timer = [t \in Thread |-> Off]
  /\ Booted.current_priority = InitPriority
  /\ \A t \in Thread : Booted.stat[t] # "SUSPEND"
<1> DEFINE st == [t \in Thread |-> IF On(StartTable[InitPriority[t]], t)
                                   THEN "READY" ELSE "NONE"]
           k == [stat             |-> st,
                 current_priority |-> InitPriority,
                 number_mask      |-> [t \in Thread |-> {InitPriority[t]}],
                 error            |-> [t \in Thread |-> "EOK"],
                 remaining_tick   |-> InitTick,
                 timer            |-> [t \in Thread |-> Off],
                 table            |-> StartTable,
                 group            |-> {p \in Priority : StartTable[p] # <<>>},
                 susp             |-> [l \in WaitList |-> <<>>],
                 defunct          |-> <<>>,
                 current          |-> idle,
                 lock_nest        |-> 0,
                 interrupt_nest   |-> 0]
<1>1. Booted = rt_schedule(k)
  BY DEF Booted
<1>2. st \in [Thread -> Stat] /\ \A t \in Thread :
        st[t] = IF On(StartTable[InitPriority[t]], t) THEN "READY" ELSE "NONE"
  BY DEF Stat
<1> HIDE DEF st
<1>3. /\ k.stat = st /\ k.current_priority = InitPriority
      /\ k.number_mask = [t \in Thread |-> {InitPriority[t]}]
      /\ k.table = StartTable /\ k.group = {p \in Priority : StartTable[p] # <<>>}
      /\ k.susp = [l \in WaitList |-> <<>>] /\ k.defunct = <<>>
      /\ k.timer = [t \in Thread |-> Off]
      /\ k.lock_nest = 0 /\ k.interrupt_nest = 0
  OBVIOUS
<1>4. k \in KernelState
  <2>1. /\ InitPriority \in [Thread -> Priority] /\ idle \in Thread
        /\ [t \in Thread |-> {InitPriority[t]}] \in [Thread -> SUBSET Priority]
        /\ [t \in Thread |-> "EOK"] \in [Thread -> Error]
        /\ InitTick \in [Thread -> Int]
        /\ [t \in Thread |-> Off] \in [Thread -> Nat \cup {Off}]
        /\ StartTable \in [Priority -> Seq(Thread)]
        /\ [l \in WaitList |-> <<>>] \in [WaitList -> Seq(Thread)]
        /\ <<>> \in Seq(Thread)
    BY KernelAssumption, StartAssumption DEF Error
  <2> QED BY <1>2, <2>1 DEF KernelState
<1> HIDE DEF k
<1>5. ReadyListed(k)
  <2>1. \A p \in Priority : Distinct(StartTable[p])
    BY StartAssumption DEF Distinct
  <2>2. ASSUME NEW p \in Priority, NEW t \in Thread
        PROVE  On(StartTable[p], t) <=> st[t] = "READY" /\ InitPriority[t] = p
    BY <1>2, StartAssumption DEF On
  <2> QED BY <1>3, <2>1, <2>2 DEF ReadyListed
<1>6. GroupExact(k)
  BY <1>3 DEF GroupExact
<1>7. WaitersSuspended(k)
  BY <1>3 DEF WaitersSuspended, On, Distinct
<1>8. TimersOfSuspended(k) /\ MaskExact(k)
  BY <1>3 DEF TimersOfSuspended, MaskExact
<1>9. IdleReady(k)
  BY <1>2, <1>3, KernelAssumption, StartAssumption DEF IdleReady, On
<1>10. /\ Booted \in KernelState /\ KernelOK(Booted) /\ SameButCurrent(Booted, k)
       /\ Outranks(Booted, Booted.current)
  BY <1>1, <1>3, <1>4, <1>5, <1>6, <1>7, <1>8, <1>9, ScheduleProps DEF KernelOK
<1> QED BY <1>2, <1>3, <1>10 DEF SameButCurrent, SameLists
=============================================================================
