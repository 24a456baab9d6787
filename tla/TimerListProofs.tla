--------------------------- MODULE TimerListProofs ---------------------------
(***************************************************************************)
(* The ticks and the sorted list of timer.c, one function at a time:       *)
(* wrapped ticks compare as if they did not wrap, and removing, inserting  *)
(* and restarting a timer keep the list right.                             *)
(***************************************************************************)
EXTENDS Timer, WellFoundedInduction, TLAPS

(* The most ticks that can be left of a timer *)
Longest == Half - MaxLate - 1

(* The wrapped tick a is the tick tk plus n. *)
Wraps(a, tk, n) == a \in {tk + n - TICK_MOD, tk + n, tk + n + TICK_MOD}

(* Timer t times out before u, or with it and was inserted before it. *)
Earlier(lf, bf) ==
  {p \in Timer \X Timer : lf[p[1]] < lf[p[2]] \/ (lf[p[1]] = lf[p[2]] /\ p \in bf)}

Chain(s, R) == \A i, j \in 1 .. Len(s) : i < j => <<s[i], s[j]>> \in R

(* The list is right for the ticks left, lf, and the order of insertion, bf. *)
Good(ww, tk, lf, bf) ==
  /\ ww \in World
  /\ Distinct(ww.list)
  /\ \A t \in Timer : Listed(ww, t) =>
       Wraps(ww.timeout_tick[t], tk, lf[t]) /\ lf[t] \in - MaxLate - 1 .. Longest
  /\ Chain(ww.list, Earlier(lf, bf))

-----------------------------------------------------------------------------
(* Ticks *)

LEMMA Halves ==
  /\ TICK_MOD \in Nat \ {0} /\ Half \in Nat /\ MaxLate \in Nat /\ Longest \in Nat
  /\ Half + Half < TICK_MOD /\ MaxLate + 1 < Half /\ Longest + MaxLate + 1 = Half
  /\ \A n \in Ticks : n \in 0 .. Longest
<1>1. TICK_MOD \in Nat \ {0} /\ MaxLate \in Nat /\ 1 + MaxLate < (TICK_MOD - 1) \div 2
      /\ \A n \in Ticks : n \in Nat /\ n + MaxLate < (TICK_MOD - 1) \div 2
  BY TimerAssumption DEF Half, RT_TICK_MAX
<1>2. PICK h : h = (TICK_MOD - 1) \div 2
  OBVIOUS
<1>3. h \in Nat /\ h + h < TICK_MOD
  BY <1>1, <1>2
<1> QED BY <1>1, <1>2, <1>3 DEF Half, RT_TICK_MAX, Longest

LEMMA ModSmall == ASSUME NEW x \in 0 .. TICK_MOD - 1 PROVE x % TICK_MOD = x
BY Halves

LEMMA ModNegative ==
  ASSUME NEW x \in Int, - TICK_MOD <= x, x < 0
  PROVE  x % TICK_MOD = x + TICK_MOD
BY Halves

LEMMA ModAbove ==
  ASSUME NEW x \in Int, TICK_MOD <= x, x < TICK_MOD + TICK_MOD
  PROVE  x % TICK_MOD = x - TICK_MOD
BY Halves

(* The difference of two wrapped ticks, in rt_tick_t *)
LEMMA MinusProps ==
  ASSUME NEW tk \in 0 .. TICK_MOD - 1, NEW m \in Int, NEW n \in Int,
         NEW a \in 0 .. TICK_MOD - 1, Wraps(a, tk, m),
         NEW b \in 0 .. TICK_MOD - 1, Wraps(b, tk, n),
         m - n < TICK_MOD, n - m < TICK_MOD
  PROVE  Minus(a, b) = IF m >= n THEN m - n ELSE m - n + TICK_MOD
<1> TICK_MOD \in Nat \ {0}
  BY Halves
<1>1. a - b \in Int /\ a - b < TICK_MOD /\ - TICK_MOD < a - b
  OBVIOUS
<1>2. a - b \in {m - n - TICK_MOD, m - n, m - n + TICK_MOD}
  BY <1>1 DEF Wraps
<1>3. CASE a >= b
  <2>1. Minus(a, b) = a - b
    BY <1>1, <1>3, ModSmall DEF Minus
  <2> QED BY <1>1, <1>2, <1>3, <2>1
<1>4. CASE a < b
  <2>1. Minus(a, b) = a - b + TICK_MOD
    BY <1>1, <1>4, ModNegative DEF Minus
  <2> QED BY <1>1, <1>2, <1>4, <2>1
<1> QED BY <1>1, <1>3, <1>4

(* rt_timer_start compares two timers as if ticks did not wrap... *)
LEMMA LaterProps ==
  ASSUME NEW tk \in 0 .. TICK_MOD - 1,
         NEW m \in - MaxLate - 1 .. Longest, NEW n \in - MaxLate .. Longest,
         NEW a \in 0 .. TICK_MOD - 1, Wraps(a, tk, m),
         NEW b \in 0 .. TICK_MOD - 1, Wraps(b, tk, n)
  PROVE  (Minus(a, b) # 0 /\ Minus(a, b) < Half) <=> n < m
<1>1. m - n < Half /\ n - m <= Half
  BY Halves
<1>2. Minus(a, b) = IF m >= n THEN m - n ELSE m - n + TICK_MOD
  BY <1>1, Halves, MinusProps
<1> QED BY <1>1, <1>2, Halves

(* ... and so does rt_timer_check with the tick itself. *)
LEMMA OverdueProps ==
  ASSUME NEW tk \in 0 .. TICK_MOD - 1, NEW n \in - MaxLate - 1 .. Longest,
         NEW b \in 0 .. TICK_MOD - 1, Wraps(b, tk, n)
  PROVE  Minus(tk, b) < Half <=> n <= 0
<1>1. Wraps(tk, tk, 0) /\ 0 - n < TICK_MOD /\ n - 0 < TICK_MOD
  BY Halves DEF Wraps
<1>2. Minus(tk, b) = IF 0 >= n THEN 0 - n ELSE 0 - n + TICK_MOD
  BY <1>1, Halves, MinusProps
<1> QED BY <1>2, Halves

(* rt_timer_start computes timeout_tick. *)
LEMMA ArmWraps ==
  ASSUME NEW tk \in 0 .. TICK_MOD - 1, NEW n \in Ticks
  PROVE  /\ (tk + n) % TICK_MOD \in 0 .. TICK_MOD - 1
         /\ Wraps((tk + n) % TICK_MOD, tk, n)
<1>1. n \in 0 .. Longest
  BY Halves
<1>2. CASE tk + n < TICK_MOD
  BY <1>1, <1>2, Halves, ModSmall DEF Wraps
<1>3. CASE tk + n >= TICK_MOD
  BY <1>1, <1>3, Halves, ModAbove DEF Wraps
<1> QED BY <1>1, <1>2, <1>3, Halves

(* A tick passes. *)
LEMMA TickWraps ==
  ASSUME NEW tk \in 0 .. TICK_MOD - 1, NEW n \in - MaxLate .. Longest,
         NEW a \in 0 .. TICK_MOD - 1, Wraps(a, tk, n)
  PROVE  /\ (tk + 1) % TICK_MOD \in 0 .. TICK_MOD - 1
         /\ Wraps(a, (tk + 1) % TICK_MOD, n - 1)
<1>1. CASE tk + 1 < TICK_MOD
  <2>1. (tk + 1) % TICK_MOD = tk + 1
    BY <1>1, Halves, ModSmall
  <2> QED BY <1>1, <2>1, Halves DEF Wraps
<1>2. CASE tk + 1 = TICK_MOD
  <2>1. (tk + 1) % TICK_MOD = 0
    BY <1>2, Halves, ModAbove
  <2> QED BY <1>2, <2>1, Halves DEF Wraps
<1> QED BY <1>1, <1>2, Halves

-----------------------------------------------------------------------------
(* Lists in an order *)

LEMMA LeastExists ==
  ASSUME NEW S \in SUBSET Nat, S # {}
  PROVE  \E m \in S : \A n \in S : m <= n
<1>1. PICK m \in S : \A n \in S : ~ (<<n, m>> \in OpToRel(<, Nat))
  BY WFMin, NatLessThanWellFounded
<1>2. \A n \in S : ~ (n < m)
  BY <1>1 DEF OpToRel
<1> QED BY <1>2

LEMMA CutProps ==
  ASSUME NEW s \in Seq(Timer), Distinct(s), NEW R, Chain(s, R), NEW n \in 1 .. Len(s)
  PROVE  /\ CutAt(s, n) \in Seq(Timer) /\ Distinct(CutAt(s, n)) /\ Chain(CutAt(s, n), R)
         /\ \A u : On(CutAt(s, n), u) <=> On(s, u) /\ u # s[n]
<1> DEFINE r == CutAt(s, n)
           at(i) == IF i < n THEN i ELSE i + 1
<1>1. r \in Seq(Timer) /\ Len(r) = Len(s) - 1
  BY DEF CutAt
<1>2. \A i \in 1 .. Len(r) : at(i) \in 1 .. Len(s) /\ at(i) # n /\ r[i] = s[at(i)]
  BY <1>1 DEF CutAt
<1>3. \A i, j \in 1 .. Len(r) : (i < j => at(i) < at(j)) /\ (at(i) = at(j) => i = j)
  BY <1>1
<1>4. \A j \in 1 .. Len(s) : j # n => \E i \in 1 .. Len(r) : at(i) = j
  <2> TAKE j \in 1 .. Len(s)
  <2> HAVE j # n
  <2>1. CASE j < n
    <3>1. j \in 1 .. Len(r) /\ at(j) = j
      BY <1>1, <2>1
    <3> QED BY <3>1
  <2>2. CASE j > n
    <3>1. j - 1 \in 1 .. Len(r) /\ at(j - 1) = j
      BY <1>1, <2>2
    <3> QED BY <3>1
  <2> QED BY <2>1, <2>2
<1> HIDE DEF r, at
<1>5. Distinct(r)
  BY <1>2, <1>3 DEF Distinct
<1>6. Chain(r, R)
  BY <1>2, <1>3 DEF Chain
<1>7. \A u : On(r, u) <=> On(s, u) /\ u # s[n]
  <2> TAKE u
  <2>1. On(r, u) => On(s, u) /\ u # s[n]
    BY <1>2 DEF On, Distinct
  <2>2. On(s, u) /\ u # s[n] => On(r, u)
    BY <1>2, <1>4 DEF On
  <2> QED BY <2>1, <2>2
<1> QED BY <1>1, <1>5, <1>6, <1>7 DEF r

LEMMA UnlinkProps ==
  ASSUME NEW s \in Seq(Timer), Distinct(s), NEW R, Chain(s, R), NEW t
  PROVE  /\ Unlink(s, t) \in Seq(Timer) /\ Distinct(Unlink(s, t)) /\ Chain(Unlink(s, t), R)
         /\ \A u : On(Unlink(s, t), u) <=> On(s, u) /\ u # t
<1>1. CASE On(s, t)
  <2> DEFINE i == CHOOSE j \in 1 .. Len(s) : s[j] = t
  <2>1. i \in 1 .. Len(s) /\ s[i] = t /\ Unlink(s, t) = CutAt(s, i)
    BY <1>1 DEF On, Unlink
  <2> HIDE DEF i
  <2> QED BY <2>1, CutProps
<1>2. CASE ~ On(s, t)
  BY <1>2 DEF Unlink
<1> QED BY <1>1, <1>2

LEMMA LinkProps ==
  ASSUME NEW s \in Seq(Timer), Distinct(s), NEW R, Chain(s, R), NEW t \in Timer, ~ On(s, t),
         NEW n \in 1 .. Len(s) + 1,
         \A j \in 1 .. Len(s) : (j < n => <<s[j], t>> \in R) /\ (j >= n => <<t, s[j]>> \in R)
  PROVE  /\ LinkAt(s, n, t) \in Seq(Timer) /\ Distinct(LinkAt(s, n, t))
         /\ Chain(LinkAt(s, n, t), R)
         /\ \A u : On(LinkAt(s, n, t), u) <=> On(s, u) \/ u = t
<1> DEFINE r == LinkAt(s, n, t)
           at(i) == IF i < n THEN i ELSE i - 1
<1>1. r \in Seq(Timer) /\ Len(r) = Len(s) + 1 /\ n \in 1 .. Len(r) /\ r[n] = t
  BY DEF LinkAt
<1>2. \A i \in 1 .. Len(r) : i # n => at(i) \in 1 .. Len(s) /\ r[i] = s[at(i)]
  BY <1>1 DEF LinkAt
<1>3. \A i, j \in 1 .. Len(r) : i # n /\ j # n =>
        (i < j => at(i) < at(j)) /\ (at(i) = at(j) => i = j)
  BY <1>1
<1>4. \A i \in 1 .. Len(r) : (i < n => at(i) < n) /\ (i > n => at(i) >= n)
  BY <1>1
<1>5. \A j \in 1 .. Len(s) : \E i \in 1 .. Len(r) : i # n /\ at(i) = j
  <2> TAKE j \in 1 .. Len(s)
  <2>1. CASE j < n
    <3>1. j \in 1 .. Len(r) /\ j # n /\ at(j) = j
      BY <1>1, <2>1
    <3> QED BY <3>1
  <2>2. CASE j >= n
    <3>1. j + 1 \in 1 .. Len(r) /\ j + 1 # n /\ at(j + 1) = j
      BY <1>1, <2>2
    <3> QED BY <3>1
  <2> QED BY <2>1, <2>2
<1> HIDE DEF r, at
<1>6. Distinct(r)
  BY <1>1, <1>2, <1>3 DEF Distinct, On
<1>7. Chain(r, R)
  <2> SUFFICES ASSUME NEW i \in 1 .. Len(r), NEW j \in 1 .. Len(r), i < j
               PROVE  <<r[i], r[j]>> \in R
    BY DEF Chain
  <2>1. CASE i # n /\ j # n
    BY <1>2, <1>3, <2>1 DEF Chain
  <2>2. CASE i = n
    <3>1. PICK a \in 1 .. Len(s) : a >= n /\ r[j] = s[a]
      BY <1>1, <1>2, <1>4, <2>2
    <3> QED BY <1>1, <2>2, <3>1
  <2>3. CASE j = n
    <3>1. PICK a \in 1 .. Len(s) : a < n /\ r[i] = s[a]
      BY <1>1, <1>2, <1>4, <2>3
    <3> QED BY <1>1, <2>3, <3>1
  <2> QED BY <2>1, <2>2, <2>3
<1>8. \A u : On(r, u) <=> On(s, u) \/ u = t
  <2> TAKE u
  <2>1. On(r, u) => On(s, u) \/ u = t
    BY <1>1, <1>2 DEF On
  <2>2. On(s, u) => On(r, u)
    BY <1>2, <1>5 DEF On
  <2>3. On(r, t)
    BY <1>1 DEF On
  <2> QED BY <2>1, <2>2, <2>3
<1> QED BY <1>1, <1>6, <1>7, <1>8 DEF r

-----------------------------------------------------------------------------
(* The functions of timer.c keep the list right. *)

(* All but the list is the same. *)
SameTimers(x, ww) ==
  /\ x.timeout_tick = ww.timeout_tick /\ x.init_tick = ww.init_tick
  /\ x.active = ww.active /\ x.periodic = ww.periodic

Agree(x, lg, ww, lf) ==
  \A u \in Timer : Listed(ww, u) =>
    x.timeout_tick[u] = ww.timeout_tick[u] /\ lg[u] = lf[u]

Keeps(bg, bf, ww) == \A p \in bf : Listed(ww, p[1]) /\ Listed(ww, p[2]) => p \in bg

(* Only what is said of the timers in the list matters. *)
LEMMA GoodSame ==
  ASSUME NEW ww, NEW tk, NEW lf, NEW bf, Good(ww, tk, lf, bf),
         NEW x \in World, x.list = ww.list, NEW lg, NEW bg,
         Agree(x, lg, ww, lf), Keeps(bg, bf, ww)
  PROVE  Good(x, tk, lg, bg)
<1> DEFINE s == ww.list
<1>1. s \in Seq(Timer) /\ \A i \in 1 .. Len(s) : s[i] \in Timer /\ Listed(ww, s[i])
  BY DEF Good, World, Listed, On
<1>2. \A u : Listed(x, u) <=> Listed(ww, u)
  BY DEF Listed
<1>3. \A t \in Timer : Listed(x, t) =>
        Wraps(x.timeout_tick[t], tk, lg[t]) /\ lg[t] \in - MaxLate - 1 .. Longest
  BY <1>2 DEF Good, Agree
<1>4. Chain(s, Earlier(lg, bg))
  <2> SUFFICES ASSUME NEW i \in 1 .. Len(s), NEW j \in 1 .. Len(s), i < j
               PROVE  <<s[i], s[j]>> \in Earlier(lg, bg)
    BY DEF Chain
  <2>1. <<s[i], s[j]>> \in Earlier(lf, bf)
    BY DEF Good, Chain
  <2>2. lg[s[i]] = lf[s[i]] /\ lg[s[j]] = lf[s[j]]
    BY <1>1 DEF Agree
  <2>3. <<s[i], s[j]>> \in bf => <<s[i], s[j]>> \in bg
    BY <1>1 DEF Keeps
  <2> QED BY <2>1, <2>2, <2>3 DEF Earlier
<1> QED BY <1>3, <1>4 DEF Good

LEMMA RemoveGood ==
  ASSUME NEW ww, NEW tk, NEW lf, NEW bf, Good(ww, tk, lf, bf), NEW t,
         NEW r, r = _rt_timer_remove(ww, t)
  PROVE  /\ Good(r, tk, lf, bf) /\ SameTimers(r, ww)
         /\ \A u : Listed(r, u) <=> Listed(ww, u) /\ u # t
<1> DEFINE s == Unlink(ww.list, t)
<1>1. /\ s \in Seq(Timer) /\ Distinct(s) /\ Chain(s, Earlier(lf, bf))
      /\ \A u : On(s, u) <=> On(ww.list, u) /\ u # t
  <2>1. ww.list \in Seq(Timer) /\ Distinct(ww.list) /\ Chain(ww.list, Earlier(lf, bf))
    BY DEF Good, World
  <2> QED BY <2>1, UnlinkProps
<1>2. r = [ww EXCEPT !.list = s] /\ ww \in World
  BY DEF _rt_timer_remove, Good
<1> HIDE DEF s
<1>3. r \in World /\ r.list = s /\ SameTimers(r, ww)
  BY <1>1, <1>2 DEF World, SameTimers
<1> QED BY <1>1, <1>3 DEF Good, Listed, SameTimers

(* rt_timer_start finds the place before the first timer that expires later. *)
LEMMA PlaceProps ==
  ASSUME NEW ww, NEW tk \in 0 .. TICK_MOD - 1, NEW lf, NEW bf, Good(ww, tk, lf, bf),
         NEW t \in Timer, lf[t] \in - MaxLate .. Longest,
         Wraps(ww.timeout_tick[t], tk, lf[t])
  PROVE  /\ Place(ww, t) \in 1 .. Len(ww.list) + 1
         /\ \A j \in 1 .. Len(ww.list) : j < Place(ww, t) => lf[ww.list[j]] <= lf[t]
         /\ Place(ww, t) <= Len(ww.list) => lf[t] < lf[ww.list[Place(ww, t)]]
<1> DEFINE s == ww.list
           diff(j) == Minus(ww.timeout_tick[s[j]], ww.timeout_tick[t])
           I == {i \in 1 .. Len(s) + 1 : i <= Len(s) => lf[t] < lf[s[i]]}
<1>1. /\ s \in Seq(Timer) /\ Len(s) \in Nat
      /\ \A u \in Timer : ww.timeout_tick[u] \in 0 .. TICK_MOD - 1
  BY DEF Good, World
<1>2. \A j \in 1 .. Len(s) : /\ lf[s[j]] \in - MaxLate - 1 .. Longest
                             /\ Wraps(ww.timeout_tick[s[j]], tk, lf[s[j]])
                             /\ s[j] \in Timer
  BY <1>1 DEF Good, Listed, On
<1>3. \A j \in 1 .. Len(s) : (diff(j) # 0 /\ diff(j) < Half) <=> lf[t] < lf[s[j]]
  BY <1>1, <1>2, LaterProps
<1>4. \A j \in 1 .. Len(s) : diff(j) \in Int
  <2>1. \A a, b \in 0 .. TICK_MOD - 1 : Minus(a, b) \in Int
    BY Halves DEF Minus
  <2> QED BY <1>1, <1>2, <2>1
<1>5. Len(s) + 1 \in I /\ I \in SUBSET Nat
  BY <1>1
<1>6. PICK m \in I : \A n \in I : m <= n
  <2> HIDE DEF I
  <2> QED BY <1>5, LeastExists
<1>7. /\ m \in 1 .. Len(s) + 1 /\ (m <= Len(s) => lf[t] < lf[s[m]])
      /\ \A j \in 1 .. m - 1 : ~ (lf[t] < lf[s[j]])
  BY <1>1, <1>6
<1>8. Half \in Nat
  BY Halves
<1>9. /\ Place(ww, t) \in 1 .. Len(s) + 1
      /\ \A j \in 1 .. Place(ww, t) - 1 : diff(j) = 0 \/ diff(j) >= Half
      /\ Place(ww, t) <= Len(s) => diff(Place(ww, t)) # 0 /\ diff(Place(ww, t)) < Half
  <2>1. \A j \in 1 .. m - 1 : diff(j) = 0 \/ diff(j) >= Half
    <3> HIDE DEF diff
    <3> QED BY <1>1, <1>3, <1>4, <1>7, <1>8
  <2>2. m <= Len(s) => diff(m) # 0 /\ diff(m) < Half
    <3> HIDE DEF diff
    <3> QED BY <1>1, <1>3, <1>7
  <2> QED BY <1>7, <2>1, <2>2 DEF Place
<1> HIDE DEF diff, s
<1> DEFINE p == Place(ww, t)
<1>10. ASSUME NEW j \in 1 .. Len(s), j < p PROVE lf[s[j]] <= lf[t]
  BY <1>1, <1>2, <1>3, <1>4, <1>8, <1>9, <1>10
<1>11. ASSUME p <= Len(s) PROVE lf[t] < lf[s[p]]
  BY <1>1, <1>3, <1>9, <1>11
<1> QED BY <1>9, <1>10, <1>11 DEF s

LEMMA InsertGood ==
  ASSUME NEW ww, NEW tk \in 0 .. TICK_MOD - 1, NEW lf \in [Timer -> Int], NEW bf,
         Good(ww, tk, lf, bf), NEW t \in Timer, ~ Listed(ww, t),
         lf[t] \in - MaxLate .. Longest, Wraps(ww.timeout_tick[t], tk, lf[t]),
         \A u \in Timer : Listed(ww, u) => <<u, t>> \in bf,
         NEW r, r = Inserted(ww, t)
  PROVE  /\ Good(r, tk, lf, bf)
         /\ \A u : Listed(r, u) <=> Listed(ww, u) \/ u = t
         /\ r.timeout_tick = ww.timeout_tick /\ r.init_tick = ww.init_tick
         /\ r.periodic = ww.periodic /\ r.active = ww.active \cup {t}
<1> DEFINE s == ww.list
           n == Place(ww, t)
           R == Earlier(lf, bf)
           l == LinkAt(s, n, t)
<1>1. /\ n \in 1 .. Len(s) + 1
      /\ \A j \in 1 .. Len(s) : j < n => lf[s[j]] <= lf[t]
      /\ n <= Len(s) => lf[t] < lf[s[n]]
  BY PlaceProps
<1>2. ww \in World /\ s \in Seq(Timer) /\ Distinct(s) /\ Chain(s, R) /\ ~ On(s, t)
  BY DEF Good, World, Listed
<1>3. \A j \in 1 .. Len(s) : s[j] \in Timer /\ <<s[j], t>> \in bf /\ lf[s[j]] \in Int
  <2>1. \A j \in 1 .. Len(s) : s[j] \in Timer /\ On(s, s[j])
    BY <1>2 DEF On
  <2> QED BY <2>1 DEF Listed
<1>4. r = [ww EXCEPT !.list = l, !.active = ww.active \cup {t}]
  BY DEF Inserted
<1> HIDE DEF n, s
<1>5. ASSUME NEW j \in 1 .. Len(s), j < n PROVE <<s[j], t>> \in R
  BY <1>1, <1>3, <1>5 DEF Earlier
<1>6. ASSUME NEW j \in 1 .. Len(s), j >= n PROVE <<t, s[j]>> \in R
  <2>1. n \in 1 .. Len(s) /\ lf[t] < lf[s[n]] /\ lf[t] \in Int
    BY <1>1, <1>2, <1>6
  <2>2. lf[s[n]] <= lf[s[j]]
    <3>1. CASE j = n
      <4>1. lf[s[j]] \in Int
        BY <1>3
      <4> QED BY <3>1, <4>1
    <3>2. CASE n < j
      <4>1. <<s[n], s[j]>> \in R
        BY <1>2, <2>1, <3>2 DEF Chain
      <4> QED BY <1>3, <2>1, <4>1 DEF Earlier
    <3> QED BY <1>1, <1>2, <1>6, <3>1, <3>2
  <2>3. lf[s[n]] \in Int /\ lf[s[j]] \in Int /\ s[j] \in Timer
    BY <1>3, <2>1
  <2>4. lf[t] < lf[s[j]]
    BY <2>1, <2>2, <2>3
  <2> QED BY <2>3, <2>4 DEF Earlier
<1> HIDE DEF R
<1>7. /\ l \in Seq(Timer) /\ Distinct(l) /\ Chain(l, R)
      /\ \A u : On(l, u) <=> On(s, u) \/ u = t
  BY <1>1, <1>2, <1>5, <1>6, LinkProps
<1> HIDE DEF l
<1>8. /\ r \in World /\ r.list = l /\ r.timeout_tick = ww.timeout_tick
      /\ r.init_tick = ww.init_tick /\ r.periodic = ww.periodic
      /\ r.active = ww.active \cup {t}
  <2> DEFINE ac == ww.active \cup {t}
  <2>1. ac \in SUBSET Timer
    BY <1>2 DEF World
  <2>2. r = [ww EXCEPT !.list = l, !.active = ac]
    BY <1>4
  <2> HIDE DEF ac
  <2>3. r \in World /\ r.active = ac
    BY <1>2, <1>7, <2>1, <2>2 DEF World
  <2>4. /\ r.list = l /\ r.timeout_tick = ww.timeout_tick
        /\ r.init_tick = ww.init_tick /\ r.periodic = ww.periodic
    BY <1>2, <2>2 DEF World
  <2> QED BY <2>3, <2>4 DEF ac
<1>9. \A u : Listed(r, u) <=> Listed(ww, u) \/ u = t
  BY <1>7, <1>8 DEF Listed, s
<1>10. \A u \in Timer : Listed(r, u) =>
         Wraps(r.timeout_tick[u], tk, lf[u]) /\ lf[u] \in - MaxLate - 1 .. Longest
  <2>1. lf[t] \in - MaxLate - 1 .. Longest
    BY Halves
  <2> QED BY <1>8, <1>9, <2>1 DEF Good
<1> QED BY <1>7, <1>8, <1>9, <1>10 DEF Good, R

(* rt_timer_start as a whole, inside rt_timer_check *)
LEMMA StartGood ==
  ASSUME NEW ww, tick \in 0 .. TICK_MOD - 1, NEW lf \in [Timer -> Int], NEW bf,
         Good(ww, tick, lf, bf), NEW t \in Timer, lf[t] = ww.init_tick[t],
         \A u \in Timer : Listed(ww, u) /\ u # t => <<u, t>> \in bf,
         NEW r, r = rt_timer_start(ww, t)
  PROVE  /\ Good(r, tick, lf, bf)
         /\ \A u : Listed(r, u) <=> Listed(ww, u) \/ u = t
         /\ \A u \in Timer : u # t => r.timeout_tick[u] = ww.timeout_tick[u]
         /\ r.init_tick = ww.init_tick /\ r.periodic = ww.periodic
         /\ r.active = ww.active \cup {t}
<1> DEFINE e == _rt_timer_remove(ww, t)
           o == [e EXCEPT !.active = @ \ {t}]
           n == ww.init_tick[t]
           a == Armed(o, t)
<1>1. /\ Good(e, tick, lf, bf) /\ SameTimers(e, ww)
      /\ \A u : Listed(e, u) <=> Listed(ww, u) /\ u # t
  BY RemoveGood
<1>2. r = Inserted(a, t)
  BY DEF rt_timer_start, Stopped
<1> HIDE DEF e
<1>3. /\ o \in World /\ o.list = e.list /\ o.timeout_tick = ww.timeout_tick
      /\ o.init_tick = ww.init_tick /\ o.periodic = ww.periodic
      /\ o.active = ww.active \ {t}
  BY <1>1 DEF Good, World, SameTimers
<1> HIDE DEF o
<1>4. n \in Ticks /\ n \in 0 .. Longest
  BY Halves DEF Good, World
<1>5. (tick + n) % TICK_MOD \in 0 .. TICK_MOD - 1 /\ Wraps((tick + n) % TICK_MOD, tick, n)
  BY <1>4, ArmWraps
<1>6. /\ a \in World /\ a.list = e.list
      /\ a.timeout_tick = [ww.timeout_tick EXCEPT ![t] = (tick + n) % TICK_MOD]
      /\ a.init_tick = ww.init_tick /\ a.periodic = ww.periodic
      /\ a.active = ww.active \ {t}
  BY <1>3, <1>5 DEF Armed, World
<1>7. ww.timeout_tick \in [Timer -> 0 .. TICK_MOD - 1]
  BY DEF Good, World
<1> HIDE DEF a
<1>8. a.timeout_tick[t] = (tick + n) % TICK_MOD
      /\ \A u \in Timer : u # t => a.timeout_tick[u] = ww.timeout_tick[u]
  BY <1>6, <1>7
<1> HIDE DEF n
<1>9. Good(a, tick, lf, bf)
  <2>1. Agree(a, lf, e, lf) /\ Keeps(bf, bf, e)
    BY <1>1, <1>8 DEF SameTimers, Agree, Keeps
  <2> QED BY <1>1, <1>6, <2>1, GoodSame
<1>10. \A u : Listed(a, u) <=> Listed(ww, u) /\ u # t
  BY <1>1, <1>6 DEF Listed
<1>11. lf[t] \in - MaxLate .. Longest /\ Wraps(a.timeout_tick[t], tick, lf[t])
  BY <1>4, <1>5, <1>8, Halves DEF n
<1>12. /\ Good(r, tick, lf, bf)
       /\ \A u : Listed(r, u) <=> Listed(a, u) \/ u = t
       /\ r.timeout_tick = a.timeout_tick /\ r.init_tick = a.init_tick
       /\ r.periodic = a.periodic /\ r.active = a.active \cup {t}
  BY <1>2, <1>9, <1>10, <1>11, InsertGood
<1> QED BY <1>6, <1>8, <1>10, <1>12

(* Timer t is being handled by rt_timer_check, which has removed it from the *)
(* timers ww: x is what the timers are now.                                  *)
Firing(x, ww, t, lf, bf) ==
  /\ Good(x, tick, lf, bf)
  /\ x.init_tick = ww.init_tick
  /\ \A u : u # t => (Listed(x, u) <=> Listed(ww, u)) /\ (u \in x.active <=> u \in ww.active)
  /\ \A u \in Timer : u # t => x.timeout_tick[u] = ww.timeout_tick[u]

LEMMA FiringStart ==
  ASSUME NEW x, NEW ww, NEW t \in Timer, NEW lf \in [Timer -> Int], NEW bf,
         Firing(x, ww, t, lf, bf), tick \in 0 .. TICK_MOD - 1, lf[t] = ww.init_tick[t],
         \A u \in Timer : Listed(ww, u) => <<u, t>> \in bf,
         NEW r, r = rt_timer_start(x, t)
  PROVE  Firing(r, ww, t, lf, bf) /\ t \in r.active
<1>1. \A u \in Timer : Listed(x, u) /\ u # t => <<u, t>> \in bf
  BY DEF Firing
<1>2. Good(x, tick, lf, bf) /\ lf[t] = x.init_tick[t]
  BY DEF Firing
<1>3. /\ Good(r, tick, lf, bf)
      /\ \A u : Listed(r, u) <=> Listed(x, u) \/ u = t
      /\ \A u \in Timer : u # t => r.timeout_tick[u] = x.timeout_tick[u]
      /\ r.init_tick = x.init_tick /\ r.active = x.active \cup {t}
  BY <1>1, <1>2, StartGood
<1> QED BY <1>3 DEF Firing

LEMMA FiringFlag ==
  ASSUME NEW x, NEW ww, NEW t \in Timer, NEW lf, NEW bf, Firing(x, ww, t, lf, bf),
         NEW r, r = [x EXCEPT !.active = @ \ {t}]
  PROVE  Firing(r, ww, t, lf, bf) /\ r.list = x.list /\ r.active = x.active \ {t}
<1>1. x \in World /\ Good(x, tick, lf, bf)
  BY DEF Firing, Good
<1>2. /\ r \in World /\ r.list = x.list /\ r.timeout_tick = x.timeout_tick
      /\ r.init_tick = x.init_tick /\ r.active = x.active \ {t}
  BY <1>1 DEF World
<1>3. \A u : Listed(r, u) <=> Listed(x, u)
  BY <1>2 DEF Listed
<1>4. Good(r, tick, lf, bf)
  <2>1. Agree(r, lf, x, lf) /\ Keeps(bf, bf, x)
    BY <1>2 DEF Agree, Keeps
  <2> QED BY <1>1, <1>2, <2>1, GoodSame
<1> QED BY <1>2, <1>3, <1>4 DEF Firing

LEMMA FiringStop ==
  ASSUME NEW x, NEW ww, NEW t \in Timer, NEW lf, NEW bf, Firing(x, ww, t, lf, bf),
         NEW r, r = rt_timer_stop(x, t), ~ Listed(x, t)
  PROVE  Firing(r, ww, t, lf, bf) /\ ~ Listed(r, t)
<1>1. CASE t \in x.active
  <2> DEFINE e == _rt_timer_remove(x, t)
  <2>1. r = [e EXCEPT !.active = @ \ {t}]
    BY <1>1 DEF rt_timer_stop, Stopped
  <2>2. /\ Good(e, tick, lf, bf) /\ SameTimers(e, x)
        /\ \A u : Listed(e, u) <=> Listed(x, u) /\ u # t
    BY RemoveGood DEF Firing
  <2> HIDE DEF e
  <2>3. Firing(e, ww, t, lf, bf) /\ ~ Listed(e, t)
    BY <2>2 DEF Firing, SameTimers
  <2>4. Firing(r, ww, t, lf, bf) /\ r.list = e.list
    BY <2>1, <2>3, FiringFlag
  <2> QED BY <2>3, <2>4 DEF Listed
<1>2. CASE t \notin x.active
  BY <1>2 DEF rt_timer_stop
<1> QED BY <1>1, <1>2

(* What a timeout function and rt_timer_check make of the timers: only the  *)
(* timer that times out is touched.  If the function does not start it, it  *)
(* is ACTIVATED if it is in the list again.                                 *)
LEMMA FiringProps ==
  ASSUME NEW ww, NEW t \in Timer, NEW lf \in [Timer -> Int], NEW bf, NEW h \in Handler,
         Good(ww, tick, lf, bf), tick \in 0 .. TICK_MOD - 1, lf[t] = ww.init_tick[t],
         ~ Listed(ww, t), \A u \in Timer : Listed(ww, u) => <<u, t>> \in bf,
         NEW r, r = AfterTimeout(Handled(ww, t, h), t)
  PROVE  Firing(r, ww, t, lf, bf) /\ (h # "start" /\ Listed(r, t) => t \in r.active)
<1> DEFINE x == Handled(ww, t, h)
<1>1. Firing(ww, ww, t, lf, bf)
  BY DEF Firing
<1>2. Firing(x, ww, t, lf, bf) /\ (h # "start" => ~ Listed(x, t))
  <2>1. CASE h = "return"
    <3>1. x = ww
      BY <2>1 DEF Handled
    <3> QED BY <1>1, <3>1
  <2>2. CASE h = "stop"
    <3>1. x = rt_timer_stop(ww, t)
      BY <2>2 DEF Handled
    <3> HIDE DEF x
    <3> QED BY <1>1, <3>1, FiringStop
  <2>3. CASE h = "start"
    <3>1. x = rt_timer_start(ww, t)
      BY <2>3 DEF Handled
    <3> HIDE DEF x
    <3> QED BY <1>1, <2>3, <3>1, FiringStart
  <2> QED BY <2>1, <2>2, <2>3, TimerAssumption
<1> HIDE DEF x
<1>3. CASE t \in x.periodic /\ t \in x.active
  <2>1. r = rt_timer_start(x, t)
    BY <1>3 DEF AfterTimeout, x
  <2> QED BY <1>2, <2>1, FiringStart
<1>4. CASE ~ (t \in x.periodic /\ t \in x.active)
  <2>1. r = [x EXCEPT !.active = @ \ {t}]
    BY <1>4 DEF AfterTimeout, x
  <2>2. Firing(r, ww, t, lf, bf) /\ r.list = x.list
    BY <1>2, <2>1, FiringFlag
  <2> QED BY <1>2, <2>2 DEF Listed
<1> QED BY <1>3, <1>4
=============================================================================
