----------------------------- MODULE TimerProofs -----------------------------
(***************************************************************************)
(* The timer list of timer.c is right for any width of rt_tick_t, any      *)
(* number of timers and threads, and any init_tick below the half that     *)
(* rt_timer_start asserts, when calls on one timer do not overlap.         *)
(***************************************************************************)
EXTENDS TimerListProofs

(* Calls in progress: each on a timer of its own, which is off the list      *)
(* while it is being inserted or has been removed.                           *)
OffList == {"arm", "insert", "stop_flag", "detached"}

Alone ==
  \A c \in Caller : pc[c] # "app" =>
    arg[c] \in Timer /\ \A d \in Caller : pc[d] # "app" /\ arg[d] = arg[c] => d = c

Removed == \A c \in Caller : pc[c] \in OffList => ~ Listed(w, arg[c])

Inserting ==
  \A c \in Caller : pc[c] = "insert" =>
    /\ Wraps(w.timeout_tick[arg[c]], tick, left[arg[c]])
    /\ left[arg[c]] \in - MaxLate .. Longest

Fresh == ~ isr => \A t \in Timer : Listed(w, t) => left[t] >= - MaxLate

IInv ==
  /\ TypeOK /\ ~ fault
  /\ Good(w, tick, left, before)
  /\ Alone /\ Removed /\ Inserting /\ Fresh

(* A timer in the list is ACTIVATED, and a stop that is about to return has  *)
(* taken its timer off the list.                                             *)
Flagged == (\A t \in Timer : Listed(w, t) => t \in w.active) /\ StopStops

-----------------------------------------------------------------------------
(* Every step keeps the invariant. *)

LEMMA InitIInv == Init => IInv
<1> SUFFICES ASSUME Init PROVE IInv
  OBVIOUS
<1>0. TICK_MOD \in Nat \ {0} /\ Ticks # {} /\ RT_TICK_MAX \in 0 .. TICK_MOD - 1
  BY TimerAssumption DEF RT_TICK_MAX
<1>1. w \in World
  BY <1>0 DEF Init, World
<1>2. \A u : ~ Listed(w, u)
  BY DEF Init, Listed, On
<1>3. TypeOK
  <2>1. tick \in 0 .. TICK_MOD - 1 /\ isr \in BOOLEAN /\ fault \in BOOLEAN
    BY <1>0 DEF Init
  <2>2. /\ pc \in [Caller -> PC] /\ arg \in [Caller -> Timer \cup {RT_NULL}]
        /\ fired \in Timer \cup {RT_NULL} /\ left \in [Timer -> Int]
        /\ before \subseteq Timer \X Timer
    BY DEF Init, PC
  <2> QED BY <1>1, <2>1, <2>2 DEF TypeOK
<1>4. Good(w, tick, left, before)
  BY <1>1, <1>2 DEF Init, Good, Distinct, Chain
<1>5. Alone /\ Removed /\ Inserting /\ Fresh
  BY <1>2 DEF Init, Alone, Removed, Inserting, Fresh, OffList
<1> QED BY <1>3, <1>4, <1>5 DEF IInv, Init

(* No timer is linked; the timers in the list may have been changed. *)
Shrinks(ww) == \A u : Listed(ww, u) => Listed(w, u)

(* A timer that is being inserted is left alone. *)
InsertsOn(ww) ==
  \A c \in Caller : pc'[c] = "insert" =>
    /\ pc[c] = "insert" /\ arg'[c] = arg[c]
    /\ ww.timeout_tick[arg[c]] = w.timeout_tick[arg[c]]

LEMMA BecomesInv ==
  ASSUME IInv, NEW ww, Becomes(ww), Good(ww, tick, left, before), Shrinks(ww), InsertsOn(ww),
         UNCHANGED <<tick, fault>>, isr' \in BOOLEAN,
         pc' \in [Caller -> PC], arg' \in [Caller -> Timer \cup {RT_NULL}], Alone', Removed',
         ~ isr' => \A t \in Timer : Listed(ww, t) => left[t] >= - MaxLate
  PROVE  IInv'
<1>1. /\ left' \in [Timer -> Int]
      /\ \A t \in Timer : Listed(ww, t) => left'[t] = left[t]
      /\ \A c \in Caller : pc'[c] = "insert" => left'[arg'[c]] = left[arg'[c]]
  <2>1. left \in [Timer -> Int]
    BY DEF IInv, TypeOK
  <2>2. \A c \in Caller : pc'[c] = "insert" => arg'[c] \in Timer
    BY DEF Alone
  <2> QED BY <2>1, <2>2 DEF Becomes
<1>2. w' = ww /\ ww \in World /\ fired' = RT_NULL /\ before' \subseteq before
  BY DEF Becomes, Good
<1>3. TypeOK'
  BY <1>1, <1>2 DEF IInv, TypeOK
<1>4. Good(w', tick', left', before')
  <2>1. Agree(ww, left', ww, left)
    BY <1>1 DEF Agree
  <2>2. Keeps(before', before, ww)
    BY DEF Keeps, Becomes
  <2>3. Good(ww, tick, left', before')
    BY <1>2, <2>1, <2>2, GoodSame
  <2> QED BY <1>2, <2>3
<1>5. Inserting'
  <2> SUFFICES ASSUME NEW c \in Caller, pc'[c] = "insert"
               PROVE  /\ Wraps(ww.timeout_tick[arg'[c]], tick, left'[arg'[c]])
                      /\ left'[arg'[c]] \in - MaxLate .. Longest
    BY <1>2 DEF Inserting, Wraps
  <2>1. /\ pc[c] = "insert" /\ arg'[c] = arg[c]
        /\ ww.timeout_tick[arg[c]] = w.timeout_tick[arg[c]]
    BY DEF InsertsOn
  <2> QED BY <1>1, <2>1 DEF IInv, Inserting
<1>6. Fresh'
  BY <1>1, <1>2 DEF Fresh
<1> QED BY <1>3, <1>4, <1>5, <1>6 DEF IInv

(* A call begins. *)
LEMMA BeginInv ==
  ASSUME Overlap = FALSE, IInv, NEW c \in Caller, NEW t \in Timer,
         NEW to \in PC \ {"app", "insert"}, Begin(c, t, to),
         NEW ww, Becomes(ww), Good(ww, tick, left, before), Shrinks(ww),
         ww.timeout_tick = w.timeout_tick, to \in OffList => ~ Listed(ww, t),
         UNCHANGED <<tick, isr, fault>>
  PROVE  IInv'
<1>0. /\ pc \in [Caller -> PC] /\ arg \in [Caller -> Timer \cup {RT_NULL}] /\ isr \in BOOLEAN
      /\ pc[c] = "app" /\ pc' = [pc EXCEPT ![c] = to] /\ arg' = [arg EXCEPT ![c] = t]
      /\ \A d \in Caller : pc[d] # "app" => arg[d] # t
      /\ Alone /\ Removed /\ Fresh
  BY DEF IInv, TypeOK, Begin, Free
<1>1. /\ pc' \in [Caller -> PC] /\ arg' \in [Caller -> Timer \cup {RT_NULL}]
      /\ pc'[c] = to /\ arg'[c] = t
      /\ \A d \in Caller : d # c => pc'[d] = pc[d] /\ arg'[d] = arg[d]
  BY <1>0
<1>2. Alone'
  BY <1>0, <1>1 DEF Alone
<1>3. Removed'
  <2>1. w' = ww
    BY DEF Becomes
  <2>2. \A d \in Caller : pc'[d] \in OffList => ~ Listed(ww, arg'[d])
    BY <1>0, <1>1 DEF Removed, Shrinks
  <2> QED BY <2>1, <2>2 DEF Removed
<1>4. InsertsOn(ww)
  BY <1>1 DEF InsertsOn
<1>5. ~ isr' => \A u \in Timer : Listed(ww, u) => left[u] >= - MaxLate
  BY <1>0 DEF Fresh, Shrinks
<1> QED BY <1>0, <1>1, <1>2, <1>3, <1>4, <1>5, BecomesInv

(* A call goes on with its timer. *)
LEMMA AtInv ==
  ASSUME IInv, NEW c \in Caller, NEW from \in PC \ {"app"}, NEW to \in PC \ {"insert"},
         At(c, from, to),
         NEW ww, Becomes(ww), Good(ww, tick, left, before), Shrinks(ww),
         \A u \in Timer : u # arg[c] => ww.timeout_tick[u] = w.timeout_tick[u],
         to \in OffList => ~ Listed(ww, arg[c]),
         UNCHANGED <<tick, isr, fault>>
  PROVE  IInv'
<1>0. /\ pc \in [Caller -> PC] /\ arg \in [Caller -> Timer \cup {RT_NULL}] /\ isr \in BOOLEAN
      /\ pc[c] = from /\ pc' = [pc EXCEPT ![c] = to] /\ arg' = arg
      /\ Alone /\ Removed /\ Fresh
  BY DEF IInv, TypeOK, At
<1>1. /\ pc' \in [Caller -> PC] /\ pc'[c] = to
      /\ \A d \in Caller : d # c => pc'[d] = pc[d]
      /\ \A d \in Caller : pc'[d] # "app" => pc[d] # "app"
  BY <1>0
<1>2. Alone'
  BY <1>0, <1>1 DEF Alone
<1>3. Removed'
  <2>1. w' = ww
    BY DEF Becomes
  <2>2. \A d \in Caller : pc'[d] \in OffList => ~ Listed(ww, arg'[d])
    BY <1>0, <1>1 DEF Removed, Shrinks
  <2> QED BY <2>1, <2>2 DEF Removed
<1>4. InsertsOn(ww)
  <2> SUFFICES ASSUME NEW d \in Caller, pc'[d] = "insert"
               PROVE  /\ pc[d] = "insert" /\ arg'[d] = arg[d]
                      /\ ww.timeout_tick[arg[d]] = w.timeout_tick[arg[d]]
    BY DEF InsertsOn
  <2>1. d # c /\ pc[d] = "insert"
    BY <1>1
  <2>2. arg[d] \in Timer /\ arg[d] # arg[c]
    BY <1>0, <2>1 DEF Alone
  <2> QED BY <1>0, <2>1, <2>2
<1>5. ~ isr' => \A u \in Timer : Listed(ww, u) => left[u] >= - MaxLate
  BY <1>0 DEF Fresh, Shrinks
<1> QED BY <1>0, <1>1, <1>2, <1>3, <1>4, <1>5, BecomesInv

LEMMA StartRemoveInv ==
  ASSUME Overlap = FALSE, IInv, NEW c \in Caller, NEW t \in Timer, StartRemove(c, t)
  PROVE  IInv'
<1> DEFINE e == _rt_timer_remove(w, t)
           o == [e EXCEPT !.active = @ \ {t}]
<1>1. /\ Good(e, tick, left, before) /\ SameTimers(e, w)
      /\ \A u : Listed(e, u) <=> Listed(w, u) /\ u # t
  BY RemoveGood DEF IInv
<1>2. /\ Begin(c, t, "arm") /\ Becomes(o) /\ UNCHANGED <<tick, isr, fault>>
      /\ "arm" \in PC \ {"app", "insert"}
  BY DEF StartRemove, Stopped, PC
<1> HIDE DEF e
<1>3. o \in World /\ o.list = e.list /\ o.timeout_tick = w.timeout_tick
  BY <1>1 DEF Good, World, SameTimers
<1> HIDE DEF o
<1>4. Good(o, tick, left, before)
  <2>1. Agree(o, left, e, left) /\ Keeps(before, before, e)
    BY <1>1, <1>3 DEF SameTimers, Agree, Keeps
  <2> QED BY <1>1, <1>3, <2>1, GoodSame
<1>5. Shrinks(o) /\ ~ Listed(o, t)
  BY <1>1, <1>3 DEF Listed, Shrinks
<1> QED BY <1>2, <1>3, <1>4, <1>5, BeginInv

LEMMA StopTestInv ==
  ASSUME Overlap = FALSE, IInv, NEW c \in Caller, NEW t \in Timer, StopTest(c, t)
  PROVE  IInv'
<1> DEFINE to == IF t \in w.active THEN "stop_remove" ELSE "stop_end"
<1>1. /\ Begin(c, t, to) /\ Becomes(w) /\ UNCHANGED <<tick, isr, fault>>
  BY DEF StopTest
<1>2. to \in PC \ {"app", "insert"} /\ to \notin OffList
  BY DEF PC, OffList
<1>3. Shrinks(w) /\ Good(w, tick, left, before)
  BY DEF Shrinks, IInv
<1> HIDE DEF to
<1> QED BY <1>1, <1>2, <1>3, BeginInv

LEMMA DetachInv ==
  ASSUME Overlap = FALSE, IInv, NEW c \in Caller, NEW t \in Timer, Detach(c, t)
  PROVE  IInv'
<1> DEFINE e == _rt_timer_remove(w, t)
<1>1. /\ Good(e, tick, left, before) /\ SameTimers(e, w)
      /\ \A u : Listed(e, u) <=> Listed(w, u) /\ u # t
  BY RemoveGood DEF IInv
<1>2. /\ Begin(c, t, "detached") /\ Becomes(e) /\ UNCHANGED <<tick, isr, fault>>
      /\ "detached" \in PC \ {"app", "insert"}
  BY DEF Detach, PC
<1> HIDE DEF e
<1>3. Shrinks(e) /\ ~ Listed(e, t) /\ e.timeout_tick = w.timeout_tick
  BY <1>1 DEF Shrinks, SameTimers
<1> QED BY <1>1, <1>2, <1>3, BeginInv

LEMMA StopInv ==
  ASSUME IInv, NEW c \in Caller, StopRemove(c) \/ StopFlag(c) \/ StopEnd(c)
  PROVE  IInv'
<1>0. Good(w, tick, left, before) /\ w \in World
  BY DEF IInv, Good
<1>1. CASE StopRemove(c)
  <2> DEFINE e == _rt_timer_remove(w, arg[c])
  <2>1. /\ Good(e, tick, left, before) /\ SameTimers(e, w)
        /\ \A u : Listed(e, u) <=> Listed(w, u) /\ u # arg[c]
    BY <1>0, RemoveGood
  <2>2. /\ At(c, "stop_remove", "stop_flag") /\ Becomes(e) /\ UNCHANGED <<tick, isr, fault>>
        /\ "stop_remove" \in PC \ {"app"} /\ "stop_flag" \in PC \ {"insert"}
    BY <1>1 DEF StopRemove, PC
  <2> HIDE DEF e
  <2>3. Shrinks(e) /\ ~ Listed(e, arg[c]) /\ e.timeout_tick = w.timeout_tick
    BY <2>1 DEF Shrinks, SameTimers
  <2> QED BY <2>1, <2>2, <2>3, AtInv
<1>2. CASE StopFlag(c)
  <2> DEFINE o == [w EXCEPT !.active = @ \ {arg[c]}]
  <2>1. /\ At(c, "stop_flag", "stop_end") /\ Becomes(o) /\ UNCHANGED <<tick, isr, fault>>
        /\ "stop_flag" \in PC \ {"app"} /\ "stop_end" \in PC \ {"insert"}
        /\ "stop_end" \notin OffList
    BY <1>2 DEF StopFlag, PC, OffList
  <2>2. o \in World /\ o.list = w.list /\ o.timeout_tick = w.timeout_tick
    BY <1>0 DEF World
  <2> HIDE DEF o
  <2>3. Good(o, tick, left, before)
    <3>1. Agree(o, left, w, left) /\ Keeps(before, before, w)
      BY <2>2 DEF Agree, Keeps
    <3> QED BY <1>0, <2>2, <3>1, GoodSame
  <2>4. Shrinks(o)
    BY <2>2 DEF Shrinks, Listed
  <2> QED BY <2>1, <2>2, <2>3, <2>4, AtInv
<1>3. CASE StopEnd(c)
  <2>1. /\ At(c, "stop_end", "app") /\ Becomes(w) /\ UNCHANGED <<tick, isr, fault>>
        /\ "stop_end" \in PC \ {"app"} /\ "app" \in PC \ {"insert"} /\ "app" \notin OffList
    BY <1>3 DEF StopEnd, PC, OffList
  <2>2. Shrinks(w)
    BY DEF Shrinks
  <2> QED BY <1>0, <2>1, <2>2, AtInv
<1> QED BY <1>1, <1>2, <1>3

LEMMA ReinitInv ==
  ASSUME IInv, NEW c \in Caller, NEW n \in Ticks, NEW on \in BOOLEAN, Reinit(c, n, on)
  PROVE  IInv'
<1> DEFINE t == arg[c]
           tt == [w.timeout_tick EXCEPT ![t] = 0]
           it == [w.init_tick EXCEPT ![t] = n]
           ac == w.active \ {t}
           pe == IF on THEN w.periodic \cup {t} ELSE w.periodic \ {t}
           o == [w EXCEPT !.active = ac, !.timeout_tick = tt, !.init_tick = it, !.periodic = pe]
<1>0. /\ Good(w, tick, left, before) /\ w \in World /\ pc[c] = "detached"
      /\ t \in Timer /\ ~ Listed(w, t)
  BY DEF IInv, Good, Reinit, At, Alone, Removed, OffList
<1>1. /\ At(c, "detached", "app") /\ UNCHANGED <<tick, isr, fault>>
      /\ "detached" \in PC \ {"app"} /\ "app" \in PC \ {"insert"} /\ "app" \notin OffList
  BY DEF Reinit, PC, OffList
<1>2. Becomes(o)
  BY <1>0 DEF Reinit, World
<1>3. /\ tt \in [Timer -> 0 .. TICK_MOD - 1] /\ \A u \in Timer : u # t => tt[u] = w.timeout_tick[u]
      /\ it \in [Timer -> Ticks] /\ ac \in SUBSET Timer /\ pe \in SUBSET Timer
  <2>1. 0 \in 0 .. TICK_MOD - 1
    BY Halves
  <2>2. /\ w.timeout_tick \in [Timer -> 0 .. TICK_MOD - 1] /\ w.init_tick \in [Timer -> Ticks]
        /\ w.active \in SUBSET Timer /\ w.periodic \in SUBSET Timer
    BY <1>0 DEF World
  <2>3. tt \in [Timer -> 0 .. TICK_MOD - 1] /\ \A u \in Timer : u # t => tt[u] = w.timeout_tick[u]
    BY <2>1, <2>2
  <2>4. it \in [Timer -> Ticks]
    BY <2>2
  <2>5. ac \in SUBSET Timer /\ pe \in SUBSET Timer
    BY <1>0, <2>2
  <2> QED BY <2>3, <2>4, <2>5
<1> HIDE DEF tt, it, ac, pe
<1>4. o \in World /\ o.list = w.list /\ o.timeout_tick = tt
  BY <1>0, <1>3 DEF World
<1> HIDE DEF o
<1>5. Good(o, tick, left, before)
  <2>1. Agree(o, left, w, left) /\ Keeps(before, before, w)
    BY <1>0, <1>3, <1>4 DEF Agree, Keeps
  <2> QED BY <1>0, <1>4, <2>1, GoodSame
<1>6. Shrinks(o)
  BY <1>4 DEF Shrinks, Listed
<1> QED BY <1>1, <1>2, <1>3, <1>4, <1>5, <1>6, AtInv

(* rt_timer_control *)
LEMMA SetInv ==
  ASSUME Overlap = FALSE, IInv, NEW c \in Caller, NEW t \in Timer,
         \/ \E n \in Ticks : SetTime(c, t, n)
         \/ \E on \in BOOLEAN : SetPeriodic(c, t, on)
  PROVE  IInv'
<1>0. /\ Good(w, tick, left, before) /\ w \in World /\ UNCHANGED <<tick, pc, arg, isr, fault>>
      /\ pc \in [Caller -> PC] /\ arg \in [Caller -> Timer \cup {RT_NULL}] /\ isr \in BOOLEAN
      /\ Alone /\ Removed /\ Fresh
  BY DEF IInv, TypeOK, Good, SetTime, SetPeriodic
<1>1. PICK ww : /\ Becomes(ww) /\ ww \in World
                /\ ww.list = w.list /\ ww.timeout_tick = w.timeout_tick
  <2>1. ASSUME NEW n \in Ticks, SetTime(c, t, n)
        PROVE  \E ww : /\ Becomes(ww) /\ ww \in World
                       /\ ww.list = w.list /\ ww.timeout_tick = w.timeout_tick
    <3> DEFINE it == [w.init_tick EXCEPT ![t] = n]
               o == [w EXCEPT !.init_tick = it]
    <3>1. it \in [Timer -> Ticks] /\ Becomes(o)
      BY <1>0, <2>1 DEF World, SetTime
    <3> HIDE DEF it
    <3>2. o \in World /\ o.list = w.list /\ o.timeout_tick = w.timeout_tick
      BY <1>0, <3>1 DEF World
    <3> HIDE DEF o
    <3> QED BY <3>1, <3>2
  <2>2. ASSUME NEW on \in BOOLEAN, SetPeriodic(c, t, on)
        PROVE  \E ww : /\ Becomes(ww) /\ ww \in World
                       /\ ww.list = w.list /\ ww.timeout_tick = w.timeout_tick
    <3> DEFINE pe == IF on THEN w.periodic \cup {t} ELSE w.periodic \ {t}
               o == [w EXCEPT !.periodic = pe]
    <3>1. pe \in SUBSET Timer /\ Becomes(o)
      BY <1>0, <2>2 DEF World, SetPeriodic
    <3> HIDE DEF pe
    <3>2. o \in World /\ o.list = w.list /\ o.timeout_tick = w.timeout_tick
      BY <1>0, <3>1 DEF World
    <3> HIDE DEF o
    <3> QED BY <3>1, <3>2
  <2> QED BY <2>1, <2>2
<1>2. \A u : Listed(ww, u) <=> Listed(w, u)
  BY <1>1 DEF Listed
<1>3. Good(ww, tick, left, before)
  <2>1. Agree(ww, left, w, left) /\ Keeps(before, before, w)
    BY <1>1 DEF Agree, Keeps
  <2> QED BY <1>0, <1>1, <2>1, GoodSame
<1>4. Alone'
  BY <1>0 DEF Alone
<1>5. Removed'
  <2>1. w' = ww
    BY <1>1 DEF Becomes
  <2>2. \A d \in Caller : pc'[d] \in OffList => ~ Listed(ww, arg'[d])
    BY <1>0, <1>2 DEF Removed
  <2> QED BY <2>1, <2>2 DEF Removed
<1>6. Shrinks(ww) /\ InsertsOn(ww)
  BY <1>0, <1>1, <1>2 DEF Shrinks, InsertsOn
<1>7. ~ isr' => \A u \in Timer : Listed(ww, u) => left[u] >= - MaxLate
  BY <1>0, <1>2 DEF Fresh
<1> QED BY <1>0, <1>1, <1>3, <1>4, <1>5, <1>6, <1>7, BecomesInv

LEMMA StartArmInv == ASSUME IInv, NEW c \in Caller, StartArm(c) PROVE IInv'
<1> DEFINE t == arg[c]
           n == w.init_tick[t]
           tt == [w.timeout_tick EXCEPT ![t] = (tick + n) % TICK_MOD]
           lf == [left EXCEPT ![t] = n]
<1>0. /\ TypeOK /\ Good(w, tick, left, before) /\ w \in World
      /\ Alone /\ Removed /\ Inserting /\ Fresh
      /\ pc[c] = "arm" /\ pc' = [pc EXCEPT ![c] = "insert"] /\ arg' = arg
      /\ UNCHANGED <<tick, isr, before, fault>> /\ fired' = RT_NULL /\ ~ fault
  BY DEF IInv, TypeOK, StartArm, At
<1>1. t \in Timer /\ ~ Listed(w, t) /\ n \in Ticks /\ n \in - MaxLate .. Longest
  <2>1. t \in Timer /\ ~ Listed(w, t)
    BY <1>0 DEF Alone, Removed, OffList
  <2>2. n \in Ticks
    BY <1>0, <2>1 DEF World
  <2> QED BY <2>1, <2>2, Halves
<1>2. (tick + n) % TICK_MOD \in 0 .. TICK_MOD - 1 /\ Wraps((tick + n) % TICK_MOD, tick, n)
  BY <1>0, <1>1, ArmWraps DEF TypeOK
<1>3. /\ tt \in [Timer -> 0 .. TICK_MOD - 1] /\ tt[t] = (tick + n) % TICK_MOD
      /\ \A u \in Timer : u # t => tt[u] = w.timeout_tick[u]
  BY <1>0, <1>1, <1>2 DEF World
<1>4. /\ w' = [w EXCEPT !.timeout_tick = tt] /\ left' = lf
  BY <1>0 DEF StartArm, Armed, World
<1>5. /\ lf \in [Timer -> Int] /\ lf[t] = n /\ \A u \in Timer : u # t => lf[u] = left[u]
  BY <1>0, <1>1, Halves DEF TypeOK
<1> HIDE DEF tt, lf
<1>6. w' \in World /\ w'.list = w.list /\ w'.timeout_tick = tt
  BY <1>0, <1>3, <1>4 DEF World
<1>7. \A u : Listed(w', u) <=> Listed(w, u)
  BY <1>6 DEF Listed
<1>8. /\ pc' \in [Caller -> PC] /\ pc'[c] = "insert"
      /\ \A d \in Caller : d # c => pc'[d] = pc[d]
      /\ \A d \in Caller : pc'[d] # "app" => pc[d] # "app"
      /\ \A d \in Caller : pc'[d] \in OffList => pc[d] \in OffList
  BY <1>0 DEF TypeOK, PC, OffList
<1>9. TypeOK'
  BY <1>0, <1>4, <1>5, <1>6, <1>8 DEF TypeOK
<1>10. Good(w', tick', left', before')
  <2>1. Agree(w', lf, w, left) /\ Keeps(before, before, w)
    BY <1>1, <1>3, <1>5, <1>6 DEF Agree, Keeps
  <2>2. Good(w', tick, lf, before)
    BY <1>0, <1>6, <2>1, GoodSame
  <2> QED BY <1>0, <1>4, <2>2
<1>11. Alone'
  BY <1>0, <1>8 DEF Alone
<1>12. Removed'
  BY <1>0, <1>7, <1>8 DEF Removed
<1>13. Inserting'
  <2> SUFFICES ASSUME NEW d \in Caller, pc'[d] = "insert"
               PROVE  /\ Wraps(tt[arg[d]], tick, lf[arg[d]])
                      /\ lf[arg[d]] \in - MaxLate .. Longest
    BY <1>0, <1>4, <1>6 DEF Inserting, Wraps
  <2>1. CASE d = c
    BY <1>1, <1>2, <1>3, <1>5, <2>1
  <2>2. CASE d # c
    <3>1. pc[d] = "insert" /\ arg[d] \in Timer /\ arg[d] # t
      BY <1>0, <1>8, <2>2 DEF Alone
    <3> QED BY <1>0, <1>3, <1>5, <3>1 DEF Inserting
  <2> QED BY <2>1, <2>2
<1>14. Fresh'
  <2> SUFFICES ASSUME ~ isr, NEW u \in Timer, Listed(w, u) PROVE lf[u] >= - MaxLate
    BY <1>0, <1>4, <1>7 DEF Fresh
  <2> QED BY <1>0, <1>1, <1>5 DEF Fresh
<1> QED BY <1>0, <1>9, <1>10, <1>11, <1>12, <1>13, <1>14 DEF IInv

LEMMA StartInsertInv == ASSUME IInv, NEW c \in Caller, StartInsert(c) PROVE IInv'
<1> DEFINE t == arg[c]
           bf == before \cup ({u \in Timer : Listed(w, u)} \X {t})
<1>0. /\ TypeOK /\ Good(w, tick, left, before) /\ w \in World
      /\ Alone /\ Removed /\ Inserting /\ Fresh
      /\ pc[c] = "insert" /\ pc' = [pc EXCEPT ![c] = "app"] /\ arg' = arg
      /\ UNCHANGED <<tick, isr, left>> /\ fired' = RT_NULL /\ ~ fault /\ ~ isr
  BY DEF IInv, TypeOK, StartInsert, At
<1>1. /\ t \in Timer /\ ~ Listed(w, t)
      /\ Wraps(w.timeout_tick[t], tick, left[t]) /\ left[t] \in - MaxLate .. Longest
  BY <1>0 DEF Alone, Removed, OffList, Inserting
<1>2. w' = Inserted(w, t) /\ before' = bf /\ fault' = fault
  BY <1>1 DEF StartInsert
<1>3. Good(w, tick, left, bf)
  <2>1. Agree(w, left, w, left) /\ Keeps(bf, before, w)
    BY DEF Agree, Keeps
  <2> QED BY <1>0, <2>1, GoodSame
<1>4. /\ \A u \in Timer : Listed(w, u) => <<u, t>> \in bf
      /\ bf \subseteq Timer \X Timer
  BY <1>0, <1>1 DEF TypeOK
<1> HIDE DEF bf
<1>5. /\ Good(w', tick, left, bf)
      /\ \A u : Listed(w', u) <=> Listed(w, u) \/ u = t
      /\ w'.timeout_tick = w.timeout_tick
  <2>1. tick \in 0 .. TICK_MOD - 1 /\ left \in [Timer -> Int]
    BY <1>0 DEF TypeOK
  <2> QED BY <1>1, <1>2, <1>3, <1>4, <2>1, InsertGood
<1>6. /\ pc' \in [Caller -> PC] /\ pc'[c] = "app"
      /\ \A d \in Caller : d # c => pc'[d] = pc[d]
      /\ \A d \in Caller : pc'[d] # "app" => pc[d] # "app" /\ pc'[d] = pc[d] /\ d # c
  BY <1>0 DEF TypeOK, PC
<1>7. TypeOK'
  BY <1>0, <1>2, <1>4, <1>5, <1>6 DEF TypeOK, Good
<1>8. Alone'
  BY <1>0, <1>6 DEF Alone
<1>9. Removed'
  <2> SUFFICES ASSUME NEW d \in Caller, pc'[d] \in OffList PROVE ~ Listed(w', arg[d])
    BY <1>0 DEF Removed
  <2>1. pc[d] \in OffList /\ pc[d] # "app" /\ d # c
    BY <1>6 DEF OffList
  <2>2. arg[d] # t
    BY <1>0, <2>1 DEF Alone
  <2> QED BY <1>0, <1>5, <2>1, <2>2 DEF Removed
<1>10. Inserting'
  BY <1>0, <1>5, <1>6 DEF Inserting, Wraps
<1>11. Fresh'
  <2> SUFFICES ASSUME NEW u \in Timer, Listed(w', u) PROVE left[u] >= - MaxLate
    BY <1>0 DEF Fresh
  <2>1. CASE u = t
    BY <1>1, <2>1, Halves
  <2>2. CASE u # t
    BY <1>0, <1>5, <2>2 DEF Fresh
  <2> QED BY <2>1, <2>2
<1> QED BY <1>0, <1>2, <1>5, <1>7, <1>8, <1>9, <1>10, <1>11 DEF IInv

LEMMA SysTickInv == ASSUME IInv, SysTick PROVE IInv'
<1>0. /\ TypeOK /\ Good(w, tick, left, before) /\ w \in World
      /\ Alone /\ Removed /\ Inserting /\ Fresh /\ ~ fault /\ ~ isr
      /\ \A c \in Caller : pc[c] = "insert" => left[arg[c]] > - MaxLate
      /\ tick' = (tick + 1) % TICK_MOD /\ isr' = TRUE /\ fired' = RT_NULL
      /\ UNCHANGED <<w, pc, arg, before, fault>>
      /\ tick \in 0 .. TICK_MOD - 1 /\ left \in [Timer -> Int]
  BY DEF IInv, TypeOK, Good, SysTick
<1>1. /\ left' \in [Timer -> Int]
      /\ \A t \in Timer : Listed(w, t) => left'[t] = left[t] - 1
      /\ \A c \in Caller : pc[c] = "insert" => left'[arg[c]] = left[arg[c]] - 1
  <2>1. \A c \in Caller : pc[c] = "insert" => arg[c] \in Timer /\ Pending(arg[c])
    BY <1>0 DEF Alone, Pending
  <2>2. \A t \in Timer : Listed(w, t) => Pending(t)
    BY DEF Pending
  <2>3. left' = [t \in Timer |-> IF Pending(t) THEN left[t] - 1 ELSE left[t]]
    BY DEF SysTick
  <2> QED BY <1>0, <2>1, <2>2, <2>3
<1>2. tick' \in 0 .. TICK_MOD - 1
  BY <1>0, Halves
<1>3. TypeOK'
  BY <1>0, <1>1, <1>2 DEF TypeOK
<1>4. \A t \in Timer : Listed(w, t) =>
        Wraps(w.timeout_tick[t], tick', left'[t]) /\ left'[t] \in - MaxLate - 1 .. Longest
  <2> SUFFICES ASSUME NEW t \in Timer, Listed(w, t)
               PROVE  Wraps(w.timeout_tick[t], tick', left'[t])
                      /\ left'[t] \in - MaxLate - 1 .. Longest
    OBVIOUS
  <2>1. /\ left[t] \in - MaxLate .. Longest /\ left'[t] = left[t] - 1
        /\ Wraps(w.timeout_tick[t], tick, left[t])
        /\ w.timeout_tick[t] \in 0 .. TICK_MOD - 1
    BY <1>0, <1>1, Halves DEF Good, Fresh, World
  <2>2. Wraps(w.timeout_tick[t], (tick + 1) % TICK_MOD, left[t] - 1)
    BY <1>0, <2>1, TickWraps
  <2> QED BY <1>0, <2>1, <2>2, Halves
<1>5. Chain(w.list, Earlier(left', before))
  <2> DEFINE s == w.list
  <2> SUFFICES ASSUME NEW i \in 1 .. Len(s), NEW j \in 1 .. Len(s), i < j
               PROVE  <<s[i], s[j]>> \in Earlier(left', before)
    BY DEF Chain
  <2>1. s[i] \in Timer /\ Listed(w, s[i]) /\ s[j] \in Timer /\ Listed(w, s[j])
    BY <1>0 DEF World, Listed, On
  <2>2. <<s[i], s[j]>> \in Earlier(left, before)
    BY <1>0 DEF Good, Chain
  <2>3. /\ left[s[i]] \in Int /\ left[s[j]] \in Int
        /\ left'[s[i]] = left[s[i]] - 1 /\ left'[s[j]] = left[s[j]] - 1
    BY <1>0, <1>1, <2>1
  <2> HIDE DEF s
  <2> QED BY <2>1, <2>2, <2>3 DEF Earlier
<1>6. Good(w', tick', left', before')
  BY <1>0, <1>4, <1>5 DEF Good
<1>7. Alone' /\ Removed' /\ Fresh'
  BY <1>0 DEF Alone, Removed, Fresh
<1>8. Inserting'
  <2> SUFFICES ASSUME NEW c \in Caller, pc[c] = "insert"
               PROVE  /\ Wraps(w.timeout_tick[arg[c]], tick', left'[arg[c]])
                      /\ left'[arg[c]] \in - MaxLate .. Longest
    BY <1>0 DEF Inserting, Wraps
  <2>1. /\ arg[c] \in Timer /\ Wraps(w.timeout_tick[arg[c]], tick, left[arg[c]])
        /\ left[arg[c]] \in - MaxLate .. Longest /\ left[arg[c]] > - MaxLate
        /\ w.timeout_tick[arg[c]] \in 0 .. TICK_MOD - 1
    BY <1>0 DEF Alone, Inserting, World
  <2>2. Wraps(w.timeout_tick[arg[c]], (tick + 1) % TICK_MOD, left[arg[c]] - 1)
    BY <1>0, <2>1, TickWraps
  <2>3. left[arg[c]] - 1 \in - MaxLate .. Longest
    BY <2>1, Halves
  <2> QED BY <1>0, <1>1, <2>2, <2>3
<1> QED BY <1>0, <1>3, <1>6, <1>7, <1>8 DEF IInv

(* The first timer of the list is overdue when no ticks are left of it. *)
LEMMA HeadOverdue ==
  ASSUME IInv, w.list # <<>>
  PROVE  /\ Head(w.list) \in Timer /\ Listed(w, Head(w.list))
         /\ Overdue(w, Head(w.list)) <=> left[Head(w.list)] <= 0
         /\ \A u \in Timer : Listed(w, u) => left[Head(w.list)] <= left[u]
<1> DEFINE s == w.list
           t == s[1]
<1>0. /\ w \in World /\ s \in Seq(Timer) /\ Good(w, tick, left, before)
      /\ tick \in 0 .. TICK_MOD - 1 /\ left \in [Timer -> Int]
  BY DEF IInv, TypeOK, World
<1>1. Head(s) = t /\ 1 \in 1 .. Len(s) /\ t \in Timer /\ Listed(w, t)
  BY <1>0 DEF Listed, On
<1>2. Overdue(w, t) <=> left[t] <= 0
  <2>1. /\ w.timeout_tick[t] \in 0 .. TICK_MOD - 1
        /\ Wraps(w.timeout_tick[t], tick, left[t]) /\ left[t] \in - MaxLate - 1 .. Longest
    BY <1>0, <1>1 DEF World, Good
  <2> QED BY <1>0, <2>1, OverdueProps DEF Overdue
<1>3. ASSUME NEW u \in Timer, Listed(w, u) PROVE left[t] <= left[u]
  <2>1. PICK i \in 1 .. Len(s) : s[i] = u
    BY <1>3 DEF Listed, On
  <2>2. left[t] \in Int /\ left[u] \in Int
    BY <1>0, <1>1
  <2>3. CASE i = 1
    BY <2>1, <2>2, <2>3
  <2>4. CASE 1 < i
    <3>1. <<t, u>> \in Earlier(left, before)
      BY <1>0, <1>1, <2>1, <2>4 DEF Good, Chain
    <3> QED BY <2>2, <3>1 DEF Earlier
  <2> QED BY <2>1, <2>3, <2>4
<1> QED BY <1>1, <1>2, <1>3

LEMMA TimeoutProps ==
  ASSUME IInv, NEW h \in Handler, Timeout(h)
  PROVE  \E t \in Timer :
           /\ fired' = t /\ Listed(w, t) /\ left[t] <= 0
           /\ left' \in [Timer -> Int] /\ before' \subseteq Timer \X Timer
           /\ Good(w', tick, left', before')
           /\ \A u : Listed(w', u) => Listed(w, u)
           /\ \A u \in Timer : u # t =>
                /\ w'.timeout_tick[u] = w.timeout_tick[u] /\ left'[u] = left[u]
                /\ u \in w.active => u \in w'.active
           /\ h # "start" /\ Listed(w', t) => t \in w'.active
<1> DEFINE t == Head(w.list)
           rest == _rt_timer_remove(w, t)
           done == AfterTimeout(Handled(rest, t, h), t)
           lf == [left EXCEPT ![t] = w.init_tick[t]]
           kept == {p \in before : Listed(rest, p[1]) /\ Listed(rest, p[2])}
           bf == kept \cup {p \in Timer \X {t} : Listed(rest, p[1])}
<1>0. /\ w \in World /\ Good(w, tick, left, before)
      /\ tick \in 0 .. TICK_MOD - 1 /\ left \in [Timer -> Int]
      /\ before \subseteq Timer \X Timer
  BY DEF IInv, TypeOK
<1>1. /\ w.list # <<>> /\ Overdue(w, t) /\ w' = done /\ fired' = t
      /\ left' = [left EXCEPT ![t] = IF Listed(done, t) THEN w.init_tick[t] ELSE 0]
      /\ before' = kept \cup {p \in Timer \X {t} : Listed(rest, p[1]) /\ Listed(done, t)}
  BY DEF Timeout
<1>2. t \in Timer /\ Listed(w, t) /\ left[t] <= 0
  BY <1>1, HeadOverdue
<1>3. /\ Good(rest, tick, left, before) /\ SameTimers(rest, w)
      /\ \A u : Listed(rest, u) <=> Listed(w, u) /\ u # t
  BY <1>0, RemoveGood
<1> HIDE DEF t, rest
<1>4. /\ lf \in [Timer -> Int] /\ lf[t] = w.init_tick[t]
      /\ \A u \in Timer : u # t => lf[u] = left[u]
  <2>1. w.init_tick[t] \in Ticks
    BY <1>0, <1>2 DEF World
  <2>2. w.init_tick[t] \in Int
    BY <2>1, Halves
  <2> QED BY <1>0, <1>2, <2>2
<1>5. /\ \A u \in Timer : Listed(rest, u) => <<u, t>> \in bf
      /\ \A p \in before : Listed(rest, p[1]) /\ Listed(rest, p[2]) => p \in bf
      /\ \A p \in bf : Listed(done, p[1]) /\ Listed(done, p[2]) => p \in before'
      /\ before' \subseteq Timer \X Timer
  BY <1>0, <1>1, <1>2
<1> HIDE DEF lf, kept, bf
<1>6. Good(rest, tick, lf, bf) /\ lf[t] = rest.init_tick[t]
  <2>1. rest \in World /\ Agree(rest, lf, rest, left) /\ Keeps(bf, before, rest)
    BY <1>3, <1>4, <1>5 DEF Agree, Keeps, Good
  <2> QED BY <1>3, <1>4, <2>1, GoodSame DEF SameTimers
<1>7. Firing(done, rest, t, lf, bf) /\ (h # "start" /\ Listed(done, t) => t \in done.active)
  <2>1. ~ Listed(rest, t)
    BY <1>3
  <2> QED BY <1>0, <1>2, <1>4, <1>5, <1>6, <2>1, FiringProps
<1> HIDE DEF done
<1>8. /\ left' \in [Timer -> Int] /\ (Listed(done, t) => left'[t] = lf[t])
      /\ \A u \in Timer : u # t => left'[u] = left[u]
  <2>1. PICK n : n = IF Listed(done, t) THEN w.init_tick[t] ELSE 0
    OBVIOUS
  <2>2. left' = [left EXCEPT ![t] = n]
    BY <1>1, <2>1
  <2>3. n \in Int /\ (Listed(done, t) => n = lf[t])
    BY <1>2, <1>4, <2>1
  <2> QED BY <1>0, <1>2, <2>2, <2>3
<1>9. Good(w', tick, left', before')
  <2>1. Agree(done, left', done, lf)
    BY <1>4, <1>8 DEF Agree
  <2>2. Keeps(before', bf, done) /\ done \in World /\ Good(done, tick, lf, bf)
    BY <1>5, <1>7 DEF Keeps, Firing, Good
  <2>3. Good(done, tick, left', before')
    BY <2>1, <2>2, GoodSame
  <2> QED BY <1>1, <2>3
<1>10. \A u : Listed(done, u) => Listed(w, u)
  BY <1>2, <1>3, <1>7 DEF Firing
<1>11. \A u \in Timer : u # t =>
         /\ done.timeout_tick[u] = w.timeout_tick[u]
         /\ u \in w.active => u \in done.active
  BY <1>3, <1>7 DEF Firing, SameTimers
<1> QED BY <1>1, <1>2, <1>5, <1>7, <1>8, <1>9, <1>10, <1>11

LEMMA TimeoutInv == ASSUME IInv, NEW h \in Handler, Timeout(h) PROVE IInv'
<1>0. /\ TypeOK /\ Alone /\ Removed /\ Inserting /\ ~ fault /\ isr
      /\ UNCHANGED <<tick, pc, arg, isr, fault>>
  BY DEF IInv, Timeout
<1>1. PICK t \in Timer :
        /\ fired' = t /\ Listed(w, t)
        /\ left' \in [Timer -> Int] /\ before' \subseteq Timer \X Timer
        /\ Good(w', tick, left', before')
        /\ \A u : Listed(w', u) => Listed(w, u)
        /\ \A u \in Timer : u # t => w'.timeout_tick[u] = w.timeout_tick[u] /\ left'[u] = left[u]
  BY TimeoutProps
<1>2. TypeOK'
  BY <1>0, <1>1 DEF TypeOK, Good
<1>3. Alone' /\ Removed' /\ Fresh'
  BY <1>0, <1>1 DEF Alone, Removed, Fresh
<1>4. Inserting'
  <2> SUFFICES ASSUME NEW c \in Caller, pc[c] = "insert"
               PROVE  /\ Wraps(w'.timeout_tick[arg[c]], tick, left'[arg[c]])
                      /\ left'[arg[c]] \in - MaxLate .. Longest
    BY <1>0 DEF Inserting, Wraps
  <2>1. arg[c] \in Timer /\ arg[c] # t
    BY <1>0, <1>1 DEF Alone, Removed, OffList
  <2> QED BY <1>0, <1>1, <2>1 DEF Inserting
<1> QED BY <1>0, <1>1, <1>2, <1>3, <1>4 DEF IInv

(* When rt_timer_check ends, no timer in the list is due. *)
LEMMA CheckEndDue ==
  ASSUME IInv, CheckEnd
  PROVE  \A t \in Timer : Listed(w, t) => left[t] > 0
<1> SUFFICES ASSUME NEW t \in Timer, Listed(w, t) PROVE left[t] > 0
  OBVIOUS
<1>1. w.list # <<>>
  BY DEF Listed, On
<1>2. ~ Overdue(w, Head(w.list))
  BY <1>1 DEF CheckEnd
<1>3. /\ left[Head(w.list)] \in Int /\ left[t] \in Int
      /\ ~ (left[Head(w.list)] <= 0) /\ left[Head(w.list)] <= left[t]
  BY <1>1, <1>2, HeadOverdue DEF IInv, TypeOK
<1> QED BY <1>3

LEMMA CheckEndInv == ASSUME IInv, CheckEnd PROVE IInv'
<1>1. /\ Good(w, tick, left, before) /\ Shrinks(w) /\ Becomes(w)
      /\ UNCHANGED <<tick, pc, arg, fault>> /\ isr' = FALSE
      /\ pc' \in [Caller -> PC] /\ arg' \in [Caller -> Timer \cup {RT_NULL}]
      /\ InsertsOn(w)
  BY DEF IInv, TypeOK, Shrinks, InsertsOn, CheckEnd
<1>2. Alone' /\ Removed'
  BY <1>1 DEF IInv, Alone, Removed, Becomes
<1>3. \A t \in Timer : Listed(w, t) => left[t] >= - MaxLate
  <2>1. \A t \in Timer : left[t] \in Int
    BY DEF IInv, TypeOK
  <2> QED BY <2>1, CheckEndDue, Halves
<1> QED BY <1>1, <1>2, <1>3, BecomesInv

LEMMA NextIInv == ASSUME Overlap = FALSE, IInv, [Next]_vars PROVE IInv'
<1>1. CASE UNCHANGED vars
  BY <1>1 DEF vars, IInv, TypeOK, Good, Alone, Removed, Inserting, Fresh
<1>2. ASSUME NEW c \in Caller, Call(c) PROVE IInv'
  BY <1>2, StartRemoveInv, StopTestInv, DetachInv, SetInv DEF Call
<1>3. ASSUME NEW c \in Caller, Continue(c) PROVE IInv'
  BY <1>3, StartArmInv, StartInsertInv, StopInv, ReinitInv DEF Continue
<1>4. CASE Tick
  BY <1>4, SysTickInv, TimeoutInv, CheckEndInv DEF Tick
<1> QED BY <1>1, <1>2, <1>3, <1>4 DEF Next

(* The invariant that the theorems rest on, when calls do not overlap *)
LEMMA AlwaysIInv == ASSUME Overlap = FALSE PROVE Spec => []IInv
<1>1. IInv /\ [Next]_vars => IInv'
  BY NextIInv
<1> QED BY <1>1, InitIInv, PTL DEF Spec

-----------------------------------------------------------------------------
(* rt_timer_start never links a timer that is in the list, and timeout_tick  *)
(* keeps the width of rt_tick_t, when no two threads call on one timer at a  *)
(* time.                                                                     *)
THEOREM StartLinksUnlinked == ASSUME Overlap = FALSE PROVE Spec => []InsertsUnlinked
<1>1. IInv => InsertsUnlinked
  BY DEF IInv, InsertsUnlinked
<1> QED BY <1>1, AlwaysIInv, PTL

(* Timers with the same timeout are in the list in the order in which        *)
(* rt_timer_start inserted them, whatever ticks have wrapped.                *)
THEOREM EqualTimersInOrder == ASSUME Overlap = FALSE PROVE Spec => []EarlyFirst
<1>1. IInv => EarlyFirst
  <2> SUFFICES ASSUME IInv, NEW i \in 1 .. Len(w.list), NEW j \in 1 .. Len(w.list),
                      i < j, left[w.list[i]] = left[w.list[j]]
               PROVE  <<w.list[i], w.list[j]>> \in before
    BY DEF EarlyFirst
  <2>1. <<w.list[i], w.list[j]>> \in Earlier(left, before)
    BY DEF IInv, Good, Chain
  <2>2. left[w.list[i]] \in Int
    BY DEF IInv, TypeOK, World
  <2> QED BY <2>1, <2>2 DEF Earlier
<1> QED BY <1>1, AlwaysIInv, PTL

(* No timeout function is called early, and rt_timer_check ends with no      *)
(* timer overdue, for any width of rt_tick_t.                                *)
THEOREM TimersAreOnTime == ASSUME Overlap = FALSE PROVE Spec => OnTime
<1> DEFINE Right == /\ fired' # RT_NULL => left[fired'] <= 0
                    /\ (isr /\ ~ isr') => \A t \in Timer : Listed(w, t) => left[t] > 0
<1>1. ASSUME IInv, Next PROVE Right
  <2>1. ASSUME NEW c \in Caller, Call(c) PROVE fired' = RT_NULL /\ isr' = isr
    BY <2>1 DEF Call, StartRemove, StopTest, Detach, SetTime, SetPeriodic, Becomes
  <2>2. ASSUME NEW c \in Caller, Continue(c) PROVE fired' = RT_NULL /\ isr' = isr
    BY <2>2 DEF Continue, StartArm, StartInsert, StopRemove, StopFlag, StopEnd, Reinit, Becomes
  <2>3. CASE SysTick
    BY <2>3 DEF SysTick
  <2>4. ASSUME NEW h \in Handler, Timeout(h) PROVE Right
    <3>1. isr' = isr
      BY <2>4 DEF Timeout
    <3>2. PICK t \in Timer : fired' = t /\ left[t] <= 0
      BY <1>1, <2>4, TimeoutProps
    <3> QED BY <3>1, <3>2
  <2>5. CASE CheckEnd
    <3>1. fired' = RT_NULL
      BY <2>5 DEF CheckEnd, Becomes
    <3> QED BY <1>1, <2>5, <3>1, CheckEndDue
  <2> QED BY <1>1, <2>1, <2>2, <2>3, <2>4, <2>5 DEF Next, Tick
<1>2. IInv /\ [Next]_vars => [Right]_vars
  BY <1>1
<1> QED BY <1>2, AlwaysIInv, PTL DEF Spec, OnTime

(* Nothing is inserted and no timer in the list loses its flag. *)
LEMMA FlaggedKept ==
  ASSUME Flagged,
         \A u : Listed(w', u) => Listed(w, u) /\ (u \in w.active => u \in w'.active),
         \A c \in Caller : pc'[c] = "stop_end" => ~ Listed(w', arg'[c])
  PROVE  Flagged'
BY DEF Flagged, StopStops

LEMMA NextFlagged ==
  ASSUME Overlap = FALSE, Handler \subseteq {"return", "stop"}, IInv, Flagged, Next
  PROVE  Flagged'
<1>0. /\ w \in World /\ Good(w, tick, left, before) /\ Alone /\ Removed
      /\ pc \in [Caller -> PC] /\ arg \in [Caller -> Timer \cup {RT_NULL}] /\ StopStops
      /\ \A t \in Timer : Listed(w, t) => t \in w.active
  BY DEF IInv, TypeOK, Good, Flagged
<1>1. ASSUME NEW c \in Caller, NEW t \in Timer, NEW to, Begin(c, t, to),
             \A u : Listed(w', u) => Listed(w, u) /\ (u \in w.active => u \in w'.active),
             to = "stop_end" => ~ Listed(w', t)
      PROVE  Flagged'
  <2>1. \A d \in Caller : pc'[d] = "stop_end" => ~ Listed(w', arg'[d])
    BY <1>0, <1>1 DEF Begin, StopStops
  <2> QED BY <1>1, <2>1, FlaggedKept
<1>2. ASSUME NEW c \in Caller, NEW from, NEW to, At(c, from, to),
             \A u : Listed(w', u) => Listed(w, u) /\ (u \in w.active => u \in w'.active),
             to = "stop_end" => ~ Listed(w', arg[c])
      PROVE  Flagged'
  <2>1. \A d \in Caller : pc'[d] = "stop_end" => ~ Listed(w', arg'[d])
    BY <1>0, <1>2 DEF At, StopStops
  <2> QED BY <1>2, <2>1, FlaggedKept
<1>3. ASSUME UNCHANGED <<pc, arg>>,
             \A u : Listed(w', u) => Listed(w, u) /\ (u \in w.active => u \in w'.active)
      PROVE  Flagged'
  <2>1. \A d \in Caller : pc'[d] = "stop_end" => ~ Listed(w', arg'[d])
    BY <1>0, <1>3 DEF StopStops
  <2> QED BY <1>3, <2>1, FlaggedKept
<1>4. ASSUME NEW r, NEW t, r = _rt_timer_remove(w, t)
      PROVE  /\ r \in World /\ r.active = w.active
             /\ \A u : Listed(r, u) <=> Listed(w, u) /\ u # t
  <2>1. /\ Good(r, tick, left, before) /\ SameTimers(r, w)
        /\ \A u : Listed(r, u) <=> Listed(w, u) /\ u # t
    BY <1>0, <1>4, RemoveGood
  <2> QED BY <2>1 DEF Good, SameTimers
<1>5. ASSUME NEW x \in World, NEW r, NEW t, r = [x EXCEPT !.active = @ \ {t}]
      PROVE  r.active = x.active \ {t} /\ \A u : Listed(r, u) <=> Listed(x, u)
  BY <1>5 DEF World, Listed
<1>6. ASSUME NEW c \in Caller, NEW t \in Timer, StartRemove(c, t) PROVE Flagged'
  <2>1. Begin(c, t, "arm")
    BY <1>6 DEF StartRemove
  <2>2. PICK e : e = _rt_timer_remove(w, t) /\ w' = [e EXCEPT !.active = @ \ {t}]
    BY <1>6 DEF StartRemove, Becomes, Stopped
  <2>3. \A u : Listed(w', u) => Listed(w, u) /\ (u \in w.active => u \in w'.active)
    BY <1>4, <1>5, <2>2
  <2> QED BY <1>1, <2>1, <2>3
<1>7. ASSUME NEW c \in Caller, NEW t \in Timer, StopTest(c, t) PROVE Flagged'
  <2>1. w' = w /\ Begin(c, t, IF t \in w.active THEN "stop_remove" ELSE "stop_end")
    BY <1>7 DEF StopTest, Becomes
  <2>2. CASE t \in w.active
    <3>1. Begin(c, t, "stop_remove")
      BY <2>1, <2>2
    <3> QED BY <1>1, <2>1, <3>1
  <2>3. CASE t \notin w.active
    <3>1. Begin(c, t, "stop_end") /\ ~ Listed(w', t)
      BY <1>0, <2>1, <2>3
    <3> QED BY <1>1, <2>1, <3>1
  <2> QED BY <2>2, <2>3
<1>8. ASSUME NEW c \in Caller, NEW t \in Timer, Detach(c, t) PROVE Flagged'
  <2>1. Begin(c, t, "detached") /\ w' = _rt_timer_remove(w, t)
    BY <1>8 DEF Detach, Becomes
  <2>2. \A u : Listed(w', u) => Listed(w, u) /\ (u \in w.active => u \in w'.active)
    BY <1>4, <2>1
  <2> QED BY <1>1, <2>1, <2>2
<1>9. ASSUME NEW c \in Caller, NEW t \in Timer,
             \/ \E n \in Ticks : SetTime(c, t, n)
             \/ \E on \in BOOLEAN : SetPeriodic(c, t, on)
      PROVE  Flagged'
  <2>1. UNCHANGED <<pc, arg>> /\ w'.list = w.list /\ w'.active = w.active
    BY <1>0, <1>9 DEF SetTime, SetPeriodic, Becomes, World
  <2>2. \A u : Listed(w', u) => Listed(w, u) /\ (u \in w.active => u \in w'.active)
    BY <2>1 DEF Listed
  <2> QED BY <1>3, <2>1, <2>2
<1>10. ASSUME NEW c \in Caller, StartArm(c) PROVE Flagged'
  <2>1. At(c, "arm", "insert") /\ w'.list = w.list /\ w'.active = w.active
    BY <1>0, <1>10 DEF StartArm, Armed, World
  <2>2. \A u : Listed(w', u) => Listed(w, u) /\ (u \in w.active => u \in w'.active)
    BY <2>1 DEF Listed
  <2> QED BY <1>2, <2>1, <2>2
<1>11. ASSUME NEW c \in Caller, StartInsert(c) PROVE Flagged'
  <2> DEFINE t == arg[c]
  <2>1. /\ t \in Timer /\ ~ Listed(w, t) /\ pc[c] = "insert" /\ arg' = arg
        /\ pc' = [pc EXCEPT ![c] = "app"]
    BY <1>0, <1>11 DEF StartInsert, At, Alone, Removed, OffList
  <2>2. w' = Inserted(w, t) /\ IInv'
    BY <1>11, <2>1, StartInsertInv DEF StartInsert
  <2>3. w'.active = w.active \cup {t} /\ \A u : Listed(w', u) <=> Listed(w, u) \/ u = t
    <3>1. /\ Wraps(w.timeout_tick[t], tick, left[t]) /\ left[t] \in - MaxLate .. Longest
          /\ tick \in 0 .. TICK_MOD - 1 /\ left \in [Timer -> Int]
      BY <2>1 DEF IInv, TypeOK, Inserting
    <3> DEFINE bf == before \cup ({u \in Timer : Listed(w, u)} \X {t})
    <3>2. Agree(w, left, w, left) /\ Keeps(bf, before, w)
      BY DEF Agree, Keeps
    <3>3. \A u \in Timer : Listed(w, u) => <<u, t>> \in bf
      OBVIOUS
    <3> HIDE DEF bf
    <3>4. Good(w, tick, left, bf)
      BY <1>0, <3>2, GoodSame
    <3> QED BY <2>1, <2>2, <3>1, <3>3, <3>4, InsertGood
  <2>4. \A d \in Caller : pc'[d] = "stop_end" => ~ Listed(w', arg'[d])
    <3> SUFFICES ASSUME NEW d \in Caller, pc'[d] = "stop_end" PROVE ~ Listed(w', arg[d])
      BY <2>1
    <3>1. pc[d] = "stop_end" /\ d # c
      BY <1>0, <2>1
    <3>2. arg[d] # t
      BY <1>0, <2>1, <3>1 DEF Alone
    <3> QED BY <1>0, <2>3, <3>1, <3>2 DEF StopStops
  <2> QED BY <1>0, <2>3, <2>4 DEF Flagged, StopStops
<1>12. ASSUME NEW c \in Caller, StopRemove(c) PROVE Flagged'
  <2>1. At(c, "stop_remove", "stop_flag") /\ w' = _rt_timer_remove(w, arg[c])
    BY <1>12 DEF StopRemove, Becomes
  <2>2. \A u : Listed(w', u) => Listed(w, u) /\ (u \in w.active => u \in w'.active)
    BY <1>4, <2>1
  <2> QED BY <1>2, <2>1, <2>2
<1>13. ASSUME NEW c \in Caller, StopFlag(c) PROVE Flagged'
  <2>1. At(c, "stop_flag", "stop_end") /\ w' = [w EXCEPT !.active = @ \ {arg[c]}]
    BY <1>13 DEF StopFlag, Becomes
  <2>2. ~ Listed(w, arg[c])
    BY <1>0, <2>1 DEF At, Removed, OffList
  <2>3. /\ \A u : Listed(w', u) => Listed(w, u) /\ (u \in w.active => u \in w'.active)
        /\ ~ Listed(w', arg[c])
    BY <1>0, <1>5, <2>1, <2>2
  <2> QED BY <1>2, <2>1, <2>3
<1>14. ASSUME NEW c \in Caller, StopEnd(c) PROVE Flagged'
  <2>1. At(c, "stop_end", "app") /\ w' = w
    BY <1>14 DEF StopEnd, Becomes
  <2> QED BY <1>2, <2>1
<1>15. ASSUME NEW c \in Caller, NEW n \in Ticks, NEW on \in BOOLEAN, Reinit(c, n, on)
       PROVE  Flagged'
  <2>1. /\ At(c, "detached", "app") /\ w'.list = w.list
        /\ w'.active = w.active \ {arg[c]}
    BY <1>0, <1>15 DEF Reinit, Becomes, World
  <2>2. ~ Listed(w, arg[c])
    BY <1>0, <2>1 DEF At, Removed, OffList
  <2>3. \A u : Listed(w', u) => Listed(w, u) /\ (u \in w.active => u \in w'.active)
    BY <2>1, <2>2 DEF Listed
  <2> QED BY <1>2, <2>1, <2>3
<1>16. CASE SysTick \/ CheckEnd
  <2>1. UNCHANGED <<pc, arg>> /\ w' = w
    BY <1>16 DEF SysTick, CheckEnd, Becomes
  <2> QED BY <1>3, <2>1
<1>17. ASSUME NEW h \in Handler, Timeout(h) PROVE Flagged'
  <2>1. UNCHANGED <<pc, arg>> /\ h # "start"
    BY <1>17 DEF Timeout
  <2>2. PICK t \in Timer :
          /\ \A u : Listed(w', u) => Listed(w, u)
          /\ \A u \in Timer : u # t => (u \in w.active => u \in w'.active)
          /\ Listed(w', t) => t \in w'.active
    BY <1>17, <2>1, TimeoutProps
  <2>3. \A d \in Caller : pc'[d] = "stop_end" => ~ Listed(w', arg'[d])
    BY <1>0, <2>1, <2>2 DEF StopStops
  <2> QED BY <1>0, <2>2, <2>3 DEF Flagged, StopStops
<1>18. ASSUME NEW c \in Caller, Call(c) PROVE Flagged'
  BY <1>6, <1>7, <1>8, <1>9, <1>18 DEF Call
<1>19. ASSUME NEW c \in Caller, Continue(c) PROVE Flagged'
  BY <1>10, <1>11, <1>12, <1>13, <1>14, <1>15, <1>19 DEF Continue
<1> QED BY <1>16, <1>17, <1>18, <1>19 DEF Next, Tick

(* rt_timer_stop leaves the timer off the list, with the tick interrupt and  *)
(* calls on other timers at any point of it, as long as no timeout function  *)
(* starts its own timer.                                                     *)
THEOREM StoppedTimersAreOff ==
  ASSUME Overlap = FALSE, Handler \subseteq {"return", "stop"}
  PROVE  Spec => []StopStops
<1>1. Init => Flagged
  BY DEF Init, Flagged, StopStops, Listed, On
<1>2. IInv /\ Flagged /\ [Next]_vars => Flagged'
  <2>1. ASSUME Flagged, UNCHANGED vars PROVE Flagged'
    BY <2>1 DEF vars, Flagged, StopStops
  <2> QED BY <2>1, NextFlagged
<1>3. Flagged => StopStops
  BY DEF Flagged
<1> QED BY <1>1, <1>2, <1>3, AlwaysIInv, PTL DEF Spec

=============================================================================
