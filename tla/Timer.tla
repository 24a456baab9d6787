-------------------------------- MODULE Timer --------------------------------
(***************************************************************************)
(* The hard timers of timer.c: a list sorted by an absolute tick that      *)
(* wraps around, threads that start, stop, set and detach timers, and the  *)
(* tick interrupt that runs the timeout functions.                         *)
(*                                                                         *)
(* Module Kernel counts the ticks that are left of a thread timer.  Here   *)
(* that count is the history variable left, and the properties say that    *)
(* the wrapping ticks and the sorted list behave as if it were counted.    *)
(*                                                                         *)
(* RT_TIMER_SKIP_LIST_LEVEL is 1, its default: the list has one row.       *)
(***************************************************************************)
EXTENDS Lists

CONSTANTS
  Timer,       \* the timer objects
  Caller,      \* the threads that call the timer functions, preemptible anywhere
  RT_NULL,     \* no timer
  TICK_MOD,    \* rt_tick_t is a rt_uint32_t: 2^32
  Ticks,       \* the values of init_tick
  MaxLate,     \* bound: ticks between computing a timeout and inserting the timer
  Handler,     \* what timeout functions do
  Overlap      \* calls of two threads on one timer may overlap

RT_TICK_MAX == TICK_MOD - 1
Half        == RT_TICK_MAX \div 2

(* rt_timer_start asserts init_tick < RT_TICK_MAX / 2.  A timer inserted late *)
(* needs MaxLate ticks more of that half.                                    *)
ASSUME TimerAssumption ==
  /\ RT_NULL \notin Timer
  /\ TICK_MOD \in Nat \ {0} /\ MaxLate \in Nat
  /\ Ticks \subseteq Nat /\ Ticks # {} /\ \A n \in Ticks \cup {1} : n + MaxLate < Half
  /\ Handler \subseteq {"return", "stop", "start"}
  /\ Overlap \in BOOLEAN

VARIABLES
  tick,     \* rt_tick
  w,        \* the timers and their list
  pc, arg,  \* where the call in progress of a thread is, and its timer
  isr,      \* rt_timer_check is running
  fired,    \* history: the timer whose timeout function the last step called
  left,     \* history: ticks left of a timer, not wrapped
  before,   \* history: <<t, u>> if t was inserted before u, both still listed
  fault     \* a linked timer was linked again

vars == <<tick, w, pc, arg, isr, fired, left, before, fault>>

PC == {"app", "arm", "insert", "stop_remove", "stop_flag", "stop_end", "detached"}

World ==
  [list         : Seq(Timer),                     \* rt_timer_list
   timeout_tick : [Timer -> 0 .. TICK_MOD - 1],
   init_tick    : [Timer -> Ticks],
   active       : SUBSET Timer,                   \* RT_TIMER_FLAG_ACTIVATED
   periodic     : SUBSET Timer]                   \* RT_TIMER_FLAG_PERIODIC

Listed(ww, t) == On(ww.list, t)

(* a - b in rt_tick_t *)
Minus(a, b) == (a - b) % TICK_MOD

_rt_timer_remove(ww, t) == [ww EXCEPT !.list = Unlink(@, t)]

-----------------------------------------------------------------------------
(* rt_timer_start *)

(* mutants: the place before a timer of the same timeout; ticks compared     *)
(* without wrapping                                                          *)
PlaceBeforeEqual(ww, t) ==
  CHOOSE i \in 1 .. Len(ww.list) + 1 :
    LET diff(j) == Minus(ww.timeout_tick[ww.list[j]], ww.timeout_tick[t])
    IN  /\ \A j \in 1 .. i - 1 : diff(j) >= Half
        /\ i <= Len(ww.list) => diff(i) < Half

PlaceNoWrap(ww, t) ==
  CHOOSE i \in 1 .. Len(ww.list) + 1 :
    LET diff(j) == ww.timeout_tick[ww.list[j]] - ww.timeout_tick[t]
    IN  /\ \A j \in 1 .. i - 1 : diff(j) <= 0
        /\ i <= Len(ww.list) => diff(i) > 0

(* The place before the first timer that expires later *)
Place(ww, t) ==
  CHOOSE i \in 1 .. Len(ww.list) + 1 :
    LET diff(j) == Minus(ww.timeout_tick[ww.list[j]], ww.timeout_tick[t])
    IN  /\ \A j \in 1 .. i - 1 : diff(j) = 0 \/ diff(j) >= Half
        /\ i <= Len(ww.list) => diff(i) # 0 /\ diff(i) < Half

(* _rt_timer_remove and the flag: the first section of rt_timer_start *)
Stopped(ww, t) == [_rt_timer_remove(ww, t) EXCEPT !.active = @ \ {t}]

Armed(ww, t) == [ww EXCEPT !.timeout_tick[t] = (tick + ww.init_tick[t]) % TICK_MOD]

Inserted(ww, t) ==
  [ww EXCEPT !.list = LinkAt(@, Place(ww, t), t), !.active = @ \cup {t}]

(* The call as a whole, as it executes inside rt_timer_check *)
rt_timer_start(ww, t) ==
  LET armed == Armed(Stopped(ww, t), t) IN Inserted(armed, t)

rt_timer_stop(ww, t) == IF t \in ww.active THEN Stopped(ww, t) ELSE ww

-----------------------------------------------------------------------------
(* The calls of a thread *)

Free(t) == Overlap \/ \A c \in Caller : pc[c] # "app" => arg[c] # t

Begin(c, t, to) ==
  /\ pc[c] = "app" /\ ~ isr /\ ~ fault /\ Free(t)
  /\ pc' = [pc EXCEPT ![c] = to]
  /\ arg' = [arg EXCEPT ![c] = t]

At(c, from, to) ==
  /\ pc[c] = from /\ ~ isr /\ ~ fault
  /\ pc' = [pc EXCEPT ![c] = to]
  /\ UNCHANGED arg

Init ==
  /\ tick = RT_TICK_MAX
  /\ w = [list |-> <<>>, timeout_tick |-> [t \in Timer |-> 0],
          init_tick |-> [t \in Timer |-> CHOOSE n \in Ticks : TRUE],
          active |-> {}, periodic |-> {}]
  /\ pc = [c \in Caller |-> "app"] /\ arg = [c \in Caller |-> RT_NULL]
  /\ isr = FALSE /\ fired = RT_NULL /\ fault = FALSE
  /\ left = [t \in Timer |-> 0] /\ before = {}

(* The timers become ww.  The histories forget a timer that is not pending. *)
Becomes(ww) ==
  /\ w' = ww
  /\ fired' = RT_NULL
  /\ before' = {p \in before : Listed(ww, p[1]) /\ Listed(ww, p[2])}
  /\ left' = [t \in Timer |-> IF Listed(ww, t) \/ \E c \in Caller : pc'[c] = "insert" /\ arg'[c] = t
                             THEN left[t] ELSE 0]

(* mutant: a pending timer is not removed first *)
StartKeeps(c, t) ==
  /\ Begin(c, t, "arm")
  /\ Becomes([w EXCEPT !.active = @ \ {t}])
  /\ UNCHANGED <<tick, isr, fault>>

StartRemove(c, t) ==
  /\ Begin(c, t, "arm")
  /\ Becomes(Stopped(w, t))
  /\ UNCHANGED <<tick, isr, fault>>

(* timeout_tick is computed with interrupts enabled. *)
StartArm(c) ==
  /\ At(c, "arm", "insert")
  /\ w' = Armed(w, arg[c])
  /\ left' = [left EXCEPT ![arg[c]] = w.init_tick[arg[c]]]
  /\ fired' = RT_NULL
  /\ UNCHANGED <<tick, isr, before, fault>>

StartInsert(c) ==
  /\ At(c, "insert", "app")
  /\ IF Listed(w, arg[c])
     THEN fault' = TRUE /\ UNCHANGED <<w, before>>
     ELSE /\ w' = Inserted(w, arg[c])
          /\ before' = before \cup ({t \in Timer : Listed(w, t)} \X {arg[c]})
          /\ UNCHANGED fault
  /\ fired' = RT_NULL
  /\ UNCHANGED <<tick, isr, left>>

(* rt_timer_stop: a timer that is not ACTIVATED is left alone *)
StopTest(c, t) ==
  /\ Begin(c, t, IF t \in w.active THEN "stop_remove" ELSE "stop_end")
  /\ Becomes(w)
  /\ UNCHANGED <<tick, isr, fault>>

StopRemove(c) ==
  /\ At(c, "stop_remove", "stop_flag")
  /\ Becomes(_rt_timer_remove(w, arg[c]))
  /\ UNCHANGED <<tick, isr, fault>>

StopFlag(c) ==
  /\ At(c, "stop_flag", "stop_end")
  /\ Becomes([w EXCEPT !.active = @ \ {arg[c]}])
  /\ UNCHANGED <<tick, isr, fault>>

StopEnd(c) ==
  /\ At(c, "stop_end", "app")
  /\ Becomes(w)
  /\ UNCHANGED <<tick, isr, fault>>

(* rt_timer_control *)
SetTime(c, t, n) ==
  /\ pc[c] = "app" /\ ~ isr /\ ~ fault /\ Free(t)
  /\ UNCHANGED <<tick, pc, arg, isr, fault>>
  /\ Becomes([w EXCEPT !.init_tick[t] = n])

SetPeriodic(c, t, on) ==
  /\ pc[c] = "app" /\ ~ isr /\ ~ fault /\ Free(t)
  /\ UNCHANGED <<tick, pc, arg, isr, fault>>
  /\ Becomes([w EXCEPT !.periodic = IF on THEN @ \cup {t} ELSE @ \ {t}])

(* rt_timer_detach or rt_timer_delete, and rt_timer_init of the object again *)
Detach(c, t) ==
  /\ Begin(c, t, "detached")
  /\ Becomes(_rt_timer_remove(w, t))
  /\ UNCHANGED <<tick, isr, fault>>

Reinit(c, n, on) ==
  /\ At(c, "detached", "app")
  /\ Becomes([w EXCEPT !.active = @ \ {arg[c]}, !.timeout_tick[arg[c]] = 0,
                       !.init_tick[arg[c]] = n,
                       !.periodic = IF on THEN @ \cup {arg[c]} ELSE @ \ {arg[c]}])
  /\ UNCHANGED <<tick, isr, fault>>

-----------------------------------------------------------------------------
(* The tick interrupt *)

(* The timers whose ticks are counted: in the list, or about to be inserted *)
Pending(t) == Listed(w, t) \/ \E c \in Caller : pc[c] = "insert" /\ arg[c] = t

SysTick ==
  /\ ~ isr /\ ~ fault
  /\ \A c \in Caller : pc[c] = "insert" => left[arg[c]] > - MaxLate
  /\ tick' = (tick + 1) % TICK_MOD
  /\ left' = [t \in Timer |-> IF Pending(t) THEN left[t] - 1 ELSE left[t]]
  /\ isr' = TRUE
  /\ fired' = RT_NULL
  /\ UNCHANGED <<w, pc, arg, before, fault>>

Overdue(ww, t) == Minus(tick, ww.timeout_tick[t]) < Half

Handled(ww, t, h) ==
  CASE h = "return" -> ww
    [] h = "stop"   -> rt_timer_stop(ww, t)
    [] h = "start"  -> rt_timer_start(ww, t)

(* mutants: the flag is cleared after the restart; no restart; a restart that *)
(* keeps the old timeout                                                     *)
ClearsAfterStart(ww, t) ==
  IF t \in ww.periodic /\ t \in ww.active
  THEN [rt_timer_start(ww, t) EXCEPT !.active = @ \ {t}]
  ELSE [ww EXCEPT !.active = @ \ {t}]

NoRestart(ww, t) == IF t \in ww.periodic THEN ww ELSE [ww EXCEPT !.active = @ \ {t}]

RestartsAtOnce(ww, t) ==
  IF t \in ww.periodic /\ t \in ww.active
  THEN Inserted(ww, t)
  ELSE [ww EXCEPT !.active = @ \ {t}]

(* What rt_timer_check does once the timeout function has returned *)
AfterTimeout(ww, t) ==
  IF t \in ww.periodic /\ t \in ww.active
  THEN rt_timer_start(ww, t)
  ELSE [ww EXCEPT !.active = @ \ {t}]

Timeout(h) ==
  /\ isr /\ w.list # <<>> /\ Overdue(w, Head(w.list))
  /\ LET t    == Head(w.list)
         rest == _rt_timer_remove(w, t)
         done == AfterTimeout(Handled(rest, t, h), t)
     IN  /\ w' = done
         /\ fired' = t
         /\ left' = [left EXCEPT ![t] = IF Listed(done, t) THEN w.init_tick[t] ELSE 0]
         /\ before' = {p \in before : Listed(rest, p[1]) /\ Listed(rest, p[2])}
                       \cup {p \in Timer \X {t} : Listed(rest, p[1]) /\ Listed(done, t)}
  /\ UNCHANGED <<tick, pc, arg, isr, fault>>

CheckEnd ==
  /\ isr /\ (w.list # <<>> => ~ Overdue(w, Head(w.list)))
  /\ isr' = FALSE
  /\ UNCHANGED <<tick, pc, arg, fault>>
  /\ Becomes(w)

-----------------------------------------------------------------------------
Continue(c) ==
  \/ StartArm(c) \/ StartInsert(c) \/ StopRemove(c) \/ StopFlag(c) \/ StopEnd(c)
  \/ \E n \in Ticks, on \in BOOLEAN : Reinit(c, n, on)

Call(c) ==
  \E t \in Timer :
    \/ StartRemove(c, t) \/ StopTest(c, t) \/ Detach(c, t)
    \/ (\E n \in Ticks : SetTime(c, t, n))
    \/ \E on \in BOOLEAN : SetPeriodic(c, t, on)

Tick == SysTick \/ (\E h \in Handler : Timeout(h)) \/ CheckEnd

Next == (\E c \in Caller : Call(c) \/ Continue(c)) \/ Tick

Spec == Init /\ [][Next]_vars

(* The tick interrupt comes again and again, and a call that has begun goes on. *)
FairSpec == Spec /\ SF_vars(Tick) /\ \A c \in Caller : SF_vars(Continue(c))

-----------------------------------------------------------------------------
(* Properties *)

TypeOK ==
  /\ tick \in 0 .. TICK_MOD - 1
  /\ w \in World
  /\ pc \in [Caller -> PC] /\ arg \in [Caller -> Timer \cup {RT_NULL}]
  /\ isr \in BOOLEAN /\ fault \in BOOLEAN /\ fired \in Timer \cup {RT_NULL}
  /\ left \in [Timer -> Int]
  /\ before \subseteq Timer \X Timer

(* No timer is early and none is missed, across the wrap of rt_tick: a       *)
(* timeout function is called when no ticks are left, and when               *)
(* rt_timer_check ends every timer in the list has ticks left.               *)
OnTime ==
  [][/\ fired' # RT_NULL => left[fired'] <= 0
     /\ (isr /\ ~ isr') => \A t \in Timer : Listed(w, t) => left[t] > 0]_vars

(* Of two timers that time out at the same time the one inserted early is   *)
(* called early.                                                            *)
EarlyFirst ==
  \A i, j \in 1 .. Len(w.list) : i < j /\ left[w.list[i]] = left[w.list[j]] =>
    <<w.list[i], w.list[j]>> \in before

(* rt_timer_stop stops: when it returns, the timer is not in the list and   *)
(* its timeout function will not be called.                                 *)
StopStops == \A c \in Caller : pc[c] = "stop_end" => ~ Listed(w, arg[c])

(* The timer that rt_timer_start inserts is in no list, and the variables   *)
(* keep their types, a timeout_tick the width of rt_tick_t.                 *)
InsertsUnlinked == TypeOK /\ ~ fault

(* A timer that stays activated, with no call on it in progress, times out   *)
(* again and again: a periodic timer is never forgotten, and a one-shot      *)
(* timer does not stay activated without timing out.                         *)
KeepsFiring ==
  \A t \in Timer :
    <>[](t \in w.active /\ \A c \in Caller : pc[c] # "app" => arg[c] # t) => []<>(fired = t)

(* rt_timer_check ends: the timers it restarts are not due in the same tick. *)
CheckEnds == isr ~> ~ isr
=============================================================================
