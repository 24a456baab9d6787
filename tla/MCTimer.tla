------------------------------- MODULE MCTimer -------------------------------
(* Two timers and one or two callers; rt_tick_t has three bits.               *)
EXTENDS Timer, TLC

CONSTANTS a, b, c1, c2

(* Nothing distinguishes the timers, nor the callers. *)
Symmetry == Permutations(Timer) \cup Permutations(Caller)
==============================================================================
