------------------------------- MODULE MCMutex -------------------------------
(* Threads of three priorities and idle, with one mutex or two.              *)
EXTENDS Mutex, TLC

CONSTANTS hi, mid, lo, A, B

ThreeThreads   == {hi, mid, lo, idle}
TwoThreads     == {hi, lo, idle}
OneMutex       == {A}
TwoMutexes     == {A, B}
MCInitPriority == IF mid \in Thread
                  THEN hi :> 0 @@ mid :> 1 @@ lo :> 2 @@ idle :> 3
                  ELSE hi :> 0 @@ lo :> 2 @@ idle :> 3
MCInitTick     == [t \in Thread |-> 1]
ThreeStart     == 0 :> <<hi>> @@ 1 :> <<mid>> @@ 2 :> <<lo>> @@ 3 :> <<idle>>
TwoStart       == 0 :> <<hi>> @@ 1 :> <<>> @@ 2 :> <<lo>> @@ 3 :> <<idle>>
Timed          == {-1, 0, 1}
Forever        == {-1}
==============================================================================
