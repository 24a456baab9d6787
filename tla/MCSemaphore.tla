----------------------------- MODULE MCSemaphore -----------------------------
(* Two threads of different priority, with or without a third of the lower   *)
(* one, and idle.                                                             *)
EXTENDS Semaphore, TLC

CONSTANTS hi, lo, lo2, semList

MCThread       == {hi, lo, lo2, idle}
TwoThreads     == {hi, lo, idle}
MCWaitList     == {semList}
MCInitPriority == IF lo2 \in Thread
                  THEN hi :> 0 @@ lo :> 1 @@ lo2 :> 1 @@ idle :> 2
                  ELSE hi :> 0 @@ lo :> 1 @@ idle :> 2
MCInitTick     == [t \in Thread |-> 1]
MCStartTable   == 0 :> <<hi>> @@ 1 :> <<lo, lo2>> @@ 2 :> <<idle>>
TwoStart       == 0 :> <<hi>> @@ 1 :> <<lo>> @@ 2 :> <<idle>>
MCTimes        == {-1, 0, 1, 2}
==============================================================================
