-------------------------------- MODULE MCIpc --------------------------------
(* Two threads of different priority and idle. *)
EXTENDS Ipc

CONSTANTS hi, lo, b1, b2, m1, m2, d1, d2, e1, e2

MCThread       == {hi, lo, idle}
MCWaitList     == {mbRecv, mbSend, mpList, mqList, evList}
MCInitPriority == hi :> 0 @@ lo :> 1 @@ idle :> 2
MCInitTick     == [t \in Thread |-> 1]
MCStartTable   == 0 :> <<hi>> @@ 1 :> <<lo>> @@ 2 :> <<idle>>
MCTimes        == {-1, 0, 1}
Untimed        == {-1, 0}
MCBlockList    == <<b1, b2>>
MCMsgFree      == <<m1, m2>>
MCApplications == {{"mail", "isr", "reset"}, {"mail", "pool", "isr"},
                   {"queue", "isr", "reset"}, {"event", "isr"},
                   {"mail", "pool", "reset", "detach"}, {"queue", "detach"},
                   {"event", "reset", "detach"}}
==============================================================================
