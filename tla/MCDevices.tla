------------------------------ MODULE MCDevices ------------------------------
(* Two threads of different priority and idle.  The applications with the    *)
(* objects of Ipc are those of the calls with a time limit.                  *)
EXTENDS Devices

CONSTANTS b1, b2, m1, m2, d1, e1, i1, i2, i3, w1, w2, s1, s2

MCThread       == {front, back, idle}
MCWaitList     == {mbRecv, mbSend, mpList, mqList, evList, cpList, dqPush, dqPop,
                   piRead, piWrite}
MCInitPriority == front :> 0 @@ back :> 1 @@ idle :> 2
MCInitTick     == [t \in Thread |-> 1]
MCStartTable   == 0 :> <<front>> @@ 1 :> <<back>> @@ 2 :> <<idle>>
Timed          == {-1, 2}
Untimed        == {-1, 0}
MCPopTimes     == {-1, 1}
MCBlockList    == <<b1, b2>>
MCMsgFree      == <<m1, m2>>
MCWrites       == {<<0>>, <<1, 0>>, <<1, 0, 1>>}

MCSoftTick     == s1 :> 1 @@ s2 :> 2

Services       == {{"mail"}, {"queue", "isr"}, {"event"}}
Drivers        == {{"completion", "isr", "swap"}, {"data"},
                   {"data", "isr", "swap"}, {"data", "isr", "two", "poll", "reset"},
                   {"uart", "isr"}, {"dma", "isr"}, {"work"}, {"soft"}}
Pipes          == {{"pipe"}, {"pipe", "swap"}, {"pipe", "force", "swap"},
                   {"pipe", "isr_write", "swap"}, {"pipe", "isr_write", "two"},
                   {"pipe", "isr_read"}, {"pipe", "isr_read", "two"},
                   {"chars", "swap"}}
Heaps          == {{"heap"}, {"heap", "realloc"}, {"memheap"}}
LateApplications == {{"dma", "isr", "late"}}
MCApplications == Services \cup Drivers \cup Pipes \cup Heaps
==============================================================================
