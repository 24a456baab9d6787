------------------------------ MODULE MCThreads ------------------------------
(* A static thread that is running from the start, two heap threads of the   *)
(* same and of a lower priority that it and they create, and idle.           *)
EXTENDS Threads, TLC

CONSTANTS boss, w1, w2

MCThread       == {boss, w1, w2, idle}
MCWaitList     == {}
MCInitPriority == boss :> 1 @@ w1 :> 0 @@ w2 :> 1 @@ idle :> 2
MCInitTick     == [t \in MCThread |-> 1]
MCStartTable   == 0 :> <<>> @@ 1 :> <<boss>> @@ 2 :> <<idle>>
MCHeap         == {w1, w2}
MCGarbage      == {{}, {1}}
MCApplications ==
  {{"create", "suspend", "isr_resume", "yield", "critical", "sleep"},
   {"create", "suspend", "suspend_other", "isr_resume", "yield", "critical"},
   {"create", "suspend_other", "isr_resume", "sleep"},
   {"create", "exit", "suspend", "resume", "isr_resume", "delete"}}
SleepAndDelete == {{"create", "delete", "sleep"}}
==============================================================================
