-------------------------------- MODULE Event --------------------------------
(***************************************************************************)
(* Event sets (the rt_event functions of ipc.c): threads wait for all or   *)
(* for one of several events; one send may satisfy several of them.        *)
(***************************************************************************)
EXTENDS Waits, SequencesExt

CONSTANTS
  evList,     \* event->parent.suspend_thread
  Ev          \* the bits of an event set

ASSUME EventAssumption == evList \in WaitList

VARIABLES
  evSet,      \* event->set
  evInfo,     \* thread->event_set and thread->event_info
  evAlive     \* no thread has begun to detach or delete the event object

evVars == <<evSet, evInfo, evAlive>>

(* What a call of rt_event_recv asks for; and: RT_EVENT_FLAG_AND, otherwise  *)
(* RT_EVENT_FLAG_OR.                                                         *)
Request == [set : SUBSET Ev \ {{}}, and : BOOLEAN, clear : BOOLEAN]
NoRequest == [set |-> {}, and |-> FALSE, clear |-> FALSE]

EvType ==
  /\ evSet \subseteq Ev
  /\ evInfo \in [Thread -> Request \cup {NoRequest}]
  /\ evAlive \in BOOLEAN

EvPC == {"ev_recv_sched", "ev_recv_wait", "ev_sched", "ev_reset", "ev_detach",
         "ev_detach_body"}

EvInit ==
  /\ evSet = {}
  /\ evInfo = [t \in Thread |-> NoRequest]
  /\ evAlive = TRUE

Satisfied(r, set) == IF r.and THEN r.set \subseteq set ELSE r.set \cap set # {}

-----------------------------------------------------------------------------
(* rt_event_send: the waiters are served in the order of the list; one that  *)
(* clears takes its events away from those behind it.                        *)

(* mutant: the events of a waiter that clears stay for the next one *)
ServeKeeps(s, t) ==
  IF ~ Satisfied(s.info[t], s.set) THEN s
  ELSE LET got == s.info[t].set \cap s.set
       IN  [k    |-> rt_thread_resume(s.k, t),
            info |-> [s.info EXCEPT ![t].set = got],
            set  |-> s.set]

Serve(s, t) ==
  IF ~ Satisfied(s.info[t], s.set) THEN s
  ELSE LET got == s.info[t].set \cap s.set
       IN  [k    |-> rt_thread_resume(s.k, t),
            info |-> [s.info EXCEPT ![t].set = got],
            set  |-> IF s.info[t].clear THEN s.set \ got ELSE s.set]

Sent(set) ==
  FoldLeft(Serve, [k |-> k, info |-> evInfo, set |-> evSet \cup set], k.susp[evList])

EvSend(t, set) ==
  /\ Runs(t, "app") /\ evAlive
  /\ LET sent == Sent(set)
     IN  /\ k' = sent.k /\ evInfo' = sent.info /\ evSet' = sent.set
         /\ Goto(t, IF sent.k # k THEN "ev_sched" ELSE "app")
  /\ UNCHANGED <<irqoff, fault, rest, evAlive>>

IsrEvSend(set) ==
  /\ Interruptible /\ evAlive
  /\ LET sent == Sent(set)
     IN  /\ k' = IF sent.k # k THEN rt_schedule(sent.k) ELSE k
         /\ evInfo' = sent.info /\ evSet' = sent.set
  /\ UNCHANGED <<pc, irqoff, fault, rest, evAlive>>

-----------------------------------------------------------------------------
(* rt_event_recv *)

EvRecvNow(t, r) ==
  /\ Runs(t, "app") /\ evAlive
  /\ Satisfied(r, evSet)
  /\ k' = [k EXCEPT !.error[t] = "EOK"]
  /\ evSet' = IF r.clear THEN evSet \ r.set ELSE evSet
  /\ UNCHANGED <<pc, irqoff, fault, rest, evInfo, evAlive>>

EvRecvBlock(t, r, time) ==
  /\ Runs(t, "app") /\ evAlive
  /\ ~ Satisfied(r, evSet)
  /\ IF time = 0
     THEN /\ k' = [k EXCEPT !.error[t] = "ETIMEOUT"]
          /\ UNCHANGED <<pc, irqoff, fault, rest, evInfo>>
     ELSE /\ evInfo' = [evInfo EXCEPT ![t] = r]
          /\ Wait(t, evList, time, "ev_recv_sched")
  /\ UNCHANGED <<evSet, evAlive>>

EvSchedule(t) ==
  /\ \/ Schedule(t, "ev_recv_sched", "ev_recv_wait")
     \/ Schedule(t, "ev_sched", "app")
  /\ UNCHANGED <<rest, evSet, evInfo, evAlive>>

(* thread->error or, with RT_EOK, the events received in thread->event_set *)
EvRecvReturn(t) ==
  /\ Runs(t, "ev_recv_wait")
  /\ evInfo' = [evInfo EXCEPT ![t] = NoRequest]
  /\ Return(t)
  /\ UNCHANGED <<k, irqoff, fault, evSet, evAlive>>

-----------------------------------------------------------------------------
(* rt_event_control(RT_IPC_CMD_RESET), rt_event_detach, rt_event_delete *)

EvResetBegin(t) == evAlive /\ ResetBegin(t, "ev_reset") /\ UNCHANGED evVars

EvResetResume(t) == ResetResume(t, "ev_reset", evList) /\ UNCHANGED evVars

EvResetEnd(t) ==
  /\ k.susp[evList] = <<>>
  /\ ResetEnd(t, "ev_reset", "ev_sched")
  /\ evSet' = {}
  /\ UNCHANGED <<evInfo, evAlive>>

EvDetachBegin(t) ==
  /\ Runs(t, "app") /\ evAlive
  /\ evAlive' = FALSE
  /\ Goto(t, "ev_detach")
  /\ UNCHANGED <<k, irqoff, fault, rest, evSet, evInfo>>

EvDetach(t) ==
  /\ \/ ResumeAllTest(t, evList, "ev_detach", "ev_detach_body", "app")
     \/ ResumeAllBody(t, evList, "ev_detach", "ev_detach_body")
  /\ UNCHANGED <<rest, evSet, evInfo, evAlive>>

EvContinue(t) ==
  EvSchedule(t) \/ EvRecvReturn(t) \/ EvResetResume(t) \/ EvResetEnd(t) \/ EvDetach(t)
=============================================================================
