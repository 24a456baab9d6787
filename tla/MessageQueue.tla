----------------------------- MODULE MessageQueue -----------------------------
(***************************************************************************)
(* Message queues (the rt_mq functions of ipc.c).  The messages of the pool*)
(* are linked by their next pointers: the free ones from msg_queue_free,   *)
(* the sent ones from msg_queue_head to msg_queue_tail.  A send takes a    *)
(* free message in one section, copies into it with interrupts enabled and *)
(* links it in a second section; a receive is cut in the same way.         *)
(***************************************************************************)
EXTENDS Waits

CONSTANTS
  mqList,     \* mq->parent.suspend_thread
  Msg,        \* the messages of the pool
  MsgFree,    \* the free list that rt_mq_init builds: all messages
  NULL,       \* RT_NULL
  Data        \* what a message carries

ASSUME MessageQueueAssumption ==
  /\ mqList \in WaitList
  /\ IsFiniteSet(Msg) /\ NULL \notin Msg
  /\ MsgFree \in Seq(Msg)
  /\ Len(MsgFree) = Cardinality(Msg) /\ Distinct(MsgFree)
  /\ Data # {}

VARIABLES
  mq,         \* the queue
  mqJob,      \* the message each call has taken off a list, and its arguments
  mqAlive     \* no thread has begun to detach or delete the queue

mqVars == <<mq, mqJob, mqAlive>>

Job == [msg : Msg \cup {NULL}, data : Data, urgent : BOOLEAN]
NoJob == [msg |-> NULL, data |-> CHOOSE d \in Data : TRUE, urgent |-> FALSE]

MqType ==
  /\ mq \in [next : [Msg -> Msg \cup {NULL}], data : [Msg -> Data], entry : Nat,
             msg_queue_head : Msg \cup {NULL}, msg_queue_tail : Msg \cup {NULL},
             msg_queue_free : Msg \cup {NULL}]
  /\ mqJob \in [Thread -> Job]
  /\ mqAlive \in BOOLEAN

MqPC == {"mq_send_copy", "mq_sched", "mq_recv_sched", "mq_recv_wait", "mq_recv_copy",
         "mq_reset", "mq_detach", "mq_detach_body"}

(* rt_mq_init; the messages hold whatever they held before *)
MqInit ==
  /\ mq = [next |-> [m \in Msg |->
                       LET i == CHOOSE j \in 1 .. Len(MsgFree) : MsgFree[j] = m
                       IN  IF i < Len(MsgFree) THEN MsgFree[i + 1] ELSE NULL],
           data |-> [m \in Msg |-> NoJob.data], entry |-> 0,
           msg_queue_head |-> NULL, msg_queue_tail |-> NULL,
           msg_queue_free |-> IF MsgFree = <<>> THEN NULL ELSE MsgFree[1]]
  /\ mqJob = [t \in Thread |-> NoJob]
  /\ mqAlive = TRUE

-----------------------------------------------------------------------------
(* The sections of rt_mq_send, rt_mq_urgent and rt_mq_recv *)

TakeFree(q) == [q EXCEPT !.msg_queue_free = q.next[q.msg_queue_free]]

(* mutant: the old tail is not linked to the new one *)
LinkTailOnly(q, m, d) ==
  [q EXCEPT !.next[m] = NULL, !.data[m] = d,
            !.msg_queue_tail = m,
            !.msg_queue_head = IF @ = NULL THEN m ELSE @,
            !.entry = @ + 1]

(* rt_mq_send: the copy, and the new tail of the queue *)
LinkTail(q, m, d) ==
  LET copy == [q EXCEPT !.next[m] = NULL, !.data[m] = d]
      tail == IF q.msg_queue_tail = NULL THEN copy
              ELSE [copy EXCEPT !.next[q.msg_queue_tail] = m]
  IN  [tail EXCEPT !.msg_queue_tail = m,
                   !.msg_queue_head = IF @ = NULL THEN m ELSE @,
                   !.entry = @ + 1]

(* rt_mq_urgent: the copy, and the new head *)
LinkHead(q, m, d) ==
  [q EXCEPT !.data[m] = d,
            !.next[m] = q.msg_queue_head,
            !.msg_queue_head = m,
            !.msg_queue_tail = IF @ = NULL THEN m ELSE @,
            !.entry = @ + 1]

Link(q, j) == IF j.urgent THEN LinkHead(q, j.msg, j.data) ELSE LinkTail(q, j.msg, j.data)

UnlinkHead(q) ==
  [q EXCEPT !.msg_queue_head = q.next[q.msg_queue_head],
            !.msg_queue_tail = IF @ = q.msg_queue_head THEN NULL ELSE @,
            !.entry = @ - 1]

PutFree(q, m) == [q EXCEPT !.next[m] = q.msg_queue_free, !.msg_queue_free = m]

-----------------------------------------------------------------------------
(* rt_mq_send, rt_mq_urgent; without a free message they return -RT_EFULL *)

MqSendBegin(t, d, urgent) ==
  /\ Runs(t, "app") /\ mqAlive
  /\ mq.msg_queue_free # NULL
  /\ mqJob' = [mqJob EXCEPT ![t] = [msg |-> mq.msg_queue_free, data |-> d, urgent |-> urgent]]
  /\ mq' = TakeFree(mq)
  /\ Goto(t, "mq_send_copy")
  /\ UNCHANGED <<k, irqoff, fault, rest, mqAlive>>

MqSendLink(t) ==
  /\ Runs(t, "mq_send_copy")
  /\ mq' = Link(mq, mqJob[t])
  /\ mqJob' = [mqJob EXCEPT ![t] = NoJob]
  /\ ReturnResuming(t, mqList, "mq_sched")
  /\ UNCHANGED mqAlive

(* Both sections in an interrupt handler, which no thread interrupts *)
IsrMqSend(d, urgent) ==
  /\ Interruptible /\ mqAlive
  /\ mq.msg_queue_free # NULL
  /\ mq' = Link(TakeFree(mq), [msg |-> mq.msg_queue_free, data |-> d, urgent |-> urgent])
  /\ IsrResuming(mqList)
  /\ UNCHANGED <<mqJob, mqAlive>>

-----------------------------------------------------------------------------
(* rt_mq_recv *)

MqRecvRound(t, time) ==
  \/ /\ mq.entry # 0
     /\ mq' = UnlinkHead(mq)
     /\ mqJob' = [mqJob EXCEPT ![t].msg = mq.msg_queue_head]
     /\ rest' = [rest EXCEPT ![t] = 0]
     /\ Goto(t, "mq_recv_copy")
     /\ UNCHANGED <<k, irqoff, fault>>
  \/ /\ mq.entry = 0 /\ time # 0
     /\ Wait(t, mqList, time, "mq_recv_sched")
     /\ UNCHANGED <<mq, mqJob>>
  \/ /\ mq.entry = 0 /\ time = 0
     /\ k' = [k EXCEPT !.error[t] = "ETIMEOUT"]
     /\ Return(t)
     /\ UNCHANGED <<irqoff, fault, mq, mqJob>>

MqRecvBegin(t, time) ==
  /\ Runs(t, "app") /\ mqAlive
  /\ mq.entry = 0 => time # 0           \* -RT_ETIMEOUT: nothing changes
  /\ MqRecvRound(t, time)
  /\ UNCHANGED mqAlive

(* mutant: the time limit begins anew in every round *)
MqRecvAgainFull(t) ==
  /\ Runs(t, "mq_recv_wait") /\ k.error[t] = "EOK"
  /\ \E time \in Times : (rest[t] >= 0 => time > 0) /\ MqRecvRound(t, time)
  /\ UNCHANGED mqAlive

MqRecvAgain(t) ==
  /\ Runs(t, "mq_recv_wait") /\ k.error[t] = "EOK"
  /\ MqRecvRound(t, rest[t])
  /\ UNCHANGED mqAlive

MqRecvFail(t) == ReturnError(t, "mq_recv_wait") /\ UNCHANGED mqVars

(* The message is copied out with interrupts enabled and then freed. *)
MqRecvFree(t) ==
  /\ Runs(t, "mq_recv_copy")
  /\ mq' = PutFree(mq, mqJob[t].msg)
  /\ mqJob' = [mqJob EXCEPT ![t] = NoJob]
  /\ Goto(t, "app")
  /\ UNCHANGED <<k, irqoff, fault, rest, mqAlive>>

IsrMqRecv ==
  /\ Interruptible /\ mqAlive
  /\ mq.entry # 0
  /\ mq' = PutFree(UnlinkHead(mq), mq.msg_queue_head)
  /\ UNCHANGED <<k, pc, irqoff, fault, rest, mqJob, mqAlive>>

-----------------------------------------------------------------------------
MqSchedule(t) ==
  /\ \/ Schedule(t, "mq_recv_sched", "mq_recv_wait")
     \/ Schedule(t, "mq_sched", "app")
  /\ UNCHANGED <<rest, mq, mqJob, mqAlive>>

(* rt_mq_control(RT_IPC_CMD_RESET): the receivers are resumed, the messages  *)
(* are freed one by one, all with interrupts disabled.                       *)
MqResetBegin(t) == mqAlive /\ ResetBegin(t, "mq_reset") /\ UNCHANGED mqVars

MqResetResume(t) == ResetResume(t, "mq_reset", mqList) /\ UNCHANGED mqVars

MqResetFree(t) ==
  /\ Runs(t, "mq_reset")
  /\ k.susp[mqList] = <<>> /\ mq.msg_queue_head # NULL
  /\ mq' = [PutFree(UnlinkHead(mq), mq.msg_queue_head) EXCEPT !.entry = mq.entry]
  /\ UNCHANGED <<k, pc, irqoff, fault, rest, mqJob, mqAlive>>

MqResetEnd(t) ==
  /\ k.susp[mqList] = <<>> /\ mq.msg_queue_head = NULL
  /\ ResetEnd(t, "mq_reset", "mq_sched")
  /\ mq' = [mq EXCEPT !.entry = 0]
  /\ UNCHANGED <<mqJob, mqAlive>>

(* rt_mq_detach, rt_mq_delete *)
MqDetachBegin(t) ==
  /\ Runs(t, "app") /\ mqAlive
  /\ mqAlive' = FALSE
  /\ Goto(t, "mq_detach")
  /\ UNCHANGED <<k, irqoff, fault, rest, mq, mqJob>>

MqDetach(t) ==
  /\ \/ ResumeAllTest(t, mqList, "mq_detach", "mq_detach_body", "app")
     \/ ResumeAllBody(t, mqList, "mq_detach", "mq_detach_body")
  /\ UNCHANGED <<rest, mq, mqJob, mqAlive>>

MqContinue(t) ==
  \/ MqSchedule(t) \/ MqSendLink(t) \/ MqRecvAgain(t) \/ MqRecvFail(t) \/ MqRecvFree(t)
  \/ MqResetResume(t) \/ MqResetFree(t) \/ MqResetEnd(t) \/ MqDetach(t)

-----------------------------------------------------------------------------
(* The messages reached from m by next pointers, at most one too many *)
Chain(m) ==
  LET Most == Cardinality(Msg) + 1
      walk[n \in 0 .. Most, x \in Msg \cup {NULL}] ==
        IF n = 0 \/ x = NULL THEN <<>> ELSE <<x>> \o walk[n - 1, mq.next[x]]
  IN  walk[Most, m]
=============================================================================
