--------------------------------- MODULE Ipc ---------------------------------
(***************************************************************************)
(* A mailbox, a memory pool, a message queue and an event set on one       *)
(* kernel, used by every thread but idle and by interrupt handlers, under  *)
(* the tick interrupt.                                                     *)
(*                                                                         *)
(* The mailbox and the pool work together the way the kernel's users       *)
(* combine them: a mail is the address of a block of the pool.  The sender *)
(* allocates the block, the receiver frees it.                             *)
(*                                                                         *)
(* An application uses some of the objects and calls.  Which ones is fixed *)
(* in the initial state, so one run of the model checker covers several    *)
(* applications without the product of their states.                       *)
(***************************************************************************)
EXTENDS Mailbox, MemPool, MessageQueue, Event

CONSTANTS
  Applications,  \* the applications: sets of what they use
  UrgentData,    \* the data that are sent by rt_mq_urgent, not rt_mq_send
  ISR            \* interrupt handlers, as the owner of blocks

(* What an application may use: the objects, interrupt handlers, RESET and    *)
(* detach.  With pool, mails are blocks of the pool, otherwise plain values.  *)
Uses == {"mail", "pool", "queue", "event", "isr", "reset", "detach"}

ASSUME IpcAssumption ==
  /\ ISR \notin Thread
  /\ Mail = Block
  /\ UrgentData \subseteq Data

VARIABLES
  use,        \* what the application uses, see Uses
  own         \* the blocks each thread, and the handlers, have allocated or received

vars == <<k, pc, irqoff, fault, rest, mb, mail, mbAlive, mp, mpAlive, mq, mqJob, mqAlive,
          evSet, evInfo, evAlive, use, own>>

PC == {"app"} \cup MbPC \cup MpPC \cup MqPC \cup EvPC

Init ==
  /\ k = Booted
  /\ pc = [t \in Thread |-> "app"]
  /\ irqoff = FALSE /\ fault = FALSE
  /\ rest = [t \in Thread |-> 0]
  /\ MbInit /\ MpInit /\ MqInit /\ EvInit
  /\ use \in Applications
  /\ own = [x \in Thread \cup {ISR} |-> {}]

(* The mails in the mailbox, in order *)
Contents == [i \in 1 .. mb.entry |-> mb.msg_pool[(mb.out_offset + i - 1) % MB_SIZE]]

-----------------------------------------------------------------------------
(* Who owns a block: x gains the block of an allocation or a receive that    *)
(* succeeded in this step, and loses one it has sent or freed.               *)
Gains(x, b) == own' = IF "pool" \in use THEN [own EXCEPT ![x] = @ \cup {b}] ELSE own
Loses(x, b) == own' = [own EXCEPT ![x] = @ \ {b}]

Mails(x) == IF "pool" \in use THEN own[x] ELSE Mail

MailSend(t) ==
  \/ \E b \in Mails(t), time \in Times :
       /\ MbSendBegin(t, b, time)
       /\ IF mb' # mb THEN Loses(t, b) ELSE UNCHANGED own
  \/ /\ MbSendAgain(t)
     /\ IF mb' # mb THEN Loses(t, mail[t]) ELSE UNCHANGED own

MailRecv(t) ==
  /\ MbRecvAgain(t) \/ \E time \in Times : MbRecvBegin(t, time)
  /\ IF mb' # mb THEN Gains(t, MbFirst) ELSE UNCHANGED own

Alloc(t) ==
  /\ MpAllocAgain(t) \/ \E time \in MpTimes : MpAllocBegin(t, time)
  /\ IF mp'.block_list # mp.block_list THEN Gains(t, MpFirst) ELSE UNCHANGED own

Free(t) == \E b \in own[t] : MpFree(t, b) /\ Loses(t, b)

(* The thread that resets the mailbox takes back the blocks it discards. *)
MailReset(t) ==
  /\ MbResetEnd(t)
  /\ own' = IF "pool" \in use
             THEN [own EXCEPT ![t] = @ \cup {Contents[i] : i \in 1 .. mb.entry}] ELSE own

MailContinue(t) ==
  /\ \/ MbSchedule(t) \/ MbSendFail(t) \/ MbRecvFail(t) \/ MbResetResume(t) \/ MbDetach(t)
  /\ UNCHANGED own

MailIsr ==
  \/ \E b \in Mails(ISR) : IsrMbSend(b) /\ Loses(ISR, b)
  \/ IsrMbRecv /\ Gains(ISR, MbFirst)

PoolIsr ==
  \/ IsrMpAlloc /\ Gains(ISR, MpFirst)
  \/ \E b \in own[ISR] : IsrMpFree(b) /\ Loses(ISR, b)

PoolContinue(t) ==
  /\ MpSchedule(t) \/ MpAllocFail(t) \/ MpAllocRest(t) \/ MpDetach(t)
  /\ UNCHANGED own

-----------------------------------------------------------------------------
(* A step of one service leaves the others alone. *)
OnlyMailbox == UNCHANGED <<use, mp, mpAlive, mq, mqJob, mqAlive, evSet, evInfo, evAlive>>
OnlyPool    == UNCHANGED <<use, mb, mail, mbAlive, mq, mqJob, mqAlive, evSet, evInfo, evAlive>>
OnlyQueue   == UNCHANGED <<use, mb, mail, mbAlive, mp, mpAlive, evSet, evInfo, evAlive, own>>
OnlyEvent   == UNCHANGED <<use, mb, mail, mbAlive, mp, mpAlive, mq, mqJob, mqAlive, own>>
OnlyKernel  == UNCHANGED <<use, mb, mail, mbAlive, mp, mpAlive, mq, mqJob, mqAlive,
                           evSet, evInfo, evAlive, own>>

Call(t) ==
  \/ /\ "mail" \in use
     /\ \/ MailSend(t) /\ pc[t] = "app"
        \/ MailRecv(t) /\ pc[t] = "app"
        \/ "reset" \in use /\ MbResetBegin(t) /\ UNCHANGED own
        \/ "detach" \in use /\ MbDetachBegin(t) /\ UNCHANGED own
     /\ OnlyMailbox
  \/ /\ "pool" \in use
     /\ \/ Alloc(t) /\ pc[t] = "app"
        \/ Free(t)
        \/ "detach" \in use /\ MpDetachBegin(t) /\ UNCHANGED own
     /\ OnlyPool
  \/ /\ "queue" \in use
     /\ \/ \E d \in Data : MqSendBegin(t, d, d \in UrgentData)
        \/ \E time \in Times : MqRecvBegin(t, time)
        \/ "reset" \in use /\ MqResetBegin(t)
        \/ "detach" \in use /\ MqDetachBegin(t)
     /\ OnlyQueue
  \/ /\ "event" \in use
     /\ \/ \E set \in SUBSET Ev \ {{}} : EvSend(t, set)
        \/ \E r \in Request : EvRecvNow(t, r) \/ \E time \in Times : EvRecvBlock(t, r, time)
        \/ "reset" \in use /\ EvResetBegin(t)
        \/ "detach" \in use /\ EvDetachBegin(t)
     /\ OnlyEvent

Continue(t) ==
  /\ pc[t] # "app"
  /\ \/ (MailSend(t) \/ MailRecv(t) \/ MailReset(t) \/ MailContinue(t)) /\ OnlyMailbox
     \/ (Alloc(t) \/ PoolContinue(t)) /\ OnlyPool
     \/ MqContinue(t) /\ OnlyQueue
     \/ EvContinue(t) /\ OnlyEvent

Isr ==
  /\ "isr" \in use
  /\ \/ "mail" \in use /\ MailIsr /\ OnlyMailbox
     \/ "pool" \in use /\ PoolIsr /\ OnlyPool
     \/ "queue" \in use /\ OnlyQueue
          /\ (IsrMqRecv \/ \E d \in Data : IsrMqSend(d, d \in UrgentData))
     \/ "event" \in use /\ OnlyEvent /\ \E set \in SUBSET Ev \ {{}} : IsrEvSend(set)

Tick == (WaitTick \/ WaitTickLeave \/ \E t \in Thread : WaitTimeout(t)) /\ OnlyKernel

(* Nothing is said of a kernel whose memory is overwritten. *)
Crashed == fault /\ UNCHANGED vars

Next == (\E t \in Thread : Call(t) \/ Continue(t)) \/ Isr \/ Tick \/ Crashed

Spec == Init /\ [][Next]_vars

-----------------------------------------------------------------------------
(* Properties *)

TypeOK ==
  /\ k \in KernelState
  /\ pc \in [Thread -> PC]
  /\ irqoff \in BOOLEAN /\ fault \in BOOLEAN
  /\ rest \in [Thread -> Int]
  /\ MbType /\ MpType /\ MqType /\ EvType
  /\ use \in Applications
  /\ own \in [Thread \cup {ISR} -> SUBSET Block]

(* Ready lists, bitmap, the wait lists of all objects, timers and thread     *)
(* states agree after every section, and the variables keep their types.     *)
ListsConsistent == TypeOK /\ KernelConsistent

(* A block is on the free list, or a mail in the mailbox, or with one owner, *)
(* never in two of these places and never in none (rt_mp_alloc, rt_mp_free,  *)
(* rt_mb_send_wait, rt_mb_recv).  The pool counts its free blocks and the    *)
(* threads pended on it: on suspend_thread_count rests that rt_mp_free finds *)
(* a thread on the list.                                                     *)
Places(b) ==
  {<<"free", i>> : i \in {j \in 1 .. Len(mp.block_list) : mp.block_list[j] = b}}
  \cup {<<"mail", i>> : i \in {j \in 1 .. mb.entry : Contents[j] = b}}
  \cup {<<"own", x>> : x \in {y \in Thread \cup {ISR} : b \in own[y]}}

BlocksAccounted ==
  "pool" \in use =>
  /\ \A b \in Block : Cardinality(Places(b)) = 1
  /\ mp.block_free_count = Len(mp.block_list)
  /\ mp.suspend_thread_count = Len(k.susp[mpList])

(* No wake-up is lost in the loops of rt_mb_recv and rt_mb_send_wait: while  *)
(* a receiver waits, every mail in the mailbox is one that a receiver woken  *)
(* before is about to look for, and so for senders and free places.          *)
MbNoLostWakeup ==
  mbAlive /\ ~ irqoff =>
    /\ k.susp[mbRecv] # <<>> =>
         mb.entry <= Cardinality(Woken({"mb_recv_sched", "mb_recv_wait"}))
    /\ k.susp[mbSend] # <<>> =>
         MB_SIZE - mb.entry <= Cardinality(Woken({"mb_send_sched", "mb_send_wait"}))

(* The same of rt_mp_alloc and the free blocks; its second test is separated *)
(* from the recalculation of the time limit.                                 *)
MpNoLostWakeup ==
  mpAlive /\ k.susp[mpList] # <<>> =>
    mp.block_free_count <= Cardinality(Woken({"mp_sched", "mp_wait", "mp_again"}))

(* The mailbox is a bounded first-in first-out queue: the ring never         *)
(* overwrites a mail, never yields one twice and keeps the order of the      *)
(* sends, whoever waits, times out or resets it.                             *)
MailQueue == INSTANCE BoundedQueue
               WITH queue <- Contents, Value <- Mail, Limit <- MB_SIZE, Urgent <- {}
MailboxIsQueue == MailQueue!Init /\ [][MailQueue!Next]_Contents

-----------------------------------------------------------------------------
Queued == Chain(mq.msg_queue_head)
Unused == Chain(mq.msg_queue_free)
Held   == {t \in Thread : mqJob[t].msg # NULL}

(* The next pointers of a message queue form two lists, of entry sent and of *)
(* free messages; together with those that a call holds between its two      *)
(* sections they are all messages, each in one place (rt_mq_send,            *)
(* rt_mq_urgent, rt_mq_recv and the RESET).                                  *)
MqWellFormed ==
  LET all == Queued \o Unused
  IN  /\ Distinct(all)
      /\ \A t \in Held : ~ On(all, mqJob[t].msg)
      /\ \A t, u \in Held : mqJob[t].msg = mqJob[u].msg => t = u
      /\ Len(all) + Cardinality(Held) = Cardinality(Msg)
      /\ mq.msg_queue_tail = IF Queued = <<>> THEN NULL ELSE Queued[Len(Queued)]
      /\ ~ irqoff => mq.entry = Len(Queued)

(* While a receiver waits, a woken one is about to take each message. *)
MqNoLostWakeup ==
  mqAlive /\ ~ irqoff /\ k.susp[mqList] # <<>> =>
    mq.entry <= Cardinality(Woken({"mq_recv_sched", "mq_recv_wait"}))

(* The message queue is a bounded queue, first in first out but for urgent   *)
(* messages: what is received first is what was linked first, with the data  *)
(* it was sent with, although messages are copied with interrupts enabled.   *)
Messages == [i \in 1 .. Len(Queued) |-> mq.data[Queued[i]]]

MsgQueue == INSTANCE BoundedQueue
              WITH queue <- Messages, Value <- Data, Limit <- Cardinality(Msg),
                   Urgent <- UrgentData
MessageQueueIsQueue == MsgQueue!Init /\ [][MsgQueue!Next]_Messages

(* The mailbox and the message queue both are. *)
QueuesAreQueues == MailboxIsQueue /\ MessageQueueIsQueue

-----------------------------------------------------------------------------
(* No thread waits for events that are there: rt_event_send looks at every   *)
(* waiter, and those that clear events do not hide them from others.         *)
EvNoneSatisfied ==
  evAlive => \A t \in Thread :
    On(k.susp[evList], t) => ~ Satisfied(evInfo[t], evSet)

(* No thread waits for what is there, unless a resumed one is about to take  *)
(* it: in the mailbox, the pool, the message queue and the event set.        *)
NoLostWakeup == MbNoLostWakeup /\ MpNoLostWakeup /\ MqNoLostWakeup /\ EvNoneSatisfied

(* A waiter that rt_event_send resumes receives events it asked for, all of   *)
(* them with RT_EVENT_FLAG_AND; and events that a waiter clears are received  *)
(* by no waiter behind it in the list.                                        *)
WokenByEvent(t) ==
  On(k.susp[evList], t) /\ ~ On(k.susp[evList], t)' /\ k.error[t]' = "EOK"

Before(t, u) ==
  \E i, j \in 1 .. Len(k.susp[evList]) :
    i < j /\ k.susp[evList][i] = t /\ k.susp[evList][j] = u

EvDelivers ==
  [][\A t \in Thread : WokenByEvent(t) =>
       /\ evInfo'[t].set # {} /\ evInfo'[t].set \subseteq evInfo[t].set
       /\ evInfo[t].and => evInfo'[t].set = evInfo[t].set
       /\ \A u \in Thread : evInfo[t].clear /\ WokenByEvent(u) /\ Before(t, u) =>
            evInfo'[t].set \cap evInfo'[u].set = {}]_(k.susp[evList])
=============================================================================
