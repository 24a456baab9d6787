------------------------------- MODULE Mailbox -------------------------------
(***************************************************************************)
(* The rt_mb functions of ipc.c: a ring of mails with two suspend lists,   *)
(* one of receivers and one of senders.                                    *)
(***************************************************************************)
EXTENDS Waits

CONSTANTS
  mbRecv,     \* mb->parent.suspend_thread
  mbSend,     \* mb->suspend_sender_thread
  Mail,       \* the values that are sent
  MB_SIZE     \* mb->size

ASSUME MailboxAssumption ==
  /\ {mbRecv, mbSend} \subseteq WaitList /\ mbRecv # mbSend
  /\ Mail # {}
  /\ MB_SIZE \in Nat \ {0}

VARIABLES
  mb,         \* the mailbox
  mail,       \* the value argument of the send call of each thread
  mbAlive     \* no thread has begun to detach or delete the mailbox

mbVars == <<mb, mail, mbAlive>>

MbType ==
  /\ mb \in [msg_pool : [0 .. MB_SIZE - 1 -> Mail], entry : 0 .. MB_SIZE,
             in_offset : 0 .. MB_SIZE - 1, out_offset : 0 .. MB_SIZE - 1]
  /\ mail \in [Thread -> Mail]
  /\ mbAlive \in BOOLEAN

NoMail == CHOOSE m \in Mail : TRUE

MbPC == {"mb_send_sched", "mb_send_wait", "mb_recv_sched", "mb_recv_wait",
         "mb_sched", "mb_reset", "mb_detach1", "mb_detach1_body",
         "mb_detach2", "mb_detach2_body"}

(* rt_mb_init; the buffer holds whatever it held before *)
MbInit ==
  /\ mb = [msg_pool |-> [i \in 0 .. MB_SIZE - 1 |-> NoMail],
           entry |-> 0, in_offset |-> 0, out_offset |-> 0]
  /\ mail = [t \in Thread |-> NoMail]
  /\ mbAlive = TRUE

NextOffset(i) == IF i + 1 >= MB_SIZE THEN 0 ELSE i + 1

MbPut(v) ==
  mb' = [mb EXCEPT !.msg_pool[mb.in_offset] = v,
                   !.in_offset = NextOffset(@),
                   !.entry = @ + 1]

MbGet == mb' = [mb EXCEPT !.out_offset = NextOffset(@), !.entry = @ - 1]

MbFirst == mb.msg_pool[mb.out_offset]

-----------------------------------------------------------------------------
(* rt_mb_send_wait: the loop test at its begin and after every wake-up.      *)
(* rt_mb_send is the call with time = 0.                                     *)

MbSendRound(t, v, time) ==
  \/ /\ mb.entry # MB_SIZE
     /\ MbPut(v)
     /\ mail' = [mail EXCEPT ![t] = NoMail]
     /\ ReturnResuming(t, mbRecv, "mb_sched")
  \/ /\ mb.entry = MB_SIZE /\ time # 0
     /\ mail' = [mail EXCEPT ![t] = v]
     /\ Wait(t, mbSend, time, "mb_send_sched")
     /\ UNCHANGED mb
  \/ /\ mb.entry = MB_SIZE /\ time = 0
     /\ mail' = [mail EXCEPT ![t] = NoMail]
     /\ Return(t)
     /\ UNCHANGED <<k, irqoff, fault, mb>>

MbSendBegin(t, v, time) ==
  /\ Runs(t, "app") /\ mbAlive
  /\ mb.entry = MB_SIZE => time # 0     \* -RT_EFULL: nothing changes
  /\ MbSendRound(t, v, time)
  /\ UNCHANGED mbAlive

MbSendAgain(t) ==
  /\ Runs(t, "mb_send_wait") /\ k.error[t] = "EOK"
  /\ MbSendRound(t, mail[t], rest[t])
  /\ UNCHANGED mbAlive

MbSendFail(t) ==
  /\ ReturnError(t, "mb_send_wait")
  /\ mail' = [mail EXCEPT ![t] = NoMail]
  /\ UNCHANGED <<mb, mbAlive>>

IsrMbSend(v) ==
  /\ Interruptible /\ mbAlive
  /\ mb.entry # MB_SIZE
  /\ MbPut(v)
  /\ IsrResuming(mbRecv)
  /\ UNCHANGED <<mail, mbAlive>>

-----------------------------------------------------------------------------
(* rt_mb_recv *)

MbRecvRound(t, time) ==
  \/ /\ mb.entry # 0
     /\ MbGet
     /\ ReturnResuming(t, mbSend, "mb_sched")
  \/ /\ mb.entry = 0 /\ time # 0
     /\ Wait(t, mbRecv, time, "mb_recv_sched")
     /\ UNCHANGED mb
  \/ /\ mb.entry = 0 /\ time = 0
     /\ k' = [k EXCEPT !.error[t] = "ETIMEOUT"]
     /\ Return(t)
     /\ UNCHANGED <<irqoff, fault, mb>>

MbRecvBegin(t, time) ==
  /\ Runs(t, "app") /\ mbAlive
  /\ mb.entry = 0 => time # 0           \* -RT_ETIMEOUT: nothing changes
  /\ MbRecvRound(t, time)
  /\ UNCHANGED <<mail, mbAlive>>

MbRecvAgain(t) ==
  /\ Runs(t, "mb_recv_wait") /\ k.error[t] = "EOK"
  /\ MbRecvRound(t, rest[t])
  /\ UNCHANGED <<mail, mbAlive>>

MbRecvFail(t) == ReturnError(t, "mb_recv_wait") /\ UNCHANGED mbVars

IsrMbRecv ==
  /\ Interruptible /\ mbAlive
  /\ mb.entry # 0
  /\ MbGet
  /\ IsrResuming(mbSend)
  /\ UNCHANGED <<mail, mbAlive>>

-----------------------------------------------------------------------------
(* The rt_schedule() calls of the functions above *)
MbSchedule(t) ==
  /\ \/ Schedule(t, "mb_send_sched", "mb_send_wait")
     \/ Schedule(t, "mb_recv_sched", "mb_recv_wait")
     \/ Schedule(t, "mb_sched", "app")
  /\ UNCHANGED <<rest, mb, mail, mbAlive>>

(* rt_mb_control(RT_IPC_CMD_RESET) *)
MbResetBegin(t) == mbAlive /\ ResetBegin(t, "mb_reset") /\ UNCHANGED mbVars

MbResetResume(t) ==
  /\ \/ ResetResume(t, "mb_reset", mbRecv)
     \/ k.susp[mbRecv] = <<>> /\ ResetResume(t, "mb_reset", mbSend)
  /\ UNCHANGED mbVars

(* mutant: in_offset is not reset *)
MbResetKeepsIn(t) ==
  /\ k.susp[mbRecv] = <<>> /\ k.susp[mbSend] = <<>>
  /\ ResetEnd(t, "mb_reset", "mb_sched")
  /\ mb' = [mb EXCEPT !.entry = 0, !.out_offset = 0]
  /\ UNCHANGED <<mail, mbAlive>>

MbResetEnd(t) ==
  /\ k.susp[mbRecv] = <<>> /\ k.susp[mbSend] = <<>>
  /\ ResetEnd(t, "mb_reset", "mb_sched")
  /\ mb' = [mb EXCEPT !.entry = 0, !.in_offset = 0, !.out_offset = 0]
  /\ UNCHANGED <<mail, mbAlive>>

(* rt_mb_detach, rt_mb_delete: two loops with interrupts enabled *)
MbDetachBegin(t) ==
  /\ Runs(t, "app") /\ mbAlive
  /\ mbAlive' = FALSE
  /\ Goto(t, "mb_detach1")
  /\ UNCHANGED <<k, irqoff, fault, rest, mb, mail>>

MbDetach(t) ==
  /\ \/ ResumeAllTest(t, mbRecv, "mb_detach1", "mb_detach1_body", "mb_detach2")
     \/ ResumeAllBody(t, mbRecv, "mb_detach1", "mb_detach1_body")
     \/ ResumeAllTest(t, mbSend, "mb_detach2", "mb_detach2_body", "app")
     \/ ResumeAllBody(t, mbSend, "mb_detach2", "mb_detach2_body")
  /\ UNCHANGED <<rest, mb, mail, mbAlive>>
=============================================================================
