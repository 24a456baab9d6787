-------------------------------- MODULE Pipe --------------------------------
(***************************************************************************)
(* Pipe devices (pipe.c): a ring buffer whose readers wait for data and    *)
(* whose writers wait for room.  _rt_pipe_resume_reader and                *)
(* _rt_pipe_resume_writer call rt_schedule with interrupts disabled, so    *)
(* that the switch is part of the section.                                 *)
(***************************************************************************)
EXTENDS Waits, RingBuffer

CONSTANTS
  piRead, piWrite,   \* pipe->suspended_read_list and suspended_write_list
  Writes,            \* the data of the writes: sequences of bytes
  Sizes              \* the sizes of the reads

ASSUME PipeAssumption ==
  /\ {piRead, piWrite} \subseteq WaitList /\ piRead # piWrite
  /\ Writes \subseteq Seq(Byte) /\ Sizes \subseteq Nat \ {0}

VARIABLES
  pi,                \* pipe->ringbuffer
  piArg              \* the arguments of the call in progress of each thread

NoPiArg == [data |-> <<>>, size |-> 0]

PiType ==
  /\ pi \in RingState
  /\ piArg \in [Thread -> [data : Writes \cup {<<>>}, size : Sizes \cup {0}]]

PiPC == {"pi_read_sched", "pi_read_wait", "pi_write_sched", "pi_write_wait"}

(* rt_pipe_init *)
PiInit ==
  /\ pi = rt_ringbuffer_init
  /\ piArg = [t \in Thread |-> NoPiArg]

PiData == rt_ringbuffer_data_len(pi)
PiRoom == rt_ringbuffer_space_len(pi)

(* _rt_pipe_resume_reader and _rt_pipe_resume_writer *)
PiResume(l) == IF k.susp[l] # <<>> THEN rt_schedule(ResumeFirst(l)) ELSE k

PiReturn(t) ==
  /\ piArg' = [piArg EXCEPT ![t] = NoPiArg]
  /\ Goto(t, "app")
  /\ UNCHANGED <<irqoff, fault, rest>>

PiWait(t, l, arg, sched) ==
  /\ k' = rt_ipc_list_suspend(k, l, t, "FIFO")
  /\ piArg' = [piArg EXCEPT ![t] = arg]
  /\ Goto(t, sched)
  /\ UNCHANGED <<irqoff, fault, rest, pi>>

-----------------------------------------------------------------------------
(* rt_pipe_read: one round of its loop, from point at *)

PiReadSome(t, at, n) ==
  /\ Runs(t, at)
  /\ PiData > 0
  /\ pi' = rt_ringbuffer_get(pi, n)
  /\ k' = PiResume(piWrite)
  /\ PiReturn(t)

(* RT_PIPE_FLAG_BLOCK_RD *)
PiReadWait(t, at, n) ==
  /\ Runs(t, at)
  /\ PiData = 0
  /\ PiWait(t, piRead, [data |-> <<>>, size |-> n], "pi_read_sched")

PiReadAgain(t) ==
  \/ PiReadSome(t, "pi_read_wait", piArg[t].size)
  \/ PiReadWait(t, "pi_read_wait", piArg[t].size)

-----------------------------------------------------------------------------
(* rt_pipe_write *)

PiWriteSome(t, at, s) ==
  /\ Runs(t, at)
  /\ PiRoom > 0
  /\ pi' = rt_ringbuffer_put(pi, s)
  /\ k' = PiResume(piRead)
  /\ PiReturn(t)

(* RT_PIPE_FLAG_BLOCK_WR *)
PiWriteWait(t, at, s) ==
  /\ Runs(t, at)
  /\ PiRoom = 0
  /\ PiWait(t, piWrite, [data |-> s, size |-> 0], "pi_write_sched")

PiWriteAgain(t) ==
  \/ PiWriteSome(t, "pi_write_wait", piArg[t].data)
  \/ PiWriteWait(t, "pi_write_wait", piArg[t].data)

(* RT_PIPE_FLAG_FORCE_WR; past are the bytes behind the caller's data *)
PiWriteForce(t, s, past) ==
  /\ Runs(t, "app")
  /\ pi' = rt_ringbuffer_put_force(pi, s, past)
  /\ k' = PiResume(piRead)
  /\ PiReturn(t)

PiSchedule(t) ==
  /\ \/ Schedule(t, "pi_read_sched", "pi_read_wait")
     \/ Schedule(t, "pi_write_sched", "pi_write_wait")
  /\ UNCHANGED <<rest, pi, piArg>>

-----------------------------------------------------------------------------
(* Without the BLOCK flag of its direction, a handler may read and write. *)

IsrPiRead(n) ==
  /\ Interruptible
  /\ PiData > 0
  /\ pi' = rt_ringbuffer_get(pi, n)
  /\ k' = PiResume(piWrite)
  /\ UNCHANGED <<pc, irqoff, fault, rest, piArg>>

IsrPiWrite(s) ==
  /\ Interruptible
  /\ pi' = rt_ringbuffer_put(pi, s)
  /\ k' = PiResume(piRead)
  /\ UNCHANGED <<pc, irqoff, fault, rest, piArg>>

-----------------------------------------------------------------------------
(* A driver that uses the ring buffer by itself, one character at a time,    *)
(* with interrupts disabled                                                  *)

IsrPutChar(ch) ==
  /\ Interruptible
  /\ pi' \in {rt_ringbuffer_putchar(pi, ch), rt_ringbuffer_putchar_force(pi, ch)}
  /\ UNCHANGED <<k, pc, irqoff, fault, rest, piArg>>

GetChar(t) ==
  /\ Runs(t, "app")
  /\ pi' = rt_ringbuffer_getchar(pi)
  /\ UNCHANGED <<k, pc, irqoff, fault, rest, piArg>>
=============================================================================
