---------------------------- MODULE SemaphoreSpec ----------------------------
(***************************************************************************)
(* What rt_sem promises its users, without kernel, lists or interrupts: a  *)
(* count, a queue of waiting threads and the set of threads that have been *)
(* given a token but have not returned from rt_sem_take yet.               *)
(***************************************************************************)
EXTENDS Integers, Sequences

CONSTANTS
  Thread,
  InitValue,
  Limit,       \* the greatest count
  Fifo         \* RT_IPC_FLAG_FIFO: threads are served in the order of their calls

VARIABLES value, queue, granted

vars == <<value, queue, granted>>

Init == value = InitValue /\ queue = <<>> /\ granted = {}

Queued(t) == \E i \in 1 .. Len(queue) : queue[i] = t

Drop(i) == [j \in 1 .. Len(queue) - 1 |-> IF j < i THEN queue[j] ELSE queue[j + 1]]

(* A take finds a token, or joins the queue. *)
Take == value > 0 /\ value' = value - 1 /\ UNCHANGED <<queue, granted>>

Join(t) ==
  /\ value = 0 /\ ~ Queued(t) /\ t \notin granted
  /\ \E i \in 1 .. Len(queue) + 1 :
       /\ Fifo => i = Len(queue) + 1
       /\ queue' = [j \in 1 .. Len(queue) + 1 |->
                      IF j < i THEN queue[j] ELSE IF j = i THEN t ELSE queue[j - 1]]
  /\ UNCHANGED <<value, granted>>

(* A release serves the first of the queue, or counts. *)
Grant ==
  /\ queue # <<>>
  /\ granted' = granted \cup {Head(queue)}
  /\ queue' = Tail(queue)
  /\ UNCHANGED value

Put == queue = <<>> /\ value < Limit /\ value' = value + 1 /\ UNCHANGED <<queue, granted>>

(* A thread that was given a token returns from its take. *)
Collect(t) == t \in granted /\ granted' = granted \ {t} /\ UNCHANGED <<value, queue>>

(* A thread leaves the queue without a token: timeout, reset, detach. *)
Leave == \E i \in 1 .. Len(queue) : queue' = Drop(i) /\ UNCHANGED <<value, granted>>

Reset == queue = <<>> /\ value' \in 0 .. Limit /\ UNCHANGED <<queue, granted>>

Next ==
  \/ Take \/ Grant \/ Put \/ Leave \/ Reset
  \/ \E t \in Thread : Join(t) \/ Collect(t)

Spec == Init /\ [][Next]_vars
=============================================================================
