----------------------------- MODULE BoundedQueue -----------------------------
(***************************************************************************)
(* What a mailbox and a message queue promise about the values in them: a  *)
(* sequence of at most Limit values, sent to its end (or, urgently, to its *)
(* begin) and received from its begin, one at a time; a reset drops all.   *)
(***************************************************************************)
EXTENDS Naturals, Sequences

CONSTANTS
  Value,
  Limit,
  Urgent     \* the values that go to the begin

VARIABLE queue

Init == queue = <<>>

Send(v) ==
  /\ Len(queue) < Limit
  /\ queue' = IF v \in Urgent THEN <<v>> \o queue ELSE Append(queue, v)

Receive == queue # <<>> /\ queue' = Tail(queue)
Reset   == queue' = <<>>

Next == Receive \/ Reset \/ \E v \in Value : Send(v)

Spec == Init /\ [][Next]_queue
=============================================================================
