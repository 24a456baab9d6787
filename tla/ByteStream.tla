----------------------------- MODULE ByteStream -----------------------------
(***************************************************************************)
(* What a buffer between a writer and a reader of bytes promises: the      *)
(* bytes come out in the order they went in.  A write takes as many bytes  *)
(* from the front of its data as there is room for; a forced write of one  *)
(* byte to a full buffer discards the oldest one.  A read takes as many as *)
(* it asks for, or all there are.                                          *)
(***************************************************************************)
EXTENDS Naturals, Sequences

CONSTANTS
  Byte,       \* the bytes
  Writes,     \* the data of the writes, sequences of bytes
  Reads,      \* how many bytes a read asks for
  Capacity    \* how many bytes the buffer holds

VARIABLE
  stream      \* the bytes in the buffer, the oldest first

Room == Capacity - Len(stream)

Init == stream = <<>>

Put(s) ==
  /\ Room > 0
  /\ stream' = stream \o SubSeq(s, 1, IF Len(s) < Room THEN Len(s) ELSE Room)

PutForce(b) == stream' = IF Room > 0 THEN Append(stream, b) ELSE Append(Tail(stream), b)

Get(n) ==
  /\ stream # <<>>
  /\ stream' = SubSeq(stream, n + 1, Len(stream))

Next ==
  \/ \E s \in Writes : Put(s)
  \/ \E b \in Byte : PutForce(b)
  \/ \E n \in Reads : Get(n)

Spec == Init /\ [][Next]_stream
=============================================================================
