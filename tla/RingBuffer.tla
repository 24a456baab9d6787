----------------------------- MODULE RingBuffer -----------------------------
(***************************************************************************)
(* Ring buffers (ringbuffer.c and the inline functions of rtdevice.h).  An *)
(* index and its mirror bit together run over twice the buffer, so that    *)
(* equal indices mean an empty buffer when the mirrors agree and a full    *)
(* one when they differ.                                                   *)
(***************************************************************************)
EXTENDS Integers, Sequences

CONSTANTS
  Byte,         \* the contents of the buffer
  RB_SIZE       \* rb->buffer_size

ASSUME RingBufferAssumption == RB_SIZE \in Nat \ {0}

RingState ==
  [buffer : [0 .. RB_SIZE - 1 -> Byte],
   read_mirror : BOOLEAN, write_mirror : BOOLEAN,
   read_index : 0 .. RB_SIZE - 1, write_index : 0 .. RB_SIZE - 1]

rt_ringbuffer_init ==
  [buffer |-> [i \in 0 .. RB_SIZE - 1 |-> CHOOSE b \in Byte : TRUE],
   read_mirror |-> FALSE, write_mirror |-> FALSE, read_index |-> 0, write_index |-> 0]

rt_ringbuffer_status(rb) ==
  IF rb.read_index # rb.write_index THEN "HALFFULL"
  ELSE IF rb.read_mirror = rb.write_mirror THEN "EMPTY" ELSE "FULL"

rt_ringbuffer_data_len(rb) ==
  CASE rt_ringbuffer_status(rb) = "EMPTY" -> 0
    [] rt_ringbuffer_status(rb) = "FULL"  -> RB_SIZE
    [] OTHER -> IF rb.write_index > rb.read_index THEN rb.write_index - rb.read_index
                ELSE RB_SIZE - (rb.read_index - rb.write_index)

rt_ringbuffer_space_len(rb) == RB_SIZE - rt_ringbuffer_data_len(rb)

AtMost(n, limit) == IF limit < n THEN limit ELSE n

(* memcpy of s to the buffer, from index at *)
Copied(buffer, at, s) ==
  [i \in 0 .. RB_SIZE - 1 |-> IF at <= i /\ i < at + Len(s) THEN s[i - at + 1] ELSE buffer[i]]

(* mutant: data that just fit before the end do not change the mirror *)
put_strictly_after(rb, ptr) ==
  LET length == AtMost(Len(ptr), rt_ringbuffer_space_len(rb))
      before == RB_SIZE - rb.write_index
      data   == SubSeq(ptr, 1, length)
  IN  IF before >= length
      THEN [rb EXCEPT !.buffer = Copied(@, rb.write_index, data),
                      !.write_index = (@ + length) % RB_SIZE]
      ELSE [rb EXCEPT !.buffer = Copied(Copied(@, rb.write_index, SubSeq(data, 1, before)),
                                        0, SubSeq(data, before + 1, length)),
                      !.write_mirror = ~ @,
                      !.write_index = length - before]

rt_ringbuffer_put(rb, ptr) ==
  LET length == AtMost(Len(ptr), rt_ringbuffer_space_len(rb))
      before == RB_SIZE - rb.write_index
      data   == SubSeq(ptr, 1, length)
  IN  IF rt_ringbuffer_space_len(rb) = 0 THEN rb
      ELSE IF before > length
      THEN [rb EXCEPT !.buffer = Copied(@, rb.write_index, data),
                      !.write_index = @ + length]
      ELSE [rb EXCEPT !.buffer = Copied(Copied(@, rb.write_index, SubSeq(data, 1, before)),
                                        0, SubSeq(data, before + 1, length)),
                      !.write_mirror = ~ @,
                      !.write_index = length - before]

(* The bytes that a get of length bytes copies to its caller *)
got(rb, length) ==
  LET n == AtMost(length, rt_ringbuffer_data_len(rb))
  IN  [i \in 1 .. n |-> rb.buffer[(rb.read_index + i - 1) % RB_SIZE]]

rt_ringbuffer_get(rb, length) ==
  LET n     == AtMost(length, rt_ringbuffer_data_len(rb))
      after == RB_SIZE - rb.read_index
  IN  IF n = 0 THEN rb
      ELSE IF after > n THEN [rb EXCEPT !.read_index = @ + n]
      ELSE [rb EXCEPT !.read_mirror = ~ @, !.read_index = n - after]

-----------------------------------------------------------------------------
(* One character at a time *)

written(rb, ch) ==
  LET put == [rb EXCEPT !.buffer[rb.write_index] = ch]
  IN  IF rb.write_index = RB_SIZE - 1
      THEN [put EXCEPT !.write_mirror = ~ @, !.write_index = 0]
      ELSE [put EXCEPT !.write_index = @ + 1]

rt_ringbuffer_putchar(rb, ch) ==
  IF rt_ringbuffer_space_len(rb) = 0 THEN rb ELSE written(rb, ch)

(* A full buffer loses its oldest character: the reader follows the writer. *)
rt_ringbuffer_putchar_force(rb, ch) ==
  LET put == written(rb, ch)
  IN  IF rt_ringbuffer_status(rb) # "FULL" THEN put
      ELSE [put EXCEPT !.read_index = put.write_index,
                       !.read_mirror = IF put.write_mirror # rb.write_mirror THEN ~ @ ELSE @]

rt_ringbuffer_getchar(rb) ==
  IF rt_ringbuffer_data_len(rb) = 0 THEN rb
  ELSE IF rb.read_index = RB_SIZE - 1
       THEN [rb EXCEPT !.read_mirror = ~ @, !.read_index = 0]
       ELSE [rb EXCEPT !.read_index = @ + 1]

-----------------------------------------------------------------------------
(* rt_ringbuffer_put_force: data that do not fit are taken to be as long as  *)
(* the buffer.  past are the bytes behind the caller's data.                 *)
rt_ringbuffer_put_force(rb, ptr, past) ==
  LET over   == Len(ptr) > rt_ringbuffer_space_len(rb)
      data   == IF over THEN SubSeq(ptr \o past, 1, RB_SIZE) ELSE ptr
      length == Len(data)
      before == RB_SIZE - rb.write_index
      put    == IF before > length
                THEN [rb EXCEPT !.buffer = Copied(@, rb.write_index, data),
                                !.write_index = @ + length]
                ELSE [rb EXCEPT !.buffer =
                        Copied(Copied(@, rb.write_index, SubSeq(data, 1, before)),
                               0, SubSeq(data, before + 1, length)),
                      !.write_mirror = ~ @, !.write_index = length - before]
  IN  IF ~ over THEN put
      ELSE [put EXCEPT !.read_index = put.write_index,
                       !.read_mirror = IF before > length THEN @ ELSE ~ @]
=============================================================================
