-------------------------------- MODULE Lists --------------------------------
(***************************************************************************)
(* Doubly linked lists (rtservice.h) are sequences without their head node. *)
(***************************************************************************)
EXTENDS Integers, Sequences

On(s, t) == \E i \in 1 .. Len(s) : s[i] = t

(* The list without its i-th node, and with t linked in as its i-th node. *)
CutAt(s, i) ==
  [j \in 1 .. Len(s) - 1 |-> IF j < i THEN s[j] ELSE s[j + 1]]

LinkAt(s, i, t) ==
  [j \in 1 .. Len(s) + 1 |-> IF j < i THEN s[j] ELSE IF j = i THEN t ELSE s[j - 1]]

Unlink(s, t) ==
  IF On(s, t) THEN CutAt(s, CHOOSE i \in 1 .. Len(s) : s[i] = t) ELSE s

(* No node is linked twice. *)
Distinct(s) == \A i, j \in 1 .. Len(s) : s[i] = s[j] => i = j
=============================================================================
