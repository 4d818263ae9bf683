----------------------------- MODULE ByteQueue -----------------------------
(***************************************************************************)
(* What the circular buffer of tcl/code/common promises its callers: a     *)
(* bounded queue of bytes, oldest first, that accepts a write whole or not *)
(* at all, delivers from the old end, and can be cut at either end.  No    *)
(* memory, no indices: Fifo is shown to implement this specification.      *)
(***************************************************************************)
EXTENDS Integers, Sequences

CONSTANTS Byte,      \* the values a byte can take
          FifoLen,   \* the capacity of the queue
          MaxLen     \* the largest length argument a caller passes

VARIABLES q,    \* the bytes held, oldest first
          out,  \* the bytes the last call copied to its caller
          ret   \* what the last call returned

vars == <<q, out, ret>>

\* The byte strings a caller can hand over.
Strings == UNION {[1 .. n -> Byte] : n \in 0 .. MaxLen}

Least(a, b) == IF a <= b THEN a ELSE b

Init == q = <<>> /\ out = <<>> /\ ret = 0

\* Append the whole of s, or refuse it and leave the queue alone.
Put(s) ==
  /\ IF Len(q) + Len(s) <= FifoLen
       THEN q' = q \o s /\ ret' = 1
       ELSE q' = q /\ ret' = 0
  /\ out' = <<>>

\* Deliver and remove the oldest n bytes, or all of them.
Get(n) ==
  LET k == Least(n, Len(q)) IN
  /\ out' = SubSeq(q, 1, k)
  /\ q' = SubSeq(q, k + 1, Len(q))
  /\ ret' = k

\* Deliver, without removing, up to n bytes that follow the first `off`.
Peek(off, n) ==
  LET k == IF off <= Len(q) THEN Least(n, Len(q) - off) ELSE 0 IN
  /\ out' = SubSeq(q, off + 1, off + k)
  /\ q' = q
  /\ ret' = k

\* Forget the newest n bytes, or all of them.
DropNewest(n) ==
  LET k == Least(n, Len(q)) IN
  /\ q' = SubSeq(q, 1, Len(q) - k)
  /\ out' = <<>>
  /\ ret' = k

\* Forget the oldest n bytes, or all of them.
DropOldest(n) ==
  LET k == Least(n, Len(q)) IN
  /\ q' = SubSeq(q, k + 1, Len(q))
  /\ out' = <<>>
  /\ ret' = k

Next ==
  \/ \E b \in Byte : Put(<<b>>)
  \/ \E s \in Strings : Put(s)
  \/ \E n \in 0 .. MaxLen : Get(n) \/ DropNewest(n) \/ DropOldest(n)
  \/ \E off, n \in 0 .. MaxLen : Peek(off, n)

Spec == Init /\ [][Next]_vars
=============================================================================
