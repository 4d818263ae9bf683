-------------------------------- MODULE Fifo --------------------------------
(***************************************************************************)
(* The circular byte buffer of tcl/code/common/common.c (FifoTyp): an      *)
(* array, the number of bytes in use and the index of the oldest one.  It  *)
(* holds the UART bytes and the converted frames of the device protocol.   *)
(*                                                                         *)
(* Two facts of the C code shape the model.  Sums are stored in u16        *)
(* variables, so they wrap at 2^16.  And FifoOffset is not reduced when a  *)
(* read ends exactly at the end of the array, so it ranges over 0..FifoLen *)
(* and not over 0..FifoLen-1.  `touched` records every array index the     *)
(* last call read or wrote, in or out of the array.                        *)
(***************************************************************************)
EXTENDS Integers, Sequences

CONSTANTS Byte,      \* the values a byte can take
          FifoLen,   \* the length of the array
          MaxLen     \* the largest length argument a caller passes

U16 == 65536

\* The code makes 1024-byte buffers and passes lengths of at most 255: the
\* sums of two of them stay far below 2^16.
ASSUME FifoAssumption ==
  /\ Byte # {}
  /\ FifoLen \in Nat \ {0}
  /\ MaxLen \in Nat
  /\ 2 * FifoLen < U16
  /\ FifoLen + MaxLen < U16

VARIABLES mem,         \* FifoAddr[0 .. FifoLen-1]
          Datalen,
          FifoOffset,
          out,         \* the bytes the last call copied to its caller
          ret,         \* what the last call returned
          touched      \* the array indices the last call accessed

vars == <<mem, Datalen, FifoOffset, out, ret, touched>>

Index == 0 .. FifoLen - 1
Strings == UNION {[1 .. n -> Byte] : n \in 0 .. MaxLen}
Least(a, b) == IF a <= b THEN a ELSE b

\* The n indices that start at a.
Block(a, n) == a .. (a + n - 1)

-----------------------------------------------------------------------------
\* FifoInit does not clear the array.
FifoInit ==
  /\ mem \in [Index -> Byte]
  /\ Datalen = 0
  /\ FifoOffset = 0
  /\ out = <<>> /\ ret = 0 /\ touched = {}

\* memcpy(&FifoAddr[a], s + from, n): the part of it that falls in the array.
Memcpy(m, a, s, from, n) ==
  [x \in Index |-> IF a <= x /\ x < a + n THEN s[from + (x - a) + 1] ELSE m[x]]

\* Mutant: FifoPushOneByte tests `<=`, so it writes once more when full.
PushWhenFull(b) ==
  /\ IF Datalen <= FifoLen
       THEN /\ mem' = Memcpy(mem, (Datalen + FifoOffset) % FifoLen, <<b>>, 0, 1)
            /\ Datalen' = Datalen + 1
            /\ touched' = {(Datalen + FifoOffset) % FifoLen}
            /\ ret' = 1
       ELSE UNCHANGED <<mem, Datalen>> /\ touched' = {} /\ ret' = 0
  /\ out' = <<>>
  /\ UNCHANGED FifoOffset

FifoPushOneByte(b) ==
  /\ IF Datalen < FifoLen
       THEN LET head == ((Datalen + FifoOffset) % U16) % FifoLen IN
            /\ mem' = Memcpy(mem, head, <<b>>, 0, 1)
            /\ Datalen' = (Datalen + 1) % U16
            /\ touched' = {head}
            /\ ret' = 1
       ELSE UNCHANGED <<mem, Datalen>> /\ touched' = {} /\ ret' = 0
  /\ out' = <<>>
  /\ UNCHANGED FifoOffset

\* Mutant: FifoInput forgets the case of a write that runs past the end.
InputNoWrap(s) ==
  LET cnt   == Datalen + Len(s)
      start == (Datalen + FifoOffset) % FifoLen
  IN /\ IF cnt <= FifoLen
          THEN /\ mem' = Memcpy(mem, start, s, 0, Len(s))
               /\ touched' = Block(start, Len(s))
               /\ Datalen' = cnt
               /\ ret' = 1
          ELSE UNCHANGED <<mem, Datalen>> /\ touched' = {} /\ ret' = 0
     /\ out' = <<>>
     /\ UNCHANGED FifoOffset

FifoInput(s) ==
  LET len   == Len(s)
      cnt   == (Datalen + len) % U16
      start == (Datalen + FifoOffset) % U16
      end   == (start + len) % U16
      wrap  == start % FifoLen
      temp  == FifoLen - start
  IN /\ \/ /\ cnt <= FifoLen
           /\ start >= FifoLen \/ end <= FifoLen
           /\ mem' = Memcpy(mem, wrap, s, 0, len)
           /\ touched' = Block(wrap, len)
           /\ Datalen' = cnt
           /\ ret' = 1
        \/ /\ cnt <= FifoLen
           /\ start < FifoLen /\ end > FifoLen
           /\ mem' = Memcpy(Memcpy(mem, start, s, 0, temp), 0, s, temp, len - temp)
           /\ touched' = Block(start, temp) \cup Block(0, len - temp)
           /\ Datalen' = cnt
           /\ ret' = 1
        \/ /\ cnt > FifoLen
           /\ UNCHANGED <<mem, Datalen>>
           /\ touched' = {} /\ ret' = 0
     /\ out' = <<>>
     /\ UNCHANGED FifoOffset

\* The two memcpy calls of FifoOutput and FifoCopy: n bytes from index a, the
\* ones beyond the end of the array from its start.
Fetch(a, n) ==
  [i \in 1 .. n |-> IF i <= FifoLen - a THEN mem[a + i - 1] ELSE mem[i - (FifoLen - a) - 1]]

Fetched(a, n) ==
  IF n <= FifoLen - a
    THEN Block(a, n)
    ELSE Block(a, FifoLen - a) \cup Block(0, n - (FifoLen - a))

\* Move the index of the oldest byte n places on.
Advance(n) == IF n <= FifoLen - FifoOffset THEN FifoOffset + n ELSE n - (FifoLen - FifoOffset)

\* Mutant: FifoOutput moves the offset but forgets to reduce the length.
OutputKeepsLength(len) ==
  LET n == Least(len, Datalen) IN
  /\ out' = Fetch(FifoOffset, n)
  /\ touched' = Fetched(FifoOffset, n)
  /\ FifoOffset' = Advance(n)
  /\ ret' = n
  /\ UNCHANGED <<mem, Datalen>>

FifoOutput(len) ==
  LET n == Least(len, Datalen) IN
  /\ out' = Fetch(FifoOffset, n)
  /\ touched' = Fetched(FifoOffset, n)
  /\ FifoOffset' = Advance(n)
  /\ Datalen' = Datalen - n
  /\ ret' = n
  /\ UNCHANGED mem

\* The copy starts `offset` bytes after the oldest one.
FifoCopy(offset, len) ==
  LET n == IF offset <= Datalen THEN Least(len, Datalen - offset) ELSE 0
      a == (FifoOffset + offset) % FifoLen
  IN /\ out' = Fetch(a, n)
     /\ touched' = Fetched(a, n)
     /\ ret' = n
     /\ UNCHANGED <<mem, Datalen, FifoOffset>>

\* Mutant: FifoDeletHead moves the offset, as FifoDeletTail must.
DeletHeadMovesTail(len) ==
  LET n == Least(len, Datalen) IN
  /\ Datalen' = Datalen - n
  /\ FifoOffset' = Advance(n)
  /\ out' = <<>> /\ ret' = n /\ touched' = {}
  /\ UNCHANGED mem

FifoDeletHead(len) ==
  LET n == Least(len, Datalen) IN
  /\ Datalen' = Datalen - n
  /\ out' = <<>> /\ ret' = n /\ touched' = {}
  /\ UNCHANGED <<mem, FifoOffset>>

FifoDeletTail(len) ==
  LET n == Least(len, Datalen) IN
  /\ FifoOffset' = IF n <= FifoLen - FifoOffset THEN FifoOffset + n
                                                ELSE FifoOffset - (FifoLen - n)
  /\ Datalen' = Datalen - n
  /\ out' = <<>> /\ ret' = n /\ touched' = {}
  /\ UNCHANGED mem

-----------------------------------------------------------------------------
Init == FifoInit

Next ==
  \/ \E b \in Byte : FifoPushOneByte(b)
  \/ \E s \in Strings : FifoInput(s)
  \/ \E len \in 0 .. MaxLen : FifoOutput(len)
  \/ \E offset, len \in 0 .. MaxLen : FifoCopy(offset, len)
  \/ \E len \in 0 .. MaxLen : FifoDeletHead(len)
  \/ \E len \in 0 .. MaxLen : FifoDeletTail(len)

Spec == Init /\ [][Next]_vars

-----------------------------------------------------------------------------
(* Properties *)

\* The counters stay within the buffer whatever the callers ask for: the
\* length never exceeds the capacity, the offset never passes the end.
TypeOK ==
  /\ mem \in [Index -> Byte]
  /\ Datalen \in 0 .. FifoLen
  /\ FifoOffset \in 0 .. FifoLen
  /\ ret \in Nat

\* No call of FifoPushOneByte, FifoInput, FifoOutput or FifoCopy reads or
\* writes outside the array, wherever the data wraps round its end.
InBounds == touched \subseteq Index

\* The bytes held, oldest first.
Contents == [i \in 1 .. Datalen |-> mem[(FifoOffset + i - 1) % FifoLen]]

\* The buffer is a bounded queue: what was put in comes out once, in order,
\* across every wrap of the array, and a refused write leaves it unchanged.
Queue == INSTANCE ByteQueue WITH q <- Contents
IsQueue == Queue!Spec

\* Each function is its own queue operation: FifoDeletHead forgets the newest
\* bytes and FifoDeletTail the oldest, whichever way the array has wrapped.
CallsAsQueue ==
  [][/\ \A b \in Byte : FifoPushOneByte(b) => Queue!Put(<<b>>)
     /\ \A s \in Strings : FifoInput(s) => Queue!Put(s)
     /\ \A len \in 0 .. MaxLen :
          /\ FifoOutput(len) => Queue!Get(len)
          /\ FifoDeletHead(len) => Queue!DropNewest(len)
          /\ FifoDeletTail(len) => Queue!DropOldest(len)
     /\ \A offset, len \in 0 .. MaxLen :
          FifoCopy(offset, len) => Queue!Peek(offset, len)]_vars
=============================================================================
