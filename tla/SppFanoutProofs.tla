-------------------------- MODULE SppFanoutProofs --------------------------
(***************************************************************************)
(* Proofs about SppFanout, for any clients, slots and queue length, and    *)
(* with a thread switch possible inside every update of a count: the table *)
(* of queues and the queues themselves do not depend on the counts.        *)
(*                                                                         *)
(* The argument: the UART thread goes from Lock to Unlock holding the      *)
(* mutex, and Register and Unregister need it free, so a slot found filled *)
(* stays filled until the thread has pushed; and a client is in the table  *)
(* from its Register to its Unregister only, where its queue is alive.     *)
(*                                                                         *)
(* The second half is about the counts, when they are updated indivisibly. *)
(* The number of references to a message is that of places of queues and   *)
(* of threads that hold it; a push and a pop move one between the two.     *)
(***************************************************************************)
EXTENDS SppFanout, SequenceTheorems, FiniteSetTheorems, TLAPS

UartLabel == {"scan", "limit", "malloc", "add", "lock", "hold", "fan", "take", "push",
              "undo", "drop", "unlock", "test", "free", "release"}
ClientLabel == {"off", "register", "serve", "write", "sent", "failed", "unregister",
                "drain", "drained", "test", "free", "release"}

\* In socket_msg_free, past `ref--`
After == {"test", "free", "release"}

\* The types, and where each thread can be
Types ==
  /\ slots \in [Slots -> Client \cup {NULL}]
  /\ queue \in [Client -> Seq(Msg)]
  /\ \A c \in Client : Len(queue[c]) <= MAX_QUEUE_LENGTH
  /\ inited \in SUBSET Client /\ live \in SUBSET Msg
  /\ ref \in [Msg -> Int] /\ len \in Int
  /\ next \in 1 .. Packets + 1
  /\ pc \in [Thread -> Label]
  /\ pc[Uart] \in UartLabel /\ \A c \in Client : pc[c] \in ClientLabel
  /\ cur \in [Thread -> Msg \cup {NULL}]
  /\ reg \in [Thread -> Int \cup {NULL}]
  /\ back \in [Thread -> Label \cup {NULL}]
  /\ slot \in 1 .. MAX_QUEUE_NUM + 1
  /\ misused \in BOOLEAN

\* Where a thread goes on after socket_msg_free
Backs ==
  /\ pc[Uart] \in After => back[Uart] \in {"fan", "unlock"}
  /\ \A c \in Client : pc[c] \in After => back[c] \in {"serve", "unregister", "drain"}

\* The UART thread's loop over the slots is one critical section.
Critical == {"hold", "fan", "take", "push", "undo", "drop", "unlock"} \cup After
Locked == mtx = IF pc[Uart] \in Critical THEN Uart ELSE NULL

Loop ==
  /\ pc[Uart] = "scan" => slot \in Slots
  /\ pc[Uart] \in {"limit", "malloc"} => next <= Packets
  /\ pc[Uart] \notin {"scan", "limit", "malloc"} => cur[Uart] \in Msg
  /\ pc[Uart] \in {"take", "push"} => slot \in Slots /\ slots[slot] # NULL

\* A client between the two critical sections of its queue
Served(c) ==
  \/ pc[c] \in {"serve", "write", "sent", "failed", "unregister"}
  \/ pc[c] \in After /\ back[c] \in {"serve", "unregister"}

Slotted ==
  /\ \A i \in Slots : slots[i] # NULL => Served(slots[i])
  /\ \A i, j \in Slots : slots[i] = slots[j] /\ slots[i] # NULL => i = j

\* A queue is alive from Connect to Deinit, and empty before it is registered;
\* who is to drop a message has one in hand.
Queues ==
  \A c \in Client :
    /\ c \in inited <=> pc[c] # "off"
    /\ pc[c] \in {"off", "register"} => queue[c] = <<>>
    /\ pc[c] \in {"write", "sent", "failed", "drained"} \cup After => cur[c] \in Msg

IInv == Types /\ Backs /\ Locked /\ Loop /\ Slotted /\ Queues

-----------------------------------------------------------------------------
(* What is common to the steps of a thread. *)

\* The places of thread t
Own(t) == IF t = Uart THEN UartLabel ELSE ClientLabel

\* The UART thread is none of the clients.
LEMMA Threads ==
  /\ Uart \in Thread /\ Client \subseteq Thread
  /\ \A t \in Thread : t = Uart \/ t \in Client
  /\ \A c \in Client : c # Uart
  BY SppAssumption DEF Thread, Uart

LEMMA Labels == UartLabel \subseteq Label /\ ClientLabel \subseteq Label
  BY DEF UartLabel, ClientLabel, Label

\* One thread moves, the others stay where they are.
LEMMA Moves ==
  ASSUME Types, NEW t \in Thread, NEW l \in Own(t), Goto(t, l)
  PROVE  /\ pc' \in [Thread -> Label]
         /\ pc'[Uart] \in UartLabel /\ \A c \in Client : pc'[c] \in ClientLabel
         /\ pc'[t] = l /\ \A u \in Thread : u # t => pc'[u] = pc[u]
<1>1. l \in Label
  BY Labels DEF Own
<1>2. pc \in [Thread -> Label] /\ pc' = [pc EXCEPT ![t] = l]
  BY DEF Types, Goto
<1>3. pc'[t] = l /\ \A u \in Thread : u # t => pc'[u] = pc[u]
  BY <1>2
<1>4. pc' \in [Thread -> Label]
  BY <1>1, <1>2
<1>5. pc'[Uart] \in UartLabel
  BY <1>3, Threads DEF Own, Types
<1>6. ASSUME NEW c \in Client PROVE pc'[c] \in ClientLabel
  BY <1>3, Threads DEF Own, Types
<1>7. QED
  BY <1>3, <1>4, <1>5, <1>6

\* A step of the UART thread outside the queues leaves the clients as they are.
LEMMA ClientsKept ==
  ASSUME IInv, \A c \in Client : pc'[c] = pc[c] /\ back'[c] = back[c] /\ cur'[c] = cur[c],
         UNCHANGED <<slots, queue, inited>>
  PROVE  Slotted' /\ Queues'
<1>1. \A c \in Client : Served(c)' <=> Served(c)
  BY DEF Served
<1>2. \A i \in Slots : slots[i] # NULL => slots[i] \in Client
  BY DEF IInv, Types
<1>3. Slotted'
  BY <1>1, <1>2 DEF IInv, Slotted
<1>4. Queues'
  BY DEF IInv, Queues
<1>5. QED
  BY <1>3, <1>4

\* A step of a client leaves the UART thread as it is.
LEMMA UartKept ==
  ASSUME IInv, pc'[Uart] = pc[Uart], back'[Uart] = back[Uart], cur'[Uart] = cur[Uart],
         UNCHANGED <<slots, mtx, slot, next>>
  PROVE  Locked' /\ Loop'
  BY DEF IInv, Locked, Loop

-----------------------------------------------------------------------------
(* Counts. *)

\* What is written to a count is computed from an integer.
LEMMA SeenInt ==
  ASSUME Types, NEW t \in Thread, NEW l, NEW count \in Int, Ready(t, l)
  PROVE  Seen(t, count) \in Int
  BY DEF Types, Ready, Seen

\* What a step on a count changes
Counts(t) ==
  /\ ref' \in [Msg -> Int] /\ len' \in Int /\ live' \in SUBSET Msg
  /\ reg' \in [Thread -> Int \cup {NULL}] /\ misused' \in BOOLEAN
  /\ UNCHANGED <<slots, mtx, queue, inited, next, slot>>

LEMMA TouchType == ASSUME Types, NEW t, Touch(t) PROVE misused' \in BOOLEAN
  BY DEF Types, Touch

LEMMA RefWritten ==
  ASSUME Types, NEW t \in Thread, NEW n \in Int, ref' = [ref EXCEPT ![cur[t]] = n]
  PROVE  ref' \in [Msg -> Int]
  BY DEF Types

LEMMA ReadRefStep ==
  ASSUME Types, NEW t \in Thread, NEW l, cur[t] \in Msg, ReadRef(t, l)
  PROVE  Counts(t) /\ UNCHANGED <<pc, cur, back>>
<1>1. ref[cur[t]] \in Int
  BY DEF Types
<1>2. reg' \in [Thread -> Int \cup {NULL}]
  BY <1>1 DEF Types, ReadRef, Read
<1>3. QED
  BY <1>2, TouchType DEF Types, ReadRef, Counts, net

LEMMA DoneType == ASSUME Types, NEW t \in Thread, Done(t) PROVE reg' \in [Thread -> Int \cup {NULL}]
  BY DEF Types, Done

LEMMA TakeStep ==
  ASSUME Types, NEW t \in Thread, NEW l, NEW then, cur[t] \in Msg, Take(t, l, then)
  PROVE  /\ At(t, l) /\ Counts(t) /\ UNCHANGED <<cur, back>>
         /\ UNCHANGED pc \/ Goto(t, then)
<1>1. CASE ReadRef(t, l)
  BY <1>1, ReadRefStep DEF ReadRef, Read
<1>2. CASE ~ReadRef(t, l)
  <2>1. /\ Ready(t, l)
        /\ ref' = [ref EXCEPT ![cur[t]] = Seen(t, ref[cur[t]]) + 1]
        /\ Touch(t) /\ Done(t) /\ Goto(t, then)
        /\ UNCHANGED <<net, live, len, next, cur, back, slot>>
    BY <1>2 DEF Take
  <2>2. ref[cur[t]] \in Int
    BY DEF Types
  <2>3. Seen(t, ref[cur[t]]) + 1 \in Int
    BY <2>1, <2>2, SeenInt
  <2>4. ref' \in [Msg -> Int]
    BY <2>1, <2>3, RefWritten
  <2>5. Counts(t)
    BY <2>1, <2>4, TouchType, DoneType DEF Counts, Types, net
  <2>6. QED
    BY <2>1, <2>5 DEF Ready
<1>3. QED
  BY <1>1, <1>2

LEMMA LetGoStep ==
  ASSUME Types, NEW t \in Thread, LetGo(t)
  PROVE  /\ cur' \in [Thread -> Msg \cup {NULL}] /\ cur'[Uart] = cur[Uart]
         /\ t = Uart => cur' = cur
         /\ \A c \in Client : c # t => cur'[c] = cur[c]
<1>1. CASE t = Uart
  BY <1>1 DEF Types, LetGo
<1>2. CASE t # Uart
  BY <1>2, Threads DEF Types, LetGo
<1>3. QED
  BY <1>1, <1>2

LEMMA DropStep ==
  ASSUME Types, NEW t \in Thread, NEW l, NEW then \in Label, cur[t] \in Msg, Drop(t, l, then)
  PROVE  /\ At(t, l) /\ Counts(t) /\ cur' = cur
         /\ \/ UNCHANGED <<pc, back>>
            \/ Goto(t, "test") /\ back' = [back EXCEPT ![t] = then]
<1>1. CASE ReadRef(t, l)
  BY <1>1, ReadRefStep DEF ReadRef, Read, Types
<1>2. CASE ~ReadRef(t, l)
  <2>1. /\ Ready(t, l)
        /\ ref' = [ref EXCEPT ![cur[t]] = Seen(t, ref[cur[t]]) - 1]
        /\ Goto(t, "test") /\ back' = [back EXCEPT ![t] = then]
        /\ Touch(t) /\ Done(t)
        /\ UNCHANGED <<net, live, len, next, cur, slot>>
    BY <1>2 DEF Drop
  <2>2. ref[cur[t]] \in Int
    BY DEF Types
  <2>3. Seen(t, ref[cur[t]]) - 1 \in Int
    BY <2>1, <2>2, SeenInt
  <2>4. ref' \in [Msg -> Int]
    BY <2>1, <2>3, RefWritten
  <2>5. Counts(t)
    BY <2>1, <2>4, TouchType, DoneType DEF Counts, Types, net
  <2>6. QED
    BY <2>1, <2>5 DEF Ready
<1>3. QED
  BY <1>1, <1>2

\* What a step of socket_msg_free after `ref--` does to the hands of thread t
Hands(t) ==
  /\ cur' \in [Thread -> Msg \cup {NULL}] /\ cur'[Uart] = cur[Uart]
  /\ t = Uart => cur' = cur
  /\ \A c \in Client : c # t => cur'[c] = cur[c]

LEMMA AfterStep ==
  ASSUME Types, NEW t \in Thread, Test(t) \/ Free(t) \/ Release(t)
  PROVE  /\ pc[t] \in After /\ Counts(t) /\ Hands(t)
         /\ \/ UNCHANGED <<pc, back, cur>>
            \/ \E l \in {"free", "release"} : Goto(t, l) /\ UNCHANGED <<back, cur>>
            \/ Goto(t, back[t]) /\ back' = [back EXCEPT ![t] = NULL]
<1>1. UNCHANGED cur \/ LetGo(t) => Hands(t)
  BY LetGoStep DEF Types, Hands
<1>2. CASE Test(t)
  <2>1. Counts(t)
    BY <1>2, TouchType DEF Test, Counts, Types, net
  <2>2. QED
    BY <1>1, <1>2, <2>1 DEF Test, Return, At, After
<1>3. CASE Free(t)
  <2>1. CASE Read(t, "free", len) /\ UNCHANGED <<net, heap, next, pc, cur, back, slot>>
    <3>1. Counts(t)
      BY <2>1 DEF Types, Counts, net, heap, Read
    <3>2. QED
      BY <1>1, <2>1, <3>1 DEF Read, At, After
  <2>2. CASE ~(Read(t, "free", len) /\ UNCHANGED <<net, heap, next, pc, cur, back, slot>>)
    <3>1. /\ Ready(t, "free") /\ len' = Seen(t, len) - 1
          /\ Touch(t) /\ Done(t) /\ Goto(t, "release")
          /\ UNCHANGED <<net, ref, live, next, cur, back, slot>>
      BY <1>3, <2>2 DEF Free
    <3>2. len' \in Int
      BY <3>1, SeenInt DEF Types
    <3>3. Counts(t)
      BY <3>1, <3>2, TouchType, DoneType DEF Counts, Types, net
    <3>4. QED
      BY <1>1, <3>1, <3>3 DEF Ready, At, After
  <2>3. QED
    BY <2>1, <2>2
<1>4. CASE Release(t)
  <2>1. Counts(t)
    BY <1>4, TouchType DEF Release, Counts, Types, net
  <2>2. QED
    BY <1>1, <1>4, <2>1 DEF Release, Return, At, After
<1>5. QED
  BY <1>2, <1>3, <1>4

-----------------------------------------------------------------------------
(* The steps of the UART thread. *)

LEMMA UartOwn ==
  /\ \A l \in UartLabel : l \in Own(Uart)
  /\ {"scan", "limit", "malloc", "add", "lock", "hold", "fan", "take", "push",
      "undo", "drop", "unlock", "test", "free", "release"} = UartLabel
  BY DEF Own, UartLabel

\* A step of the UART thread that writes no count
LEMMA UartPlainInv ==
  ASSUME IInv, Scan \/ Limit \/ Malloc \/ Lock \/ Fan \/ Unlock
  PROVE  IInv'
<1>1. /\ Types /\ MAX_QUEUE_NUM \in Nat \ {0} /\ slot \in 1 .. MAX_QUEUE_NUM + 1
      /\ UNCHANGED <<slots, queue, inited, ref, len, misused, reg, back>>
  BY SppAssumption DEF IInv, Types, Scan, Limit, Malloc, Lock, Fan, Unlock, net, heap
<1>2. UNCHANGED pc \/ \E l \in UartLabel : Goto(Uart, l)
  BY UartOwn DEF Scan, Limit, Malloc, Lock, Fan, Unlock, GoScan
<1>3. /\ pc' \in [Thread -> Label]
      /\ pc'[Uart] \in UartLabel /\ \A c \in Client : pc'[c] \in ClientLabel
      /\ \A c \in Client : pc'[c] = pc[c]
  <2>1. CASE UNCHANGED pc
    BY <1>1, <2>1 DEF Types
  <2>2. CASE \E l \in UartLabel : Goto(Uart, l)
    BY <1>1, <2>2, UartOwn, Moves, Threads
  <2>3. QED
    BY <1>2, <2>1, <2>2
<1>4. pc' # pc => \A l \in UartLabel : Goto(Uart, l) => pc'[Uart] = l
  BY <1>1, UartOwn, Moves, Threads
<1>5. slot' \in 1 .. MAX_QUEUE_NUM + 1 /\ (pc'[Uart] = "scan" => slot' \in Slots)
  <2>1. CASE Scan
    <3>1. CASE slots[slot] = NULL
      <4>1. slot' = (slot % MAX_QUEUE_NUM) + 1
        BY <2>1, <3>1 DEF Scan
      <4>2. slot % MAX_QUEUE_NUM \in 0 .. MAX_QUEUE_NUM - 1
        BY <1>1
      <4>3. QED
        BY <1>1, <4>1, <4>2 DEF Slots
    <3>2. CASE slots[slot] # NULL
      BY <1>1, <2>1, <3>2, UartOwn, Moves, Threads DEF Scan
    <3>3. QED
      BY <3>1, <3>2
  <2>2. CASE Limit
    BY <1>1, <2>2, UartOwn, Moves, Threads DEF Limit, GoScan, Slots
  <2>3. CASE Malloc
    BY <1>1, <2>3, UartOwn, Moves, Threads DEF Malloc, GoScan, Slots
  <2>4. CASE Lock
    BY <1>1, <2>4, UartOwn, Moves, Threads DEF Lock
  <2>5. CASE Fan
    BY <1>1, <2>5, UartOwn, Moves, Threads DEF Fan, At, Slots
  <2>6. CASE Unlock
    BY <1>1, <2>6 DEF Unlock, GoScan, Slots
  <2>7. QED
    BY <2>1, <2>2, <2>3, <2>4, <2>5, <2>6
<1>6. /\ cur' \in [Thread -> Msg \cup {NULL}] /\ next' \in 1 .. Packets + 1
      /\ live' \in SUBSET Msg
  <2>1. CASE Malloc
    <3>1. next \in Msg
      BY <2>1 DEF IInv, Types, Loop, Malloc, At, Msg
    <3>2. cur' \in [Thread -> Msg \cup {NULL}]
      BY <1>1, <2>1, <3>1 DEF Types, Malloc
    <3>3. live' \in SUBSET Msg
      BY <1>1, <2>1, <3>1 DEF Types, Malloc
    <3>4. next' \in 1 .. Packets + 1
      <4>1. next' \in {next, next + 1}
        BY <2>1 DEF Malloc
      <4>2. QED
        BY <1>1, <3>1, <4>1, SppAssumption DEF Types, Msg
    <3>5. QED
      BY <3>2, <3>3, <3>4
  <2>2. CASE Unlock
    BY <1>1, <2>2 DEF Types, Unlock, heap
  <2>3. CASE Scan \/ Limit \/ Lock \/ Fan
    BY <1>1, <2>3 DEF Types, Scan, Limit, Lock, Fan, heap
  <2>4. QED
    BY <2>1, <2>2, <2>3
<1>7. Types'
  BY <1>1, <1>3, <1>5, <1>6 DEF Types
<1>8. Slotted' /\ Queues'
  <2>1. \A c \in Client : cur'[c] = cur[c]
    BY <1>1, Threads DEF Types, Scan, Limit, Malloc, Lock, Fan, Unlock
  <2>2. QED
    BY <1>1, <1>3, <2>1, ClientsKept
<1>9. Backs' /\ Locked' /\ Loop'
  <2>1. CASE Scan
    <3>1. CASE slots[slot] # NULL
      <4>1. pc'[Uart] = "limit"
        BY <1>1, <2>1, <3>1, UartOwn, Moves, Threads DEF Scan
      <4>2. QED
        BY <1>1, <1>3, <2>1, <4>1 DEF IInv, Backs, Locked, Loop, Scan, At, Critical, net, Types, Msg, After
    <3>2. CASE slots[slot] = NULL
      BY <1>1, <1>3, <1>5, <2>1, <3>2 DEF IInv, Backs, Locked, Loop, Scan, At, Critical, net, Types
    <3>3. QED
      BY <3>1, <3>2
  <2>2. CASE Limit
    <3>1. pc'[Uart] \in {"scan", "malloc"} /\ pc[Uart] = "limit"
      BY <1>1, <2>2, UartOwn, Moves, Threads DEF Limit, GoScan, At
    <3>2. QED
      BY <1>1, <1>3, <1>5, <2>2, <3>1 DEF IInv, Backs, Locked, Loop, Limit, Critical, net, After
  <2>3. CASE Malloc
    <3>1. pc'[Uart] \in {"scan", "add"} /\ pc[Uart] = "malloc"
      BY <1>1, <2>3, UartOwn, Moves, Threads DEF Malloc, GoScan, At
    <3>2. pc'[Uart] = "add" => cur'[Uart] \in Msg
      <4>1. CASE GoScan
        BY <1>1, <4>1, UartOwn, Moves, Threads DEF GoScan
      <4>2. CASE cur' = [cur EXCEPT ![Uart] = next]
        <5>1. next \in Msg
          BY <3>1 DEF IInv, Types, Loop, Msg
        <5>2. QED
          BY <1>1, <4>2, <5>1, Threads DEF Types
      <4>3. QED
        BY <2>3, <4>1, <4>2 DEF Malloc
    <3>3. QED
      BY <1>1, <1>3, <1>5, <2>3, <3>1, <3>2 DEF IInv, Backs, Locked, Loop, Malloc, Critical, net, After
  <2>4. CASE Lock
    <3>1. pc'[Uart] = "hold" /\ pc[Uart] = "lock" /\ mtx' = Uart
      BY <1>1, <2>4, UartOwn, Moves, Threads DEF Lock, At
    <3>2. QED
      BY <1>1, <1>3, <2>4, <3>1 DEF IInv, Backs, Locked, Loop, Lock, Critical, After
  <2>5. CASE Fan
    <3>1. /\ pc'[Uart] \in {"fan", "take", "drop"} /\ pc[Uart] = "fan"
          /\ pc'[Uart] = "take" => slot' \in Slots /\ slots[slot'] # NULL
      BY <1>1, <2>5, UartOwn, Moves, Threads DEF Fan, At
    <3>2. QED
      BY <1>1, <1>3, <2>5, <3>1 DEF IInv, Backs, Locked, Loop, Fan, Critical, net, After
  <2>6. CASE Unlock
    <3>1. pc'[Uart] = "scan" /\ mtx' = NULL
      BY <1>1, <2>6, UartOwn, Moves, Threads DEF Unlock, GoScan
    <3>2. QED
      BY <1>1, <1>3, <1>5, <2>6, <3>1 DEF IInv, Backs, Locked, Loop, Unlock, Critical, After
  <2>7. QED
    BY <2>1, <2>2, <2>3, <2>4, <2>5, <2>6
<1>10. QED
  BY <1>7, <1>8, <1>9 DEF IInv

LEMMA AddInv == ASSUME IInv, Add PROVE IInv'
<1>1. Types /\ pc[Uart] = "add" /\ cur[Uart] \in Msg /\ len \in Int
  BY DEF IInv, Types, Loop, Add, Read, Ready, At
<1>2. CASE Read(Uart, "add", len) /\ UNCHANGED <<net, heap, next, pc, cur, back, slot>>
  <2>1. Types'
    BY <1>1, <1>2 DEF Types, Read, net, heap
  <2>2. Slotted' /\ Queues'
    BY <1>2, ClientsKept DEF net
  <2>3. QED
    BY <1>2, <2>1, <2>2 DEF IInv, Backs, Locked, Loop, net, heap
<1>3. CASE ~(Read(Uart, "add", len) /\ UNCHANGED <<net, heap, next, pc, cur, back, slot>>)
  <2>1. /\ Ready(Uart, "add")
        /\ len' = Seen(Uart, len) + 1
        /\ ref' = [ref EXCEPT ![cur[Uart]] = 0]
        /\ Done(Uart) /\ Goto(Uart, "lock")
        /\ UNCHANGED <<net, live, misused, next, cur, back, slot>>
    BY <1>3 DEF Add
  <2>2. len' \in Int
    BY <1>1, <2>1, SeenInt, Threads
  <2>3. ref' \in [Msg -> Int]
    BY <1>1, <2>1 DEF Types
  <2>4. reg' \in [Thread -> Int \cup {NULL}]
    BY <1>1, <2>1, DoneType, Threads
  <2>5. /\ pc' \in [Thread -> Label]
        /\ pc'[Uart] = "lock" /\ \A c \in Client : pc'[c] = pc[c]
    BY <1>1, <2>1, UartOwn, Moves, Threads
  <2>6. Types'
    BY <1>1, <2>1, <2>2, <2>3, <2>4, <2>5, UartOwn DEF Types, net
  <2>7. Slotted' /\ Queues'
    BY <2>1, <2>5, ClientsKept DEF net
  <2>8. QED
    BY <1>1, <2>1, <2>5, <2>6, <2>7 DEF IInv, Backs, Locked, Loop, Critical, net, After
<1>4. QED
  BY <1>2, <1>3

\* A step of the UART thread on the count of its message, in its critical section
LEMMA UartCountInv ==
  ASSUME IInv, NEW l \in {"fan", "push", "unlock"} \cup After, pc[Uart] \in Critical,
         Counts(Uart), cur' = cur,
         back' \in [Thread -> Label \cup {NULL}], \A c \in Client : back'[c] = back[c],
         \/ UNCHANGED <<pc, back>>
         \/ /\ Goto(Uart, l)
            /\ l = "push" => pc[Uart] = "take"
            /\ l \in After => back'[Uart] \in {"fan", "unlock"}
  PROVE  IInv'
<1>1. Types
  BY DEF IInv
<1>2. \/ pc' = pc /\ back' = back
      \/ /\ pc' \in [Thread -> Label] /\ pc'[Uart] = l /\ \A c \in Client : pc'[c] = pc[c]
         /\ l = "push" => pc[Uart] = "take"
         /\ l \in After => back'[Uart] \in {"fan", "unlock"}
  BY <1>1, UartOwn, Moves, Threads DEF After
<1>3. \A c \in Client : pc'[c] = pc[c]
  BY <1>2
<1>4. pc' \in [Thread -> Label] /\ pc'[Uart] \in UartLabel
  BY <1>1, <1>2, UartOwn DEF Types, After
<1>5. Types'
  BY <1>1, <1>3, <1>4 DEF Types, Counts
<1>6. Slotted' /\ Queues'
  BY <1>3, ClientsKept DEF Counts
<1>7. Backs'
  BY <1>2, <1>3 DEF IInv, Backs, After
<1>8. Locked'
  BY <1>2 DEF IInv, Locked, Counts, Critical
<1>9. Loop'
  BY <1>2 DEF IInv, Loop, Counts, Critical, After
<1>10. QED
  BY <1>5, <1>6, <1>7, <1>8, <1>9 DEF IInv

LEMMA UartCountsInv ==
  ASSUME IInv, Hold \/ TakeForQueue \/ Undo \/ DropOwn
               \/ Test(Uart) \/ Free(Uart) \/ Release(Uart)
  PROVE  IInv'
<1>1. Types /\ (pc[Uart] \in Critical => cur[Uart] \in Msg) /\ Uart \in Thread
  BY Threads DEF IInv, Loop, Critical, After
<1>2. CASE Hold
  <2>1. pc[Uart] = "hold"
    BY <1>2 DEF Hold, Take, ReadRef, Read, Ready, At
  <2>2. cur[Uart] \in Msg
    BY <1>1, <2>1 DEF Critical
  <2>3. Counts(Uart) /\ UNCHANGED <<cur, back>> /\ (UNCHANGED pc \/ Goto(Uart, "fan"))
    BY <1>1, <1>2, <2>2, TakeStep DEF Hold
  <2>4. QED
    BY <1>1, <2>1, <2>3, UartCountInv DEF Critical, Types, After
<1>3. CASE TakeForQueue
  <2>1. pc[Uart] = "take"
    BY <1>3 DEF TakeForQueue, Take, ReadRef, Read, Ready, At
  <2>2. cur[Uart] \in Msg
    BY <1>1, <2>1 DEF Critical
  <2>3. Counts(Uart) /\ UNCHANGED <<cur, back>> /\ (UNCHANGED pc \/ Goto(Uart, "push"))
    BY <1>1, <1>3, <2>2, TakeStep DEF TakeForQueue
  <2>4. QED
    BY <1>1, <2>1, <2>3, UartCountInv DEF Critical, Types, After
<1>4. ASSUME NEW l \in {"undo", "drop"}, NEW then \in {"fan", "unlock"}, Drop(Uart, l, then)
      PROVE  IInv'
  <2>1. pc[Uart] = l
    BY <1>4 DEF Drop, ReadRef, Read, Ready, At
  <2>2. cur[Uart] \in Msg /\ then \in Label
    BY <1>1, <2>1 DEF Critical, Label
  <2>3. /\ Counts(Uart) /\ cur' = cur
        /\ \/ UNCHANGED <<pc, back>>
           \/ Goto(Uart, "test") /\ back' = [back EXCEPT ![Uart] = then]
    BY <1>1, <1>4, <2>2, DropStep
  <2>4. /\ back' \in [Thread -> Label \cup {NULL}] /\ \A c \in Client : back'[c] = back[c]
        /\ Goto(Uart, "test") /\ back' = [back EXCEPT ![Uart] = then] => back'[Uart] = then
    BY <1>1, <2>2, <2>3, Threads DEF Types
  <2>5. QED
    BY <2>1, <2>3, <2>4, UartCountInv DEF Critical, After
<1>5. CASE Test(Uart) \/ Free(Uart) \/ Release(Uart)
  <2>1. /\ pc[Uart] \in After /\ Counts(Uart) /\ cur' = cur
        /\ \/ UNCHANGED <<pc, back>>
           \/ \E l \in {"free", "release"} : Goto(Uart, l) /\ UNCHANGED back
           \/ Goto(Uart, back[Uart]) /\ back' = [back EXCEPT ![Uart] = NULL]
    BY <1>1, <1>5, AfterStep DEF Hands
  <2>2. back[Uart] \in {"fan", "unlock"}
    BY <2>1 DEF IInv, Backs
  <2>3. back' \in [Thread -> Label \cup {NULL}] /\ \A c \in Client : back'[c] = back[c]
    BY <1>1, <2>1, Threads DEF Types
  <2>4. CASE UNCHANGED <<pc, back>> \/ \E l \in {"free", "release"} : Goto(Uart, l) /\ UNCHANGED back
    BY <2>1, <2>2, <2>3, <2>4, UartCountInv DEF Critical, After
  <2>5. CASE Goto(Uart, back[Uart]) /\ back' = [back EXCEPT ![Uart] = NULL]
    <3>1. back[Uart] \notin After /\ back[Uart] # "push"
      BY <2>2 DEF After
    <3>2. QED
      BY <2>1, <2>2, <2>3, <2>5, <3>1, UartCountInv DEF Critical
  <2>6. QED
    BY <2>1, <2>4, <2>5
<1>6. QED
  BY <1>2, <1>3, <1>4, <1>5 DEF Hold, TakeForQueue, Undo, DropOwn

LEMMA PushInv == ASSUME IInv, Push PROVE IInv'
<1> DEFINE c == slots[slot]
<1>1. /\ Types /\ pc[Uart] = "push" /\ slot \in Slots /\ c # NULL /\ cur[Uart] \in Msg
      /\ MAX_QUEUE_NUM \in Nat \ {0}
  BY SppAssumption DEF IInv, Loop, Push, At
<1>2. c \in Client /\ Served(c)
  BY <1>1 DEF IInv, Types, Slotted
<1>3. /\ slot' = slot + 1 /\ UNCHANGED <<slots, mtx, inited, heap, next, cur, reg, back>>
      /\ \/ /\ Len(queue[c]) < MAX_QUEUE_LENGTH
            /\ queue' = [queue EXCEPT ![c] = Append(@, cur[Uart])]
            /\ Goto(Uart, "fan")
         \/ UNCHANGED queue /\ Goto(Uart, "undo")
  BY DEF Push
<1>4. /\ pc' \in [Thread -> Label] /\ pc'[Uart] \in {"fan", "undo"}
      /\ \A d \in Client : pc'[d] = pc[d]
  BY <1>1, <1>3, UartOwn, Moves, Threads
<1> HIDE DEF c
<1>5. /\ queue' \in [Client -> Seq(Msg)]
      /\ \A d \in Client : Len(queue'[d]) <= MAX_QUEUE_LENGTH
      /\ \A d \in Client : d # c => queue'[d] = queue[d]
  <2>1. CASE queue' = queue
    BY <1>1, <2>1 DEF Types
  <2>2. CASE Len(queue[c]) < MAX_QUEUE_LENGTH /\ queue' = [queue EXCEPT ![c] = Append(@, cur[Uart])]
    <3>1. queue[c] \in Seq(Msg) /\ MAX_QUEUE_LENGTH \in Nat
      BY <1>1, <1>2, SppAssumption DEF Types
    <3>2. /\ Append(queue[c], cur[Uart]) \in Seq(Msg)
          /\ Len(Append(queue[c], cur[Uart])) = Len(queue[c]) + 1
          /\ Len(queue[c]) \in Nat
      BY <1>1, <3>1
    <3>3. queue'[c] = Append(queue[c], cur[Uart]) /\ \A d \in Client : d # c => queue'[d] = queue[d]
      BY <1>1, <1>2, <2>2 DEF Types
    <3>4. Len(queue'[c]) <= MAX_QUEUE_LENGTH
      BY <2>2, <3>1, <3>2, <3>3
    <3>5. QED
      BY <1>1, <2>2, <3>2, <3>3, <3>4 DEF Types
  <2>3. QED
    BY <1>3, <2>1, <2>2
<1>6. Types'
  BY <1>1, <1>3, <1>4, <1>5, UartOwn DEF Types, heap, Slots
<1>7. \A d \in Client : Served(d)' <=> Served(d)
  BY <1>3, <1>4 DEF Served
<1>8. Slotted'
  BY <1>1, <1>3, <1>7 DEF IInv, Slotted, Types
<1>9. Queues'
  BY <1>2, <1>3, <1>4, <1>5 DEF IInv, Queues, Served, After
<1>10. Backs' /\ Locked' /\ Loop'
  BY <1>1, <1>3, <1>4 DEF IInv, Backs, Locked, Loop, Critical, After
<1>11. QED
  BY <1>6, <1>8, <1>9, <1>10 DEF IInv

LEMMA UartInv == ASSUME IInv, UartNext PROVE IInv'
  BY UartPlainInv, AddInv, UartCountsInv, PushInv DEF UartNext

-----------------------------------------------------------------------------
(* The steps of a client. *)

LEMMA ClientOwn ==
  ASSUME NEW c \in Client
  PROVE  /\ c \in Thread /\ c # Uart /\ \A l \in ClientLabel : l \in Own(c)
         /\ {"off", "register", "serve", "write", "sent", "failed", "unregister",
             "drain", "drained", "test", "free", "release"} = ClientLabel
  BY Threads DEF Own, ClientLabel

\* What a step of client c leaves of the others, and of the UART thread
LEMMA ClientMoves ==
  ASSUME Types, NEW c \in Client, NEW l \in ClientLabel, Goto(c, l)
  PROVE  /\ pc' \in [Thread -> Label]
         /\ pc'[Uart] \in UartLabel /\ \A d \in Client : pc'[d] \in ClientLabel
         /\ pc'[c] = l /\ pc'[Uart] = pc[Uart]
         /\ \A d \in Client : d # c => pc'[d] = pc[d]
  BY ClientOwn, Moves, Threads

\* The slots keep to served clients when client c moves from one served place to
\* another, or leaves them, or takes one of its own.
LEMMA SlotsKept ==
  ASSUME IInv, NEW c \in Client, UNCHANGED slots,
         \A d \in Client : d # c => pc'[d] = pc[d] /\ back'[d] = back[d],
         Served(c) => Served(c)'
  PROVE  Slotted'
<1>1. \A d \in Client : Served(d) => Served(d)'
  BY DEF Served
<1>2. QED
  BY <1>1 DEF IInv, Slotted, Types

LEMMA ConnectInv == ASSUME IInv, NEW c \in Client, Connect(c) PROVE IInv'
<1>1. /\ Types /\ pc[c] = "off" /\ inited' = inited \cup {c}
      /\ queue' = [queue EXCEPT ![c] = <<>>] /\ Goto(c, "register")
      /\ UNCHANGED <<slots, mtx, heap, next, cur, reg, back, slot>>
  BY DEF IInv, Connect, At
<1>2. /\ pc' \in [Thread -> Label]
      /\ pc'[Uart] \in UartLabel /\ \A d \in Client : pc'[d] \in ClientLabel
      /\ pc'[c] = "register" /\ pc'[Uart] = pc[Uart]
      /\ \A d \in Client : d # c => pc'[d] = pc[d]
  BY <1>1, ClientOwn, ClientMoves
<1>3. /\ queue' \in [Client -> Seq(Msg)] /\ queue'[c] = <<>>
      /\ \A d \in Client : d # c => queue'[d] = queue[d]
  BY <1>1 DEF Types
<1>4. \A d \in Client : Len(queue'[d]) <= MAX_QUEUE_LENGTH
  BY <1>1, <1>3, SppAssumption DEF Types
<1>5. Types'
  BY <1>1, <1>2, <1>3, <1>4 DEF Types, heap
<1>6. Slotted'
  BY <1>1, <1>2, SlotsKept DEF Served, After
<1>7. Locked' /\ Loop'
  BY <1>1, <1>2, UartKept
<1>8. Backs' /\ Queues'
  BY <1>1, <1>2, <1>3 DEF IInv, Backs, Queues, After
<1>9. QED
  BY <1>5, <1>6, <1>7, <1>8 DEF IInv

LEMMA RegisterInv == ASSUME IInv, NEW c \in Client, Register(c) PROVE IInv'
<1> DEFINE free == {i \in Slots : slots[i] = NULL}
           first == CHOOSE i \in free : \A j \in free : i <= j
<1>1. /\ Types /\ pc[c] = "register" /\ mtx = NULL
      /\ UNCHANGED <<mtx, queue, heap, next, cur, reg, back, slot>>
      /\ \/ /\ slots' = [slots EXCEPT ![first] = c]
            /\ Goto(c, "serve") /\ UNCHANGED inited
         \/ inited' = inited \ {c} /\ Goto(c, "off") /\ UNCHANGED slots
  BY DEF IInv, Register, At
<1> HIDE DEF first
<1>2. PICK l \in {"serve", "off"} : Goto(c, l)
  BY <1>1
<1>3. /\ pc' \in [Thread -> Label]
      /\ pc'[Uart] \in UartLabel /\ \A d \in Client : pc'[d] \in ClientLabel
      /\ pc'[c] = l /\ pc'[Uart] = pc[Uart]
      /\ \A d \in Client : d # c => pc'[d] = pc[d]
  BY <1>1, <1>2, ClientOwn, ClientMoves
<1>4. \/ slots' = [slots EXCEPT ![first] = c] /\ pc'[c] = "serve" /\ inited' = inited
      \/ inited' = inited \ {c} /\ pc'[c] = "off" /\ slots' = slots
  BY <1>1, ClientOwn, ClientMoves
<1>5. slots' \in [Slots -> Client \cup {NULL}] /\ inited' \in SUBSET Client
  BY <1>1, <1>4 DEF Types
<1>6. Types'
  BY <1>1, <1>3, <1>5 DEF Types, heap
<1>7. ~Served(c) /\ \A i \in Slots : slots[i] # c
  <2>1. ~Served(c)
    BY <1>1 DEF Served, After
  <2>2. c # NULL
    BY SppAssumption
  <2>3. QED
    BY <2>1, <2>2 DEF IInv, Slotted
<1>8. \A d \in Client : d # c => (Served(d)' <=> Served(d))
  BY <1>1, <1>3 DEF Served
<1>9. Slotted'
  <2>1. CASE slots' = slots
    BY <1>1, <1>7, <1>8, <2>1 DEF IInv, Slotted, Types
  <2>2. CASE slots' = [slots EXCEPT ![first] = c] /\ pc'[c] = "serve"
    <3>1. \A i \in Slots : slots'[i] = IF i = first THEN c ELSE slots[i]
      BY <1>1, <2>2 DEF Types
    <3>2. Served(c)'
      BY <2>2 DEF Served
    <3>3. ASSUME NEW i \in Slots, NEW d \in Client, slots'[i] = d PROVE Served(d)'
      <4>1. CASE i = first
        BY <3>1, <3>2, <3>3, <4>1
      <4>2. CASE i # first
        <5>1. slots[i] = d /\ d # c /\ d # NULL
          BY <1>7, <3>1, <3>3, <4>2, SppAssumption
        <5>2. Served(d)
          BY <5>1 DEF IInv, Slotted
        <5>3. QED
          BY <1>8, <5>1, <5>2
      <4>3. QED
        BY <4>1, <4>2
    <3>4. ASSUME NEW i \in Slots, NEW j \in Slots, slots'[i] = slots'[j], slots'[i] # NULL
          PROVE  i = j
      BY <1>7, <3>1, <3>4 DEF IInv, Slotted
    <3>5. \A i \in Slots : slots'[i] # NULL => slots'[i] \in Client
      BY <1>5
    <3>6. QED
      BY <3>3, <3>4, <3>5 DEF Slotted, Served
  <2>3. QED
    BY <1>4, <2>1, <2>2
<1>10. pc[Uart] \notin Critical
  BY <1>1, SppAssumption DEF IInv, Locked, Uart
<1>11. Locked' /\ Loop'
  BY <1>1, <1>3, <1>10 DEF IInv, Locked, Loop, Critical
<1>12. Backs' /\ Queues'
  BY <1>1, <1>3, <1>4 DEF IInv, Backs, Queues, After
<1>13. QED
  BY <1>6, <1>9, <1>11, <1>12 DEF IInv

LEMMA UnregisterInv == ASSUME IInv, NEW c \in Client, Unregister(c) PROVE IInv'
<1>1. /\ Types /\ pc[c] = "unregister" /\ mtx = NULL
      /\ slots' = [i \in Slots |-> IF slots[i] = c THEN NULL ELSE slots[i]]
      /\ Goto(c, "drain")
      /\ UNCHANGED <<mtx, queue, inited, heap, next, cur, reg, back, slot>>
  BY DEF IInv, Unregister, At
<1>2. /\ pc' \in [Thread -> Label]
      /\ pc'[Uart] \in UartLabel /\ \A d \in Client : pc'[d] \in ClientLabel
      /\ pc'[c] = "drain" /\ pc'[Uart] = pc[Uart]
      /\ \A d \in Client : d # c => pc'[d] = pc[d]
  BY <1>1, ClientOwn, ClientMoves
<1>3. \A i \in Slots : slots'[i] = IF slots[i] = c THEN NULL ELSE slots[i]
  BY <1>1
<1>4. slots' \in [Slots -> Client \cup {NULL}]
  BY <1>1 DEF Types
<1>5. Types'
  BY <1>1, <1>2, <1>4 DEF Types, heap
<1>6. \A d \in Client : d # c => (Served(d)' <=> Served(d))
  BY <1>1, <1>2 DEF Served
<1>7. ASSUME NEW i \in Slots, NEW d \in Client, slots'[i] = d PROVE Served(d)'
  <2>1. slots[i] = d /\ d # c /\ d # NULL
    BY <1>3, <1>7, SppAssumption
  <2>2. Served(d)
    BY <2>1 DEF IInv, Slotted
  <2>3. QED
    BY <1>6, <2>1, <2>2
<1>8. Slotted'
  <2>1. \A i \in Slots : slots'[i] # NULL => slots'[i] \in Client /\ slots'[i] = slots[i]
    BY <1>3, <1>4
  <2>2. QED
    BY <1>7, <2>1 DEF IInv, Slotted, Served
<1>9. pc[Uart] \notin Critical
  BY <1>1, SppAssumption DEF IInv, Locked, Uart
<1>10. Locked' /\ Loop'
  BY <1>1, <1>2, <1>9 DEF IInv, Locked, Loop, Critical
<1>11. Backs' /\ Queues'
  BY <1>1, <1>2 DEF IInv, Backs, Queues, After
<1>12. QED
  BY <1>5, <1>8, <1>10, <1>11 DEF IInv

LEMMA PopInv ==
  ASSUME IInv, NEW c \in Client, NEW l, NEW then, Pop(c, l, then),
         <<l, then>> \in {<<"serve", "write">>, <<"drain", "drained">>}
  PROVE  IInv'
<1>1. /\ Types /\ pc[c] = l /\ queue[c] # <<>>
      /\ cur' = [cur EXCEPT ![c] = Head(queue[c])]
      /\ queue' = [queue EXCEPT ![c] = Tail(queue[c])]
      /\ Goto(c, then)
      /\ UNCHANGED <<slots, mtx, inited, heap, next, reg, back, slot>>
      /\ (l = "serve" /\ then = "write") \/ (l = "drain" /\ then = "drained")
  BY DEF IInv, Pop, At
<1>2. /\ pc' \in [Thread -> Label]
      /\ pc'[Uart] \in UartLabel /\ \A d \in Client : pc'[d] \in ClientLabel
      /\ pc'[c] = then /\ pc'[Uart] = pc[Uart]
      /\ \A d \in Client : d # c => pc'[d] = pc[d]
  BY <1>1, ClientOwn, ClientMoves
<1>3. /\ queue[c] \in Seq(Msg) /\ Len(queue[c]) <= MAX_QUEUE_LENGTH
      /\ MAX_QUEUE_LENGTH \in Nat
  BY <1>1, SppAssumption DEF Types
<1>4. /\ Head(queue[c]) \in Msg /\ Tail(queue[c]) \in Seq(Msg)
      /\ Len(Tail(queue[c])) <= MAX_QUEUE_LENGTH
  BY <1>1, <1>3, HeadTailProperties
<1>5. /\ queue' \in [Client -> Seq(Msg)] /\ queue'[c] = Tail(queue[c])
      /\ \A d \in Client : d # c => queue'[d] = queue[d]
  BY <1>1, <1>4 DEF Types
<1>6. \A d \in Client : Len(queue'[d]) <= MAX_QUEUE_LENGTH
  BY <1>1, <1>4, <1>5 DEF Types
<1>7. /\ cur' \in [Thread -> Msg \cup {NULL}] /\ cur'[Uart] = cur[Uart]
      /\ cur'[c] \in Msg /\ \A d \in Client : d # c => cur'[d] = cur[d]
  BY <1>1, <1>4, ClientOwn, Threads DEF Types
<1>8. Types'
  BY <1>1, <1>2, <1>5, <1>6, <1>7 DEF Types, heap
<1>9. Slotted'
  BY <1>1, <1>2, SlotsKept DEF Served, After
<1>10. Locked' /\ Loop'
  BY <1>1, <1>2, <1>7, UartKept
<1>11. Backs' /\ Queues'
  BY <1>1, <1>2, <1>5, <1>7 DEF IInv, Backs, Queues, After
<1>12. QED
  BY <1>8, <1>9, <1>10, <1>11 DEF IInv

LEMMA ClientPlainInv ==
  ASSUME IInv, NEW c \in Client, Write(c) \/ Close(c) \/ Deinit(c)
  PROVE  IInv'
<1>1. /\ Types
      /\ UNCHANGED <<slots, mtx, queue, ref, live, len, next, cur, reg, back, slot>>
      /\ misused' \in BOOLEAN
  BY TouchType DEF IInv, Types, Write, Close, Deinit, net, heap
<1>2. PICK l \in ClientLabel :
        /\ Goto(c, l)
        /\ \/ l \in {"sent", "failed"} /\ pc[c] = "write" /\ inited' = inited
           \/ l = "unregister" /\ pc[c] = "serve" /\ inited' = inited
           \/ l = "off" /\ pc[c] = "drain" /\ inited' = inited \ {c} /\ queue[c] = <<>>
  BY ClientOwn DEF Write, Close, Deinit, At, net
<1>3. /\ pc' \in [Thread -> Label]
      /\ pc'[Uart] \in UartLabel /\ \A d \in Client : pc'[d] \in ClientLabel
      /\ pc'[c] = l /\ pc'[Uart] = pc[Uart]
      /\ \A d \in Client : d # c => pc'[d] = pc[d]
  BY <1>1, <1>2, ClientMoves
<1>4. Types'
  BY <1>1, <1>2, <1>3 DEF Types
<1>5. Slotted'
  BY <1>1, <1>2, <1>3, SlotsKept DEF Served, After
<1>6. Locked' /\ Loop'
  BY <1>1, <1>3, UartKept
<1>7. Backs' /\ Queues'
  BY <1>1, <1>2, <1>3 DEF IInv, Backs, Queues, After
<1>8. QED
  BY <1>4, <1>5, <1>6, <1>7 DEF IInv

\* A step of client c on the count of its message, perhaps on to l
ClientCounts(c, l) ==
  /\ Counts(c) /\ cur' \in [Thread -> Msg \cup {NULL}] /\ cur'[Uart] = cur[Uart]
  /\ \A d \in Client : d # c => cur'[d] = cur[d]
  /\ back' \in [Thread -> Label \cup {NULL}]
  /\ \A d \in Thread : d # c => back'[d] = back[d]
  /\ pc[c] \notin {"off", "register"}
  /\ \/ pc' = pc /\ back' = back /\ cur' = cur
     \/ /\ Goto(c, l)
        /\ l \in After => back'[c] \in {"serve", "unregister", "drain"} /\ cur'[c] \in Msg
        /\ Served(c) => l \in {"serve", "unregister"}
                         \/ (l \in After /\ back'[c] \in {"serve", "unregister"})

LEMMA ClientCountInv ==
  ASSUME IInv, NEW c \in Client, NEW l \in {"serve", "unregister", "drain"} \cup After,
         ClientCounts(c, l)
  PROVE  IInv'
<1>1. Types /\ Uart \in Thread /\ c # Uart /\ \A d \in Client : d \in Thread
  BY Threads DEF IInv
<1>2. \/ pc' = pc /\ back' = back /\ cur' = cur
      \/ /\ pc' \in [Thread -> Label] /\ pc'[c] = l /\ pc'[Uart] = pc[Uart]
         /\ \A d \in Client : pc'[d] \in ClientLabel /\ (d # c => pc'[d] = pc[d])
         /\ l \in After => back'[c] \in {"serve", "unregister", "drain"} /\ cur'[c] \in Msg
         /\ Served(c) => l \in {"serve", "unregister"}
                          \/ (l \in After /\ back'[c] \in {"serve", "unregister"})
  BY <1>1, ClientOwn, ClientMoves DEF ClientCounts, After
<1>3. Types'
  <2>1. /\ pc' \in [Thread -> Label] /\ pc'[Uart] \in UartLabel
        /\ \A d \in Client : pc'[d] \in ClientLabel
    BY <1>1, <1>2 DEF Types
  <2>2. QED
    BY <1>1, <2>1 DEF Types, Counts, ClientCounts
<1>4. Slotted'
  <2>1. Served(c) => Served(c)'
    BY <1>2 DEF Served
  <2>2. \A d \in Client : d # c => pc'[d] = pc[d] /\ back'[d] = back[d]
    BY <1>1, <1>2 DEF ClientCounts
  <2>3. QED
    BY <2>1, <2>2, SlotsKept DEF Counts, ClientCounts
<1>5. Locked' /\ Loop'
  BY <1>1, <1>2, UartKept DEF Counts, ClientCounts
<1>6. Backs'
  BY <1>1, <1>2 DEF IInv, Backs, ClientCounts, After
<1>7. Queues'
  BY <1>2 DEF IInv, Queues, Counts, ClientCounts, After
<1>8. QED
  BY <1>3, <1>4, <1>5, <1>6, <1>7 DEF IInv

LEMMA ClientDropInv ==
  ASSUME IInv, NEW c \in Client, NEW l, NEW then, Drop(c, l, then),
         <<l, then>> \in {<<"sent", "serve">>, <<"failed", "unregister">>, <<"drained", "drain">>}
  PROVE  IInv'
<1>1. /\ Types /\ c \in Thread /\ c # Uart /\ then \in Label /\ then \in {"serve", "unregister", "drain"}
      /\ pc[c] = l /\ l \in {"sent", "failed", "drained"}
  BY ClientOwn DEF IInv, Drop, ReadRef, Read, Ready, At, Label
<1>2. cur[c] \in Msg
  BY <1>1 DEF IInv, Queues
<1>3. /\ Counts(c) /\ cur' = cur
      /\ \/ UNCHANGED <<pc, back>>
         \/ Goto(c, "test") /\ back' = [back EXCEPT ![c] = then]
  BY <1>1, <1>2, DropStep
<1>4. Served(c) => then \in {"serve", "unregister"}
  BY <1>1 DEF Served, After
<1>5. /\ back' \in [Thread -> Label \cup {NULL}] /\ \A d \in Thread : d # c => back'[d] = back[d]
      /\ back' = [back EXCEPT ![c] = then] => back'[c] = then
  BY <1>1, <1>3 DEF Types
<1>6. ClientCounts(c, "test")
  BY <1>1, <1>2, <1>3, <1>4, <1>5 DEF ClientCounts, After, Types
<1>7. QED
  BY <1>6, ClientCountInv DEF After

LEMMA ClientAfterInv ==
  ASSUME IInv, NEW c \in Client, Test(c) \/ Free(c) \/ Release(c)
  PROVE  IInv'
<1>1. /\ Types /\ c \in Thread /\ c # Uart /\ pc[c] \in After
      /\ Counts(c)
      /\ cur' \in [Thread -> Msg \cup {NULL}] /\ cur'[Uart] = cur[Uart]
      /\ \A d \in Client : d # c => cur'[d] = cur[d]
      /\ \/ UNCHANGED <<pc, back, cur>>
         \/ \E l \in {"free", "release"} : Goto(c, l) /\ UNCHANGED <<back, cur>>
         \/ Goto(c, back[c]) /\ back' = [back EXCEPT ![c] = NULL]
  BY ClientOwn, AfterStep DEF IInv, Hands
<1>2. back[c] \in {"serve", "unregister", "drain"} /\ cur[c] \in Msg
  BY <1>1 DEF IInv, Backs, Queues
<1>3. Served(c) => back[c] \in {"serve", "unregister"}
  BY <1>1 DEF Served, After
<1>4. back' \in [Thread -> Label \cup {NULL}] /\ \A d \in Thread : d # c => back'[d] = back[d]
  BY <1>1 DEF Types
<1>5. pc[c] \notin {"off", "register"}
  BY <1>1 DEF After
<1>6. CASE UNCHANGED <<pc, back, cur>>
  <2>1. ClientCounts(c, "serve")
    BY <1>1, <1>4, <1>5, <1>6 DEF ClientCounts
  <2>2. QED
    BY <2>1, ClientCountInv
<1>7. ASSUME NEW l \in {"free", "release"}, Goto(c, l) /\ UNCHANGED <<back, cur>> PROVE IInv'
  <2>1. ClientCounts(c, l)
    BY <1>1, <1>2, <1>3, <1>4, <1>5, <1>7 DEF ClientCounts, After
  <2>2. QED
    BY <2>1, ClientCountInv DEF After
<1>8. CASE Goto(c, back[c]) /\ back' = [back EXCEPT ![c] = NULL]
  <2>1. back[c] \notin After
    BY <1>2 DEF After
  <2>2. ClientCounts(c, back[c])
    BY <1>1, <1>2, <1>3, <1>4, <1>5, <1>8, <2>1 DEF ClientCounts
  <2>3. QED
    BY <1>2, <2>2, ClientCountInv
<1>9. QED
  BY <1>1, <1>6, <1>7, <1>8

LEMMA ClientInv == ASSUME IInv, NEW c \in Client, ClientNext(c) PROVE IInv'
<1>1. CASE Sent(c)
  BY <1>1, ClientDropInv DEF Sent
<1>2. CASE Serve(c)
  BY <1>2, PopInv DEF Serve
<1>3. CASE Drain(c)
  BY <1>3, PopInv, ClientDropInv DEF Drain
<1>4. QED
  BY <1>1, <1>2, <1>3, ConnectInv, RegisterInv, UnregisterInv, ClientPlainInv, ClientAfterInv
  DEF ClientNext, Work

-----------------------------------------------------------------------------
(* The invariant. *)

LEMMA InitIInv == Init => IInv
<1> SUFFICES ASSUME Init PROVE IInv
  OBVIOUS
<1>1. /\ slots = [i \in Slots |-> NULL] /\ mtx = NULL
      /\ queue = [c \in Client |-> <<>>] /\ inited = {}
      /\ ref = [m \in Msg |-> 0] /\ live = {} /\ len = 0 /\ misused = FALSE
      /\ next = 1 /\ slot = 1
      /\ cur = [t \in Thread |-> NULL] /\ reg = [t \in Thread |-> NULL]
      /\ back = [t \in Thread |-> NULL]
  BY DEF Init
<1>2. /\ pc \in [Thread -> Label] /\ pc[Uart] = "scan" /\ \A c \in Client : pc[c] = "off"
  BY Threads DEF Init, Label
<1>3. 1 \in 1 .. MAX_QUEUE_NUM /\ 1 \in 1 .. MAX_QUEUE_NUM + 1 /\ 1 \in 1 .. Packets + 1
  BY SppAssumption
<1>4. \A c \in Client : queue[c] = <<>> /\ Len(queue[c]) <= MAX_QUEUE_LENGTH
  BY <1>1, SppAssumption
<1>5. queue \in [Client -> Seq(Msg)]
  BY <1>1
<1>6. Types
  <2>1. /\ slots \in [Slots -> Client \cup {NULL}]
        /\ inited \in SUBSET Client /\ live \in SUBSET Msg
        /\ len \in Int
    BY <1>1
  <2>6. ref \in [Msg -> Int]
    BY <1>1
  <2>7. misused \in BOOLEAN
    BY <1>1
  <2>2. /\ cur \in [Thread -> Msg \cup {NULL}]
        /\ reg \in [Thread -> Int \cup {NULL}]
        /\ back \in [Thread -> Label \cup {NULL}]
    BY <1>1
  <2>3. /\ pc \in [Thread -> Label]
        /\ pc[Uart] \in UartLabel /\ \A c \in Client : pc[c] \in ClientLabel
    BY <1>2 DEF UartLabel, ClientLabel
  <2>4. next \in 1 .. Packets + 1 /\ slot \in 1 .. MAX_QUEUE_NUM + 1
    BY <1>1, <1>3
  <2>5. QED
    BY <1>4, <1>5, <2>1, <2>2, <2>3, <2>4, <2>6, <2>7 DEF Types
<1>7. Backs /\ Locked /\ Loop
  BY <1>1, <1>2, <1>3 DEF Backs, Locked, Loop, Critical, Slots, After
<1>8. Slotted /\ Queues
  BY <1>1, <1>2 DEF Slotted, Queues, After
<1>9. QED
  BY <1>6, <1>7, <1>8 DEF IInv

LEMMA NextIInv == ASSUME IInv, [Next]_vars PROVE IInv'
<1>1. CASE Next
  BY <1>1, UartInv, ClientInv DEF Next
<1>2. CASE UNCHANGED vars
  <2>1. UNCHANGED <<slots, mtx, queue, inited, ref, live, len, misused, next, pc, cur, reg, back, slot>>
    BY <1>2 DEF vars, net, heap, local
  <2>2. Types'
    BY <2>1 DEF IInv, Types
  <2>3. Slotted' /\ Queues'
    BY <2>1, ClientsKept
  <2>4. QED
    BY <2>1, <2>2, <2>3 DEF IInv, Backs, Locked, Loop
<1>3. QED
  BY <1>1, <1>2

LEMMA AlwaysIInv == Spec => []IInv
  BY InitIInv, NextIInv, PTL DEF Spec

\* Every variable keeps its type and no queue of SppProtocol.c exceeds its length,
\* whatever the updates of the counts do to each other.
THEOREM TypeCorrect == Spec => []TypeOK
<1>1. IInv => TypeOK
  <2>1. Locked => mtx \in {NULL, Uart}
    BY DEF Locked
  <2>2. QED
    BY <2>1 DEF IInv, Types, TypeOK
<1>2. QED
  BY <1>1, AlwaysIInv, PTL

\* sppUartCommandProcess never pushes to the queue of a client that is past
\* socket_queue_delete, whose queue is on a stack about to go.
THEOREM QueuesAlive == Spec => []PushesToLiveQueue
<1>1. IInv => PushesToLiveQueue
  <2> SUFFICES ASSUME IInv, pc[Uart] \in {"take", "push"}
               PROVE  /\ slots[slot] \in inited
                      /\ pc[slots[slot]] \notin {"off", "register", "drain", "drained"}
    BY DEF PushesToLiveQueue
  <2>1. slots[slot] \in Client /\ Served(slots[slot])
    BY DEF IInv, Loop, Types, Slotted
  <2>2. QED
    BY <2>1 DEF IInv, Served, Queues, After
<1>2. QED
  BY <1>1, AlwaysIInv, PTL

\* A queue that mico_rtos_deinit_queue has taken down was empty, and nothing was
\* pushed behind it.
THEOREM NothingLost == Spec => []NothingLeft
<1>1. IInv => NothingLeft
  BY DEF IInv, Queues, NothingLeft
<1>2. QED
  BY <1>1, AlwaysIInv, PTL

\* Each slot of socket_out_queue names a client that is being served, and no two
\* slots name the same one.
THEOREM SlotsOwned == Spec => []SlotOwned
<1>1. IInv => SlotOwned
  BY DEF IInv, Slotted, Served, SlotOwned, After
<1>2. QED
  BY <1>1, AlwaysIInv, PTL

-----------------------------------------------------------------------------
(* How many places of the queues hold a message. *)

\* A place of a queue, and the places that hold message m when the queues are q
Places == Client \X (1 .. MAX_QUEUE_LENGTH)
Holding(q, m) == {p \in Places : p[2] <= Len(q[p[1]]) /\ q[p[1]][p[2]] = m}

LEMMA HoldingFinite ==
  ASSUME NEW q, NEW m
  PROVE  IsFiniteSet(Holding(q, m)) /\ Cardinality(Holding(q, m)) \in Nat
<1>1. IsFiniteSet(1 .. MAX_QUEUE_LENGTH)
  BY SppAssumption, FS_Interval
<1>2. IsFiniteSet(Places)
  BY <1>1, SppAssumption, FS_Product DEF Places
<1>3. Holding(q, m) \in SUBSET Places
  BY DEF Holding
<1>4. QED
  BY <1>2, <1>3, FS_Subset, FS_CardinalityType

\* A message pushed to a queue is in one place more.
LEMMA Pushed ==
  ASSUME NEW q \in [Client -> Seq(Msg)], NEW c \in Client, NEW x \in Msg, NEW m \in Msg,
         Len(q[c]) < MAX_QUEUE_LENGTH,
         NEW r, r[c] = Append(q[c], x), \A d \in Client : d # c => r[d] = q[d]
  PROVE  Cardinality(Holding(r, m)) = Cardinality(Holding(q, m)) + IF x = m THEN 1 ELSE 0
<1> DEFINE n == Len(q[c]) + 1
<1>1. q[c] \in Seq(Msg) /\ Len(q[c]) \in Nat /\ n \in 1 .. MAX_QUEUE_LENGTH
  BY SppAssumption
<1>2. /\ r[c] = Append(q[c], x) /\ Len(r[c]) = n /\ r[c][n] = x
      /\ \A i \in 1 .. Len(q[c]) : r[c][i] = q[c][i]
      /\ \A d \in Client : d # c => r[d] = q[d]
  BY <1>1
<1>3. <<c, n>> \in Places /\ <<c, n>> \notin Holding(q, m)
  BY <1>1 DEF Places, Holding
<1> HIDE DEF n
<1>4. ASSUME NEW d \in Client, NEW i \in 1 .. MAX_QUEUE_LENGTH
      PROVE  (i <= Len(r[d]) /\ r[d][i] = m)
               <=> (i <= Len(q[d]) /\ q[d][i] = m) \/ (d = c /\ i = n /\ x = m)
  <2>1. CASE d # c
    BY <1>2, <2>1
  <2>2. CASE d = c
    <3>1. Len(q[c]) + 1 = n
      BY DEF n
    <3>2. CASE i <= Len(q[c])
      BY <1>1, <1>2, <2>2, <3>1, <3>2
    <3>3. CASE i = n
      BY <1>1, <1>2, <2>2, <3>1, <3>3
    <3>4. CASE i > n
      BY <1>1, <1>2, <2>2, <3>1, <3>4
    <3>5. QED
      BY <1>1, <3>1, <3>2, <3>3, <3>4
  <2>3. QED
    BY <2>1, <2>2
<1>5. Holding(r, m) = Holding(q, m) \cup (IF x = m THEN {<<c, n>>} ELSE {})
  <2>1. ASSUME NEW p \in Places
        PROVE  p \in Holding(r, m) <=> p \in Holding(q, m) \/ (p = <<c, n>> /\ x = m)
    <3>1. p[1] \in Client /\ p[2] \in 1 .. MAX_QUEUE_LENGTH /\ p = <<p[1], p[2]>>
      BY DEF Places
    <3>2. (p[2] <= Len(r[p[1]]) /\ r[p[1]][p[2]] = m)
            <=> (p[2] <= Len(q[p[1]]) /\ q[p[1]][p[2]] = m) \/ (p[1] = c /\ p[2] = n /\ x = m)
      BY <1>4, <3>1
    <3>3. p = <<c, n>> <=> p[1] = c /\ p[2] = n
      BY <3>1
    <3>4. QED
      BY <3>2, <3>3 DEF Holding
  <2>2. Holding(r, m) \subseteq Places /\ Holding(q, m) \subseteq Places
    BY DEF Holding
  <2>3. QED
    BY <1>3, <2>1, <2>2
<1>6. QED
  <2>1. CASE x = m
    BY <1>3, <1>5, <2>1, HoldingFinite, FS_AddElement
  <2>2. CASE x # m
    <3>1. Holding(r, m) = Holding(q, m)
      BY <1>5, <2>2
    <3>2. QED
      BY <2>2, <3>1, HoldingFinite
  <2>3. QED
    BY <2>1, <2>2

\* The places that hold a message, one by one
LEMMA HoldingIs ==
  ASSUME NEW q, NEW m
  PROVE  \A d \in Client, i \in 1 .. MAX_QUEUE_LENGTH :
           <<d, i>> \in Holding(q, m) <=> i <= Len(q[d]) /\ q[d][i] = m
  BY DEF Holding, Places

LEMMA HoldingAre ==
  ASSUME NEW q, NEW m, NEW p \in Holding(q, m)
  PROVE  /\ p[1] \in Client /\ p[2] \in 1 .. MAX_QUEUE_LENGTH /\ p = <<p[1], p[2]>>
         /\ p[2] <= Len(q[p[1]]) /\ q[p[1]][p[2]] = m
  BY DEF Holding, Places

\* A message popped from a queue is in one place less, the others move up.
LEMMA Popped ==
  ASSUME NEW q \in [Client -> Seq(Msg)], NEW c \in Client, NEW m \in Msg,
         q[c] # <<>>, Len(q[c]) <= MAX_QUEUE_LENGTH,
         NEW r, r[c] = Tail(q[c]), \A d \in Client : d # c => r[d] = q[d]
  PROVE  Cardinality(Holding(r, m))
           = Cardinality(Holding(q, m)) - IF Head(q[c]) = m THEN 1 ELSE 0
<1> DEFINE S == Holding(q, m) \ {<<c, 1>>}
           f == [p \in Holding(r, m) |-> IF p[1] = c THEN <<c, p[2] + 1>> ELSE p]
<1>1. q[c] \in Seq(Msg) /\ Len(q[c]) \in Nat \ {0} /\ MAX_QUEUE_LENGTH \in Nat
  BY SppAssumption, EmptySeq
<1>2. /\ Len(r[c]) = Len(q[c]) - 1
      /\ \A i \in 1 .. Len(q[c]) - 1 : r[c][i] = q[c][i + 1]
      /\ \A d \in Client : d # c => r[d] = q[d]
  BY <1>1
<1>3. \A p \in Holding(r, m) : f[p] = IF p[1] = c THEN <<c, p[2] + 1>> ELSE p
  OBVIOUS
<1>4. DOMAIN f = Holding(r, m) /\ f = [p \in Holding(r, m) |-> f[p]]
  OBVIOUS
<1>5. \A s : s \in S <=> s \in Holding(q, m) /\ s # <<c, 1>>
  OBVIOUS
<1> HIDE DEF f, S
<1>6. ASSUME NEW p \in Holding(r, m) PROVE f[p] \in S
  <2>1. /\ p[1] \in Client /\ p[2] \in 1 .. MAX_QUEUE_LENGTH /\ p = <<p[1], p[2]>>
        /\ p[2] <= Len(r[p[1]]) /\ r[p[1]][p[2]] = m
    BY ONLY p \in Holding(r, m), HoldingAre
  <2>2. CASE p[1] = c
    <3>1. p[2] \in 1 .. Len(q[c]) - 1 /\ q[c][p[2] + 1] = m
      BY <1>1, <1>2, <2>1, <2>2
    <3>2. p[2] + 1 \in 1 .. MAX_QUEUE_LENGTH /\ p[2] + 1 <= Len(q[c]) /\ p[2] + 1 # 1
      BY <1>1, <3>1
    <3>3. <<c, p[2] + 1>> \in Holding(q, m) /\ <<c, p[2] + 1>> # <<c, 1>>
      BY <3>1, <3>2, HoldingIs
    <3>4. QED
      BY <1>3, <1>5, <2>2, <3>3
  <2>3. CASE p[1] # c
    <3>1. <<p[1], p[2]>> \in Holding(q, m) /\ <<p[1], p[2]>> # <<c, 1>>
      BY <1>2, <2>1, <2>3, HoldingIs
    <3>2. QED
      BY <1>3, <1>5, <2>1, <2>3, <3>1
  <2>4. QED
    BY <2>2, <2>3
<1>7. ASSUME NEW a \in Holding(r, m), NEW b \in Holding(r, m), f[a] = f[b] PROVE a = b
  <2>1. /\ a[1] \in Client /\ a[2] \in 1 .. MAX_QUEUE_LENGTH /\ a = <<a[1], a[2]>>
        /\ b[1] \in Client /\ b[2] \in 1 .. MAX_QUEUE_LENGTH /\ b = <<b[1], b[2]>>
    BY HoldingAre
  <2>2. /\ f[a] = IF a[1] = c THEN <<c, a[2] + 1>> ELSE <<a[1], a[2]>>
        /\ f[b] = IF b[1] = c THEN <<c, b[2] + 1>> ELSE <<b[1], b[2]>>
    BY ONLY a \in Holding(r, m), b \in Holding(r, m), <1>3, <2>1
  <2>3. f[a][1] = a[1] /\ f[b][1] = b[1]
    BY ONLY <2>2
  <2>4. /\ f[a][2] = IF a[1] = c THEN a[2] + 1 ELSE a[2]
        /\ f[b][2] = IF b[1] = c THEN b[2] + 1 ELSE b[2]
    BY ONLY <2>2
  <2>5. a[1] = b[1] /\ a[2] = b[2]
    BY <1>1, <1>7, <2>1, <2>3, <2>4
  <2>6. QED
    BY <2>1, <2>5
<1>8. ASSUME NEW s \in S PROVE \E p \in Holding(r, m) : f[p] = s
  <2>1. /\ s[1] \in Client /\ s[2] \in 1 .. MAX_QUEUE_LENGTH /\ s = <<s[1], s[2]>>
        /\ s[2] <= Len(q[s[1]]) /\ q[s[1]][s[2]] = m /\ s # <<c, 1>>
    BY <1>5, HoldingAre
  <2>2. CASE s[1] = c
    <3>1. s[2] # 1
      BY <2>1, <2>2
    <3>2. s[2] - 1 \in 1 .. Len(q[c]) - 1 /\ (s[2] - 1) + 1 = s[2]
      BY <1>1, <2>1, <2>2, <3>1
    <3>3. r[c][s[2] - 1] = m /\ s[2] - 1 <= Len(r[c]) /\ s[2] - 1 \in 1 .. MAX_QUEUE_LENGTH
      BY <1>1, <1>2, <2>1, <2>2, <3>2
    <3>4. <<c, s[2] - 1>> \in Holding(r, m)
      BY ONLY <3>3, c \in Client, HoldingIs
    <3>5. f[<<c, s[2] - 1>>] = <<c, (s[2] - 1) + 1>>
      BY <1>3, <3>4
    <3>6. QED
      BY <2>1, <2>2, <3>2, <3>4, <3>5
  <2>3. CASE s[1] # c
    <3>1. <<s[1], s[2]>> \in Holding(r, m)
      BY <1>2, <2>1, <2>3, HoldingIs
    <3>2. QED
      BY <1>3, <2>1, <2>3, <3>1
  <2>4. QED
    BY <2>2, <2>3
<1>9. f \in Bijection(Holding(r, m), S)
  <2>1. f \in [Holding(r, m) -> S]
    BY <1>4, <1>6
  <2>2. IsInjective(f)
    BY <1>4, <1>7 DEF IsInjective
  <2>3. QED
    BY <1>8, <2>1, <2>2 DEF Bijection, Injection, Surjection
<1>10. Cardinality(S) = Cardinality(Holding(r, m))
  BY <1>9, HoldingFinite, FS_Bijection DEF ExistsBijection
<1>11. <<c, 1>> \in Holding(q, m) <=> Head(q[c]) = m
  <2>1. 1 \in 1 .. MAX_QUEUE_LENGTH /\ 1 <= Len(q[c]) /\ Head(q[c]) = q[c][1]
    BY <1>1
  <2>2. QED
    BY <2>1, HoldingIs
<1>12. Cardinality(S) = IF <<c, 1>> \in Holding(q, m) THEN Cardinality(Holding(q, m)) - 1
                       ELSE Cardinality(Holding(q, m))
  BY HoldingFinite, FS_RemoveElement DEF S
<1>13. QED
  BY <1>10, <1>11, <1>12, HoldingFinite

-----------------------------------------------------------------------------
(* How many references there are to a message. *)

\* The references that a thread at l has to the message in its hands
Ones == {"write", "sent", "failed", "drained", "fan", "take", "drop"}
Twos == {"push", "undo"}
Weight(l, x, m) ==
  IF x # m THEN 0 ELSE IF l \in Ones THEN 1 ELSE IF l \in Twos THEN 2 ELSE 0

\* The UART thread has its new message to itself: not yet counted
Fresh == {"add", "lock", "hold"}

\* Where a thread is, as to what it holds: in socket_msg_free of a queue's
\* reference, the UART thread still has its own, as it does in its loop.
Place(t) == IF pc[t] \in After /\ back[t] = "fan" THEN "fan" ELSE pc[t]

\* Only finitely many clients have m in hand, now and next.
LEMMA InHandFinite ==
  ASSUME NEW m
  PROVE  IsFiniteSet(InHand(m)) /\ Cardinality(InHand(m)) \in Nat
  <1>1. InHand(m) \in SUBSET Client
    BY DEF InHand
  <1>2. QED
    BY <1>1, SppAssumption, FS_Subset, FS_CardinalityType

LEMMA InHandNext ==
  ASSUME NEW m
  PROVE  IsFiniteSet(InHand(m)') /\ Cardinality(InHand(m)') \in Nat
  <1>1. InHand(m)' \in SUBSET Client
    BY DEF InHand
  <1>2. QED
    BY <1>1, SppAssumption, FS_Subset, FS_CardinalityType

\* The weights of the threads are those that Holders counts.
LEMMA UartWeight ==
  ASSUME Types, NEW m
  PROVE  OfUart(m) = Weight(Place(Uart), cur[Uart], m)
  BY DEF Types, UartLabel, OfUart, Weight, Ones, Twos, Place, After

LEMMA ClientWeight ==
  ASSUME Types, Backs, NEW c \in Client, NEW m
  PROVE  Weight(Place(c), cur[c], m) = IF c \in InHand(m) THEN 1 ELSE 0
<1>1. Place(c) = pc[c]
  BY DEF Backs, Place
<1>2. QED
  BY <1>1 DEF Types, ClientLabel, InHand, Weight, Ones, Twos

LEMMA QueuedIs == \A m : Queued(m) = Holding(queue, m) /\ Queued(m)' = Holding(queue', m)
  BY DEF Queued, Holding, Places

\* A step of thread t changes the references by those of t, and by those in queues.
LEMMA HoldersStep ==
  ASSUME Types, Types', Backs, Backs', NEW t \in Thread, NEW m \in Msg, NEW a \in Int,
         \A u \in Thread : u # t => pc'[u] = pc[u] /\ cur'[u] = cur[u] /\ back'[u] = back[u],
         Cardinality(Holding(queue', m)) = Cardinality(Holding(queue, m)) + a
  PROVE  /\ Holders(m) \in Nat
         /\ Holders(m)' = Holders(m) + a + Weight(Place(t)', cur'[t], m) - Weight(Place(t), cur[t], m)
<1>1. /\ OfUart(m) = Weight(Place(Uart), cur[Uart], m)
      /\ OfUart(m)' = Weight(Place(Uart)', cur'[Uart], m)
  <2>1. OfUart(m) = Weight(Place(Uart), cur[Uart], m)
    BY UartWeight
  <2>2. OfUart(m)' = Weight(Place(Uart)', cur'[Uart], m)
    BY DEF Types, UartLabel, OfUart, Weight, Ones, Twos, Place, After
  <2>3. QED
    BY <2>1, <2>2
<1>2. \A l, x : Weight(l, x, m) \in 0 .. 2
  BY DEF Weight
<1>3. /\ Cardinality(Holding(queue, m)) \in Nat /\ Cardinality(InHand(m)) \in Nat
      /\ Cardinality(InHand(m)') \in Nat
  BY HoldingFinite, InHandFinite, InHandNext
<1>4. /\ Holders(m) = Cardinality(Holding(queue, m)) + Cardinality(InHand(m)) + OfUart(m)
      /\ Holders(m)' = Cardinality(Holding(queue', m)) + Cardinality(InHand(m)') + OfUart(m)'
  BY QueuedIs DEF Holders
<1>5. CASE t = Uart
  <2>1. InHand(m)' = InHand(m)
    BY <1>5, Threads DEF InHand
  <2>2. QED
    BY <1>1, <1>2, <1>3, <1>4, <1>5, <2>1
<1>6. CASE t \in Client
  <2>1. OfUart(m)' = OfUart(m)
    BY <1>1, <1>6, Threads DEF Place
  <2>2. /\ Weight(Place(t), cur[t], m) = IF t \in InHand(m) THEN 1 ELSE 0
        /\ Weight(Place(t)', cur'[t], m) = IF t \in InHand(m)' THEN 1 ELSE 0
    <3>1. Weight(Place(t), cur[t], m) = IF t \in InHand(m) THEN 1 ELSE 0
      BY <1>6, ClientWeight
    <3>2. Weight(Place(t)', cur'[t], m) = IF t \in InHand(m)' THEN 1 ELSE 0
      <4>1. Place(t)' = pc'[t]
        BY <1>6 DEF Backs, Place
      <4>2. QED
        BY <1>6, <4>1 DEF Types, ClientLabel, InHand, Weight, Ones, Twos
    <3>3. QED
      BY <3>1, <3>2
  <2>3. \A d \in Client : d # t => (d \in InHand(m)' <=> d \in InHand(m))
    BY <1>6, Threads DEF InHand
  <2>4. InHand(m) \subseteq Client /\ InHand(m)' \subseteq Client
    BY DEF InHand
  <2>5. CASE t \in InHand(m) <=> t \in InHand(m)'
    <3>1. InHand(m)' = InHand(m)
      BY <2>3, <2>4, <2>5
    <3>2. QED
      BY <1>2, <1>1, <1>3, <1>4, <2>1, <2>2, <2>5, <3>1
  <2>6. CASE t \in InHand(m) /\ t \notin InHand(m)'
    <3>1. InHand(m)' = InHand(m) \ {t}
      BY <2>3, <2>4, <2>6
    <3>2. Cardinality(InHand(m)') = Cardinality(InHand(m)) - 1
      BY <2>6, <3>1, InHandFinite, FS_RemoveElement
    <3>3. QED
      BY <1>2, <1>1, <1>3, <1>4, <2>1, <2>2, <2>6, <3>2
  <2>7. CASE t \notin InHand(m) /\ t \in InHand(m)'
    <3>1. InHand(m)' = InHand(m) \cup {t}
      BY <1>6, <2>3, <2>4, <2>7
    <3>2. Cardinality(InHand(m)') = Cardinality(InHand(m)) + 1
      BY <2>7, <3>1, InHandFinite, FS_AddElement
    <3>3. QED
      BY <1>2, <1>1, <1>3, <1>4, <2>1, <2>2, <2>7, <3>2
  <2>8. QED
    BY <2>5, <2>6, <2>7
<1>7. QED
  BY <1>5, <1>6, Threads

\* No thread holds more than all do, and a message in a queue is held.
LEMMA HoldersCover ==
  ASSUME Types, Backs, NEW m
  PROVE  /\ Holders(m) \in Nat
         /\ \A t \in Thread : Weight(Place(t), cur[t], m) <= Holders(m)
         /\ \A c \in Client : \A i \in 1 .. Len(queue[c]) : queue[c][i] = m => 1 <= Holders(m)
<1>1. OfUart(m) = Weight(Place(Uart), cur[Uart], m) /\ OfUart(m) \in 0 .. 2
  BY UartWeight DEF Weight
<1>2. Cardinality(Holding(queue, m)) \in Nat /\ Cardinality(InHand(m)) \in Nat
  BY HoldingFinite, InHandFinite
<1>3. Holders(m) = Cardinality(Holding(queue, m)) + Cardinality(InHand(m)) + OfUart(m)
  BY QueuedIs DEF Holders
<1>4. ASSUME NEW c \in Client PROVE Weight(Place(c), cur[c], m) <= Cardinality(InHand(m))
  <2>1. CASE c \in InHand(m)
    <3>1. Cardinality(InHand(m)) # 0
      BY <2>1, InHandFinite, FS_EmptySet
    <3>2. QED
      BY <1>2, <2>1, <3>1, ClientWeight
  <2>2. CASE c \notin InHand(m)
    BY <1>2, <2>2, ClientWeight
  <2>3. QED
    BY <2>1, <2>2
<1>5. ASSUME NEW c \in Client, NEW i \in 1 .. Len(queue[c]), queue[c][i] = m
      PROVE  1 <= Cardinality(Holding(queue, m))
  <2>1. Len(queue[c]) \in Nat /\ i \in 1 .. MAX_QUEUE_LENGTH /\ i <= Len(queue[c])
    <3>1. queue[c] \in Seq(Msg) /\ Len(queue[c]) <= MAX_QUEUE_LENGTH /\ MAX_QUEUE_LENGTH \in Nat
      BY SppAssumption DEF Types
    <3>2. QED
      BY <3>1
  <2>2. <<c, i>> \in Holding(queue, m)
    BY <1>5, <2>1, HoldingIs
  <2>3. Cardinality(Holding(queue, m)) # 0
    BY <2>2, HoldingFinite, FS_EmptySet
  <2>4. QED
    BY <1>2, <2>3
<1>6. ASSUME NEW t \in Thread PROVE Weight(Place(t), cur[t], m) <= Holders(m)
  <2>1. Weight(Place(t), cur[t], m) \in 0 .. 2
    BY DEF Weight
  <2>2. CASE t = Uart
    BY <1>1, <1>2, <1>3, <2>2
  <2>3. CASE t \in Client
    BY <1>1, <1>2, <1>3, <1>4, <2>1, <2>3
  <2>4. QED
    BY <2>2, <2>3, Threads
<1>7. ASSUME NEW c \in Client, NEW i \in 1 .. Len(queue[c]), queue[c][i] = m
      PROVE  1 <= Holders(m)
  BY <1>1, <1>2, <1>3, <1>5, <1>7
<1>8. Holders(m) \in Nat
  BY <1>1, <1>2, <1>3
<1>9. QED
  BY <1>6, <1>7, <1>8

-----------------------------------------------------------------------------
(* The counts, when they are updated indivisibly. *)

InUse == Ones \cup Twos \cup Fresh

\* What is in queues and in hands has not been freed.
Alive ==
  /\ \A c \in Client : \A i \in 1 .. Len(queue[c]) : queue[c][i] \in live
  /\ \A t \in Thread : Place(t) \in InUse => cur[t] \in live

\* A message that is being freed, or is new, has no references; and none that is
\* new is still being dropped by a client.
Unheld ==
  /\ \A t \in Thread : pc[t] \in {"free", "release"} => ref[cur[t]] = 0 /\ back[t] # "fan"
  /\ pc[Uart] \in Fresh => ref[cur[Uart]] = 0
  /\ \A c \in Client : pc[Uart] \in Fresh /\ pc[c] \in After => cur[c] # cur[Uart]

\* Numbers are given out in order.
Unused ==
  \A m \in Msg : m >= next =>
    /\ m \notin live /\ ref[m] = 0
    /\ \A c \in Client : pc[c] \in After => cur[c] # m

Counted == RefExact /\ Alive /\ Unheld /\ Unused

LEMMA Kinds ==
  /\ Ones \cap Twos = {} /\ Ones \cap Fresh = {} /\ Twos \cap Fresh = {}
  /\ After \cap InUse = {} /\ Fresh \cap ClientLabel = {} /\ "fan" \in Ones
  BY DEF Ones, Twos, Fresh, After, InUse, ClientLabel

\* The other threads stay where they are.
Others(t) ==
  \A u \in Thread : u # t => pc'[u] = pc[u] /\ cur'[u] = cur[u] /\ back'[u] = back[u]

LEMMA OthersPlace == ASSUME NEW t, Others(t) PROVE \A u \in Thread : u # t => Place(u)' = Place(u)
  BY DEF Others, Place

\* The place tells where a thread is, except in socket_msg_free.
LEMMA Placed ==
  ASSUME IInv
  PROVE  /\ \A t \in Thread : pc[t] \notin After => Place(t) = pc[t]
         /\ \A t \in Thread : Place(t) \in Fresh <=> pc[t] \in Fresh
         /\ \A c \in Client : Place(c) = pc[c] /\ pc[c] \notin Fresh
  BY Kinds, Threads DEF IInv, Types, Backs, Place, After, Fresh, ClientLabel

LEMMA PlacedNext == ASSUME IInv' PROVE \A t \in Thread : pc'[t] \in Fresh => Place(t)' \in Fresh
  BY Kinds DEF Place, After, Fresh

\* A step of thread t that leaves the counts, and what it holds, alone
Quiet(t) ==
  /\ Others(t) /\ UNCHANGED <<ref, live, queue, next>>
  /\ pc'[t] \in After => pc[t] \in After /\ cur'[t] = cur[t]
  /\ pc'[t] \in {"free", "release"} => ref[cur[t]] = 0 /\ back'[t] # "fan"
  /\ \/ Place(t)' \notin InUse /\ Place(t) \notin InUse
     \/ Place(t)' \in Fresh /\ Place(t) \in Fresh /\ cur'[t] = cur[t]
     \/ Place(t)' \in Ones /\ Place(t) \in Ones /\ cur'[t] = cur[t]
     \/ Place(t)' \in Twos /\ Place(t) \in Twos /\ cur'[t] = cur[t]

\* The count stays exact when it changes as the references do; queues get a[m] of them.
LEMMA RefExactStep ==
  ASSUME IInv, IInv', NEW t \in Thread, Others(t),
         NEW a \in [Msg -> Int],
         \A m \in live' :
           /\ Cardinality(Holding(queue', m)) = Cardinality(Holding(queue, m)) + a[m]
           /\ ref[m] = Holders(m)
           /\ ref'[m] = ref[m] + a[m] + Weight(Place(t)', cur'[t], m) - Weight(Place(t), cur[t], m)
  PROVE  RefExact'
<1> SUFFICES ASSUME NEW m \in live' PROVE ref'[m] = Holders(m)'
  BY DEF RefExact
<1>1. m \in Msg /\ Types /\ Types' /\ Backs /\ Backs'
  BY DEF IInv, Types
<1>2. Holders(m)' = Holders(m) + a[m] + Weight(Place(t)', cur'[t], m) - Weight(Place(t), cur[t], m)
  BY <1>1, HoldersStep DEF Others
<1>3. QED
  BY <1>2

LEMMA QuietStep == ASSUME IInv, IInv', Counted, NEW t \in Thread, Quiet(t) PROVE Counted'
<1>1. \A m \in Msg : Weight(Place(t)', cur'[t], m) = Weight(Place(t), cur[t], m)
  BY Kinds DEF Quiet, Weight, InUse
<1>0. Types /\ Types' /\ Others(t)
  BY DEF IInv, Quiet
<1>2. RefExact'
  <2> DEFINE a == [m \in Msg |-> 0]
  <2>1. a \in [Msg -> Int] /\ \A m \in Msg : a[m] = 0
    OBVIOUS
  <2> HIDE DEF a
  <2>2. ASSUME NEW m \in live'
        PROVE  /\ Cardinality(Holding(queue', m)) = Cardinality(Holding(queue, m)) + a[m]
               /\ ref[m] = Holders(m)
               /\ ref'[m] = ref[m] + a[m] + Weight(Place(t)', cur'[t], m) - Weight(Place(t), cur[t], m)
    <3>1. m \in Msg /\ m \in live /\ ref[m] \in Int /\ ref'[m] = ref[m]
      BY <1>0 DEF Quiet, Types
    <3>2. Cardinality(Holding(queue', m)) = Cardinality(Holding(queue, m))
          /\ Cardinality(Holding(queue, m)) \in Nat
      BY HoldingFinite DEF Quiet
    <3>3. Weight(Place(t), cur[t], m) \in 0 .. 2
      BY DEF Weight
    <3>4. QED
      BY <1>1, <2>1, <3>1, <3>2, <3>3 DEF Counted, RefExact
  <2>3. QED
    BY <1>0, <2>1, <2>2, RefExactStep
<1>3. \A u \in Thread : Place(u)' \in InUse => Place(u) \in InUse /\ cur'[u] = cur[u]
  BY <1>0, Kinds, OthersPlace DEF Quiet, InUse, Others
<1>4. Alive'
  BY <1>3 DEF Counted, Alive, Quiet
<1>5. Unheld'
  <2>1. \A u \in Thread : pc'[u] \in {"free", "release"} => ref'[cur'[u]] = 0 /\ back'[u] # "fan"
    BY <1>0 DEF Counted, Unheld, Quiet, Others, After
  <2>2. \A u \in Thread : /\ pc'[u] \in Fresh => pc[u] \in Fresh /\ cur'[u] = cur[u]
                          /\ pc'[u] \in After => pc[u] \in After /\ cur'[u] = cur[u]
    <3>1. pc'[t] \in Fresh => pc[t] \in Fresh /\ cur'[t] = cur[t]
      <4>1. pc'[t] \in Fresh => Place(t)' \in Fresh
        BY PlacedNext
      <4>2. Place(t) \in Fresh => pc[t] \in Fresh
        BY Placed
      <4>3. QED
        BY <4>1, <4>2, Kinds DEF Quiet, InUse
    <3>2. QED
      BY <1>0, <3>1 DEF Quiet, Others
  <2>3. QED
    BY <2>1, <2>2, Threads DEF Counted, Unheld, Quiet
<1>6. Unused'
  <2>1. \A u \in Thread : pc'[u] \in After => pc[u] \in After /\ cur'[u] = cur[u]
    BY <1>0 DEF Quiet, Others
  <2>2. QED
    BY <2>1, Threads DEF Counted, Unused, Quiet
<1>7. QED
  BY <1>2, <1>4, <1>5, <1>6 DEF Counted

\* A step of thread t that adds k to the count of its message
CountBy(t, k) ==
  /\ Others(t) /\ UNCHANGED <<live, queue, next>> /\ cur'[t] = cur[t]
  /\ Place(t) \in InUse /\ cur[t] \in Msg
  /\ ref' = [ref EXCEPT ![cur[t]] = ref[cur[t]] + k]
  /\ Weight(Place(t)', cur[t], cur[t]) = Weight(Place(t), cur[t], cur[t]) + k
  /\ pc'[t] \notin Fresh /\ pc'[t] \notin {"free", "release"}

LEMMA CountStep ==
  ASSUME IInv, IInv', Counted, NEW t \in Thread, NEW k \in Int, CountBy(t, k)
  PROVE  Counted'
<1> USE DEF CountBy
<1>1. cur[t] \in live /\ ref \in [Msg -> Int] /\ Types /\ Types' /\ Backs
  BY DEF Counted, Alive, IInv, Types
<1>2. RefExact'
  <2> DEFINE a == [m \in Msg |-> 0]
  <2>1. a \in [Msg -> Int] /\ \A m \in Msg : a[m] = 0
    OBVIOUS
  <2> HIDE DEF a
  <2>2. ASSUME NEW m \in live'
        PROVE  /\ Cardinality(Holding(queue', m)) = Cardinality(Holding(queue, m)) + a[m]
               /\ ref[m] = Holders(m)
               /\ ref'[m] = ref[m] + a[m] + Weight(Place(t)', cur'[t], m) - Weight(Place(t), cur[t], m)
    <3>1. m \in Msg /\ m \in live /\ ref[m] \in Int /\ ref[m] = Holders(m)
      BY <1>1 DEF Types, Counted, RefExact
    <3>2. Cardinality(Holding(queue', m)) = Cardinality(Holding(queue, m))
          /\ Cardinality(Holding(queue, m)) \in Nat
      BY HoldingFinite
    <3>3. Weight(Place(t), cur[t], m) \in 0 .. 2 /\ Weight(Place(t)', cur'[t], m) \in 0 .. 2
      BY DEF Weight
    <3>4. CASE m = cur[t]
      BY <1>1, <2>1, <3>1, <3>2, <3>3, <3>4
    <3>5. CASE m # cur[t]
      <4>1. Weight(Place(t), cur[t], m) = 0 /\ Weight(Place(t)', cur'[t], m) = 0 /\ ref'[m] = ref[m]
        BY <1>1, <3>1, <3>5 DEF Weight
      <4>2. QED
        BY <2>1, <3>1, <3>2, <4>1
    <3>6. QED
      BY <3>4, <3>5
  <2>3. QED
    BY <2>1, <2>2, RefExactStep
<1>3. /\ \A u \in Thread : u # t /\ pc[u] \in {"free", "release"} => cur[u] # cur[t]
      /\ t # Uart /\ pc[Uart] \in Fresh => cur[Uart] # cur[t]
  <2>1. CASE Place(t) \in Fresh
    <3>1. t = Uart /\ pc[t] \in Fresh
      BY <2>1, Placed, Threads
    <3>2. QED
      BY <3>1, Threads DEF Counted, Unheld, After
  <2>2. CASE Place(t) \notin Fresh
    <3>1. Weight(Place(t), cur[t], cur[t]) \in 1 .. 2
      BY <2>2 DEF Weight, InUse
    <3>2. ref[cur[t]] # 0
      BY <1>1, <3>1, HoldersCover DEF Counted, RefExact
    <3>3. QED
      BY <3>2 DEF Counted, Unheld
  <2>3. QED
    BY <2>1, <2>2
<1>4. Alive'
  BY OthersPlace DEF Counted, Alive, Others
<1>5. Unheld'
  <2>1. ASSUME NEW u \in Thread, pc'[u] \in {"free", "release"}
        PROVE  ref'[cur'[u]] = 0 /\ back'[u] # "fan"
    <3>1. u # t /\ pc[u] \in {"free", "release"} /\ cur'[u] = cur[u] /\ back'[u] = back[u]
      BY <2>1 DEF Others
    <3>2. ref[cur[u]] = 0 /\ back[u] # "fan" /\ cur[u] # cur[t]
      BY <1>3, <3>1 DEF Counted, Unheld
    <3>3. ref'[cur[u]] = ref[cur[u]]
      BY <1>1, <3>2
    <3>4. QED
      BY <3>1, <3>2, <3>3
  <2>2. pc'[Uart] \in Fresh => t # Uart /\ pc[Uart] \in Fresh /\ cur'[Uart] = cur[Uart]
    BY Threads DEF Others
  <2>3. pc'[Uart] \in Fresh => ref'[cur'[Uart]] = 0
    BY <1>1, <1>3, <2>2 DEF Counted, Unheld
  <2>4. ASSUME NEW c \in Client, pc'[Uart] \in Fresh, pc'[c] \in After PROVE cur'[c] # cur'[Uart]
    BY <1>3, <2>2, <2>4, Threads DEF Counted, Unheld, Others
  <2>5. QED
    BY <2>1, <2>3, <2>4 DEF Unheld
<1>6. Unused'
  <2>1. ASSUME NEW m \in Msg, m >= next PROVE m # cur[t]
    BY <1>1, <2>1 DEF Counted, Unused
  <2>2. QED
    BY <1>1, <2>1, Threads DEF Counted, Unused, Others
<1>7. QED
  BY <1>2, <1>4, <1>5, <1>6 DEF Counted

\* What has been freed, or not been allocated, is in nobody's hands.
LEMMA NoHolder == ASSUME IInv, Alive, NEW m \in Msg, m \notin live PROVE Holders(m) = 0
<1>0. Types /\ Backs
  BY DEF IInv
<1>1. Holding(queue, m) = {}
  <2> SUFFICES ASSUME NEW p \in Holding(queue, m) PROVE FALSE
    OBVIOUS
  <2>1. /\ p[1] \in Client /\ p[2] \in 1 .. MAX_QUEUE_LENGTH
        /\ p[2] <= Len(queue[p[1]]) /\ queue[p[1]][p[2]] = m
    BY ONLY p \in Holding(queue, m), HoldingAre
  <2>2. Len(queue[p[1]]) \in Nat /\ MAX_QUEUE_LENGTH \in Nat
    BY <1>0, <2>1, SppAssumption DEF Types
  <2>3. p[2] \in 1 .. Len(queue[p[1]])
    BY <2>1, <2>2
  <2>4. QED
    BY <2>1, <2>3 DEF Alive
<1>2. InHand(m) = {}
  <2> SUFFICES ASSUME NEW c \in Client, cur[c] = m, pc[c] \in {"write", "sent", "failed", "drained"}
               PROVE  FALSE
    BY DEF InHand
  <2>1. Place(c) \in InUse
    BY Placed DEF InUse, Ones
  <2>2. QED
    BY <2>1, Threads DEF Alive
<1>3. OfUart(m) = 0
  BY <1>0, UartWeight, Threads DEF Alive, InUse, Weight
<1>4. QED
  BY <1>1, <1>2, <1>3, QueuedIs, FS_EmptySet DEF Holders

\* A step of thread t on the queue of c: a reference goes from the thread into the
\* queue, or from the queue to the thread.
LEMMA QueueStep ==
  ASSUME IInv, IInv', Counted, NEW t \in Thread, NEW x \in Msg, NEW k \in {1, -1}, Others(t),
         UNCHANGED <<ref, live, next>>,
         \A m \in Msg : Cardinality(Holding(queue', m))
                          = Cardinality(Holding(queue, m)) + IF m = x THEN k ELSE 0,
         \A m \in Msg : Weight(Place(t)', cur'[t], m)
                          = Weight(Place(t), cur[t], m) - IF m = x THEN k ELSE 0,
         \A c \in Client : \A i \in 1 .. Len(queue'[c]) : queue'[c][i] \in live,
         cur'[t] \in live, pc'[t] \notin Fresh, pc'[t] \notin After
  PROVE  Counted'
<1>1. RefExact'
  <2> DEFINE a == [m \in Msg |-> IF m = x THEN k ELSE 0]
  <2>1. a \in [Msg -> Int] /\ \A m \in Msg : a[m] = IF m = x THEN k ELSE 0
    OBVIOUS
  <2> HIDE DEF a
  <2>2. ASSUME NEW m \in live'
        PROVE  /\ Cardinality(Holding(queue', m)) = Cardinality(Holding(queue, m)) + a[m]
               /\ ref[m] = Holders(m)
               /\ ref'[m] = ref[m] + a[m] + Weight(Place(t)', cur'[t], m) - Weight(Place(t), cur[t], m)
    <3>1. m \in Msg /\ ref[m] \in Int /\ ref[m] = Holders(m) /\ ref'[m] = ref[m]
      BY DEF IInv, Types, Counted, RefExact
    <3>2. Weight(Place(t), cur[t], m) \in 0 .. 2 /\ Cardinality(Holding(queue, m)) \in Nat
      BY HoldingFinite DEF Weight
    <3>3. QED
      BY <2>1, <3>1, <3>2
  <2>3. QED
    BY <2>1, <2>2, RefExactStep
<1>2. Alive'
  BY OthersPlace DEF Counted, Alive, Others
<1>3. \A u \in Thread : /\ pc'[u] \in Fresh => pc[u] \in Fresh /\ cur'[u] = cur[u]
                        /\ pc'[u] \in After => pc[u] \in After /\ cur'[u] = cur[u]
                                               /\ pc'[u] = pc[u] /\ back'[u] = back[u]
  BY DEF Others
<1>4. Unheld'
  BY <1>3, Threads DEF Counted, Unheld, After
<1>5. Unused'
  BY <1>3, Threads DEF Counted, Unused
<1>6. QED
  BY <1>1, <1>2, <1>4, <1>5 DEF Counted

LEMMA PushCounted == ASSUME IInv, IInv', Counted, Push PROVE Counted'
<1>1. /\ Types /\ pc[Uart] = "push" /\ Place(Uart) = "push" /\ Uart \in Thread
      /\ UNCHANGED <<cur, ref, live, next, back>>
  BY Threads DEF IInv, Push, At, heap, Place, After
<1>2. PICK c \in Client, x \in Msg : c = slots[slot] /\ x = cur[Uart] /\ x \in live
  <2>1. slot \in Slots /\ slots[slot] # NULL /\ cur[Uart] \in Msg
    BY <1>1 DEF IInv, Loop
  <2>2. QED
    BY <1>1, <2>1 DEF Types, Counted, Alive, InUse, Twos
<1>3. CASE Goto(Uart, "undo") /\ UNCHANGED queue
  <2>1. /\ pc'[Uart] = "undo" /\ \A u \in Thread : u # Uart => pc'[u] = pc[u]
        /\ Place(Uart)' = "undo"
    BY <1>1, <1>3, UartOwn, Moves DEF Own, UartLabel, Place, After
  <2>2. Quiet(Uart)
    BY <1>1, <1>2, <1>3, <2>1 DEF Quiet, Others, InUse, Twos, After
  <2>3. QED
    BY <1>1, <2>2, QuietStep
<1>4. CASE Len(queue[c]) < MAX_QUEUE_LENGTH /\ Goto(Uart, "fan")
           /\ queue' = [queue EXCEPT ![c] = Append(queue[c], x)]
  <2>1. /\ pc'[Uart] = "fan" /\ \A u \in Thread : u # Uart => pc'[u] = pc[u]
        /\ Place(Uart)' = "fan"
    BY <1>1, <1>4, UartOwn, Moves DEF Own, UartLabel, Place, After
  <2>2. queue \in [Client -> Seq(Msg)]
    BY <1>1 DEF Types
  <2>3. \A m \in Msg : Cardinality(Holding(queue', m))
                         = Cardinality(Holding(queue, m)) + IF m = x THEN 1 ELSE 0
    <3> SUFFICES ASSUME NEW m \in Msg
                 PROVE  Cardinality(Holding(queue', m))
                          = Cardinality(Holding(queue, m)) + IF m = x THEN 1 ELSE 0
      OBVIOUS
    <3>1. c \in Client /\ x \in Msg /\ Len(queue[c]) < MAX_QUEUE_LENGTH
          /\ queue'[c] = Append(queue[c], x)
          /\ \A d \in Client : d # c => queue'[d] = queue[d]
      BY <1>2, <1>4, <2>2
    <3>2. Cardinality(Holding(queue', m))
            = Cardinality(Holding(queue, m)) + IF x = m THEN 1 ELSE 0
      BY ONLY m \in Msg, c \in Client, x \in Msg, <2>2, <3>1, Pushed
    <3>3. QED
      BY <3>2
  <2>4. \A m \in Msg : Weight(Place(Uart)', cur'[Uart], m)
                         = Weight(Place(Uart), cur[Uart], m) - IF m = x THEN 1 ELSE 0
    BY <1>1, <1>2, <2>1 DEF Weight, Ones, Twos
  <2>5. \A d \in Client : \A i \in 1 .. Len(queue'[d]) : queue'[d][i] \in live
    <3> SUFFICES ASSUME NEW d \in Client, NEW i \in 1 .. Len(queue'[d])
                 PROVE  queue'[d][i] \in live
      OBVIOUS
    <3>1. CASE d # c
      BY <1>2, <1>4, <2>2, <3>1 DEF Counted, Alive
    <3>2. CASE d = c
      <4>1. queue'[d] = Append(queue[c], x) /\ queue[c] \in Seq(Msg)
        BY <1>2, <1>4, <2>2, <3>2
      <4>2. /\ Len(queue[c]) \in Nat
            /\ i \in 1 .. Len(queue[c]) => queue'[d][i] = queue[c][i]
            /\ i = Len(queue[c]) + 1 => queue'[d][i] = x
            /\ i \in 1 .. Len(queue[c]) \/ i = Len(queue[c]) + 1
        BY <4>1, <1>2
      <4>3. QED
        BY <1>2, <4>2 DEF Counted, Alive
    <3>3. QED
      BY <3>1, <3>2
  <2>6. pc'[Uart] \notin Fresh /\ pc'[Uart] \notin After /\ cur'[Uart] \in live
    BY <1>1, <1>2, <2>1 DEF Fresh, After
  <2>7. Others(Uart)
    BY <1>1, <2>1 DEF Others
  <2>8. QED
    BY <1>1, <1>2, <2>7, <2>3, <2>4, <2>5, <2>6, QueueStep
<1>5. QED
  BY <1>2, <1>3, <1>4 DEF Push

LEMMA PopCounted ==
  ASSUME IInv, IInv', Counted, NEW c \in Client, NEW l, NEW then, Pop(c, l, then),
         <<l, then>> \in {<<"serve", "write">>, <<"drain", "drained">>}
  PROVE  Counted'
<1> DEFINE x == Head(queue[c])
<1>1. /\ Types /\ c \in Thread /\ pc[c] = l /\ queue[c] # <<>>
      /\ cur' = [cur EXCEPT ![c] = x] /\ Goto(c, then)
      /\ queue' = [queue EXCEPT ![c] = Tail(queue[c])]
      /\ UNCHANGED <<ref, live, next, back>>
      /\ \/ l = "serve" /\ then = "write"
         \/ l = "drain" /\ then = "drained"
  BY Threads DEF IInv, Pop, At, heap
<1>2. /\ pc'[c] = then /\ \A u \in Thread : u # c => pc'[u] = pc[u]
      /\ Place(c) = l /\ Place(c)' = then
  BY <1>1, ClientOwn, Moves DEF Place, After
<1>3. /\ queue \in [Client -> Seq(Msg)] /\ Len(queue[c]) <= MAX_QUEUE_LENGTH
      /\ Len(queue[c]) \in Nat \ {0} /\ x \in Msg /\ x = queue[c][1] /\ x \in live
  <2>1. /\ queue \in [Client -> Seq(Msg)] /\ Len(queue[c]) <= MAX_QUEUE_LENGTH
    BY <1>1 DEF Types
  <2>2. Len(queue[c]) \in Nat \ {0} /\ x \in Msg /\ x = queue[c][1]
    BY <1>1, <2>1, EmptySeq
  <2>3. x \in live
    BY <2>2 DEF Counted, Alive
  <2>4. QED
    BY <2>1, <2>2, <2>3
<1>4. Others(c)
  BY <1>1, <1>2 DEF Types, Others
<1>5. cur'[c] = x
  BY <1>1 DEF Types
<1> HIDE DEF x
<1>6. \A m \in Msg : Cardinality(Holding(queue', m))
                       = Cardinality(Holding(queue, m)) + IF m = x THEN -1 ELSE 0
  <2> SUFFICES ASSUME NEW m \in Msg
               PROVE  Cardinality(Holding(queue', m))
                        = Cardinality(Holding(queue, m)) + IF m = x THEN -1 ELSE 0
    OBVIOUS
  <2>1. Cardinality(Holding(queue', m))
          = Cardinality(Holding(queue, m)) - IF Head(queue[c]) = m THEN 1 ELSE 0
    <3>1. queue \in [Client -> Seq(Msg)] /\ queue[c] # <<>> /\ Len(queue[c]) <= MAX_QUEUE_LENGTH
          /\ queue'[c] = Tail(queue[c]) /\ \A d \in Client : d # c => queue'[d] = queue[d]
      BY <1>1, <1>3
    <3>2. QED
      BY ONLY c \in Client, m \in Msg, <3>1, Popped
  <2>2. QED
    BY <2>1, HoldingFinite DEF x
<1>7. \A m \in Msg : Weight(Place(c)', cur'[c], m)
                       = Weight(Place(c), cur[c], m) - IF m = x THEN -1 ELSE 0
  BY <1>1, <1>2, <1>5 DEF Weight, Ones, Twos
<1>8. \A d \in Client : \A i \in 1 .. Len(queue'[d]) : queue'[d][i] \in live
  <2> SUFFICES ASSUME NEW d \in Client, NEW i \in 1 .. Len(queue'[d])
               PROVE  queue'[d][i] \in live
    OBVIOUS
  <2>1. CASE d # c
    BY <1>1, <1>3, <2>1 DEF Counted, Alive
  <2>2. CASE d = c
    <3>1. queue'[d] = Tail(queue[c]) /\ queue[c] \in Seq(Msg) /\ queue[c] # <<>>
      BY <1>1, <1>3, <2>2
    <3>2. Len(queue'[d]) = Len(queue[c]) - 1
      BY <3>1
    <3>3. i \in 1 .. Len(queue[c]) - 1
      BY <3>2
    <3>4. queue'[d][i] = queue[c][i + 1] /\ i + 1 \in 1 .. Len(queue[c])
      BY <1>3, <3>1, <3>3
    <3>5. QED
      BY <3>4 DEF Counted, Alive
  <2>3. QED
    BY <2>1, <2>2
<1>9. pc'[c] \notin Fresh /\ pc'[c] \notin After /\ cur'[c] \in live
  BY <1>1, <1>2, <1>3, <1>5 DEF Fresh, After
<1>10. QED
  BY <1>1, <1>3, <1>4, <1>6, <1>7, <1>8, <1>9, QueueStep

\* Where the UART thread or a client moves from l to then
LEMMA Moved ==
  ASSUME Types, NEW t \in Thread, NEW l, Goto(t, l),
         l \in IF t = Uart THEN UartLabel ELSE ClientLabel
  PROVE  pc'[t] = l /\ \A u \in Thread : u # t => pc'[u] = pc[u]
  BY Moves DEF Own

LEMMA TakeCounted ==
  ASSUME Indivisible, IInv, IInv', Counted, NEW l, NEW then, Take(Uart, l, then),
         <<l, then>> \in {<<"hold", "fan">>, <<"take", "push">>}
  PROVE  Counted'
<1>1. /\ pc[Uart] = l /\ ref' = [ref EXCEPT ![cur[Uart]] = ref[cur[Uart]] + 1]
      /\ Goto(Uart, then) /\ UNCHANGED <<queue, live, next, cur, back>>
  BY DEF Take, ReadRef, Read, Ready, Seen, At, net
<1>2. (l = "hold" /\ then = "fan") \/ (l = "take" /\ then = "push")
  OBVIOUS
<1>3. /\ pc'[Uart] = then /\ \A u \in Thread : u # Uart => pc'[u] = pc[u]
      /\ Place(Uart) = l /\ Place(Uart)' = then
  BY <1>1, <1>2, Threads, Moved DEF UartLabel, IInv, Place, After
<1>4. Place(Uart) \in InUse /\ cur[Uart] \in Msg
  BY <1>1, <1>2, <1>3, Threads DEF InUse, Ones, Fresh, Counted, Alive, IInv, Types
<1>5. /\ Weight(Place(Uart)', cur[Uart], cur[Uart]) = Weight(Place(Uart), cur[Uart], cur[Uart]) + 1
      /\ pc'[Uart] \notin Fresh /\ pc'[Uart] \notin {"free", "release"}
  BY <1>1, <1>2, <1>3 DEF Weight, Ones, Twos, Fresh
<1>6. CountBy(Uart, 1)
  BY <1>1, <1>3, <1>4, <1>5 DEF CountBy, Others
<1>7. QED
  BY <1>6, Threads, CountStep

\* Who drops what, and goes where
Drops(t, l, then) ==
  \/ t = Uart /\ l = "undo" /\ then = "fan"
  \/ t = Uart /\ l = "drop" /\ then = "unlock"
  \/ t \in Client /\ l = "sent" /\ then = "serve"
  \/ t \in Client /\ l = "failed" /\ then = "unregister"
  \/ t \in Client /\ l = "drained" /\ then = "drain"

LEMMA DropCounted ==
  ASSUME Indivisible, IInv, IInv', Counted, NEW t, NEW l, NEW then, Drop(t, l, then),
         Drops(t, l, then)
  PROVE  Counted'
<1>1. /\ pc[t] = l /\ ref' = [ref EXCEPT ![cur[t]] = ref[cur[t]] - 1]
      /\ UNCHANGED <<queue, live, next, cur>>
      /\ Goto(t, "test") /\ back' = [back EXCEPT ![t] = then]
  BY DEF Drop, ReadRef, Read, Ready, Seen, At, net
<1>2. t \in Thread /\ Types
  BY Threads DEF Drops, IInv
<1>3. pc'[t] = "test" /\ \A u \in Thread : u # t => pc'[u] = pc[u]
  BY <1>1, <1>2, Moved DEF UartLabel, ClientLabel
<1>4. back'[t] = then /\ \A u \in Thread : u # t => back'[u] = back[u]
  BY <1>1, <1>2 DEF Types
<1>5. Place(t) = l /\ Place(t)' = IF l = "undo" THEN "fan" ELSE "test"
  BY <1>1, <1>3, <1>4, Threads DEF Place, After, Drops
<1>6. Place(t) \in InUse /\ cur[t] \in live /\ cur[t] \in Msg
  BY <1>2, <1>5 DEF InUse, Ones, Twos, Counted, Alive, Types, Drops
<1>7. ref' = [ref EXCEPT ![cur[t]] = ref[cur[t]] + (-1)]
  <2>1. ref[cur[t]] \in Int
    BY <1>2, <1>6 DEF Types
  <2>2. QED
    BY <1>1, <2>1
<1>8. Weight(Place(t)', cur[t], cur[t]) = Weight(Place(t), cur[t], cur[t]) + (-1)
  BY <1>5 DEF Weight, Ones, Twos, Drops
<1>9. pc'[t] \notin Fresh /\ pc'[t] \notin {"free", "release"}
  BY <1>3 DEF Fresh
<1>10. CountBy(t, -1)
  BY <1>1, <1>3, <1>4, <1>6, <1>7, <1>8, <1>9 DEF CountBy, Others
<1>11. QED
  BY <1>2, <1>10, CountStep

\* Where a thread returns to from socket_msg_free
LEMMA ReturnStep ==
  ASSUME IInv, NEW t \in Thread, pc[t] \in After, Return(t)
  PROVE  /\ Others(t) /\ pc'[t] = back[t] /\ back[t] \in {"fan", "unlock", "serve", "unregister", "drain"}
         /\ t = Uart => cur' = cur
         /\ t # Uart => back[t] # "fan"
<1>1. /\ back[t] \in {"fan", "unlock", "serve", "unregister", "drain"}
      /\ back[t] \in IF t = Uart THEN UartLabel ELSE ClientLabel
      /\ t # Uart => back[t] # "fan"
  BY Threads DEF IInv, Backs, UartLabel, ClientLabel
<1>2. pc'[t] = back[t] /\ \A u \in Thread : u # t => pc'[u] = pc[u]
  BY <1>1, Moved DEF IInv, Return
<1>3. /\ \A u \in Thread : u # t => cur'[u] = cur[u] /\ back'[u] = back[u]
      /\ t = Uart => cur' = cur
  BY DEF Return, LetGo, IInv, Types
<1>4. QED
  BY <1>1, <1>2, <1>3 DEF Others

LEMMA TestCounted ==
  ASSUME IInv, IInv', Counted, NEW t \in Thread, Test(t)
  PROVE  Counted'
<1>1. /\ pc[t] = "test" /\ pc[t] \in After /\ UNCHANGED <<queue, ref, live, next>> /\ Types
      /\ \/ ref[cur[t]] = 0 /\ Goto(t, "free") /\ UNCHANGED <<back, cur>>
         \/ Return(t)
  BY DEF Test, At, net, After, IInv
<1>2. CASE Return(t)
  <2>1. /\ Others(t) /\ pc'[t] = back[t] /\ (t = Uart => cur' = cur)
        /\ back[t] \in {"fan", "unlock", "serve", "unregister", "drain"}
        /\ t # Uart => back[t] # "fan"
    BY <1>1, <1>2, ReturnStep
  <2>2. /\ Place(t) = IF back[t] = "fan" THEN "fan" ELSE "test"
        /\ Place(t)' = back[t] /\ pc'[t] \notin After
    BY <1>1, <2>1 DEF Place, After
  <2>3. cur'[t] = cur[t] \/ back[t] # "fan"
    BY <2>1
  <2>4. Quiet(t)
    BY <1>1, <2>1, <2>2, <2>3 DEF Quiet, InUse, Ones, Twos, Fresh, After
  <2>5. QED
    BY <2>4, QuietStep
<1>3. CASE ref[cur[t]] = 0 /\ Goto(t, "free") /\ UNCHANGED <<back, cur>>
  <2>1. pc'[t] = "free" /\ \A u \in Thread : u # t => pc'[u] = pc[u]
    BY <1>1, <1>3, Moved DEF UartLabel, ClientLabel
  <2>2. back[t] # "fan"
    <3> SUFFICES ASSUME back[t] = "fan" PROVE FALSE
      OBVIOUS
    <3>1. Place(t) = "fan"
      BY <1>1 DEF Place
    <3>2. cur[t] \in live
      BY <3>1, Kinds DEF Counted, Alive, InUse
    <3>3. Weight(Place(t), cur[t], cur[t]) = 1
      BY <3>1 DEF Weight, Ones
    <3>4. ref[cur[t]] = Holders(cur[t]) /\ cur[t] \in Msg
      BY <1>1, <3>2 DEF Counted, RefExact, Types
    <3>5. Backs
      BY DEF IInv
    <3>6. QED
      BY <1>1, <1>3, <3>3, <3>4, <3>5, HoldersCover
  <2>3. Place(t) = "test" /\ Place(t)' = "free"
    BY <1>1, <1>3, <2>1, <2>2 DEF Place
  <2>4. Quiet(t)
    BY <1>1, <1>3, <2>1, <2>2, <2>3 DEF Quiet, Others, InUse, Ones, Twos, Fresh, After
  <2>5. QED
    BY <2>4, QuietStep
<1>4. QED
  BY <1>1, <1>2, <1>3

LEMMA FreeCounted ==
  ASSUME Indivisible, IInv, IInv', Counted, NEW t \in Thread, Free(t)
  PROVE  Counted'
<1>1. /\ pc[t] = "free" /\ Goto(t, "release") /\ Types
      /\ UNCHANGED <<queue, ref, live, next, cur, back>>
  BY DEF Free, Read, Ready, At, net, IInv
<1>2. pc'[t] = "release" /\ \A u \in Thread : u # t => pc'[u] = pc[u]
  BY <1>1, Moved DEF UartLabel, ClientLabel
<1>3. ref[cur[t]] = 0 /\ back[t] # "fan"
  BY <1>1 DEF Counted, Unheld
<1>4. Place(t) = "free" /\ Place(t)' = "release"
  BY <1>1, <1>2, <1>3 DEF Place
<1>5. Quiet(t)
  BY <1>1, <1>2, <1>3, <1>4 DEF Quiet, Others, InUse, Ones, Twos, Fresh, After
<1>6. QED
  BY <1>5, QuietStep

LEMMA ReleaseCounted ==
  ASSUME IInv, IInv', Counted, NEW t \in Thread, Release(t)
  PROVE  Counted'
<1>1. /\ Types /\ Backs /\ pc[t] = "release" /\ pc[t] \in After
      /\ live' = live \ {cur[t]} /\ UNCHANGED <<queue, ref, next>> /\ Return(t)
  BY DEF IInv, Release, At, net, After
<1>2. ref[cur[t]] = 0 /\ back[t] # "fan"
  BY <1>1 DEF Counted, Unheld
<1>3. /\ Others(t) /\ pc'[t] = back[t] /\ back[t] \in {"unlock", "serve", "unregister", "drain"}
  BY <1>1, <1>2, ReturnStep
<1>4. /\ Place(t) \notin InUse /\ Place(t)' \notin InUse
      /\ pc'[t] \notin After /\ pc'[t] \notin Fresh
  BY <1>1, <1>2, <1>3 DEF Place, InUse, Ones, Twos, Fresh, After
<1>5. cur[t] \in live => Holders(cur[t]) = 0
  BY <1>2 DEF Counted, RefExact
<1>6. \A u \in Thread : u # t /\ Place(u) \in InUse => cur[u] \in live /\ cur[u] # cur[t]
  <2> SUFFICES ASSUME NEW u \in Thread, u # t, Place(u) \in InUse, cur[u] = cur[t], cur[t] \in live
               PROVE FALSE
    BY DEF Counted, Alive
  <2>1. Place(u) \notin Fresh
    <3> SUFFICES ASSUME Place(u) \in Fresh PROVE FALSE
      OBVIOUS
    <3>1. u = Uart /\ pc[u] \in Fresh /\ t \in Client
      BY Placed, Threads
    <3>2. QED
      BY <1>1, <3>1 DEF Counted, Unheld
  <2>2. Weight(Place(u), cur[u], cur[t]) \in 1 .. 2
    BY <2>1 DEF InUse, Weight
  <2>3. Weight(Place(u), cur[u], cur[t]) <= Holders(cur[t])
    BY <1>1, HoldersCover
  <2>4. QED
    BY <1>5, <2>2, <2>3
<1>7. RefExact'
  <2> DEFINE a == [m \in Msg |-> 0]
  <2>1. a \in [Msg -> Int] /\ \A m \in Msg : a[m] = 0
    OBVIOUS
  <2> HIDE DEF a
  <2>2. ASSUME NEW m \in live'
        PROVE  /\ Cardinality(Holding(queue', m)) = Cardinality(Holding(queue, m)) + a[m]
               /\ ref[m] = Holders(m)
               /\ ref'[m] = ref[m] + a[m] + Weight(Place(t)', cur'[t], m) - Weight(Place(t), cur[t], m)
    <3>1. m \in Msg /\ m \in live /\ ref[m] \in Int /\ ref[m] = Holders(m)
      BY <1>1 DEF Types, Counted, RefExact
    <3>2. Cardinality(Holding(queue', m)) = Cardinality(Holding(queue, m))
          /\ Cardinality(Holding(queue, m)) \in Nat
      BY <1>1, HoldingFinite
    <3>3. Weight(Place(t), cur[t], m) = 0 /\ Weight(Place(t)', cur'[t], m) = 0
      BY <1>4 DEF Weight, InUse
    <3>4. QED
      BY <1>1, <2>1, <3>1, <3>2, <3>3
  <2>3. QED
    BY <1>3, <2>1, <2>2, RefExactStep
<1>8. Alive'
  <2>1. ASSUME NEW c \in Client, NEW i \in 1 .. Len(queue[c]) PROVE queue[c][i] \in live'
    <3>1. queue[c][i] \in live
      BY DEF Counted, Alive
    <3>2. queue[c][i] # cur[t]
      BY <1>1, <1>5, <3>1, HoldersCover
    <3>3. QED
      BY <1>1, <3>1, <3>2
  <2>2. \A u \in Thread : Place(u)' \in InUse => cur'[u] \in live'
    BY <1>1, <1>3, <1>4, <1>6, OthersPlace DEF Others
  <2>3. QED
    BY <1>1, <2>1, <2>2 DEF Alive
<1>9. \A u \in Thread : /\ pc'[u] \in Fresh => pc[u] \in Fresh /\ cur'[u] = cur[u]
                        /\ pc'[u] \in After => pc[u] \in After /\ cur'[u] = cur[u]
                                               /\ pc'[u] = pc[u] /\ back'[u] = back[u]
  BY <1>3, <1>4 DEF Others
<1>10. Unheld'
  BY <1>1, <1>9, Threads DEF Counted, Unheld, After
<1>11. Unused'
  BY <1>1, <1>9, Threads DEF Counted, Unused
<1>12. QED
  BY <1>7, <1>8, <1>10, <1>11 DEF Counted

LEMMA MallocCounted == ASSUME IInv, IInv', Counted, Malloc PROVE Counted'
<1>1. /\ pc[Uart] = "malloc" /\ Place(Uart) = "malloc" /\ Uart \in Thread /\ Types /\ Types'
      /\ UNCHANGED <<queue, ref, misused, back>>
  BY Threads DEF Malloc, At, net, IInv, Place, After
<1>2. CASE GoScan /\ UNCHANGED <<live, next, cur>>
  <2>1. /\ pc'[Uart] = "scan" /\ \A u \in Thread : u # Uart => pc'[u] = pc[u]
        /\ Place(Uart)' = "scan"
    BY <1>1, <1>2, Moved DEF GoScan, UartLabel, Place, After
  <2>2. Quiet(Uart)
    BY <1>1, <1>2, <2>1 DEF Quiet, Others, InUse, Ones, Twos, Fresh, After
  <2>3. QED
    BY <1>1, <2>2, QuietStep
<1>3. CASE /\ live' = live \cup {next} /\ cur' = [cur EXCEPT ![Uart] = next]
           /\ next' = next + 1 /\ Goto(Uart, "add")
  <2>1. /\ pc'[Uart] = "add" /\ \A u \in Thread : u # Uart => pc'[u] = pc[u]
        /\ Place(Uart)' = "add"
    BY <1>1, <1>3, Moved DEF UartLabel, Place, After
  <2>2. cur'[Uart] = next /\ Others(Uart)
    BY <1>1, <1>3, <2>1 DEF Types, Others
  <2>3. next \in Msg /\ next \notin live /\ ref[next] = 0 /\ Holders(next) = 0
    <3>1. next \in Msg
      BY <1>1, <1>3 DEF Types
    <3>2. next \notin live /\ ref[next] = 0
      BY <3>1 DEF Counted, Unused, Msg
    <3>3. QED
      BY <3>1, <3>2, NoHolder DEF Counted
  <2>4. RefExact'
    <3> DEFINE a == [m \in Msg |-> 0]
    <3>1. a \in [Msg -> Int] /\ \A m \in Msg : a[m] = 0
      OBVIOUS
    <3> HIDE DEF a
    <3>2. ASSUME NEW m \in live'
          PROVE  /\ Cardinality(Holding(queue', m)) = Cardinality(Holding(queue, m)) + a[m]
                 /\ ref[m] = Holders(m)
                 /\ ref'[m] = ref[m] + a[m] + Weight(Place(Uart)', cur'[Uart], m)
                                            - Weight(Place(Uart), cur[Uart], m)
      <4>1. m \in Msg /\ ref[m] \in Int /\ ref[m] = Holders(m)
        BY <1>1, <1>3, <2>3 DEF Types, Counted, RefExact
      <4>2. Cardinality(Holding(queue', m)) = Cardinality(Holding(queue, m))
            /\ Cardinality(Holding(queue, m)) \in Nat
        BY <1>1, HoldingFinite
      <4>3. Weight(Place(Uart), cur[Uart], m) = 0 /\ Weight(Place(Uart)', cur'[Uart], m) = 0
        BY <1>1, <2>1 DEF Weight, Ones, Twos
      <4>4. QED
        BY <1>1, <3>1, <4>1, <4>2, <4>3
    <3>3. QED
      BY <1>1, <2>2, <3>1, <3>2, RefExactStep
  <2>5. Alive'
    BY <1>1, <1>3, <2>1, <2>2, OthersPlace DEF Counted, Alive, Others
  <2>6. Unheld'
    <3>1. \A c \in Client : pc'[c] \in After => cur'[c] # next
      BY <2>2, <2>3, Threads DEF Counted, Unused, Others, Msg
    <3>2. \A u \in Thread : pc'[u] \in {"free", "release"} =>
                            pc'[u] = pc[u] /\ cur'[u] = cur[u] /\ back'[u] = back[u]
      BY <2>1, <2>2 DEF Others
    <3>3. QED
      BY <1>1, <2>2, <2>3, <3>1, <3>2 DEF Counted, Unheld
  <2>7. Unused'
    <3>1. \A m \in Msg : m >= next + 1 => m >= next /\ m # next
      BY <2>3 DEF Msg
    <3>2. QED
      BY <1>1, <1>3, <2>2, <3>1, Threads DEF Counted, Unused, Others
  <2>8. QED
    BY <2>4, <2>5, <2>6, <2>7 DEF Counted
<1>4. QED
  BY <1>2, <1>3 DEF Malloc

LEMMA AddCounted == ASSUME Indivisible, IInv, IInv', Counted, Add PROVE Counted'
<1>1. /\ pc[Uart] = "add" /\ Uart \in Thread /\ Goto(Uart, "lock")
      /\ ref' = [ref EXCEPT ![cur[Uart]] = 0] /\ Types
      /\ UNCHANGED <<queue, live, next, cur, back>>
  BY Threads DEF Add, Read, Ready, At, net, IInv
<1>2. /\ pc'[Uart] = "lock" /\ \A u \in Thread : u # Uart => pc'[u] = pc[u]
      /\ Place(Uart) = "add" /\ Place(Uart)' = "lock"
  BY <1>1, Moved DEF UartLabel, Place, After
<1>3. ref[cur[Uart]] = 0
  BY <1>1 DEF Counted, Unheld, Fresh
<1>4. ref' = ref
  BY <1>1, <1>3 DEF Types
<1>5. Quiet(Uart)
  BY <1>1, <1>2, <1>4 DEF Quiet, Others, InUse, Fresh, After
<1>6. QED
  BY <1>1, <1>5, QuietStep

\* The other steps of the UART thread, each from l to m
LEMMA UartQuiet ==
  ASSUME IInv, IInv', Counted, Scan \/ Limit \/ Lock \/ Fan \/ Unlock
  PROVE  Counted'
<1>1. Uart \in Thread /\ UNCHANGED <<queue, ref, live, next, back>> /\ Types
  BY Threads DEF IInv, Types, Scan, Limit, Lock, Fan, Unlock, net, heap
<1>3. ASSUME NEW l, NEW m, pc[Uart] = l, Goto(Uart, m), cur' = cur,
             <<l, m>> \in {<<"scan", "limit">>, <<"limit", "scan">>, <<"limit", "malloc">>,
                           <<"lock", "hold">>, <<"fan", "drop">>, <<"fan", "take">>}
      PROVE  Counted'
  <2>1. /\ pc'[Uart] = m /\ \A u \in Thread : u # Uart => pc'[u] = pc[u]
        /\ Place(Uart) = l /\ Place(Uart)' = m /\ m \notin After
    BY <1>1, <1>3, Moved DEF UartLabel, Place, After
  <2>2. Quiet(Uart)
    BY <1>1, <1>3, <2>1 DEF Quiet, Others, InUse, Ones, Twos, Fresh, After
  <2>3. QED
    BY <1>1, <2>2, QuietStep
<1>4. ASSUME pc' = pc, cur' = cur, pc[Uart] \in {"scan", "fan"} PROVE Counted'
  <2>1. Place(Uart) = pc[Uart] /\ Place(Uart)' = pc[Uart]
    BY <1>4 DEF Place, After
  <2>2. Quiet(Uart)
    BY <1>1, <1>4, <2>1 DEF Quiet, Others, InUse, Ones, Twos, Fresh, After
  <2>3. QED
    BY <1>1, <2>2, QuietStep
<1>5. CASE Scan
  BY <1>3, <1>4, <1>5 DEF Scan, At
<1>6. CASE Limit
  BY <1>3, <1>6 DEF Limit, At, GoScan
<1>7. CASE Lock
  BY <1>3, <1>7 DEF Lock, At
<1>8. CASE Fan
  BY <1>3, <1>4, <1>8 DEF Fan, At
<1>9. CASE Unlock
  <2>1. /\ pc[Uart] = "unlock" /\ Goto(Uart, "scan")
        /\ \A u \in Thread : u # Uart => cur'[u] = cur[u]
    BY <1>1, <1>9 DEF Unlock, At, GoScan, Types
  <2>2. /\ pc'[Uart] = "scan" /\ \A u \in Thread : u # Uart => pc'[u] = pc[u]
        /\ Place(Uart) = "unlock" /\ Place(Uart)' = "scan"
    BY <1>1, <2>1, Moved DEF UartLabel, Place, After
  <2>3. Quiet(Uart)
    BY <1>1, <2>1, <2>2 DEF Quiet, Others, InUse, Ones, Twos, Fresh, After
  <2>4. QED
    BY <1>1, <2>3, QuietStep
<1>10. QED
  BY <1>5, <1>6, <1>7, <1>8, <1>9

LEMMA UartCounted == ASSUME Indivisible, IInv, IInv', Counted, UartNext PROVE Counted'
<1>1. Uart \in Thread
  BY Threads
<1>2. CASE Hold \/ TakeForQueue
  BY <1>2, TakeCounted DEF Hold, TakeForQueue
<1>3. CASE Undo \/ DropOwn
  BY <1>3, DropCounted DEF Undo, DropOwn, Drops
<1>4. QED
  BY <1>1, <1>2, <1>3, AddCounted, UartQuiet, MallocCounted, PushCounted, TestCounted,
     FreeCounted, ReleaseCounted DEF UartNext

\* The steps of a client that are not about a count
LEMMA ClientQuiet ==
  ASSUME IInv, IInv', Counted, NEW c \in Client,
         Connect(c) \/ Register(c) \/ Write(c) \/ Close(c) \/ Unregister(c) \/ Deinit(c)
  PROVE  Counted'
<1>1. /\ Types /\ c \in Thread /\ UNCHANGED <<ref, live, next, back, cur>>
  BY Threads DEF IInv, Connect, Register, Write, Close, Unregister, Deinit, heap
<1>3. queue' = queue
  <2>1. CASE Connect(c)
    BY <1>1, <2>1 DEF Connect, At, IInv, Queues, Types
  <2>2. QED
    BY <2>1 DEF Register, Write, Close, Unregister, Deinit, net
<1>4. PICK m \in ClientLabel :
        /\ Goto(c, m) /\ m \notin After
        /\ \/ pc[c] = "write" /\ m \in {"sent", "failed"}
           \/ pc[c] \notin InUse /\ m \notin InUse
  BY ClientOwn DEF Connect, Register, Write, Close, Unregister, Deinit, At, InUse, Ones, Twos, Fresh, After
<1>5. /\ pc'[c] = m /\ \A u \in Thread : u # c => pc'[u] = pc[u]
      /\ Place(c) = pc[c] /\ Place(c)' = m
  BY <1>1, <1>4, ClientOwn, Moves, Placed DEF Place
<1>6. Quiet(c)
  BY <1>1, <1>3, <1>4, <1>5 DEF Quiet, Others, InUse, Ones, Twos, Fresh, After
<1>7. QED
  BY <1>1, <1>6, QuietStep

LEMMA ClientCounted ==
  ASSUME Indivisible, IInv, IInv', Counted, NEW c \in Client, ClientNext(c)
  PROVE  Counted'
<1>1. c \in Thread
  BY Threads
<1>2. CASE Sent(c)
  BY <1>2, DropCounted DEF Sent, Drops
<1>3. CASE Serve(c)
  BY <1>3, PopCounted DEF Serve
<1>4. CASE Drain(c)
  <2>1. CASE Pop(c, "drain", "drained")
    BY <2>1, PopCounted
  <2>2. CASE Drop(c, "drained", "drain")
    BY <2>2, DropCounted DEF Drops
  <2>3. QED
    BY <1>4, <2>1, <2>2 DEF Drain
<1>5. QED
  BY <1>1, <1>2, <1>3, <1>4, ClientQuiet, TestCounted, FreeCounted, ReleaseCounted
  DEF ClientNext, Work

-----------------------------------------------------------------------------
(* The memory that messages take. *)

\* The threads between the two halves of the free of a message
Releasing == {t \in Thread : At(t, "release")}

\* Until a double free, sockmsg_len counts every message from Add to Free.
Taken ==
  \/ misused
  \/ /\ len = Cardinality(live) - (IF pc[Uart] = "add" THEN 1 ELSE 0) - Cardinality(Releasing)
     /\ len <= MaxLen + 1
     /\ pc[Uart] \in {"malloc", "add"} => len <= MaxLen

LEMMA LiveFinite ==
  ASSUME Types PROVE IsFiniteSet(live) /\ Cardinality(live) \in Nat
<1>1. IsFiniteSet(Msg)
  BY SppAssumption, FS_Interval DEF Msg
<1>2. live \in SUBSET Msg
  BY DEF Types
<1>3. QED
  BY <1>1, <1>2, FS_Subset, FS_CardinalityType

LEMMA ReleasingFinite ==
  /\ IsFiniteSet(Releasing) /\ Cardinality(Releasing) \in Nat
  /\ IsFiniteSet(Releasing') /\ Cardinality(Releasing') \in Nat
<1>1. IsFiniteSet(Thread)
  BY SppAssumption, FS_AddElement DEF Thread
<1>2. Releasing \in SUBSET Thread /\ Releasing' \in SUBSET Thread
  BY DEF Releasing
<1>3. QED
  BY <1>1, <1>2, FS_Subset, FS_CardinalityType

LEMMA TakenKept ==
  ASSUME Taken, ~misused, UNCHANGED <<live, len, Releasing>>,
         \/ pc'[Uart] = pc[Uart]
         \/ /\ pc[Uart] # "add" /\ pc'[Uart] # "add"
            /\ pc'[Uart] = "malloc" => len <= MaxLen
  PROVE  Taken'
  BY DEF Taken

\* The two halves of the free of a message
LEMMA FreeTaken ==
  ASSUME Indivisible, IInv, Taken, ~misused, NEW t \in Thread, Free(t)
  PROVE  Taken'
<1>1. /\ Types /\ pc[t] = "free" /\ live' = live /\ len' = len - 1 /\ Goto(t, "release")
  BY DEF IInv, Free, Read, Ready, Seen, At
<1>2. pc'[t] = "release" /\ \A u \in Thread : u # t => pc'[u] = pc[u]
  BY <1>1, Moved DEF UartLabel, ClientLabel
<1>3. Releasing' = Releasing \cup {t} /\ t \notin Releasing
  BY <1>1, <1>2 DEF Releasing, At
<1>4. Cardinality(Releasing') = Cardinality(Releasing) + 1
  BY <1>3, ReleasingFinite, FS_AddElement
<1>5. /\ pc'[Uart] = "add" <=> pc[Uart] = "add"
      /\ pc'[Uart] = "malloc" => pc[Uart] = "malloc"
  BY <1>1, <1>2, Threads
<1>6. MaxLen \in Nat /\ Cardinality(live) \in Nat
  BY <1>1, LiveFinite, SppAssumption
<1>7. QED
  BY <1>1, <1>4, <1>5, <1>6, ReleasingFinite DEF Taken

LEMMA ReleaseTaken ==
  ASSUME IInv, Taken, ~misused, NEW t \in Thread, Release(t)
  PROVE  Taken'
<1>1. /\ Types /\ pc[t] = "release" /\ pc[t] \in After /\ live' = live \ {cur[t]} /\ len' = len
      /\ Return(t) /\ misused' = (misused \/ cur[t] \notin live)
  BY DEF IInv, Release, At, After, Touch
<1>2. /\ Others(t) /\ pc'[t] = back[t]
      /\ back[t] \in {"fan", "unlock", "serve", "unregister", "drain"}
  BY <1>1, ReturnStep
<1>3. Releasing' = Releasing \ {t} /\ t \in Releasing
  BY <1>1, <1>2 DEF Releasing, At, Others
<1>4. Cardinality(Releasing') = Cardinality(Releasing) - 1
  BY <1>3, ReleasingFinite, FS_RemoveElement
<1>5. /\ pc'[Uart] = "add" <=> pc[Uart] = "add"
      /\ pc'[Uart] = "malloc" => pc[Uart] = "malloc"
  BY <1>1, <1>2, Threads DEF Others
<1>6. CASE cur[t] \notin live
  BY <1>1, <1>6 DEF Taken
<1>7. CASE cur[t] \in live
  <2>1. Cardinality(live') = Cardinality(live) - 1 /\ Cardinality(live) \in Nat
    BY <1>1, <1>7, LiveFinite, FS_RemoveElement
  <2>2. QED
    BY <1>1, <1>4, <1>5, <2>1, ReleasingFinite, SppAssumption DEF Taken
<1>8. QED
  BY <1>6, <1>7

\* A step of thread t that neither frees nor counts a message
LEMMA OtherTaken ==
  ASSUME IInv, Taken, ~misused, NEW t \in Thread, UNCHANGED <<live, len>>,
         \/ UNCHANGED pc
         \/ /\ pc[t] \notin {"add", "release"}
            /\ \E l \in IF t = Uart THEN UartLabel ELSE ClientLabel :
                 Goto(t, l) /\ l \notin {"add", "release"} /\ (l = "malloc" => len <= MaxLen)
  PROVE  Taken'
<1>1. CASE UNCHANGED pc
  <2>1. UNCHANGED Releasing
    BY <1>1 DEF Releasing, At
  <2>2. QED
    BY <1>1, <2>1, TakenKept
<1>2. CASE ~UNCHANGED pc
  <2>1. PICK l \in IF t = Uart THEN UartLabel ELSE ClientLabel :
          Goto(t, l) /\ l \notin {"add", "release"} /\ (l = "malloc" => len <= MaxLen)
    BY <1>2
  <2>2. pc'[t] = l /\ \A u \in Thread : u # t => pc'[u] = pc[u]
    BY <2>1, Moved DEF IInv
  <2>3. UNCHANGED Releasing
    BY <1>2, <2>1, <2>2 DEF Releasing, At
  <2>4. QED
    BY <1>2, <2>1, <2>2, <2>3, Threads, TakenKept
<1>3. QED
  BY <1>1, <1>2

LEMMA UartTaken ==
  ASSUME Indivisible, IInv, Counted, Taken, ~misused, UartNext PROVE Taken'
<1>1. Types /\ Uart \in Thread /\ Cardinality(live) \in Nat /\ MaxLen \in Nat
  BY Threads, LiveFinite, SppAssumption DEF IInv
<1>2. CASE Add
  <2>1. /\ pc[Uart] = "add" /\ Goto(Uart, "lock") /\ len' = len + 1 /\ live' = live
    BY <1>2 DEF Add, Read, Ready, Seen, At
  <2>2. pc'[Uart] = "lock" /\ \A u \in Thread : u # Uart => pc'[u] = pc[u]
    BY <1>1, <2>1, Moved DEF UartLabel
  <2>3. Releasing' = Releasing
    BY <2>1, <2>2 DEF Releasing, At
  <2>4. len \in Int
    BY <1>1 DEF Types
  <2>5. QED
    BY <1>1, <2>1, <2>2, <2>3, <2>4, ReleasingFinite DEF Taken
<1>3. CASE Malloc
  <2>1. CASE GoScan /\ UNCHANGED live
    <3>1. pc[Uart] = "malloc" /\ Goto(Uart, "scan") /\ UNCHANGED <<live, len>>
      BY <1>3, <2>1 DEF Malloc, GoScan, At
    <3>2. QED
      BY <1>1, <3>1, OtherTaken DEF UartLabel
  <2>2. CASE live' = live \cup {next} /\ next' = next + 1 /\ Goto(Uart, "add")
    <3>1. pc[Uart] = "malloc" /\ len' = len
      BY <1>3 DEF Malloc, At
    <3>2. pc'[Uart] = "add" /\ \A u \in Thread : u # Uart => pc'[u] = pc[u]
      BY <1>1, <2>2, Moved DEF UartLabel
    <3>3. next \notin live
      <4>1. next \in 1 .. Packets + 1
        BY <1>1 DEF Types
      <4>2. \A m \in live : m \in Msg /\ m # next
        BY <1>1, <4>1 DEF Counted, Unused, Types, Msg
      <4>3. QED
        BY <4>2
    <3>4. Cardinality(live') = Cardinality(live) + 1
      BY <1>1, <2>2, <3>3, LiveFinite, FS_AddElement
    <3>5. Releasing' = Releasing
      BY <3>1, <3>2 DEF Releasing, At
    <3>6. QED
      BY <1>1, <3>1, <3>2, <3>4, <3>5, ReleasingFinite DEF Taken
  <2>3. QED
    BY <1>3, <2>1, <2>2 DEF Malloc
<1>4. CASE Free(Uart) \/ Release(Uart)
  BY <1>1, <1>4, FreeTaken, ReleaseTaken
<1>5. CASE \/ Scan \/ Limit \/ Lock \/ Hold \/ Fan \/ TakeForQueue \/ Push \/ Undo \/ DropOwn
           \/ Unlock
  <2>1. UNCHANGED <<live, len>>
    BY <1>5 DEF Scan, Limit, Lock, Hold, Fan, TakeForQueue, Push, Undo, DropOwn, Unlock,
                Take, Drop, ReadRef, heap
  <2>2. \/ UNCHANGED pc
        \/ /\ pc[Uart] \notin {"add", "release"}
           /\ \E l \in UartLabel :
                Goto(Uart, l) /\ l \notin {"add", "release"} /\ (l = "malloc" => len <= MaxLen)
    BY <1>5, UartOwn DEF Scan, Limit, Lock, Hold, Fan, TakeForQueue, Push, Undo, DropOwn, Unlock,
                Take, Drop, ReadRef, Read, Ready, At, GoScan
  <2>3. QED
    BY <1>1, <2>1, <2>2, OtherTaken
<1>6. CASE Test(Uart)
  <2>1. UNCHANGED <<live, len>> /\ pc[Uart] = "test" /\ pc[Uart] \in After
    BY <1>6 DEF Test, At, After
  <2>2. back[Uart] \in {"fan", "unlock"}
    BY <2>1 DEF IInv, Backs
  <2>3. \E l \in UartLabel :
          Goto(Uart, l) /\ l \notin {"add", "release"} /\ (l = "malloc" => len <= MaxLen)
    BY <1>6, <2>2 DEF Test, Return, UartLabel
  <2>4. QED
    BY <1>1, <2>1, <2>3, OtherTaken
<1>7. QED
  BY <1>2, <1>3, <1>4, <1>5, <1>6 DEF UartNext

LEMMA ClientTaken ==
  ASSUME Indivisible, IInv, Taken, ~misused, NEW c \in Client, ClientNext(c)
  PROVE  Taken'
<1>0. c \in Thread /\ c # Uart
  BY Threads
<1>1. CASE Free(c) \/ Release(c)
  BY <1>0, <1>1, FreeTaken, ReleaseTaken
<1>2. CASE \/ Connect(c) \/ Register(c) \/ Serve(c) \/ Write(c) \/ Sent(c) \/ Close(c)
           \/ Unregister(c) \/ Drain(c) \/ Deinit(c)
  <2>1. UNCHANGED <<live, len>>
    BY <1>2 DEF Connect, Register, Serve, Write, Sent, Close, Unregister, Drain,
                Deinit, Pop, Drop, ReadRef, heap
  <2>2. \/ UNCHANGED pc
        \/ pc[c] # "release" /\ pc[c] # "add"
           /\ \E l \in ClientLabel : Goto(c, l) /\ l # "release"
    BY <1>2, ClientOwn DEF Connect, Register, Serve, Write, Sent, Close, Unregister, Drain,
                Deinit, Pop, Drop, ReadRef, Read, Ready, At
  <2>3. "add" \notin ClientLabel /\ "malloc" \notin ClientLabel
    BY DEF ClientLabel
  <2>4. QED
    BY <1>0, <2>1, <2>2, <2>3, OtherTaken
<1>3. CASE Test(c)
  <2>1. UNCHANGED <<live, len>> /\ pc[c] = "test" /\ pc[c] \in After
    BY <1>3 DEF Test, At, After
  <2>2. back[c] \in {"serve", "unregister", "drain"}
    BY <2>1 DEF IInv, Backs
  <2>3. \E l \in ClientLabel :
          Goto(c, l) /\ l \notin {"add", "release"} /\ (l = "malloc" => len <= MaxLen)
    BY <1>3, <2>2 DEF Test, Return, ClientLabel
  <2>4. QED
    BY <1>0, <2>1, <2>3, OtherTaken
<1>4. QED
  BY <1>1, <1>2, <1>3 DEF ClientNext, Work

-----------------------------------------------------------------------------
(* The invariant of indivisible counts. *)

CInv == Indivisible => Counted /\ Taken

LEMMA InitCInv == Init => CInv
<1> SUFFICES ASSUME Init PROVE Counted /\ Taken
  BY DEF CInv
<1>1. /\ queue = [c \in Client |-> <<>>] /\ ref = [m \in Msg |-> 0] /\ live = {} /\ len = 0
      /\ pc[Uart] = "scan" /\ \A c \in Client : pc[c] = "off"
  BY Threads DEF Init
<1>2. \A t \in Thread : Place(t) \notin InUse /\ pc[t] \notin After /\ pc[t] \notin Fresh
  BY <1>1, Threads DEF InUse, Ones, Twos, Fresh, After, Place
<1>3. RefExact /\ Alive /\ Unheld /\ Unused
  BY <1>1, <1>2, Threads DEF RefExact, Alive, Unheld, Unused, After
<1>4. Taken
  <2>1. Releasing = {}
    BY <1>2 DEF Releasing, At, After
  <2>2. Cardinality(live) = 0 /\ Cardinality(Releasing) = 0 /\ MaxLen \in Nat
    BY <1>1, <2>1, FS_EmptySet, SppAssumption
  <2>3. QED
    BY <1>1, <2>2 DEF Taken
<1>5. QED
  BY <1>3, <1>4 DEF Counted

LEMMA NextCInv == ASSUME IInv, IInv', CInv, [Next]_vars PROVE CInv'
<1> SUFFICES ASSUME Indivisible PROVE Counted' /\ Taken'
  BY DEF CInv
<1>1. Counted /\ Taken
  BY DEF CInv
<1>2. CASE ~misused /\ UartNext
  BY <1>1, <1>2, UartCounted, UartTaken
<1>3. ASSUME ~misused, NEW c \in Client, ClientNext(c) PROVE Counted' /\ Taken'
  BY <1>1, <1>3, ClientCounted, ClientTaken
<1>4. CASE UNCHANGED vars
  <2>1. UNCHANGED <<queue, ref, live, len, misused, next, pc, cur, back>>
    BY <1>4 DEF vars, net, heap, local
  <2>2. Counted'
    BY <1>1, <2>1 DEF Counted, RefExact, Holders, Queued, InHand, OfUart, Alive, Place,
       Unheld, Unused
  <2>3. Taken'
    BY <1>1, <2>1 DEF Taken, Releasing, At
  <2>4. QED
    BY <2>2, <2>3
<1>5. QED
  BY <1>2, <1>3, <1>4 DEF Next

LEMMA AlwaysCInv == Spec => []CInv
  BY InitCInv, NextCInv, AlwaysIInv, PTL DEF Spec

\* With indivisible `ref++` and `ref--` the count of a message in SppProtocol.c is
\* the number of those who hold it.
THEOREM CountsExact == Spec => [](Indivisible => RefExact)
<1>1. CInv => (Indivisible => RefExact)
  BY DEF CInv, Counted
<1>2. QED
  BY <1>1, AlwaysCInv, PTL

\* ... socket_msg_free frees no message that a queue or a thread still holds ...
THEOREM HeldStaysLive == Spec => [](Indivisible => HeldIsLive)
<1>1. IInv /\ CInv => (Indivisible => HeldIsLive)
  BY NoHolder DEF CInv, Counted, HeldIsLive
<1>2. QED
  BY <1>1, AlwaysIInv, AlwaysCInv, PTL

\* ... and the messages allocated exceed MAX_SOCK_MSG_LEN by the one just tested for
\* and by those on their way back to the heap, until one is freed twice.
THEOREM MemoryBounded == Spec => [](Indivisible => MemoryBound)
<1>1. IInv /\ CInv => (Indivisible => MemoryBound)
  <2> SUFFICES ASSUME IInv, CInv, Indivisible PROVE MemoryBound
    OBVIOUS
  <2>1. Types
    BY DEF IInv
  <2>2. Cardinality(live) \in Nat /\ MaxLen \in Nat
    BY <2>1, LiveFinite, SppAssumption
  <2>3. Taken
    BY DEF CInv
  <2>4. misused \/ Cardinality(live) <= MaxLen + 1 + Cardinality(Releasing)
    BY <2>2, <2>3, ReleasingFinite DEF Taken
  <2>5. QED
    BY <2>4 DEF MemoryBound, Releasing
<1>2. QED
  BY <1>1, AlwaysIInv, AlwaysCInv, PTL
============================================================================
