----------------------------- MODULE SppFanout -----------------------------
(***************************************************************************)
(* The fan-out of UART data to the TCP clients: sppUartCommandProcess and  *)
(* the client queues of SppProtocol.c, with the threads that own them      *)
(* (LocalTcpServer.c, RemoteTcpClient.c).                                  *)
(*                                                                         *)
(* The UART thread wraps a packet in one reference-counted message and     *)
(* pushes a pointer to it to the queue of every registered client, under   *)
(* queue_mtx.  A client thread pops, writes to its socket and drops its    *)
(* reference, without the mutex.  The counts are plain ints: `ref++`,      *)
(* `ref--` and the updates of sockmsg_len each read, then write.  With     *)
(* Indivisible, no thread switch falls between the two.                    *)
(*                                                                         *)
(* A queue lives on its client thread's stack, so it is named by the       *)
(* client.  Messages are numbered, so order in a queue is order of sending.*)
(***************************************************************************)
EXTENDS Integers, Sequences, FiniteSets, SequencesExt

CONSTANTS Client,            \* client threads
          NULL,
          MAX_QUEUE_NUM,     \* slots of socket_out_queue, 6 in the source
          MAX_QUEUE_LENGTH,  \* messages a queue holds, 8 in the source
          MaxLen,            \* MAX_SOCK_MSG_LEN, in messages
          Packets,           \* bound: packets the UART thread wraps
          Indivisible

ASSUME SppAssumption ==
  /\ IsFiniteSet(Client) /\ "uart" \notin Client
  /\ NULL \notin Client /\ NULL # "uart" /\ NULL \notin Nat
  /\ MAX_QUEUE_NUM \in Nat \ {0} /\ MAX_QUEUE_LENGTH \in Nat
  /\ MaxLen \in Nat /\ Packets \in Nat
  /\ Indivisible \in BOOLEAN

VARIABLES slots,     \* socket_out_queue
          mtx,       \* the thread that holds queue_mtx, or NULL
          queue,     \* the content of each client's queue
          inited,    \* clients whose queue is initialised
          ref,       \* the reference count of each message
          live,      \* messages allocated and not freed
          len,       \* sockmsg_len, in messages
          next,      \* the number of the next packet
          pc, cur,   \* where each thread is, and the message in its hands
          reg, back, \* the count it has read, and where it goes after a free
          slot,      \* the index of the UART thread's loop
          misused    \* history: a freed message was read, written or freed

net == <<slots, mtx, queue, inited>>
heap == <<ref, live, len, misused>>
local == <<pc, cur, reg, back, slot>>
vars == <<net, heap, next, local>>

Uart == "uart"
Thread == Client \cup {Uart}
Msg == 1 .. Packets
Slots == 1 .. MAX_QUEUE_NUM

At(t, l) == pc[t] = l
Goto(t, l) == pc' = [pc EXCEPT ![t] = l]

-----------------------------------------------------------------------------
\* sppProtocolInit.
Init ==
  /\ slots = [i \in Slots |-> NULL] /\ mtx = NULL
  /\ queue = [c \in Client |-> <<>>] /\ inited = {}
  /\ ref = [m \in Msg |-> 0] /\ live = {} /\ len = 0 /\ misused = FALSE
  /\ next = 1
  /\ pc = [t \in Thread |-> IF t = Uart THEN "scan" ELSE "off"]
  /\ cur = [t \in Thread |-> NULL] /\ reg = [t \in Thread |-> NULL]
  /\ back = [t \in Thread |-> NULL] /\ slot = 1

-----------------------------------------------------------------------------
(* Plain counts: a thread reads into a register, then writes. *)

\* The read of a count, when a thread switch may follow it.
Read(t, l, count) ==
  /\ At(t, l) /\ ~Indivisible /\ reg[t] = NULL
  /\ reg' = [reg EXCEPT ![t] = count]

\* The value a write is computed from.
Ready(t, l) == At(t, l) /\ (Indivisible \/ reg[t] # NULL)
Seen(t, count) == IF Indivisible THEN count ELSE reg[t]
Done(t) == reg' = [reg EXCEPT ![t] = NULL]

\* The thread touches the message in its hands.
Touch(t) == misused' = (misused \/ cur[t] \notin live)

ReadRef(t, l) ==
  /\ Read(t, l, ref[cur[t]])
  /\ Touch(t)
  /\ UNCHANGED <<net, ref, live, len, next, pc, cur, back, slot>>

\* socket_msg_take.
Take(t, l, then) ==
  \/ ReadRef(t, l)
  \/ /\ Ready(t, l)
     /\ ref' = [ref EXCEPT ![cur[t]] = Seen(t, ref[cur[t]]) + 1]
     /\ Touch(t)
     /\ Done(t) /\ Goto(t, then)
     /\ UNCHANGED <<net, live, len, next, cur, back, slot>>

\* A client thread is done with its message; the UART thread is in its loop.
LetGo(t) == cur' = IF t = Uart THEN cur ELSE [cur EXCEPT ![t] = NULL]

\* socket_msg_free, from its place l on: the count goes down ...
Drop(t, l, then) ==
  \/ ReadRef(t, l)
  \/ /\ Ready(t, l)
     /\ ref' = [ref EXCEPT ![cur[t]] = Seen(t, ref[cur[t]]) - 1]
     /\ Touch(t)
     /\ Done(t) /\ Goto(t, "test") /\ back' = [back EXCEPT ![t] = then]
     /\ UNCHANGED <<net, live, len, next, cur, slot>>

Return(t) == Goto(t, back[t]) /\ back' = [back EXCEPT ![t] = NULL] /\ LetGo(t)

\* ... is read again, and whoever finds it 0 frees the message ...
Test(t) ==
  /\ At(t, "test")
  /\ Touch(t)
  /\ \/ ref[cur[t]] = 0 /\ Goto(t, "free") /\ UNCHANGED <<back, cur>>
     \/ ref[cur[t]] # 0 /\ Return(t)
  /\ UNCHANGED <<net, ref, live, len, next, reg, slot>>

\* ... first giving its length, msg->len, back to sockmsg_len ...
Free(t) ==
  \/ /\ Read(t, "free", len)
     /\ UNCHANGED <<net, heap, next, pc, cur, back, slot>>
  \/ /\ Ready(t, "free")
     /\ len' = Seen(t, len) - 1
     /\ Touch(t)
     /\ Done(t) /\ Goto(t, "release")
     /\ UNCHANGED <<net, ref, live, next, cur, back, slot>>

\* ... then its memory to the heap.
Release(t) ==
  /\ At(t, "release")
  /\ live' = live \ {cur[t]}
  /\ Touch(t)
  /\ Return(t)
  /\ UNCHANGED <<net, ref, len, next, reg, slot>>

-----------------------------------------------------------------------------
(* sppUartCommandProcess, called by the UART thread for every packet. *)

\* Is there a queue at all?  The slots are read without the mutex.
Scan ==
  /\ At(Uart, "scan") /\ next <= Packets
  /\ \/ /\ slots[slot] # NULL
        /\ Goto(Uart, "limit") /\ UNCHANGED slot
     \/ /\ slots[slot] = NULL
        /\ slot' = (slot % MAX_QUEUE_NUM) + 1
        /\ UNCHANGED pc
  /\ UNCHANGED <<net, heap, next, cur, reg, back>>

GoScan == Goto(Uart, "scan") /\ slot' = 1

\* Mutant: the length is not looked at.
NoLimit ==
  /\ At(Uart, "limit")
  /\ Goto(Uart, "malloc") /\ UNCHANGED slot
  /\ UNCHANGED <<net, heap, next, cur, reg, back>>

Limit ==
  /\ At(Uart, "limit")
  /\ \/ MaxLen < len /\ GoScan
     \/ len <= MaxLen /\ Goto(Uart, "malloc") /\ UNCHANGED slot
  /\ UNCHANGED <<net, heap, next, cur, reg, back>>

\* A packet that cannot be wrapped is lost.
Malloc ==
  /\ At(Uart, "malloc")
  /\ \/ GoScan /\ UNCHANGED <<live, next, cur>>
     \/ /\ live' = live \cup {next}
        /\ cur' = [cur EXCEPT ![Uart] = next]
        /\ next' = next + 1
        /\ Goto(Uart, "add") /\ UNCHANGED slot
  /\ UNCHANGED <<net, ref, len, misused, reg, back>>

Add ==
  \/ /\ Read(Uart, "add", len)
     /\ UNCHANGED <<net, heap, next, pc, cur, back, slot>>
  \/ /\ Ready(Uart, "add")
     /\ len' = Seen(Uart, len) + 1
     /\ ref' = [ref EXCEPT ![cur[Uart]] = 0]
     /\ Done(Uart) /\ Goto(Uart, "lock")
     /\ UNCHANGED <<net, live, misused, next, cur, back, slot>>

Lock ==
  /\ At(Uart, "lock") /\ mtx = NULL
  /\ mtx' = Uart
  /\ slot' = 1
  /\ Goto(Uart, "hold")
  /\ UNCHANGED <<slots, queue, inited, heap, next, cur, reg, back>>

\* Mutant: the UART thread takes no reference of its own.
HoldNot ==
  /\ At(Uart, "hold")
  /\ Goto(Uart, "fan")
  /\ UNCHANGED <<net, heap, next, cur, reg, back, slot>>

\* The producer's own reference keeps the message while it is handed out.
Hold == Take(Uart, "hold", "fan")

\* The loop over the slots.
Fan ==
  /\ At(Uart, "fan")
  /\ \/ slot > MAX_QUEUE_NUM /\ Goto(Uart, "drop") /\ UNCHANGED slot
     \/ slot \in Slots /\ slots[slot] = NULL /\ slot' = slot + 1 /\ UNCHANGED pc
     \/ slot \in Slots /\ slots[slot] # NULL /\ Goto(Uart, "take") /\ UNCHANGED slot
  /\ UNCHANGED <<net, heap, next, cur, reg, back>>

TakeForQueue == Take(Uart, "take", "push")

\* Mutant: a queue that is full is taken to have accepted the message.
PushKeepsRef ==
  /\ At(Uart, "push")
  /\ LET c == slots[slot] IN
       \/ /\ Len(queue[c]) < MAX_QUEUE_LENGTH
          /\ queue' = [queue EXCEPT ![c] = Append(@, cur[Uart])]
       \/ Len(queue[c]) = MAX_QUEUE_LENGTH /\ UNCHANGED queue
  /\ Goto(Uart, "fan") /\ slot' = slot + 1
  /\ UNCHANGED <<slots, mtx, inited, heap, next, cur, reg, back>>

\* Mutant: the queue is taken to be one longer than it is.
PushOneMore ==
  /\ At(Uart, "push")
  /\ Len(queue[slots[slot]]) <= MAX_QUEUE_LENGTH
  /\ queue' = [queue EXCEPT ![slots[slot]] = Append(@, cur[Uart])]
  /\ Goto(Uart, "fan") /\ slot' = slot + 1
  /\ UNCHANGED <<slots, mtx, inited, heap, next, cur, reg, back>>

\* mico_rtos_push_to_queue without waiting; a full queue gives the reference back.
Push ==
  /\ At(Uart, "push")
  /\ LET c == slots[slot] IN
       \/ /\ Len(queue[c]) < MAX_QUEUE_LENGTH
          /\ queue' = [queue EXCEPT ![c] = Append(@, cur[Uart])]
          /\ Goto(Uart, "fan")
       \/ /\ Len(queue[c]) = MAX_QUEUE_LENGTH
          /\ UNCHANGED queue
          /\ Goto(Uart, "undo")
  /\ slot' = slot + 1
  /\ UNCHANGED <<slots, mtx, inited, heap, next, cur, reg, back>>

Undo == Drop(Uart, "undo", "fan")

DropOwn == Drop(Uart, "drop", "unlock")

Unlock ==
  /\ At(Uart, "unlock")
  /\ mtx' = NULL
  /\ cur' = [cur EXCEPT ![Uart] = NULL]
  /\ GoScan
  /\ UNCHANGED <<slots, queue, inited, heap, next, reg, back>>

UartNext ==
  \/ Scan \/ Limit \/ Malloc \/ Add \/ Lock \/ Hold \/ Fan
  \/ TakeForQueue \/ Push \/ Undo \/ DropOwn \/ Unlock
  \/ Test(Uart) \/ Free(Uart) \/ Release(Uart)

-----------------------------------------------------------------------------
(* A client thread: connected, served until it fails, cleaned up. *)

\* A client connects and initialises its queue.
Connect(c) ==
  /\ At(c, "off")
  /\ inited' = inited \cup {c}
  /\ queue' = [queue EXCEPT ![c] = <<>>]
  /\ Goto(c, "register")
  /\ UNCHANGED <<slots, mtx, heap, next, cur, reg, back, slot>>

\* socket_queue_create: the first free slot, if there is one.
Register(c) ==
  /\ At(c, "register") /\ mtx = NULL
  /\ LET free == {i \in Slots : slots[i] = NULL} IN
       \/ /\ free # {}
          /\ slots' = [slots EXCEPT ![CHOOSE i \in free : \A j \in free : i <= j] = c]
          /\ Goto(c, "serve") /\ UNCHANGED inited
       \/ /\ free = {}
          /\ inited' = inited \ {c}
          /\ Goto(c, "off") /\ UNCHANGED slots
  /\ UNCHANGED <<mtx, queue, heap, next, cur, reg, back, slot>>

\* mico_rtos_pop_from_queue.
Pop(c, l, then) ==
  /\ At(c, l) /\ queue[c] # <<>>
  /\ cur' = [cur EXCEPT ![c] = Head(queue[c])]
  /\ queue' = [queue EXCEPT ![c] = Tail(@)]
  /\ Goto(c, then)
  /\ UNCHANGED <<slots, mtx, inited, heap, next, reg, back, slot>>

\* The event descriptor is readable and the socket is writable.
Serve(c) == Pop(c, "serve", "write")

\* write() reads msg->data; on an error other than ENOMEM the client is closed.
Write(c) ==
  /\ At(c, "write")
  /\ Touch(c)
  /\ Goto(c, "sent") \/ Goto(c, "failed")
  /\ UNCHANGED <<net, ref, live, len, next, cur, reg, back, slot>>

Sent(c) == Drop(c, "sent", "serve") \/ Drop(c, "failed", "unregister")

\* Mutant: the thread goes to `exit`, not to `exit_with_queue`.
CloseKeepsSlot(c) ==
  /\ At(c, "serve")
  /\ inited' = inited \ {c}
  /\ Goto(c, "off")
  /\ UNCHANGED <<slots, mtx, queue, heap, next, cur, reg, back, slot>>

\* recv fails, the peer closes, or there is no event descriptor.
Close(c) ==
  /\ At(c, "serve")
  /\ Goto(c, "unregister")
  /\ UNCHANGED <<net, heap, next, cur, reg, back, slot>>

\* Mutant: the slot is cleared without the mutex.
UnregisterUnlocked(c) ==
  /\ At(c, "unregister")
  /\ slots' = [i \in Slots |-> IF slots[i] = c THEN NULL ELSE slots[i]]
  /\ Goto(c, "drain")
  /\ UNCHANGED <<mtx, queue, inited, heap, next, cur, reg, back, slot>>

\* socket_queue_delete: leave the slots, under the mutex; then empty the queue.
Unregister(c) ==
  /\ At(c, "unregister") /\ mtx = NULL
  /\ slots' = [i \in Slots |-> IF slots[i] = c THEN NULL ELSE slots[i]]
  /\ Goto(c, "drain")
  /\ UNCHANGED <<mtx, queue, inited, heap, next, cur, reg, back, slot>>

Drain(c) == Pop(c, "drain", "drained") \/ Drop(c, "drained", "drain")

\* Mutant: the queue is deinitialised without being emptied.
DeinitFull(c) ==
  /\ At(c, "drain")
  /\ inited' = inited \ {c}
  /\ Goto(c, "off")
  /\ UNCHANGED <<slots, mtx, queue, heap, next, cur, reg, back, slot>>

Deinit(c) ==
  /\ At(c, "drain") /\ queue[c] = <<>>
  /\ inited' = inited \ {c}
  /\ Goto(c, "off")
  /\ UNCHANGED <<slots, mtx, queue, heap, next, cur, reg, back, slot>>

\* What a connected client's thread does of its own accord.
Work(c) ==
  \/ Register(c) \/ Serve(c) \/ Write(c) \/ Sent(c)
  \/ Unregister(c) \/ Drain(c) \/ Deinit(c)
  \/ Test(c) \/ Free(c) \/ Release(c)

ClientNext(c) == Connect(c) \/ Close(c) \/ Work(c)

-----------------------------------------------------------------------------
\* A use of freed memory has no defined outcome: nothing is claimed after it.
Next == ~misused /\ (UartNext \/ \E c \in Client : ClientNext(c))

\* Threads run and the mutex is granted fairly (the only step of a thread that
\* others disable is the taking of the mutex); a socket takes data in the end, or
\* its client is closed.  Nobody has to connect or to close.
Fairness ==
  /\ SF_vars(~misused /\ UartNext)
  /\ \A c \in Client : SF_vars(~misused /\ Work(c))

Spec == Init /\ [][Next]_vars
FairSpec == Spec /\ Fairness

-----------------------------------------------------------------------------
(* Properties *)

Label == {"scan", "limit", "malloc", "add", "lock", "hold", "fan", "take", "push",
          "undo", "drop", "unlock", "test", "free", "release", "off", "register", "serve", "write",
          "sent", "failed", "unregister", "drain", "drained"}

\* Queues hold at most MAX_QUEUE_LENGTH messages.
TypeOK ==
  /\ slots \in [Slots -> Client \cup {NULL}]
  /\ mtx \in {NULL, Uart}
  /\ \A c \in Client : queue[c] \in Seq(Msg) /\ Len(queue[c]) <= MAX_QUEUE_LENGTH
  /\ inited \subseteq Client /\ live \subseteq Msg
  /\ ref \in [Msg -> Int] /\ len \in Int
  /\ next \in 1 .. Packets + 1
  /\ pc \in [Thread -> Label]
  /\ cur \in [Thread -> Msg \cup {NULL}]
  /\ slot \in 1 .. MAX_QUEUE_NUM + 1
  /\ misused \in BOOLEAN

\* The UART thread, in the middle of its loop, never holds the queue of a client
\* that is already taking its queue, and its stack, down.
PushesToLiveQueue ==
  pc[Uart] \in {"take", "push"} =>
    /\ slots[slot] \in inited
    /\ pc[slots[slot]] \notin {"off", "register", "drain", "drained"}

\* A queue that has been taken down holds no message: none was pushed behind the
\* back of socket_queue_delete, so none is lost with its memory.
NothingLeft == \A c \in Client : c \notin inited => queue[c] = <<>>

\* A slot names a client that is being served, and each such client has one.
SlotOwned ==
  /\ \A i \in Slots : slots[i] # NULL => pc[slots[i]] \notin {"off", "register", "drain"}
  /\ \A i, j \in Slots : slots[i] = slots[j] /\ slots[i] # NULL => i = j

\* References to m: in queues, in the hands of clients, and of the UART thread,
\* which holds one of its own and one for the queue it is pushing to.
Queued(m) ==
  {p \in Client \X (1 .. MAX_QUEUE_LENGTH) :
     p[2] <= Len(queue[p[1]]) /\ queue[p[1]][p[2]] = m}
InHand(m) ==
  {c \in Client : cur[c] = m /\ pc[c] \in {"write", "sent", "failed", "drained"}}
OfUart(m) ==
  IF cur[Uart] # m THEN 0
  ELSE CASE pc[Uart] \in {"fan", "take", "drop"} -> 1
         [] pc[Uart] \in {"push", "undo"} -> 2
         [] pc[Uart] \in {"test", "free", "release"} /\ back[Uart] = "fan" -> 1
         [] OTHER -> 0
Holders(m) == Cardinality(Queued(m)) + Cardinality(InHand(m)) + OfUart(m)

\* When counts are updated indivisibly, the reference count of a message is the
\* number of those who hold it, through every refused push, failed write, closed
\* client and drained queue ...
RefExact == \A m \in live : ref[m] = Holders(m)

\* ... no message is freed that is still queued or in the hands of a thread which
\* has not dropped it: what remains is the double free by two threads that both
\* drop the last references before either tests the count again ...
HeldIsLive == \A m \in Msg : Holders(m) # 0 => m \in live

\* ... and, until a double free gives a length back twice, the messages allocated
\* exceed the limit only by the one that was tested for before it was counted, and
\* by those given back to sockmsg_len but not yet to the heap ...
MemoryBound ==
  misused \/ Cardinality(live) <= MaxLen + 1 + Cardinality({t \in Thread : At(t, "release")})

\* ... and no message stays allocated for ever, unless one is misused.
EveryMessageFreed == \A m \in Msg : []<>(m \notin live \/ misused)

\* "SPP protocol deliver any data received from UART to wlan": the bytes a client
\* writes are those of the packet, not those of freed memory.
DeliversUartData ==
  \A c \in Client : At(c, "write") => cur[c] \in live
=============================================================================
