# Verification of the SPP / device gateway firmware

TLA+ models of the program in `src/`: firmware for a MiCO Wi-Fi module that sits
between a household device on a UART, a home gateway on UDP, TCP clients, and
(compiled out at this commit) the JoyLink cloud. The modules are written from the C
code; every definition that stands for code is listed with its lines in
`PROJECT.json` under `map`.

## 1. The system

| Part | State | Operations | Talks to |
| --- | --- | --- | --- |
| Byte FIFO (`tcl/code/common/common.c`) | array, `Datalen`, `FifoOffset` | push, input, output, copy, delete at either end | used by the status frame path |
| Command slot and retransmission (`devproanaly.c`) | `datadown`, `framesendpara`, `framesendtimer` | `DataDownWr`, `TimerTest`, `SendTimerUp`, `SendTimerHandle`, `DatadownHandle`, `SendData`, the reply part of `RevCmdHandle` | UDP thread, timer task, UART thread; shared memory, no lock |
| Status frame path (`devproanaly.c`, `UartRecv.c`) | `framerevfifo`, `framerevpara`, `framerevtimer`, `dataup` | `RevDataWrFifo`, `FrameDataHandle`, `OldToNew`, `RevCmdHandle`, `RevTimerHandle`, `RevTimerUp`, `AppHandleCallback` | device, timer task, gateway |
| Fan-out to TCP clients (`SppProtocol.c`, `LocalTcpServer.c`, `RemoteTcpClient.c`) | `socket_out_queue`, `queue_mtx`, messages with `ref`, `sockmsg_len` | `sppUartCommandProcess`, `socket_msg_take/free`, `socket_queue_create/delete`, the client loops | UART thread and client threads; mutex and queues |
| TCP accept loop, remote connection | descriptors, `_wifiConnected` and its semaphore | accept, connect, retry | Wi-Fi notifications |
| Gateway session (`tcl/mico_tcl_ota.c`) | `g_userconfig`, the buffer `p_base`, sequence numbers | `localUdpServer_thread`, `iotProcess` and its handlers, the heartbeat `data_upload_timer`, the reports `tcl_data_upload` | gateway; UDP thread, timer task and UART thread share its state without a lock |
| Firmware transfer (`tcl/mico_tcl_ota.c`) | `g_upcodenumber`, `g_upgradeFlag`, `g_recvsize`, flash, boot table | `tcl_ota_data`, idle acknowledgement, `ota_start`, `ota_end` | gateway, flash, boot loader |
| Datagram encoding (`tcl/geniot.c`), checksums (`common.c`, `mico_tcl_ota.c`, `joylink/auth/crc.c`) | none | base64, byte order, header fields, hex strings, CRC-16, sums, marks of 0xF5 bytes | gateway session, frames, JoyLink packets |
| JoyLink session (`tcl/joylink/joylink/joylink_dev*.c`) | `server_st`, `server_socket`, `hb_lost_count`, session and access key, flash | connect, authenticate, heartbeat, receive; write the access key | cloud, local network, flash |
| JoyLink packet joining (`joylink_join_packet.c`) | `_g_jps`, a table of 20 messages | find, cache, add, join | local network |
| JoyLink packets (`joylink_security.c`) | none | seal and open for server, local network, sub-device | session, ciphers |
| Ciphers and curves (`joylink/auth/aes.c`, `joylinkAES.c`, `uECC.c`) | tables | AES in chained blocks with padding; keys, shared secrets, signatures | JoyLink packets |
| cJSON, md5, start-up code, legacy copies, `mico_tcl.c` | | | not this program's logic, or not reached |

What is hard in it:

* *Concurrency without locks.* The command slot is tested and written by three
  threads; the timer flags are raised by the timer task at any moment; reference
  counts are plain `ref++` and `ref--`.
* *Shared memory with two meanings.* One buffer holds converted records and raw bytes.
  The receive buffer of the UDP thread is also the send buffer of the timers.
* *A line that loses and changes bytes*, frames cut by chunks and timeouts.
* *Limits*: full buffers and queues, lengths kept in bytes, sums in 16 bits.
* *Failure in the middle*: a refused push, a failed write, a client that leaves, a UART
  that does not accept a frame, a transfer that is abandoned, a packet of which only a piece
  arrives, power lost between writing a key and acknowledging it.
* *State that outlives what it belongs to*: net ids of a binding that is gone, the session
  key of the connection before, an access key that changes while a session is let in.

What makes each part correct: the FIFO is a queue and stays in its array; a command slot
never stays occupied, and retransmission ends; the application receives whole, genuine
records in order; a message lives exactly as long as somebody holds it; what is acknowledged
of a firmware is in flash, and only a whole one is booted; a gateway's binding begins and
ends only as asked, and what is acknowledged of it is true; the cloud session keeps exactly
its own descriptor, works with its own key and finds back to work; what is encoded or sealed
comes back. The full list, at its lines, is under `hazards` in `PROJECT.json`.

## 2. Modules

| Module | Content |
| --- | --- |
| `ByteQueue` | abstract: a bounded queue of bytes, one action per call of the FIFO |
| `Fifo` | the circular buffer, with 16-bit sums and the record of every array index touched |
| `FifoProofs` | theorems about `Fifo`, with the refinement of `ByteQueue` |
| `DownLink`, `DownLinkProofs` | the command slot and its retransmission; theorems |
| `UpLink`, `UpLinkProofs` | the status frame path; theorems |
| `SppFanout`, `MCSppFanout`, `SppFanoutProofs` | the fan-out; the MC module adds the symmetry of clients; theorems |
| `OtaTransfer`, `MCOtaTransfer`, `OtaTransferProofs` | the firmware transfer; the MC module gives the images their lengths; theorems |
| `Binding` | abstract: to whom the module belongs, and on whose request that changes |
| `Gateway`, `MCGateway`, `GatewayProofs` | the session with gateways; the MC module adds symmetry and the checks of the encoding; theorems, with the refinement of `Binding` |
| `JoylinkSession`, `JoylinkSessionProofs` | the session with the JoyLink cloud, and the access key; theorems |
| `JoinPacket` | the table of messages in parts |
| `Codec`, `Checksum` | the conversions and the checksums, as operators |
| `Cbc`, `Aes` | chained blocks and padding for any cipher of blocks; the cipher, both times it is there |
| `JoylinkPackets` | which key seals and opens which packet |
| `Ecc` | numbers, field, points, keys and signatures of `uECC.c`, for words and numbers of any size |
| `CodecTests`, `JoylinkTests`, `EccTests` | the operators against standards, reference definitions and each other, as assumptions that TLC evaluates |
| `PacketProofs` | theorems about `JoinPacket`, `Codec` and `Cbc` |
| `MCJoylink` | the JoyLink session with `JoylinkTests` and `EccTests` |

### Fifo

`mem`, `Datalen` and `FifoOffset` are the fields of `FifoTyp`; `out` and `ret` are what the
last call gave its caller, `touched` the array indices it accessed. Actions have the names
of the C functions. `FifoOffset` ranges over `0 .. FifoLen`: a read that ends at the end of
the array leaves it there. `FifoAssumption` says that two lengths add up to less than 2^16
(the code uses 1024 and at most 255). Abstract queue: `content == <<...>>` of `ByteQueue`
is the `Datalen` bytes from `FifoOffset` on, round the end.

### DownLink

`state` and `data` are `datadown.state` and the part of `datadown.framedata` that is tested:
a status query (`data[4] = 11`) or a control command. `running` and `flag` are
`framesendtimer`, started and fired; `pc` says where each thread is. An action touches the
shared state at most once, so the threads interleave at every access. `TimerTest` and
`SendTimerUp` run in one timer task, each to its end. The UDP thread writes any command at
any time. The answer of the device is a status frame that may come at any pass of
`FrameHandle`. The slot is read once to build the frame (`SendData`), again to see what it
asks for (`Sent`), and its state is written after that (`SetState`). Writing to the UART may
fail. Left out: the bytes of the frame, and the answer to a refused command (there is none).

`RESENDCNT` is 2 with the comment "resend 3 times" (`devproanaly.h:144`); a frame is sent
once and repeated twice, so three times in all.

### UpLink

A byte is a cell: a header byte 0xF5, the byte 0x55 that marks an 0xF5 inside a frame as
data, or a byte that belongs to one place of one frame. The device sends each frame whole,
with a byte lost, with a byte turned into an 0xF5 or an 0x55, the two values that the framing
tests for, or with such bytes added behind it (`Noise`). (Frames whose byte 10 is 0x55 are
dropped by `FrameDataHandle`; the frames here are others.) `Receive` takes any chunk of what
was sent, `NoBytes` none. The receive timer fires whenever it is started. A frame passes
`crc_cal` exactly when its bytes are those of a frame: no accidental checksums. A record is
reduced to its kind and length: 2 cells for an alarm (13 bytes in the code), 3 for a state
(22). `q` is the queue that `Fifo` is proved to implement, `offset`, `datastate` and
`wordstate` are `framerevpara`.

`Receive` puts the chunk into `data`, and `RevDataWrFifo` takes it byte by byte: one action for
each branch of its loop (`CountHead` the fourth header byte not yet reached, `BeginFrame` and
`EndFrame` the fourth, `NoHead` and `BreakFrame` the two early returns, `DataByte` the rest). The
timer may raise its flag between any two bytes; the flag is looked at by `RevTimerHandle` only.
`RevDataWrFifo` takes its length as a byte, and `FrameDataHandle` keeps the frame length in one
(`templen`): both are taken modulo `U8`.

The second of these has a consequence. The buffer holds 1024 bytes, so 256 + L raw bytes can
stand in it. If the first L of them are a valid frame, `FrameDataHandle` removes the last L
only and appends the record behind the 256 that are left; `offset` then covers raw bytes
(`overrun`). `RevCmdHandle` does not notice: it takes a raw byte for a length (`TakeAny`: any
length of a byte, which is or is not handed up), and `offset`, which is a `u16` in the code,
is reduced by it modulo `U16`, so that it may lie outside the buffer from then on. `TypeOK`,
`Aligned` and `OnlySound` say so: the range of `offset`, the split of the buffer and what the
application is given are claimed up to the first `overrun`; that the buffer is never
over-full, and `offset` a 16-bit number, is claimed throughout. The history `up` ends there
too. A length taken from a raw byte may be longer than `dataup`, and the copy then overwrites
what lies behind it; what happens after that has no defined outcome, and the behaviour stays
where it is (`Lost`). The run reaches all of this.

Seen while modelling, and visible in the model: the header of the second of two frames
without a pause is not pushed, because `FrameDataHandle` clears `wordstate` first (lines
154-160), so that frame fails its check; a receive timer flag left over from an earlier frame
cuts the next one. Neither corrupts the buffer (`Aligned`), both lose a frame, which is why
`EveryFrameUp` speaks of frames that are not hurried (`rushed`), nor followed by noise
without a pause.

### SppFanout

`slots` is `socket_out_queue`, `mtx` the mutex, `queue` and `inited` the queue on each
client thread's stack, `ref`, `live` and `len` the heap as the code counts it. Clients
connect, are served, fail or leave at any moment, and connect again; this covers local
clients and the remote connection, whose loops are the same. With `Indivisible = FALSE`
every `ref++`, `ref--` and update of `sockmsg_len` is a read and a write with any thread
switch in between, as the C code allows; with `TRUE` it is one step. A use of freed memory
has no defined outcome, so `Next` stops after it (`misused`). `socket_msg_free` is four steps,
as in the code: `Drop` takes the count down, `Test` reads it again, `Free` takes the length off
`sockmsg_len`, `Release` gives the memory back. `Test` is why indivisible counts would not be
enough: two clients may both take the count down before either reads it, both find 0, and both free
the message. The mutex is held by the
UART thread across its loop; the short critical sections of clients are one step each.

At this commit the call of `sppUartCommandProcess` (`UartRecv.c:119, 177, 260`) and the
creation of the TCP threads (`MICOAppEntrance.c:436, 442`) are commented out; the module
describes the component as written.

### OtaTransfer

`upcodenumber`, `upgradeFlag` and `codeType` are the globals of the same name; `flash` is the
sequence of packets written so far, which stands for the partition up to `g_recvsize`; `boot`
is what the boot table points to. `Receive` is `tcl_ota_data` up to its acknowledgement,
`OtaEnd` the check at its end (a step of its own, so that a restart may come in between),
`Idle` the branch of `localUdpServer_thread` taken when `select()` times out. `Restart` may
come at any moment. Writing to flash succeeds: the code does not look at what
`MicoFlashWrite` returns (line 3088) and acknowledges in any case, so `AckedInFlash` and
`BootsWhole` are claims about flash that works. Packets have 512 bytes, the last of an image
fewer, so the code's `g_recvsize > 1024` is "more than two packets".

The gateway is not in the repository: `Offer`, `Acked` and `Turn` assume only that it sends
the packets of an image in order, each until it is acknowledged, and may begin any image at
any moment. `packets` and `acks` are sets from which a message may be received any number of
times, in any order, or never.

Seen while modelling, and visible in the model: an image of 1024 bytes or fewer is never
checked (line 3113); nothing resets the counters after `ota_end`, good or bad, so every later
transfer waits for a restart. The second is also what protects the image that was checked:
with the counters reset (mutant `EndResets`) the first packet of the next transfer overwrites
what the boot table points to.

### Gateway

The variables of the first three lines are those of the C code: `g_userconfig`, and
`p_base` as two cells, the header and the body of the packet that is in it. Everything else
is where the three threads are and what they have read. `upc` follows the UDP thread from
`recvfrom` through decoding (header, then body), the handlers, encoding of the answer into the
same buffer, and `sendto`, to the `memset` at the top of the loop; `tpc` the heartbeat timer
with its copies of address and net ids; `rpc` a report of the UART thread, which reads the address
through a pointer into `g_userconfig` and writes `ROUT_UDP_PORT` into the port there
(`ReportPort`, line 2834), for all threads. Every access to
shared state is a step of its own, so the heartbeat may be encoded over a request between
its header and its body, or over an answer before it is sent. Requests are those `iotProcess`
knows; bodies are reduced to what the handlers tell apart. Power may be lost at any moment,
and `g_userconfig` is in RAM.

`Binding` says what registration promises, by `owner` and `pending`; `owner` is read from
the flag and the five copies of the ids, where `flag` is set before the ids are copied.

`Request` in the run has the three requests that differ in their effect: bind, delete, and
one that resets the module. The others are answered and change nothing in this state.

### Codec, Checksum and CodecTests

Operators for `geniot.c`, the CRC-16 of `common.c` bit by bit and by tables, the mark 0x55
behind an 0xF5, the packet of a firmware, and JoyLink's hex strings and time-out test. A
character of base64 is its value, the padding 64. `CodecTests` compares them with RFC 4648
and CRC check values, with each other, and forwards with backwards.

### JoylinkSession

`server_st`, `server_socket`, `hb_lost_count` and the two keys are the fields of `_g_pdev`;
`open` is what the C library would say of the descriptors. One thread does everything, so an
action is a pass of `joylink_main_loop` up to its next blocking call: `ProcServerSt` the
timer, then one of the sockets. `pc = "recv"` is the call of `recv` without a time limit in
the middle of a packet. The session key is known by the connection it was given on; packets
carry the key they are sealed with, and one opened with a wrong key is dropped or taken,
since decryption has no test. `joylink_server_recv` takes whatever its last `recv` returns
for the whole packet (`RecvCut`): it is opened over the zeros of the buffer, so that the
session key may be one that the server never gave (`"cut"`), and what is left of the packet
is in the stream as `Rest`. A piece taken for the magic or the head instead makes no packet
(`RecvLost`). `WriteKey`, `SaveKey` and `AckKey` are the three effects of
`joylink_proc_lan_write_key`, with a loss of power possible between them.

`cle_easylink_joy`, which clears the flag of what is in flash, is left out: nothing in `src/`
calls it.

At this commit `JOYLINK_ON` is 0: the component is described as written.

### JoinPacket

`jps` is `_g_jps`, an entry with the fields of the head that came first and the list of
parts, each by its index, which nothing compares with the total; `ProcLan` is the branch of
`joylink_proc_lan` for packets of more than one part.

### Cbc, Aes, JoylinkPackets and JoylinkTests

A cipher is a function from blocks to blocks, so that chaining and padding can be proved
about for any; `Aes` makes one from a key. A word is the sequence of its four bytes as they
lie in memory: big-endian words of `aes.c` and little-endian words of `joylinkAES.c` are then
the same. The tables of `aes.c` are defined as FIPS 197 does, those of `joylinkAES.c` as the
code generates them, and `TablesAgree` compares them. A packet is a record of its header's
fields and what is behind them.

### Ecc and EccTests

The arithmetic is that of the code, word by word with its carries; only the size of words
and the curve are constants. `EccTests` takes small curves with a p of the same form, which
go through every carry, and the code's own curve where a value is known (`BasePoint`).

### Seen while modelling

Not wrong by any document, but worth knowing; each is in the model unless it says otherwise.

* Gateway: a binding request that is refused still changes the address reports go to
  (`Register`), and a report sent while one comes in may leave with its address and another
  port, or the other way round. The heartbeat's encoder writes an `&` over the last base64
  character (`mico_tcl_ota.c:2520`; abstracted, the body of a heartbeat is `Junk`).
  `MANAGE_BROADCAST_ACK` has the number of `LINK_ORDER_BUNDING`, and `MANAGE_BROADCAST` that
  of `LINK_INFORMATION_ACK`.
* Codec: a clock that has wrapped at 31 bits inverts the answer of the time-out test
  (theorem `TimeOutAndWrap`). `crc_check`, `find_f5_55`, `del_f5_55`, `SumCheck`, `XorCheck`,
  `crc8` and `make_crc` are not reached at this commit.
* Session: a write-key packet that cannot be parsed empties the access key and is
  acknowledged. An answer sealed under an old access key may be taken as it decrypts, so that
  the session may work with a wrong key until enough heartbeats go unanswered; so may an
  answer of which only a piece was there.
* Packets: their checksum is written and never tested (`LengthNotChecksum`). The device does
  not read what it seals with a shared secret itself, because the two sides take the
  vector from different places, and sends a packet of the type for a pre-shared key in the
  clear (`LanPacketsReturn`).
* Ciphers: `device_aes_encrypt` asks for room without the block that padding may add
  (`RoomShortOfPadding`), and its loop over such a block writes 16 bytes too far (`Written`).
  `joy_device_aes_decrypt` answers the length it was given when the padding is bad.
* Curves: `vli_mmod_fast` is wrong where a number still does not fit after p has been
  subtracted once per carry (`RemainderUnlessCarried`); for secp160r1 that is one product in
  2^129. `EccPoint_mult` gives three times the point for the scalar 1 (`MultiplesOfG`).
  `default_RNG` fills its memory with a constant, so the device's own key is one.

## 3. Runs

| Run | Question | Bounds |
| --- | --- | --- |
| `fifo` | Is the buffer a queue, and does it stay in its array? | array of 3, strings of up to 4, two byte values: every start, wrap and overflow |
| `downlink` | Is the slot timed, released, and service never blocked? | none but `RESENDCNT = 2`; the state space is finite as it is |
| `downlink_written_only_when_free` | Is the slot "only writable when 0"? No | as above |
| `downlink_no_resend_after_reply` | Does a reply stop retransmission at once? No | as above |
| `uplink` | Do only sound frames reach the application, and all unhurried ones? | 2 frames of 8 bytes (the first with an alarm) with up to 2 bytes of noise behind each, a buffer of 17 cells, `U8 = 9` and `U16 = 32`: two frames run together with noise between them are one frame and a byte's worth of raw bytes, which is an overrun; `dataup` of 4 cells, shorter than what a wrong length takes; 280,000 states. A record always finds room in this buffer; the theorems have none of these bounds |
| `ota_transfer` | Does flash hold what was acknowledged, is only a whole image booted, does an image get through? | images of 3 packets (installed) and 2 packets (too short), 2 messages each way on the network |
| `spp_fanout` | Is the table of queues consistent with divided counts? | 3 clients, 2 slots, queues of 1, 2 packets: full tables, full queues |
| `spp_fanout_counted` | Is reference counting right if counts are indivisible? | 2 clients, 3 packets, limit 1: two clients free a message together, and the UART thread allocates between two steps of a free |
| `spp_fanout_delivers` | Does it deliver the UART's data with divided counts? No | 2 clients, 1 packet |
| `gateway` | Does the binding change only as asked, are acknowledgements true, how much leaves that is out of date? And `CodecTests` | 2 gateways, 2 bindings, 3 kinds of request, any number of them; 4.0 million states up to symmetry and up to what is written again before it is read (`View`) |
| `joylink` | Is the session's descriptor its own, its key its own, is an acknowledged access key kept, does it give up and come back? And `JoylinkTests`, `EccTests` | 2 descriptors (one may be left over while the next is opened), one access key and the empty one, a limit of 2 heartbeats, 2 packets under way each way; 110,000 states |
| `joylink_join` | Is a message of several parts reported when it is whole? No | 1 sender, 2 messages of at most 3 parts, a table of 2 |

Properties worth a word:

* `CallsAsQueue` (fifo) compares each call with the *same* call of `ByteQueue`, results
  included; `IsQueue` says that the content evolves as a queue.
* `InFlightTimed` fails if a reply stops the timer before it clears the state: the order of
  lines 358-361 of `devproanaly.c` matters because `TimerTest` may run in between.
* `ResendBound` allows one retransmission more than `RESENDCNT`: the timer may raise its flag
  once more just before it is stopped, and that flag is handled when the count starts anew.
* `PolledForever` is liveness under `Polls`: that `TimerTest` runs every second, that some
  pass of the loop meets the slot while it is filled, and that the UART does not fail for
  ever.
* `Aligned` is what `RevCmdHandle` relies on: it takes a record's length from the head of
  the buffer without checking that a record is there. It holds until an `overrun`.
* `OnlySound` tolerates a damaged header: a stray 0xF5 at the end of one frame may complete
  a header that lost a byte, and the frame behind it is then sound.
* `PushesToLiveQueue`, `NothingLeft` and `SlotOwned` hold with divided counts, because
  leaving the table takes the mutex; `RefExact`, `HeldIsLive`, `MemoryBound` and
  `EveryMessageFreed` need indivisible counts.
* `HeldIsLive` is as much as indivisible counts give: what is in a queue, or in the hands of a
  thread that has not yet dropped it, is not freed. That two threads which both have dropped
  a message free it twice is not excluded, and happens.
* `MemoryBound` allows one message beyond the limit, since the limit is tested before the message is
  added, and one for each thread between taking its message off `sockmsg_len` and giving the
  memory back. After a double free, which takes the length off twice, it claims nothing.

* `AckedInFlash` is about the gateway's view: it holds while the module stays up and the
  gateway keeps to one image (`steady`). After a restart the gateway's belief is out of date
  whatever the module does, and acknowledgements of one image are taken for another's.
* `BootsWhole` holds always, restarts and changes of image included.
* `Completes` needs `Pauses`: a repeated packet is refused without an answer, and only a
  silence of three seconds brings the last acknowledgement again. With a gateway that
  repeats faster one lost acknowledgement stops the transfer; TLC finds that behaviour when
  `Pauses` is taken away.

* `ImplementsBinding` fails if a request can be read as half of one and half of another that
  means something: the 12 bytes of a heartbeat are what keeps it from that, for they start
  with the first byte of `SOFTWAREVER` (0x16) where a request has the device's id, its MAC
  address, which is taken to begin otherwise.
* `AtMostOneStale`: no lock keeps a heartbeat or a report from leaving with the ids of a
  binding that is gone, but the flag and the ids are read anew for each, so the second one is
  right.
* `AckTruthful` covers the packets of the timer as well: it may send the UDP thread's
  acknowledgement in place of its heartbeat, to the same binding.
* `AddressAsked` is about the two halves of the address one by one: the report goes to an IP
  address that asked for a binding, and to the port that such an address asked from or
  to `ROUT_UDP_PORT`; not always to the port of the same request, nor always to
  `ROUT_UDP_PORT`, which a request that comes in after line 2834 overwrites. It holds because the
  address is never cleared; the mutant that clears it on deletion lets a report begun before go
  nowhere.
* `WorksWithItsKey` and `UploadsInSession` say that the key was read on this connection,
  never that of the connection before (`OfThisConnection`). It is the server's key, with two
  exceptions: the access key was written anew while this connection was being let in
  (`rekeyed`), or the answer was cut short (`"cut"`).
* `KeyKept` is about every moment power may be lost: what was acknowledged is in flash.
* `GivesUp` excepts a thread caught in the middle of a packet, where nothing ends its wait
  for a silent server. `GetsToWork` supposes `Settled`: the server serves and does not close of
  itself, the local network is quiet, and the key it left is known. It implies that a session
  let in with a wrong key, or with one cut short, is noticed and left.

Fairness. The UART loop polls without blocking, so its steps are weakly fair. A callback of
the timer task runs to its end. A started timer fires again and again: strong fairness of
`SendTimerUp` (other callbacks come in between), weak fairness of `RevTimerUp`. Bytes on
the wire arrive in the end: strong fairness of `Receive`, which competes with `NoBytes`. In
`SppFanout` threads run and the mutex is granted (strong, since it is taken and
released for ever; a thread waits for nothing else), until a misuse of freed memory, after which
nothing is claimed, and nobody is obliged to connect or to leave. In `OtaTransfer` the thread
runs (weak), and a message that is sent again and again is received again and again (strong
fairness of `Offer`, of the reception of the packet that is needed and of each
acknowledgement). In `JoylinkSession` the one thread runs (weak fairness of its loop, and of
what ends a wait for the rest of a packet while the server serves); the timer runs out
and connections succeed again and again (strong fairness of `ProcServerSt` and
`ConnectStep`), packets do not always come in pieces (strong fairness of `RecvWhole`), and a
server that serves answers while the thread waits for it, and closes a connection it hears
nothing on (strong). `Gateway` has no liveness property: a binding request may be lost, and
whether it is repeated is the gateway's affair.

`CHECK_DEADLOCK FALSE` stands in the three runs of `SppFanout` only, where a misuse of
freed memory ends the behaviour.

### Disagreements found

1. `devproanaly.h:109-110` says the slot is writable only when its state is 0;
   `DataDownWr` tests, copies and sets without a lock, and `TimerTest` clears the state of
   a slot in use. Two writers overwrite each other.
2. `devproanaly.c:359` says that a reply stops retransmission; a timer flag already raised
   sends the answered frame once more in the same pass.
3. `SppProtocol.c:7-8` promises delivery of any UART data; a lost update of `ref` frees a
   message that a client still holds.
4. `joylink_join_packet.c:129` lists `E_RET_ALL_DATA_HIT` among the answers of
   `joylink_join_pkg_add_data`, and `list/test.c:283` waits for it. Line 153 compares the total with
   `current_count`, which nothing increments, so it is never returned, and a message in
   parts is never put together. Its entry is not given back either, since nothing calls
   `joylink_join_pkg_clean_node_by_name_id`: after 20 such messages no other gets in.

## 4. Proofs

All theorems are checked by TLAPS for every value of the constants.

* `FifoProofs`: `TypeCorrect` and `MemorySafe`. The inductive invariant is
  `Datalen \in 0..FifoLen` with `FifoOffset \in 0..FifoLen`; from `FifoAssumption` no sum
  reaches 2^16, and the index arithmetic (`%` of a number below twice the length) is
  settled once in lemmas. `Refinement` and `CallsRefine`: each call maps to the same call of
  `ByteQueue` under the reading of the array from `FifoOffset` round its end.
* `DownLinkProofs`: `TypeCorrect`, `Timed` and `Bounded` for every `RESENDCNT`.
  `InFlightTimed` and `ResendBound` are not inductive alone. The invariant adds
  `StoppedSlot` (between clearing the state and stopping the timer the slot cannot become
  in-flight, only the UART thread makes it so) and `Counted` (how the history of
  retransmissions is tied to `resendcnt` while the timer runs).

* `SppFanoutProofs`: `TypeCorrect`, `QueuesAlive`, `NothingLost` and `SlotsOwned`, for any
  clients, slots and queue length, with divided counts or without. None of the four looks at a
  count, but each step on one has to be shown to leave them alone. The invariant adds that
  the mutex is the UART thread's exactly between `Lock` and `Unlock` (`Locked`), so the slot
  its loop is at stays filled until the push (`Loop`), and that a client is in the table only
  between its two critical sections (`Slotted`, `Served`), where its queue is alive (`Queues`).
  `CountsExact`, `HeldStaysLive` and `MemoryBounded` suppose `Indivisible`. That counts are exact
  is inductive with three things more: what is in a queue or in hand has not been freed
  (`Alive`); a message being freed, or new, has count 0, and the UART thread never frees with the
  reference of a refused push, because it holds another (`Unheld`); and numbers not yet given out
  belong to nobody (`Unused`). References are counted as places of queues (`Holding`, lemmas
  `Pushed` and `Popped`) and weights of threads (`Weight`, lemma `HoldersStep`). For the memory,
  `sockmsg_len` is what is allocated without the message just added and those being released
  (`Taken`), until a message is freed twice.

* `OtaTransferProofs`: `TypeCorrect`, `Ordered`, `Acknowledged` and `Boots`, for any set of
  images, of any lengths, and any capacity of the network. The invariant adds `Kept`: while
  the gateway keeps to one image, everything on the network and in flash is of that image,
  and no acknowledgement on the network is for a packet that is not in flash.

* `GatewayProofs`: `TypeCorrect`, `StaleBounded`, `AcksTruthful`, `ReportsAsked`, and the refinement
  `GatewayImplementsBinding`, for any gateways, bindings and requests. The invariant says, for each
  place the UDP thread can be at, what the buffer and its request still have to do with the
  request being served (`Decoding`, `Registering`, `Answering`, `Buffer`), that the ids in
  headers are those of the binding in force (`Bound`), where the two halves of an address come from
  (`Asked`), and
  for the other two threads which of what they have read still holds once they have sent one
  packet that is out of date (`Heartbeats`, `Reports`). The refinement has one case per step of
  the UDP thread; the steps of the other two leave `owner` and `pending` alone.

* `JoylinkSessionProofs`: `TypeCorrect`, `DescriptorAlwaysOwned`, `AlwaysItsKey`,
  `UploadsAlwaysInSession` and `KeyAlwaysKept`, for any descriptors, access keys, limit and number
  of packets. `WorksWithItsKey` is inductive only with what is under way: a heartbeat exists only
  once a key was read on this connection (`HbUnderWay`), and while the access key has not
  changed every packet is sealed with it (`AuthUnderWay`), so that an answer read whole gives the
  server's key. `Saved` ties flash to what was
  written and acknowledged.

* `UpLinkProofs`: `TypeCorrect`, `AlwaysAligned` and `OnlySoundGiven`, for any frames and
  alarms, any capacity of the buffer and any width of a length. None of the three is
  inductive: `RevCmdHandle` keeps `offset` in range only if a whole record is at the head,
  and a frame is converted in its place only if what is still to come is of later frames. The
  invariant reads the raw bytes of the buffer, the header bytes counted, the rest of the
  chunk and the bytes on the wire as one line (`Line`). Every step of the module only leaves
  places of the line out (`Within`; lemmas `LineStep` and `ByteStep`), and the device only
  adds a frame at its end (`LineGrows`). So two things about the line are never lost
  (`LineOK`): bytes of frames come in the order of the frames, and a byte, an 0xF5, an 0x55
  and another byte of one frame in this order are there only if the frame was sent undamaged
  behind its header. The converted part is whole records in order (`RecsOK`), all of them
  later than what was handed up and earlier than every byte on the line (`Behind`). When a
  frame passes its check all raw bytes are that frame, so it was sent sound and comes after
  all records (`AcceptStep`). All this is `Tight`, which holds before an `overrun` and at its
  end is left for `Loose`: the types with any 16-bit `offset`, and what was handed up before.
  Each step is shown to keep either, or to go from the first to the second (`TightStep`,
  `LooseStep`).

* `PacketProofs`: `NeverJoined`, `NeverReleased` and `FullStaysFull`, for any table,
  senders and messages, from `JoinAssumption` (at least one entry, and messages of at least two
  parts). They say what disagreement 4 leads to. The invariant is the type of the table, with 0
  for every count.

* `PacketProofs` also: `Base64RoundTrip`, `DatagramFits`, `DatagramRoundTrip`, `ShortRoundTrip`,
  `LongRoundTrip`, `CommandRead`, `HexRoundTrip` and `TimeOutAndWrap`, for every input; and for
  every cipher of blocks and every message `CbcUndone` and `MessageReturns`. The arithmetic of a
  group of base64, of a byte's nibbles and of a block's bytes is settled in lemmas; the rest
  is equality of sequences place by place. `MessageReturns` takes encryption by its chaining
  relation (`Chained`), because what a fold computes is not provable here; that `AesCbcEncrypt`
  satisfies it is tested (`EncryptedIsChained`).

Only model-checked: liveness, the checksums, the cipher and the curves. Liveness under fairness is
out of the prover's reach, and so are the folds of the checksums and the curves (induction over
data).

## 5. What could follow

* `Gateway` and `DownLink` composed: what a data request does to the command slot while its answer
  is encoded.

## 6. Not modelled

* *TCP accept loop and remote connection.* What could go wrong is there to read (the address of
  the loop's own variable, a thread that ends with its socket connected), and what follows lies
  in the MiCO socket library.
* *Third-party code* beyond the ciphers and curves that are used: cJSON, md5, the text of keys
  (`joylink_crypt.c`), the curves and the assembler that are not compiled, deterministic
  signatures.
* *The text of JSON messages*, the example device behind JoyLink, and sub-devices, of which this
  program has none.
* *Start-up and configuration*: calls of the MiCO system that create threads and register
  handlers. *The old JSON protocol* (`mico_tcl.c`), which nothing calls, and *the legacy
  copies*, which are not built. The variants of `mico_tcl_ota.c` for other appliances are
  compiled out.
* *Power lost in the middle of a flash write*: flash is written in one step.

The gateway, the cloud, the network, the boot loader and the C library are not in `src/`; the
`map` marks what stands for them as external.
