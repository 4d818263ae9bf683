--------------------------- MODULE JoylinkSession ---------------------------
(***************************************************************************)
(* The session with the JoyLink cloud (tcl/joylink/joylink): the states    *)
(* INIT, AUTH and WORK of joylink_dev_server.c, driven by the one thread   *)
(* of joylink_main_loop, which also serves the local network.              *)
(*                                                                         *)
(* The thread takes a step of the session if its timer has run out, then   *)
(* waits up to a second for its sockets and serves one of them, the local  *)
(* one first.                                                              *)
(* To read from the server it calls a recv without time limit, several     *)
(* times per packet: when a packet comes in pieces the whole thread waits  *)
(* in there. What the recv of the data returns is the whole packet to it,  *)
(* however short: the packet is opened and obeyed, and its rest stays in   *)
(* the stream as if it were the next.                                      *)
(*                                                                         *)
(* The session is let in under an access key, which the local network may  *)
(* write anew at any moment; it is kept in flash, everything else in RAM.  *)
(* An answer to "auth" is sealed with the access key it was asked under,   *)
(* any other packet with the session key. Decryption has no test: what is  *)
(* opened with the wrong key is dropped or taken as it is, as its last     *)
(* byte, the length of the padding, happens to be.                         *)
(*                                                                         *)
(* The server is external. It answers in order what it can read while it   *)
(* serves, may fall silent, and may close the connection. A session key is *)
(* told apart only by the connection it was given on. Left out: gateways   *)
(* with sub-devices, the server's address, which is written with the keys  *)
(* but not saved, and time: the timer may run out at any moment, and a     *)
(* step with the network down is no step.                                  *)
(***************************************************************************)
EXTENDS Integers, Sequences

CONSTANTS Fd,                    \* socket descriptors
          AccessKey,             \* access keys the server knows
          NoKey,                 \* the empty access key
          JL_MAX_SERVER_HB_LOST, \* 10 in the source
          MaxStream              \* bound: packets under way in each direction

ASSUME FdAssumption == -1 \notin Fd /\ Fd # {}
ASSUME KeyAssumption == NoKey \notin AccessKey
ASSUME BoundAssumption == JL_MAX_SERVER_HB_LOST \in Nat /\ MaxStream \in Nat \ {0}

VARIABLES server_st, server_socket, hb_lost_count,
          key,       \* sessionKey: "none", "old", "current", of this connection,
                     \*   "wrong", read with another access key, or "cut", read from
                     \*   an answer cut short
          open,      \* descriptors of the session that are open
          accesskey, \* jlp.accesskey
          flash,     \* the access key in flash
          rekeyed,   \* history: accesskey has changed on this connection
          written,   \* history: the access key acknowledged last, and those written since
          pc,        \* the thread: "timer", "select", "recv", in joylink_server_recv,
                     \*   "flash", "ack", in joylink_proc_lan_write_key, or "off"
          lan,       \* a packet of the local network is waiting
          upload,    \* the upload a step has sent: for whom, where, with which key
          requests,  \* under way to the server
          answers,   \* under way from it
          closed,    \* the server has closed the connection
          serving    \* the server answers

device == <<server_st, server_socket, hb_lost_count, key, open>>
keys == <<accesskey, flash, rekeyed, written>>
net == <<requests, answers, closed, serving>>
vars == <<pc, device, keys, lan, upload, net>>

INIT == 0
AUTH == 1
WORK == 2
NoUpload == [by |-> "none", fd |-> -1, key |-> "none"]
Upload(by, k) == [by |-> by, fd |-> server_socket, key |-> k]

\* A packet of the session: what it is about, and the key it is sealed with.
Packet(about, k) == [about |-> about, key |-> k]

\* What is left in the stream of a packet that was cut short.
Rest == Packet("rest", "none")

Init ==
  /\ server_st = INIT /\ server_socket = -1 /\ hb_lost_count = 0
  /\ key = "none" /\ open = {} /\ pc = "timer"
  /\ accesskey = NoKey /\ flash = NoKey /\ rekeyed = FALSE /\ written = {NoKey}
  /\ lan = FALSE /\ upload = NoUpload
  /\ requests = <<>> /\ answers = <<>> /\ closed = FALSE /\ serving = TRUE

-----------------------------------------------------------------------------
(* The timer: joylink_proc_server_st. *)

\* Mutant: the check comes one request late.
LostLate == hb_lost_count > JL_MAX_SERVER_HB_LOST + 1 /\ server_st # INIT

\* More than JL_MAX_SERVER_HB_LOST requests unanswered. The step from WORK to
\* AUTH and the one from AUTH to INIT are taken in the same call.
Lost == hb_lost_count > JL_MAX_SERVER_HB_LOST /\ server_st # INIT

\* Mutant: the check forgets to close.
KeptAll == open

\* The descriptors left open by joylink_server_st_time_out_check.
Kept == IF Lost THEN open \ {server_socket} ELSE open

NoSocket ==
  /\ server_st' = INIT /\ server_socket' = -1
  /\ hb_lost_count' = IF Lost THEN 0 ELSE hb_lost_count
  /\ open' = Kept /\ UNCHANGED <<key, rekeyed>>

\* The descriptor is closed but kept in server_socket.
ConnectFails(fd) ==
  /\ server_st' = INIT /\ server_socket' = fd
  /\ hb_lost_count' = 0
  /\ open' = Kept /\ UNCHANGED <<key, rekeyed>>

\* Mutant: a connection goes on where the one before it ended.
ConnectResumes(fd) ==
  /\ server_st' = IF key = "none" THEN AUTH ELSE WORK
  /\ server_socket' = fd /\ hb_lost_count' = 0
  /\ open' = Kept \cup {fd}
  /\ key' = (IF key = "none" THEN "none" ELSE "old") /\ rekeyed' = FALSE

Connect(fd) ==
  /\ server_st' = AUTH /\ server_socket' = fd
  /\ hb_lost_count' = 0
  /\ open' = Kept \cup {fd}
  /\ key' = (IF key = "none" THEN "none" ELSE "old") /\ rekeyed' = FALSE

\* joylink_server_st_init, on a descriptor that is free.
StInit ==
  /\ server_st = INIT \/ Lost
  /\ NoSocket \/ \E fd \in Fd \ Kept : ConnectFails(fd) \/ Connect(fd)
  /\ requests' = <<>> /\ answers' = <<>> /\ closed' = FALSE
  /\ UNCHANGED <<accesskey, flash, written, serving>>

\* Beyond MaxStream a request is not followed any further.
Send(r) == requests' = IF Len(requests) < MaxStream THEN Append(requests, r) ELSE requests

\* Mutant: only requests to be let in are counted.
StAskUncounted(s, r) ==
  /\ server_st = s /\ ~Lost
  /\ hb_lost_count' = IF s = AUTH THEN hb_lost_count + 1 ELSE hb_lost_count
  /\ Send(r)
  /\ UNCHANGED <<server_st, server_socket, key, open, keys, answers, closed, serving>>

\* joylink_server_st_auth and joylink_server_st_work.
StAsk(s, r) ==
  /\ server_st = s /\ ~Lost
  /\ hb_lost_count' = hb_lost_count + 1
  /\ Send(r)
  /\ UNCHANGED <<server_st, server_socket, key, open, keys, answers, closed, serving>>

ProcServerSt ==
  /\ pc = "timer" /\ pc' = "select"
  /\ \/ StInit
     \/ StAsk(AUTH, Packet("auth", accesskey))
     \/ StAsk(WORK, Packet("hb", key))
  /\ upload' = NoUpload
  /\ UNCHANGED lan

\* The timer has not run out, or the network is down.
NoStep ==
  /\ pc = "timer" /\ pc' = "select" /\ upload' = NoUpload
  /\ UNCHANGED <<device, keys, lan, net>>

-----------------------------------------------------------------------------
(* The server's socket: joylink_proc_server and joylink_server_recv. *)

\* The loop selects the server's socket and finds nothing on the local one.
Selected == pc = "select" /\ ~lan /\ server_socket # -1 /\ server_st > INIT

\* The key a packet was sealed with is the one it is opened with.
Opened(p) == p.key = IF p.about = "auth" THEN accesskey ELSE key
Given(p) == IF Opened(p) THEN "current" ELSE "wrong"

\* Mutant: the upload goes out before the key is stored.
ProcAuthUploadsFirst(k) ==
  /\ key' = k
  /\ upload' = Upload("server", key)
  /\ server_st' = WORK
  /\ UNCHANGED hb_lost_count

\* Mutant: the first heartbeat is to set WORK.
ProcAuthStays(k) ==
  /\ key' = k
  /\ upload' = Upload("server", key')
  /\ UNCHANGED <<server_st, hb_lost_count>>

ProcAuth(k) ==
  /\ key' = k
  /\ upload' = Upload("server", key')
  /\ server_st' = WORK
  /\ UNCHANGED hb_lost_count

ProcHb ==
  /\ server_st' = WORK /\ hb_lost_count' = 0
  /\ upload' = Upload("server", key)
  /\ UNCHANGED key

\* joylink_dencypt_server_req fails, as it may on a packet of another key.
Unreadable(p) ==
  /\ ~Opened(p) /\ p # Rest
  /\ upload' = NoUpload /\ UNCHANGED <<server_st, hb_lost_count, key>>

\* joylink_server_recv returns a whole packet.
Handle ==
  /\ answers # <<>>
  /\ LET p == Head(answers)
     IN  \/ p.about = "auth" /\ ProcAuth(Given(p))
         \/ p.about = "hb" /\ ProcHb
         \/ Unreadable(p)
  /\ answers' = Tail(answers) /\ pc' = "timer"
  /\ UNCHANGED <<server_socket, open, keys, lan, requests, closed, serving>>

\* A packet the server sends of itself, here whole and with no answer before it: it
\* leaves the session as it is, and is answered if it can be read.
ProcServerCtrl ==
  /\ Selected /\ serving /\ ~closed /\ answers = <<>>
  /\ \/ upload' = NoUpload
     \/ key = "current" /\ upload' = Upload("server", key)
  /\ pc' = "timer"
  /\ UNCHANGED <<device, keys, lan, net>>

RecvWhole == Selected /\ Handle

\* joylink_server_recv returns a packet of which only a piece had come. It is opened
\* as if it were whole, over the zeros of the buffer: of an answer to "auth" the key
\* may come out right or not, an answer to "hb" needs no more than its type.
HandleCut ==
  /\ answers # <<>> /\ Head(answers) # Rest
  /\ LET p == Head(answers)
     IN  \/ p.about = "auth" /\ \E k \in {Given(p), "cut"} : ProcAuth(k)
         \/ p.about = "hb" /\ ProcHb
         \/ upload' = NoUpload /\ UNCHANGED <<server_st, hb_lost_count, key>>
  /\ answers' = <<Rest>> \o Tail(answers) /\ pc' = "timer"
  /\ UNCHANGED <<server_socket, open, keys, lan, requests, closed, serving>>

\* Only a piece of a packet is there.
RecvPiece ==
  /\ Selected /\ answers # <<>>
  /\ pc' = "recv" /\ upload' = NoUpload
  /\ UNCHANGED <<device, keys, lan, net>>

\* The rest comes at a packet's boundary.
RecvRest == pc = "recv" /\ serving /\ Handle

\* The piece is, or makes, what the recv of the data returns.
RecvCut == (Selected \/ (pc = "recv" /\ serving)) /\ HandleCut

\* The rest comes, but a piece was taken for the magic or the head, or it is what a
\* packet cut short has left: what was read has no magic or no type that is known,
\* and either nothing is done or the search for the next magic goes on.
RecvLost ==
  /\ pc = "recv" /\ serving /\ answers # <<>>
  /\ answers' = Tail(answers)
  /\ pc' \in {"timer", "recv"} /\ upload' = NoUpload
  /\ UNCHANGED <<device, keys, lan, requests, closed, serving>>

\* recv fails or returns 0, or a length that was read is too large: the error path
\* of joylink_proc_server.
GiveUp ==
  /\ open' = open \ {server_socket}
  /\ server_socket' = -1 /\ server_st' = INIT
  /\ answers' = <<>> /\ closed' = FALSE /\ requests' = <<>>
  /\ pc' = "timer" /\ upload' = NoUpload
  /\ UNCHANGED <<hb_lost_count, key, keys, lan, serving>>

\* Whether all that came before has been read or not: a connection may be reset.
RecvFails == (Selected \/ pc = "recv") /\ closed /\ GiveUp

\* The two lengths are the bytes of another place of the stream.
RecvTooBig == pc = "recv" /\ serving /\ answers # <<>> /\ GiveUp

\* A second without anything to read.
SelectIdle ==
  /\ pc = "select" /\ ~lan
  /\ ~(Selected /\ (answers # <<>> \/ closed))
  /\ pc' = "timer" /\ upload' = NoUpload
  /\ UNCHANGED <<device, keys, lan, net>>

-----------------------------------------------------------------------------
(* The local network: joylink_proc_lan. *)

\* A control request ends in an upload, whatever the session's state; other
\* requests do not.
ProcLan ==
  /\ pc = "select" /\ lan
  /\ pc' = "timer" /\ lan' = FALSE
  /\ upload' \in {NoUpload, Upload("lan", key)}
  /\ UNCHANGED <<device, keys, net>>

\* joylink_proc_lan_write_key, whatever the session's state: the key in RAM. Of a
\* packet that cannot be parsed, the empty key is taken.
WriteKey(k) ==
  /\ pc = "select" /\ lan
  /\ pc' = "flash" /\ lan' = FALSE /\ upload' = NoUpload
  /\ accesskey' = k
  /\ rekeyed' = (rekeyed \/ k # accesskey)
  /\ written' = written \cup {k}
  /\ UNCHANGED <<device, flash, net>>

\* Mutant: a key is saved only the first time.
SaveKeyOnce ==
  /\ pc = "flash" /\ pc' = "ack" /\ upload' = NoUpload
  /\ flash' = IF flash = NoKey THEN accesskey ELSE flash
  /\ UNCHANGED <<device, accesskey, rekeyed, written, lan, net>>

\* joylink_dev_set_attr_jlp.
SaveKey ==
  /\ pc = "flash" /\ pc' = "ack" /\ upload' = NoUpload
  /\ flash' = accesskey
  /\ UNCHANGED <<device, accesskey, rekeyed, written, lan, net>>

\* joylink_packet_lan_write_key_rsp is sent.
AckKey ==
  /\ pc = "ack" /\ pc' = "timer" /\ upload' = NoUpload
  /\ written' = {accesskey}
  /\ UNCHANGED <<device, accesskey, flash, rekeyed, lan, net>>

-----------------------------------------------------------------------------
(* Loss of power; init_g_pdev, and joylink_dev_get_jlp_info. *)

PowerOff ==
  /\ pc # "off" /\ pc' = "off" /\ lan' = FALSE /\ upload' = NoUpload
  /\ server_st' = INIT /\ server_socket' = -1 /\ hb_lost_count' = 0
  /\ key' = "none" /\ open' = {}
  /\ accesskey' = NoKey /\ rekeyed' = FALSE
  /\ requests' = <<>> /\ answers' = <<>> /\ closed' = FALSE
  /\ UNCHANGED <<flash, written, serving>>

PowerOn ==
  /\ pc = "off" /\ pc' = "timer" /\ upload' = NoUpload
  /\ accesskey' = flash
  /\ UNCHANGED <<device, flash, rekeyed, written, lan, net>>

-----------------------------------------------------------------------------
(* The environment. *)

LanArrives ==
  /\ pc # "off" /\ ~lan /\ lan' = TRUE /\ upload' = NoUpload
  /\ UNCHANGED <<pc, device, keys, net>>

\* The server knows the access keys, and the session key of this connection.
Known(p) == p.key = "current" \/ p.key \in AccessKey

Answer ==
  /\ serving /\ ~closed /\ requests # <<>> /\ Len(answers) < MaxStream
  /\ answers' = IF Known(Head(requests)) THEN Append(answers, Head(requests)) ELSE answers
  /\ requests' = Tail(requests)
  /\ upload' = NoUpload
  /\ UNCHANGED <<pc, device, keys, lan, closed, serving>>

ServerCloses ==
  /\ serving /\ open # {} /\ ~closed /\ closed' = TRUE
  /\ upload' = NoUpload
  /\ UNCHANGED <<pc, device, keys, lan, requests, answers, serving>>

Serve(b) ==
  /\ serving # b /\ serving' = b /\ upload' = NoUpload
  /\ UNCHANGED <<pc, device, keys, lan, requests, answers, closed>>

-----------------------------------------------------------------------------
Next ==
  \/ ProcServerSt \/ NoStep
  \/ ProcLan \/ ProcServerCtrl \/ RecvWhole \/ RecvPiece \/ RecvFails \/ SelectIdle
  \/ RecvRest \/ RecvCut \/ RecvLost \/ RecvTooBig
  \/ \E k \in AccessKey \cup {NoKey} : WriteKey(k)
  \/ SaveKey \/ AckKey \/ PowerOff \/ PowerOn
  \/ LanArrives \/ Answer \/ ServerCloses
  \/ \E b \in BOOLEAN : Serve(b)

Spec == Init /\ [][Next]_vars

\* The thread runs, its timer runs out, the network comes up and sockets are to
\* be had. Packets are not always split, and while the server serves the rest of
\* one arrives. A server that serves accepts, answers while the thread waits for
\* it, and closes a connection it hears nothing on.
ConnectStep == ProcServerSt /\ server_st' = AUTH
Loop == NoStep \/ ProcLan \/ SaveKey \/ AckKey \/ RecvPiece \/ SelectIdle
Fairness ==
  /\ WF_vars(Loop) /\ SF_vars(ProcServerSt) /\ SF_vars(ConnectStep)
  /\ SF_vars(RecvWhole) /\ WF_vars(RecvFails)
  /\ WF_vars(RecvRest \/ RecvLost \/ RecvTooBig)
  /\ SF_vars(pc = "select" /\ Answer) /\ SF_vars(pc = "recv" /\ ServerCloses)

LiveSpec == Spec /\ Fairness

-----------------------------------------------------------------------------
(* Properties. *)

AccessKeys == AccessKey \cup {NoKey}
SessionKeys == {"none", "old", "current", "wrong", "cut"}
Packets == [about : {"auth", "hb", "rest"}, key : AccessKeys \cup SessionKeys]

\* The key k was read on this connection: from a whole answer opened with the access
\* key it was sealed with, or, the two exceptions, from one opened with an access key
\* written since it was asked for, or from one cut short.
OfThisConnection(k) == k \in {"current", "cut"} \/ (k = "wrong" /\ rekeyed)

\* Every variable has its type. The count of unanswered requests, which goes from
\* AUTH to WORK uncleared, passes its limit by one only.
TypeOK ==
  /\ pc \in {"timer", "select", "recv", "flash", "ack", "off"}
  /\ server_st \in {INIT, AUTH, WORK} /\ server_socket \in Fd \cup {-1}
  /\ hb_lost_count \in 0 .. JL_MAX_SERVER_HB_LOST + 1
  /\ key \in SessionKeys /\ open \in SUBSET Fd
  /\ accesskey \in AccessKeys /\ flash \in AccessKeys
  /\ rekeyed \in BOOLEAN /\ written \in SUBSET AccessKeys
  /\ lan \in BOOLEAN /\ closed \in BOOLEAN /\ serving \in BOOLEAN
  /\ upload \in [by : {"none", "server", "lan"}, fd : Fd \cup {-1}, key : SessionKeys]
  /\ requests \in Seq(Packets) /\ Len(requests) <= MaxStream
  /\ answers \in Seq(Packets) /\ Len(answers) <= MaxStream

\* Through all failures the session has exactly the descriptor of its connection
\* open while it has one and none otherwise: nothing leaks, nothing is closed
\* twice, and recv never reads a closed descriptor, although
\* joylink_server_st_init leaves one in server_socket.
DescriptorOwned == open = IF server_st = INIT THEN {} ELSE {server_socket}

\* A session works only with a key read on its own connection, although the key of
\* the connection before is kept and any heartbeat answer sets WORK
\* (joylink_proc_server_auth, joylink_proc_server_hb). The key is the one the server
\* gave, unless the access key has been written anew while the session was being let
\* in, or the answer was cut short and taken for whole (joylink_server_recv): then it
\* may be no key of the server's.
WorksWithItsKey == server_st = WORK => OfThisConnection(key)

\* The upload, or reply, that follows a server's packet goes to the open connection and
\* under a key read on it, with the same two exceptions (joylink_server_upload_req
\* looks at neither).
UploadsInSession ==
  upload.by = "server" => upload.fd \in open /\ OfThisConnection(upload.key)

\* Whenever power is lost, the device goes on with the access key it acknowledged
\* last, or with one written since (joylink_proc_lan_write_key,
\* joylink_dev_set_attr_jlp, joylink_dev_get_jlp_info).
KeyKept == pc # "off" => accesskey \in written

\* When the server has fallen silent for good, the device does not go on taking
\* itself for connected, unless its thread is caught in the middle of a packet,
\* where nothing ends its wait.
GivesUp == <>[]~serving => <>[](server_st # WORK \/ pc = "recv")

\* When the server serves, closes no connection but one it hears nothing on, and
\* the local network, which is served first, has fallen quiet and left a key the
\* server knows, the session works again and again with the key it was given: one
\* that works with the wrong key, or with one cut short, does not stay so.
Settled ==
  pc # "off" /\ serving /\ ~lan /\ accesskey # NoKey /\ (closed => pc = "recv")
GetsToWork == <>[]Settled => []<>(server_st = WORK /\ key = "current")
=============================================================================
