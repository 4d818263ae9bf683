------------------------------- MODULE Gateway -------------------------------
(***************************************************************************)
(* The session with a gateway over UDP (tcl/mico_tcl_ota.c): the UDP       *)
(* thread that serves requests, the heartbeat timer and the UART thread    *)
(* that reports the appliance's status.  All three use g_userconfig; the   *)
(* first two also use the one buffer p_base, the UDP thread to receive and *)
(* to encode its answers, the timer to encode its heartbeats.  No mutex.   *)
(*                                                                         *)
(* A packet is a header, here its command and net ids, and a body.  The    *)
(* base64 coder writes and the decoder reads one after the other, so a     *)
(* thread switch may fall between the two: the buffer has two cells.  A    *)
(* body that is not read as it was sent is Junk: a heartbeat's begins with *)
(* the first byte of SOFTWAREVER where a request has the device's id, its  *)
(* MAC address, which is taken to begin otherwise.                         *)
(*                                                                         *)
(* Gateways are external: any peer may send any request at any time, so    *)
(* loss, repetition and reordering need no action of their own.  The net   *)
(* ids a binding assigns are named by one value.  Left out: sequence       *)
(* numbers, the speed test (at_net_speed = 1), and what a data request     *)
(* does to the command slot (DownLink) or an upgrade to the flash          *)
(* (OtaTransfer).                                                          *)
(***************************************************************************)
EXTENDS Naturals

CONSTANTS Peer,     \* addresses gateways send from
          ROUT_UDP_PORT, \* the port reports and heartbeats go to, 8671 in the source
          NetId,    \* bindings a gateway may ask for
          Request,  \* the requests they send
          Nobody,   \* no address, no binding, net id 0
          Own,      \* a body that names this device
          Junk      \* any other body

ASSUME DistinctBodies ==
  Nobody \notin NetId /\ Own \notin NetId /\ Junk \notin NetId /\ Own # Junk /\ Own # Nobody
ASSUME NobodyIsNoPeer == Nobody \notin Peer

VARIABLES flag,                      \* g_userconfig: bound,
          addr, port,                \*   the gateway's IP address and port (addr),
          deviceNetid, gatewayNetid, \*   the ids assigned,
          snetid, dnetid,            \*   and the ids put in headers
          head, body,                \* p_base
          upc, from, cmd, req,       \* UDP thread: where it is, its request
          tpc, taddr, tsn, tdn,      \* timer task: where it is, its packet
          rpc, rsn, rdn,             \* UART thread: where it is, its report
          wire,                      \* the packet a step has put on the wire
          pending, askers,           \* history: the request being served, who asked to bind
          staleHeartbeats, staleReports \* history: since the binding last changed

config == <<flag, addr, port, deviceNetid, gatewayNetid, snetid, dnetid>>
p_base == <<head, body>>
udp == <<upc, from, cmd, req>>
timer == <<tpc, taddr, tsn, tdn>>
uart == <<rpc, rsn, rdn>>
requests == <<pending, askers>>
stale == <<staleHeartbeats, staleReports>>
vars == <<config, p_base, udp, timer, uart, wire, requests, stale>>

-----------------------------------------------------------------------------
(* Packets. *)

\* The answer to each request that has one.
Answer == [LINK_ORDER_BUNDING |-> "LINK_BUNDING_ACK",
           MANAGE_DELETE |-> "MANAGE_DELETE_ACK",
           DATA_DATA |-> "LINK_ACK",
           MANAGE_MODEL_REBOOT |-> "LINK_ACK",
           MANAGE_BROADCAST |-> "MANAGE_BROADCAST_ACK",
           DEFINE_DISCOVERY_QUESTION |-> "DEFINE_DISCOVERY_ANSWER",
           LINK_READ_INFORMATION |-> "LINK_INFORMATION_ACK",
           MANAGE_UPGRADE_CODE |-> "LINK_UPGRADE_ACK"]
Answered == {"LINK_ORDER_BUNDING", "MANAGE_DELETE", "DATA_DATA", "MANAGE_MODEL_REBOOT",
             "MANAGE_BROADCAST", "DEFINE_DISCOVERY_QUESTION", "LINK_READ_INFORMATION",
             "MANAGE_UPGRADE_CODE"}
Answers == {Answer[c] : c \in Answered}
Silent == {"ALAM_STOP"}
ASSUME KnownRequests == Request \subseteq Answered \cup Silent

\* A binding request names this device and its ids, or another device.
BodyOf(c) == CASE c = "LINK_ORDER_BUNDING" -> NetId \cup {Junk}
               [] c = "MANAGE_DELETE" -> {Own, Junk}
               [] OTHER -> {Junk}

\* What a whole request asks of the binding.
Meaning(c, b) ==
  IF c = "LINK_ORDER_BUNDING" /\ b \in NetId THEN b
  ELSE IF c = "MANAGE_DELETE" /\ b = Own THEN Own ELSE Nobody

\* A header: the command, and the net ids of a heartbeat or a report.
Header(c, s, d) == [cmd |-> c, snetid |-> s, dnetid |-> d]
Zero == Header("none", Nobody, Nobody)
Plain(c) == Header(c, Nobody, Nobody)
NoPacket == [to |-> Nobody, port |-> Nobody, head |-> Zero, body |-> Junk]
Packet(to, p, h, b) == [to |-> to, port |-> p, head |-> h, body |-> b]

Quiet == wire' = NoPacket

-----------------------------------------------------------------------------
(* The binding the configuration stands for: flag is set before the ids are *)
(* copied.                                                                  *)

Copying == upc \in {"snetid", "dnetid"}
owner ==
  IF flag = 0 THEN Nobody
  ELSE IF Copying THEN req
  ELSE IF deviceNetid = snetid /\ gatewayNetid = snetid /\ dnetid = snetid THEN snetid
  ELSE Junk

Fits(s, d) == flag = 1 /\ s = owner /\ d = owner
Count(n, fits) == IF fits \/ n = 2 THEN n ELSE n + 1
StaleReset == staleHeartbeats' = 0 /\ staleReports' = 0

-----------------------------------------------------------------------------
(* Power-up: g_userconfig is kept in RAM. *)

Init ==
  /\ flag = 0 /\ addr = Nobody /\ port = Nobody
  /\ deviceNetid = Nobody /\ gatewayNetid = Nobody /\ snetid = Nobody /\ dnetid = Nobody
  /\ head = Zero /\ body = Junk
  /\ upc = "recv" /\ from = Nobody /\ cmd = "none" /\ req = Junk
  /\ tpc = "idle" /\ taddr = Nobody /\ tsn = Nobody /\ tdn = Nobody
  /\ rpc = "idle" /\ rsn = Nobody /\ rdn = Nobody
  /\ wire = NoPacket
  /\ pending = Nobody /\ askers = {}
  /\ staleHeartbeats = 0 /\ staleReports = 0

\* The module loses power, or tcl_wifi_reset restarts it.
PowerUp ==
  /\ flag' = 0 /\ addr' = Nobody /\ port' = Nobody
  /\ deviceNetid' = Nobody /\ gatewayNetid' = Nobody /\ snetid' = Nobody /\ dnetid' = Nobody
  /\ head' = Zero /\ body' = Junk
  /\ upc' = "recv" /\ from' = Nobody /\ cmd' = "none" /\ req' = Junk
  /\ tpc' = "idle" /\ taddr' = Nobody /\ tsn' = Nobody /\ tdn' = Nobody
  /\ rpc' = "idle" /\ rsn' = Nobody /\ rdn' = Nobody
  /\ wire' = NoPacket
  /\ pending' = Nobody /\ askers' = {}
  /\ staleHeartbeats' = 0 /\ staleReports' = 0

-----------------------------------------------------------------------------
(* The UDP thread: localUdpServer_thread and the handlers of iotProcess. *)

Goto(l) == upc' = l
Udp == UNCHANGED <<timer, uart>>

\* recvfrom overwrites the buffer with a request.
Receive(p, c, b) ==
  /\ upc = "recv" /\ Goto("head")
  /\ from' = p /\ head' = Plain(c) /\ body' = b
  /\ pending' = Meaning(c, b)
  /\ askers' = IF c = "LINK_ORDER_BUNDING" THEN askers \cup {p} ELSE askers
  /\ Quiet /\ Udp /\ UNCHANGED <<config, cmd, req, stale>>

ReceiveAny ==
  \E p \in Peer, c \in Request : \E b \in BodyOf(c) : Receive(p, c, b)

\* Nothing for 3 s while an upgrade is in progress: the last packet of its
\* gateway, at any address here, is acknowledged again.
IdleAck(p) ==
  /\ upc = "recv" /\ Goto("encHead")
  /\ from' = p /\ cmd' = "MANAGE_UPGRADE_CODE"
  /\ Quiet /\ Udp /\ UNCHANGED <<config, p_base, req, requests, stale>>

\* iotBase64decode_str, the header before the body.
DecodeHead ==
  /\ upc = "head" /\ Goto("body") /\ cmd' = head.cmd
  /\ Quiet /\ Udp /\ UNCHANGED <<config, p_base, from, req, requests, stale>>

DecodeBody ==
  /\ upc = "body" /\ Goto("dispatch") /\ req' = body
  /\ Quiet /\ Udp /\ UNCHANGED <<config, p_base, from, cmd, requests, stale>>

\* Mutant: a binding in force is replaced.
RegisterAnyway ==
  /\ upc = "dispatch" /\ cmd = "LINK_ORDER_BUNDING"
  /\ addr' = from /\ port' = from
  /\ IF req \in NetId
       THEN /\ flag' = 1
            /\ deviceNetid' = req /\ gatewayNetid' = req
            /\ Goto("snetid")
       ELSE Goto("clear") /\ UNCHANGED <<flag, deviceNetid, gatewayNetid>>
  /\ Quiet /\ Udp /\ UNCHANGED <<snetid, dnetid, p_base, from, cmd, req, requests, stale>>

\* Mutant: the answer is sent from the binding request, before the test.
RegisterUntested ==
  /\ upc = "dispatch" /\ cmd = "LINK_ORDER_BUNDING"
  /\ addr' = from /\ port' = from
  /\ deviceNetid' = IF req \in NetId THEN req ELSE deviceNetid
  /\ IF req \in NetId /\ flag = 0
       THEN flag' = 1 /\ gatewayNetid' = req /\ Goto("snetid")
       ELSE Goto("encHead") /\ UNCHANGED <<flag, gatewayNetid>>
  /\ Quiet /\ Udp /\ UNCHANGED <<snetid, dnetid, p_base, from, cmd, req, requests, stale>>

\* tcl_manage_registered: the address and the port are taken from every binding request.
Register ==
  /\ upc = "dispatch" /\ cmd = "LINK_ORDER_BUNDING"
  /\ addr' = from /\ port' = from
  /\ IF req \in NetId /\ flag = 0
       THEN /\ flag' = 1
            /\ deviceNetid' = req /\ gatewayNetid' = req
            /\ Goto("snetid")
       ELSE Goto("clear") /\ UNCHANGED <<flag, deviceNetid, gatewayNetid>>
  /\ Quiet /\ Udp /\ UNCHANGED <<snetid, dnetid, p_base, from, cmd, req, requests, stale>>

SetSnetid ==
  /\ upc = "snetid" /\ Goto("dnetid") /\ snetid' = req
  /\ Quiet /\ Udp
  /\ UNCHANGED <<flag, addr, port, deviceNetid, gatewayNetid, dnetid, p_base, from, cmd, req,
                 requests, stale>>

SetDnetid ==
  /\ upc = "dnetid" /\ Goto("encHead") /\ dnetid' = req
  /\ StaleReset
  /\ Quiet /\ Udp
  /\ UNCHANGED <<flag, addr, port, deviceNetid, gatewayNetid, snetid, p_base, from, cmd, req, requests>>

\* The other requests: whether they are answered.
Handle ==
  /\ upc = "dispatch" /\ cmd # "LINK_ORDER_BUNDING"
  /\ \/ /\ cmd \in Answered
        /\ cmd = "MANAGE_DELETE" => req = Own
        /\ Goto("encHead")
     \/ /\ \/ cmd \notin Answered
           \/ cmd = "MANAGE_DELETE" /\ req # Own
           \/ cmd = "MANAGE_UPGRADE_CODE"
        /\ Goto("clear")
  /\ Quiet /\ Udp /\ UNCHANGED <<config, p_base, from, cmd, req, requests, stale>>

\* mySend, into the buffer requests are received in.
EncodeAnswerHead ==
  /\ upc = "encHead" /\ Goto("encBody") /\ head' = Plain(Answer[cmd])
  /\ Quiet /\ Udp /\ UNCHANGED <<config, body, from, cmd, req, requests, stale>>

AnswerBody == CASE cmd = "LINK_ORDER_BUNDING" -> deviceNetid
                [] cmd = "MANAGE_DELETE" -> Own
                [] OTHER -> Junk

EncodeAnswerBody ==
  /\ upc = "encBody" /\ Goto("send") /\ body' = AnswerBody
  /\ Quiet /\ Udp /\ UNCHANGED <<config, head, from, cmd, req, requests, stale>>

SendAnswer ==
  /\ upc = "send"
  /\ Goto(IF cmd = "MANAGE_DELETE" THEN "clearGateinfo"
          ELSE IF cmd = "MANAGE_MODEL_REBOOT" THEN "reset" ELSE "clear")
  /\ wire' = Packet(from, from, head, body)
  /\ Udp /\ UNCHANGED <<config, p_base, from, cmd, req, requests, stale>>

\* Mutant: deletion forgets the address too.
ClearAddress ==
  /\ upc = "clearGateinfo" /\ Goto("clear")
  /\ flag' = 0 /\ addr' = Nobody /\ port' = Nobody /\ StaleReset
  /\ Quiet /\ Udp
  /\ UNCHANGED <<deviceNetid, gatewayNetid, snetid, dnetid, p_base, from, cmd, req, requests>>

\* clear_gateinfo: the address and the net ids stay.
ClearGateinfo ==
  /\ upc = "clearGateinfo" /\ Goto("clear")
  /\ flag' = 0 /\ StaleReset
  /\ Quiet /\ Udp
  /\ UNCHANGED <<addr, port, deviceNetid, gatewayNetid, snetid, dnetid, p_base, from, cmd, req, requests>>

Reset == upc = "reset" /\ PowerUp

\* The top of the loop: memset(buffer, 0, 1024).
ClearBuffer ==
  /\ upc = "clear" /\ Goto("recv")
  /\ head' = Zero /\ body' = Junk
  /\ from' = Nobody /\ cmd' = "none" /\ req' = Junk /\ pending' = Nobody
  /\ Quiet /\ Udp /\ UNCHANGED <<config, askers, stale>>

-----------------------------------------------------------------------------
(* The heartbeat: data_upload_timer and tcl_manage_link_question. *)

Tgoto(l) == tpc' = l
Timer == UNCHANGED <<config, udp, uart, requests, staleReports>>

CopyAddr ==
  /\ tpc = "idle" /\ Tgoto("flag") /\ taddr' = addr
  /\ Quiet /\ Timer /\ UNCHANGED <<p_base, tsn, tdn, staleHeartbeats>>

\* Mutant: the heartbeat does not look at the flag.
TimerFlagIgnored ==
  /\ tpc = "flag" /\ Tgoto("snetid")
  /\ Quiet /\ Timer /\ UNCHANGED <<p_base, taddr, tsn, tdn, staleHeartbeats>>

TimerFlag ==
  /\ tpc = "flag" /\ Tgoto(IF flag = 1 THEN "snetid" ELSE "idle")
  /\ taddr' = IF flag = 1 THEN taddr ELSE Nobody
  /\ Quiet /\ Timer /\ UNCHANGED <<p_base, tsn, tdn, staleHeartbeats>>

TimerSnetid ==
  /\ tpc = "snetid" /\ Tgoto("dnetid") /\ tsn' = snetid
  /\ Quiet /\ Timer /\ UNCHANGED <<p_base, taddr, tdn, staleHeartbeats>>

TimerDnetid ==
  /\ tpc = "dnetid" /\ Tgoto("head") /\ tdn' = dnetid
  /\ Quiet /\ Timer /\ UNCHANGED <<p_base, taddr, tsn, staleHeartbeats>>

\* Mutant: a command the protocol does not have.
QuestionUnknown ==
  /\ tpc = "head" /\ Tgoto("body") /\ head' = Header("MANAGE_LINK_QUESTION", tsn, tdn)
  /\ Quiet /\ Timer /\ UNCHANGED <<body, taddr, tsn, tdn, staleHeartbeats>>

EncodeQuestionHead ==
  /\ tpc = "head" /\ Tgoto("body") /\ head' = Header("LINK_QUESTION", tsn, tdn)
  /\ Quiet /\ Timer /\ UNCHANGED <<body, taddr, tsn, tdn, staleHeartbeats>>

EncodeQuestionBody ==
  /\ tpc = "body" /\ Tgoto("send") /\ body' = Junk
  /\ Quiet /\ Timer /\ UNCHANGED <<head, taddr, tsn, tdn, staleHeartbeats>>

SendQuestion ==
  /\ tpc = "send" /\ Tgoto("idle")
  /\ wire' = Packet(taddr, ROUT_UDP_PORT, head, body)
  /\ staleHeartbeats' = Count(staleHeartbeats, Fits(tsn, tdn))
  /\ taddr' = Nobody /\ tsn' = Nobody /\ tdn' = Nobody
  /\ Timer /\ UNCHANGED p_base

-----------------------------------------------------------------------------
(* A status report: tcl_data_upload and mySend_uart, on the UART thread and *)
(* with a buffer of its own.                                                *)

Rgoto(l) == rpc' = l
Uart ==
  UNCHANGED <<flag, addr, deviceNetid, gatewayNetid, snetid, dnetid, p_base, udp, timer,
              requests, staleHeartbeats>>

ReportSnetid ==
  /\ rpc = "idle" /\ Rgoto("dnetid") /\ rsn' = snetid
  /\ Quiet /\ Uart /\ UNCHANGED <<port, rdn, staleReports>>

ReportDnetid ==
  /\ rpc = "dnetid" /\ Rgoto("flag") /\ rdn' = dnetid
  /\ Quiet /\ Uart /\ UNCHANGED <<port, rsn, staleReports>>

ReportFlag ==
  /\ rpc = "flag"
  /\ IF flag = 0
       THEN Rgoto("idle") /\ rsn' = Nobody /\ rdn' = Nobody
       ELSE Rgoto("port") /\ UNCHANGED <<rsn, rdn>>
  /\ Quiet /\ Uart /\ UNCHANGED <<port, staleReports>>

\* paddr points into g_userconfig: the port is written for all threads.
ReportPort ==
  /\ rpc = "port" /\ Rgoto("send") /\ port' = ROUT_UDP_PORT
  /\ Quiet /\ Uart /\ UNCHANGED <<rsn, rdn, staleReports>>

\* The address is read where paddr points.
SendReport ==
  /\ rpc = "send" /\ Rgoto("idle")
  /\ wire' = Packet(addr, port, Header("REPORT_DATA", rsn, rdn), Junk)
  /\ staleReports' = Count(staleReports, Fits(rsn, rdn))
  /\ rsn' = Nobody /\ rdn' = Nobody
  /\ Uart /\ UNCHANGED port

-----------------------------------------------------------------------------
UdpStep ==
  \/ ReceiveAny \/ \E p \in Peer : IdleAck(p)
  \/ DecodeHead \/ DecodeBody
  \/ Register \/ SetSnetid \/ SetDnetid \/ Handle
  \/ EncodeAnswerHead \/ EncodeAnswerBody \/ SendAnswer
  \/ ClearGateinfo \/ Reset \/ ClearBuffer

TimerStep ==
  \/ CopyAddr \/ TimerFlag \/ TimerSnetid \/ TimerDnetid
  \/ EncodeQuestionHead \/ EncodeQuestionBody \/ SendQuestion

UartStep == ReportSnetid \/ ReportDnetid \/ ReportFlag \/ ReportPort \/ SendReport

Next == UdpStep \/ TimerStep \/ UartStep \/ PowerUp

Spec == Init /\ [][Next]_vars

-----------------------------------------------------------------------------
(* Properties. *)

NetIds == NetId \cup {Nobody}
Peers == Peer \cup {Nobody}
Ports == Peers \cup {ROUT_UDP_PORT}
Commands == Answered \cup Silent \cup Answers \cup {"none", "LINK_QUESTION", "REPORT_DATA"}
Headers == [cmd : Commands, snetid : NetIds, dnetid : NetIds]
Bodies == NetIds \cup {Own, Junk}

\* Every variable has its type.
TypeOK ==
  /\ flag \in {0, 1} /\ addr \in Peers /\ port \in Ports
  /\ deviceNetid \in NetIds /\ gatewayNetid \in NetIds /\ snetid \in NetIds /\ dnetid \in NetIds
  /\ head \in Headers /\ body \in Bodies
  /\ upc \in {"recv", "head", "body", "dispatch", "snetid", "dnetid", "encHead", "encBody",
               "send", "clearGateinfo", "reset", "clear"}
  /\ from \in Peers /\ cmd \in Commands /\ req \in Bodies
  /\ tpc \in {"idle", "flag", "snetid", "dnetid", "head", "body", "send"}
  /\ taddr \in Peers /\ tsn \in NetIds /\ tdn \in NetIds
  /\ rpc \in {"idle", "dnetid", "flag", "port", "send"} /\ rsn \in NetIds /\ rdn \in NetIds
  /\ wire \in [to : Peers, port : Ports, head : Headers, body : Bodies]
  /\ pending \in NetIds \cup {Own} /\ askers \in SUBSET Peer
  /\ staleHeartbeats \in 0 .. 2 /\ staleReports \in 0 .. 2

\* Although requests are decoded from a buffer the timer writes to, a binding
\* begins only while there is none and only as the request being served asks for
\* it, and ends only for a request to delete it (tcl_manage_registered,
\* tcl_manage_delete, clear_gateinfo).
B == INSTANCE Binding WITH Delete <- Own
ImplementsBinding == B!Spec

\* Once a binding is complete, or is gone, at most one heartbeat and one report
\* that do not fit it still leave: the ones their threads had begun. Neither
\* thread takes a lock, and each reads the flag and the ids one by one
\* (data_upload_timer, tcl_manage_link_question, tcl_data_upload).
AtMostOneStale == Copying \/ (staleHeartbeats <= 1 /\ staleReports <= 1)

\* A packet that acknowledges a binding, also one the heartbeat timer sends
\* because it found it in the buffer, names the binding in force (mySend,
\* tcl_manage_registered_ack).
AckTruthful ==
  (wire.head.cmd = "LINK_BUNDING_ACK" /\ wire.body \in NetId) => wire.body = owner

\* A report leaves for the IP address of a binding request, and for its port or that
\* of another one, or ROUT_UDP_PORT, whatever is bound or deleted between its tests
\* and the sendto (tcl_data_upload is given a pointer to g_userconfig.addr and writes
\* the port there). The two need not belong together: a request that comes in between
\* leaves the report with the port it was sent from.
AddressAsked ==
  wire.head.cmd = "REPORT_DATA" =>
    wire.to \in askers /\ wire.port \in askers \cup {ROUT_UDP_PORT}
=============================================================================
