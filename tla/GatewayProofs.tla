---------------------------- MODULE GatewayProofs ----------------------------
(***************************************************************************)
(* The safety of the session with a gateway, for any peers, bindings and   *)
(* requests, and that it implements Binding.                               *)
(*                                                                         *)
(* The three threads take no lock, so the invariant says for each place    *)
(* the UDP thread can be at what the buffer, its request and the           *)
(* configuration still have to do with the request being served, and for   *)
(* each place of the other two which of what they have read still holds.   *)
(***************************************************************************)
EXTENDS Gateway, TLAPS

\* What is decoded as a binding or a deletion is the request being served.
Asks(c, b) ==
  /\ c = "LINK_ORDER_BUNDING" /\ b \in NetId => pending = b
  /\ c = "MANAGE_DELETE" /\ b = Own => pending = Own

Decoding ==
  /\ upc = "recv" => pending = Nobody
  /\ upc = "head" => Asks(head.cmd, body)
  /\ upc = "body" => Asks(cmd, body)
  /\ upc = "dispatch" => Asks(cmd, req)

Registering ==
  /\ Copying => /\ flag = 1 /\ cmd = "LINK_ORDER_BUNDING"
                /\ req \in NetId /\ req = pending
                /\ deviceNetid = req /\ gatewayNetid = req
  /\ upc = "dnetid" => snetid = req

\* The ids in headers are those of the binding in force.
Bound ==
  flag = 1 /\ ~Copying =>
    snetid \in NetId /\ deviceNetid = snetid /\ gatewayNetid = snetid /\ dnetid = snetid

Answering ==
  /\ upc \in {"encHead", "encBody", "send"} =>
       /\ cmd \in Answered
       /\ cmd = "MANAGE_DELETE" => pending = Own
       /\ cmd = "LINK_ORDER_BUNDING" => flag = 1 /\ pending = deviceNetid
  /\ upc = "clearGateinfo" => pending = Own

Buffer ==
  /\ body \in NetId => body = pending
  /\ head.cmd # "REPORT_DATA"
  /\ head.cmd = "LINK_BUNDING_ACK" =>
       /\ upc \in {"encBody", "send", "clear"} /\ cmd = "LINK_ORDER_BUNDING"
       /\ flag = 1 /\ pending = deviceNetid

Asked ==
  /\ addr # Nobody => addr \in askers
  /\ flag = 1 \/ rpc \in {"port", "send"} => addr # Nobody
  /\ rpc = "send" => port \in askers \cup {ROUT_UDP_PORT}
  /\ upc = "head" /\ head.cmd = "LINK_ORDER_BUNDING" => from \in askers
  /\ upc \in {"body", "dispatch"} /\ cmd = "LINK_ORDER_BUNDING" => from \in askers

\* After one stale heartbeat what the timer has read is up to date, and so for
\* the reports.
Heartbeats ==
  ~Copying => /\ staleHeartbeats <= 1
              /\ staleHeartbeats = 1 =>
                   /\ tpc \in {"snetid", "dnetid", "head", "body", "send"} => flag = 1
                   /\ tpc \in {"dnetid", "head", "body", "send"} => tsn = snetid
                   /\ tpc \in {"head", "body", "send"} => tdn = dnetid

Reports ==
  ~Copying => /\ staleReports <= 1
              /\ staleReports = 1 =>
                   /\ rpc \in {"dnetid", "flag", "port", "send"} => rsn = snetid
                   /\ rpc \in {"flag", "port", "send"} => rdn = dnetid
                   /\ rpc \in {"port", "send"} => flag = 1

Sent == AckTruthful /\ AddressAsked

IInv ==
  /\ TypeOK /\ Decoding /\ Registering /\ Bound /\ Answering
  /\ Buffer /\ Asked /\ Heartbeats /\ Reports /\ Sent

-----------------------------------------------------------------------------
(* Packets. *)

LEMMA AnswerOf ==
  ASSUME NEW c \in Answered
  PROVE  /\ Answer[c] \in Answers /\ Answer[c] # "REPORT_DATA"
         /\ Answer[c] = "LINK_BUNDING_ACK" => c = "LINK_ORDER_BUNDING"
  BY DEF Answered, Answer, Answers

LEMMA PlainType ==
  ASSUME NEW c \in Commands
  PROVE  Plain(c) \in Headers /\ Plain(c).cmd = c
  BY DEF Plain, Header, Headers, NetIds

LEMMA ZeroType == Zero \in Headers /\ Zero.cmd = "none"
  BY DEF Zero, Header, Headers, NetIds, Commands

LEMMA NoPacketType ==
  /\ NoPacket \in [to : Peers, port : Ports, head : Headers, body : Bodies]
  /\ NoPacket.head.cmd = "none"
  BY ZeroType DEF NoPacket, Peers, Ports, Bodies

\* A binding, the deletion and no request are told apart.
LEMMA Distinct == Nobody \notin NetId /\ Own \notin NetId /\ Junk \notin NetId /\ Own # Junk
                  /\ Own # Nobody
  BY DistinctBodies

\* The binding in force is the one in the headers, once it is copied.
LEMMA OwnerOf ==
  ASSUME Bound, Registering
  PROVE  /\ flag = 0 => owner = Nobody
         /\ flag = 1 /\ Copying => owner = pending
         /\ flag = 1 /\ ~Copying => owner = snetid /\ owner = deviceNetid /\ owner = dnetid
  BY DEF owner, Bound, Registering

-----------------------------------------------------------------------------
(* The heartbeat timer. *)

\* What a step of the timer may do to the rest of the state.
LEMMA TimerKeeps ==
  ASSUME IInv, Timer,
         tpc' \in {"idle", "flag", "snetid", "dnetid", "head", "body", "send"},
         taddr' \in Peers, tsn' \in NetIds, tdn' \in NetIds,
         head' = head \/ head' = Header("LINK_QUESTION", tsn, tdn),
         body' = body \/ body' = Junk,
         wire' = NoPacket \/ wire' = Packet(taddr, ROUT_UDP_PORT, head, body),
         staleHeartbeats' \in 0 .. 2, Heartbeats'
  PROVE  IInv'
  <1>1. /\ UNCHANGED <<flag, addr, port, deviceNetid, gatewayNetid, snetid, dnetid, upc, from, cmd, req,
                       rpc, rsn, rdn, pending, askers, staleReports>>
    BY DEF Timer, config, udp, uart, requests
  <1>2. head' \in Headers /\ (head' # head => head'.cmd = "LINK_QUESTION")
    BY DEF IInv, TypeOK, Header, Headers, Commands
  <1>3. wire' \in [to : Peers, port : Ports, head : Headers, body : Bodies]
    BY NoPacketType DEF IInv, TypeOK, Packet, Ports
  <1>4. TypeOK'
    BY <1>1, <1>2, <1>3 DEF IInv, TypeOK, Bodies
  <1>5. Decoding'
    BY <1>1, <1>2, Distinct DEF IInv, Decoding, Asks
  <1>6. (Copying' <=> Copying) /\ owner' = owner
    BY <1>1 DEF Copying, owner
  <1>7. Registering' /\ Bound' /\ Answering'
    BY <1>1, <1>6 DEF IInv, Registering, Bound, Answering
  <1>8. Buffer'
    BY <1>1, <1>2, Distinct DEF IInv, Buffer
  <1>9. Asked'
    BY <1>1, <1>2 DEF IInv, Asked
  <1>10. Reports'
    BY <1>1, <1>6 DEF IInv, Reports
  <1>11. Sent'
    <2>1. CASE wire' = NoPacket
      BY <2>1, NoPacketType DEF Sent, AckTruthful, AddressAsked
    <2>2. CASE wire' = Packet(taddr, ROUT_UDP_PORT, head, body)
      <3>1. wire'.head = head /\ wire'.body = body
        BY <2>2 DEF Packet
      <3>2. head.cmd = "LINK_BUNDING_ACK" /\ body \in NetId => body = owner
        BY OwnerOf DEF IInv, Buffer, Copying
      <3> QED
        BY <1>6, <3>1, <3>2 DEF IInv, Buffer, Sent, AckTruthful, AddressAsked
    <2> QED
      BY <2>1, <2>2
  <1> QED
    BY <1>4, <1>5, <1>7, <1>8, <1>9, <1>10, <1>11 DEF IInv

LEMMA TimerStepInv == ASSUME IInv, TimerStep PROVE IInv'
  <1> USE DEF Tgoto, Quiet
  <1>1. Timer
    BY DEF TimerStep, CopyAddr, TimerFlag, TimerSnetid, TimerDnetid, EncodeQuestionHead,
           EncodeQuestionBody, SendQuestion
  <1>2. /\ UNCHANGED <<flag, snetid, dnetid>> /\ (Copying' <=> Copying)
    BY <1>1 DEF Timer, config, udp, Copying
  <1>3. /\ taddr \in Peers /\ tsn \in NetIds /\ tdn \in NetIds /\ staleHeartbeats \in 0 .. 2
        /\ addr \in Peers /\ snetid \in NetIds /\ dnetid \in NetIds
        /\ Nobody \in Peers /\ Nobody \in NetIds
    BY DEF IInv, TypeOK, Peers, NetIds
  <1>4. CASE CopyAddr
    <2>1. Heartbeats'
      BY <1>2, <1>4 DEF CopyAddr, IInv, Heartbeats
    <2> QED
      BY <1>1, <1>3, <1>4, <2>1, TimerKeeps DEF CopyAddr, p_base
  <1>5. CASE TimerFlag
    <2>1. Heartbeats'
      BY <1>2, <1>5 DEF TimerFlag, IInv, Heartbeats
    <2> QED
      BY <1>1, <1>3, <1>5, <2>1, TimerKeeps DEF TimerFlag, p_base
  <1>6. CASE TimerSnetid
    <2>1. Heartbeats'
      BY <1>2, <1>6 DEF TimerSnetid, IInv, Heartbeats
    <2> QED
      BY <1>1, <1>3, <1>6, <2>1, TimerKeeps DEF TimerSnetid, p_base
  <1>7. CASE TimerDnetid
    <2>1. Heartbeats'
      BY <1>2, <1>7 DEF TimerDnetid, IInv, Heartbeats
    <2> QED
      BY <1>1, <1>3, <1>7, <2>1, TimerKeeps DEF TimerDnetid, p_base
  <1>8. CASE EncodeQuestionHead
    <2>1. Heartbeats'
      BY <1>2, <1>8 DEF EncodeQuestionHead, IInv, Heartbeats
    <2> QED
      BY <1>1, <1>3, <1>8, <2>1, TimerKeeps DEF EncodeQuestionHead
  <1>9. CASE EncodeQuestionBody
    <2>1. Heartbeats'
      BY <1>2, <1>9 DEF EncodeQuestionBody, IInv, Heartbeats
    <2> QED
      BY <1>1, <1>3, <1>9, <2>1, TimerKeeps DEF EncodeQuestionBody
  <1>10. CASE SendQuestion
    <2>1. staleHeartbeats' \in 0 .. 2
      BY <1>3, <1>10 DEF SendQuestion, Count
    <2>2. Heartbeats'
      <3>1. SUFFICES ASSUME ~Copying
                     PROVE  staleHeartbeats' <= 1 /\ tpc' = "idle"
        BY <1>2 DEF Heartbeats
      <3>2. CASE staleHeartbeats = 1
        <4>1. Fits(tsn, tdn)
          BY <1>10, <3>1, <3>2, OwnerOf DEF IInv, Heartbeats, SendQuestion, Fits
        <4> QED
          BY <1>10, <3>2, <4>1 DEF SendQuestion, Count
      <3>3. CASE staleHeartbeats # 1
        BY <1>3, <1>10, <3>1, <3>3 DEF IInv, Heartbeats, SendQuestion, Count
      <3> QED
        BY <3>2, <3>3
    <2> QED
      BY <1>1, <1>3, <1>10, <2>1, <2>2, TimerKeeps DEF SendQuestion, p_base
  <1> QED
    BY <1>4, <1>5, <1>6, <1>7, <1>8, <1>9, <1>10 DEF TimerStep

-----------------------------------------------------------------------------
(* The reports. *)

\* What a step of the UART thread may do to the rest of the state.
LEMMA UartKeeps ==
  ASSUME IInv, Uart,
         rpc' \in {"idle", "dnetid", "flag", "port", "send"},
         rpc' = "port" => flag = 1 \/ rpc = "port",
         rpc' = "send" => rpc = "port" /\ port' = ROUT_UDP_PORT, port' \in Ports,
         rsn' \in NetIds, rdn' \in NetIds, staleReports' \in 0 .. 2, Reports',
         wire' \in [to : Peers, port : Ports, head : Headers, body : Bodies],
         wire'.head.cmd # "LINK_BUNDING_ACK",
         wire'.head.cmd = "REPORT_DATA" =>
           wire'.to \in askers /\ wire'.port \in askers \cup {ROUT_UDP_PORT}
  PROVE  IInv'
  <1>1. /\ UNCHANGED <<flag, addr, deviceNetid, gatewayNetid, snetid, dnetid, head, body, upc, from,
                       cmd, req, tpc, taddr, tsn, tdn, pending, askers, staleHeartbeats>>
    BY DEF Uart, p_base, udp, timer, requests
  <1>2. TypeOK'
    BY <1>1 DEF IInv, TypeOK
  <1>3. (Copying' <=> Copying) /\ owner' = owner
    BY <1>1 DEF Copying, owner
  <1>4. Decoding' /\ Registering' /\ Bound' /\ Answering' /\ Buffer'
    BY <1>1, <1>3 DEF IInv, Decoding, Asks, Registering, Bound, Answering, Buffer
  <1>5. Asked'
    BY <1>1 DEF IInv, Asked
  <1>6. Heartbeats'
    BY <1>1, <1>3 DEF IInv, Heartbeats
  <1>7. Sent'
    BY <1>1 DEF Sent, AckTruthful, AddressAsked
  <1> QED
    BY <1>2, <1>4, <1>5, <1>6, <1>7 DEF IInv

LEMMA UartStepInv == ASSUME IInv, UartStep PROVE IInv'
  <1> USE DEF Rgoto, Quiet
  <1>1. Uart
    BY DEF UartStep, ReportSnetid, ReportDnetid, ReportFlag, ReportPort, SendReport
  <1>2. UNCHANGED <<flag, snetid, dnetid>> /\ (Copying' <=> Copying)
    BY <1>1 DEF Uart, udp, Copying
  <1>3. /\ rsn \in NetIds /\ rdn \in NetIds /\ staleReports \in 0 .. 2
        /\ addr \in Peers /\ snetid \in NetIds /\ dnetid \in NetIds /\ flag \in {0, 1}
        /\ Nobody \in NetIds /\ port \in Ports /\ ROUT_UDP_PORT \in Ports
    BY DEF IInv, TypeOK, Peers, Ports, NetIds
  <1>4. CASE ReportSnetid
    <2>1. Reports'
      BY <1>2, <1>4 DEF ReportSnetid, IInv, Reports
    <2> QED
      BY <1>1, <1>3, <1>4, <2>1, UartKeeps, NoPacketType DEF ReportSnetid
  <1>5. CASE ReportDnetid
    <2>1. Reports'
      BY <1>2, <1>5 DEF ReportDnetid, IInv, Reports
    <2> QED
      BY <1>1, <1>3, <1>5, <2>1, UartKeeps, NoPacketType DEF ReportDnetid
  <1>6. CASE ReportFlag
    <2>1. Reports'
      BY <1>2, <1>3, <1>6 DEF ReportFlag, IInv, Reports
    <2> QED
      BY <1>1, <1>3, <1>6, <2>1, UartKeeps, NoPacketType DEF ReportFlag
  <1>7. CASE ReportPort
    <2>1. Reports'
      BY <1>2, <1>3, <1>7 DEF ReportPort, IInv, Reports
    <2> QED
      BY <1>1, <1>3, <1>7, <2>1, UartKeeps, NoPacketType DEF ReportPort
  <1>8. CASE SendReport
    <2>1. staleReports' \in 0 .. 2
      BY <1>3, <1>8 DEF SendReport, Count
    <2>2. Reports'
      <3>1. SUFFICES ASSUME ~Copying
                     PROVE  staleReports' <= 1 /\ rpc' = "idle"
        BY <1>2 DEF Reports
      <3>2. CASE staleReports = 1
        <4>1. Fits(rsn, rdn)
          BY <1>8, <3>1, <3>2, OwnerOf DEF IInv, Reports, SendReport, Fits
        <4> QED
          BY <1>8, <3>2, <4>1 DEF SendReport, Count
      <3>3. CASE staleReports # 1
        BY <1>3, <1>8, <3>1, <3>3 DEF IInv, Reports, SendReport, Count
      <3> QED
        BY <3>2, <3>3
    <2>3. /\ Header("REPORT_DATA", rsn, rdn) \in Headers
          /\ Header("REPORT_DATA", rsn, rdn).cmd = "REPORT_DATA"
      BY <1>3 DEF Header, Headers, Commands
    <2>4. /\ wire' \in [to : Peers, port : Ports, head : Headers, body : Bodies]
          /\ wire'.head.cmd = "REPORT_DATA" /\ wire'.to = addr /\ wire'.port = port
      BY <1>3, <1>8, <2>3 DEF SendReport, Packet, Bodies
    <2>5. addr \in askers /\ port \in askers \cup {ROUT_UDP_PORT}
      BY <1>8 DEF SendReport, IInv, Asked
    <2> QED
      BY <1>1, <1>3, <1>8, <2>1, <2>2, <2>4, <2>5, UartKeeps DEF SendReport
  <1> QED
    BY <1>4, <1>5, <1>6, <1>7, <1>8 DEF UartStep

-----------------------------------------------------------------------------
(* The UDP thread. *)

LEMMA QuietSends ==
  ASSUME Quiet
  PROVE  wire' \in [to : Peers, port : Ports, head : Headers, body : Bodies] /\ Sent'
  BY NoPacketType DEF Quiet, Sent, AckTruthful, AddressAsked

\* A step that leaves the configuration alone and copies nothing.
LEMMA ConfigKept ==
  ASSUME IInv, UNCHANGED <<config, timer, uart, stale>>, ~Copying, upc' \notin {"snetid", "dnetid"}
  PROVE  /\ Registering' /\ Bound' /\ Heartbeats' /\ Reports'
         /\ owner' = owner /\ ~Copying'
         /\ UNCHANGED <<flag, addr, port, deviceNetid, gatewayNetid, snetid, dnetid, tpc, taddr, tsn, tdn,
                        rpc, rsn, rdn, staleHeartbeats, staleReports>>
  <1>1. UNCHANGED <<flag, addr, port, deviceNetid, gatewayNetid, snetid, dnetid, tpc, taddr, tsn, tdn,
                    rpc, rsn, rdn, staleHeartbeats, staleReports>>
    BY DEF config, timer, uart, stale
  <1>2. ~Copying' /\ owner' = owner
    BY <1>1 DEF Copying, owner
  <1> QED
    BY <1>1, <1>2 DEF IInv, Registering, Bound, Heartbeats, Reports, Copying

\* Whatever was left in the buffer, what is decoded next is this request.
LEMMA ReceiveInv ==
  ASSUME IInv, NEW p \in Peer, NEW c \in Request, NEW b \in BodyOf(c), Receive(p, c, b)
  PROVE  IInv'
  <1>1. /\ c \in Commands /\ c \notin {"REPORT_DATA", "LINK_BUNDING_ACK"}
        /\ b \in Bodies /\ Meaning(c, b) \in NetIds \cup {Own}
    BY KnownRequests DEF Answered, Silent, Commands, BodyOf, Bodies, NetIds, Meaning
  <1>2. /\ upc = "recv" /\ upc' = "head" /\ from' = p /\ head' = Plain(c) /\ body' = b
        /\ pending' = Meaning(c, b) /\ UNCHANGED <<config, timer, uart, stale>>
        /\ UNCHANGED <<cmd, req>>
        /\ askers' = IF c = "LINK_ORDER_BUNDING" THEN askers \cup {p} ELSE askers
    BY DEF Receive, Goto, Udp
  <1>3. /\ Registering' /\ Bound' /\ Heartbeats' /\ Reports'
        /\ UNCHANGED <<flag, addr, port, deviceNetid, gatewayNetid, snetid, dnetid, tpc, taddr, tsn, tdn,
                       rpc, rsn, rdn, staleHeartbeats, staleReports>>
    BY <1>2, ConfigKept DEF Copying
  <1>4. Plain(c) \in Headers /\ Plain(c).cmd = c
    BY <1>1, PlainType
  <1>5. wire' \in [to : Peers, port : Ports, head : Headers, body : Bodies] /\ Sent'
    BY QuietSends DEF Receive
  <1>6. TypeOK'
    BY <1>1, <1>2, <1>3, <1>4, <1>5 DEF IInv, TypeOK, Peers
  <1>7. Asks(c, b)'
    BY <1>2, Distinct DEF Asks, Meaning, BodyOf
  <1>8. Decoding' /\ Answering'
    BY <1>2, <1>4, <1>7 DEF Decoding, Answering, Asks
  <1>9. Buffer'
    BY <1>1, <1>2, <1>4, Distinct DEF Buffer, BodyOf, Meaning
  <1>10. Asked'
    BY <1>2, <1>3, <1>4 DEF IInv, Asked
  <1> QED
    BY <1>3, <1>5, <1>6, <1>8, <1>9, <1>10 DEF IInv

LEMMA IdleAckInv == ASSUME IInv, NEW p \in Peer, IdleAck(p) PROVE IInv'
  <1>1. /\ upc = "recv" /\ upc' = "encHead" /\ from' = p /\ cmd' = "MANAGE_UPGRADE_CODE"
        /\ UNCHANGED <<config, timer, uart, stale>> /\ UNCHANGED <<head, body, req, pending, askers>>
    BY DEF IdleAck, Goto, Udp, p_base, requests
  <1>2. /\ Registering' /\ Bound' /\ Heartbeats' /\ Reports'
        /\ UNCHANGED <<flag, addr, port, deviceNetid, gatewayNetid, snetid, dnetid, tpc, taddr, tsn, tdn,
                       rpc, rsn, rdn, staleHeartbeats, staleReports>>
    BY <1>1, ConfigKept DEF Copying
  <1>3. wire' \in [to : Peers, port : Ports, head : Headers, body : Bodies] /\ Sent'
    BY QuietSends DEF IdleAck
  <1>4. TypeOK'
    BY <1>1, <1>2, <1>3 DEF IInv, TypeOK, Peers, Commands, Answered
  <1>5. Decoding' /\ Answering'
    BY <1>1 DEF Decoding, Answering, Answered
  <1>6. Buffer' /\ Asked'
    BY <1>1, <1>2 DEF IInv, Buffer, Asked
  <1> QED
    BY <1>2, <1>3, <1>4, <1>5, <1>6 DEF IInv

LEMMA DecodeInv == ASSUME IInv, DecodeHead \/ DecodeBody PROVE IInv'
  <1>1. \/ upc = "head" /\ upc' = "body" /\ cmd' = head.cmd /\ req' = req
        \/ upc = "body" /\ upc' = "dispatch" /\ cmd' = cmd /\ req' = body
    BY DEF DecodeHead, DecodeBody, Goto
  <1>2. /\ UNCHANGED <<config, timer, uart, stale>>
        /\ UNCHANGED <<head, body, from, pending, askers>> /\ Quiet
    BY DEF DecodeHead, DecodeBody, Udp, p_base, requests
  <1>3. /\ Registering' /\ Bound' /\ Heartbeats' /\ Reports'
        /\ UNCHANGED <<flag, addr, port, deviceNetid, gatewayNetid, snetid, dnetid, tpc, taddr, tsn, tdn,
                       rpc, rsn, rdn, staleHeartbeats, staleReports>>
    BY <1>1, <1>2, ConfigKept DEF Copying
  <1>4. wire' \in [to : Peers, port : Ports, head : Headers, body : Bodies] /\ Sent'
    BY <1>2, QuietSends
  <1>5. TypeOK'
    BY <1>1, <1>2, <1>3, <1>4 DEF IInv, TypeOK, Headers
  <1>6. Decoding' /\ Answering'
    BY <1>1, <1>2 DEF IInv, Decoding, Answering, Asks
  <1>7. Buffer' /\ Asked'
    BY <1>1, <1>2, <1>3 DEF IInv, Buffer, Asked
  <1> QED
    BY <1>3, <1>4, <1>5, <1>6, <1>7 DEF IInv

\* A binding begins: flag is set, and the ids follow.
LEMMA RegisterInv == ASSUME IInv, Register PROVE IInv'
  <1>1. /\ upc = "dispatch" /\ cmd = "LINK_ORDER_BUNDING" /\ addr' = from /\ port' = from
        /\ from \in askers
        /\ UNCHANGED <<snetid, dnetid, head, body, from, cmd, req, pending, askers, staleHeartbeats,
                       staleReports, tpc, taddr, tsn, tdn, rpc, rsn, rdn>>
    BY DEF Register, IInv, Asked, Udp, p_base, timer, uart, requests, stale
  <1>2. wire' \in [to : Peers, port : Ports, head : Headers, body : Bodies] /\ Sent'
    BY QuietSends DEF Register
  <1>3. from # Nobody
    BY <1>1, NobodyIsNoPeer DEF IInv, TypeOK
  <1>4. CASE req \in NetId /\ flag = 0
    <2>1. flag' = 1 /\ deviceNetid' = req /\ gatewayNetid' = req /\ upc' = "snetid" /\ pending = req
      BY <1>1, <1>4 DEF Register, Goto, IInv, Decoding, Asks
    <2>2. TypeOK'
      BY <1>1, <1>2, <1>4, <2>1 DEF IInv, TypeOK, Ports, NetIds
    <2>3. Decoding' /\ Registering' /\ Bound' /\ Answering' /\ Heartbeats' /\ Reports'
      BY <1>1, <1>4, <2>1
      DEF Decoding, Registering, Bound, Answering, Heartbeats, Reports, Copying
    <2>4. Buffer' /\ Asked'
      BY <1>1, <1>3, <2>1 DEF IInv, Buffer, Asked
    <2> QED
      BY <1>2, <2>2, <2>3, <2>4 DEF IInv
  <1>5. CASE ~(req \in NetId /\ flag = 0)
    <2>1. UNCHANGED <<flag, deviceNetid, gatewayNetid>> /\ upc' = "clear"
      BY <1>5 DEF Register, Goto
    <2>2. TypeOK'
      BY <1>1, <1>2, <2>1 DEF IInv, TypeOK, Ports
    <2>3. Decoding' /\ Registering' /\ Bound' /\ Answering' /\ Heartbeats' /\ Reports'
      BY <1>1, <2>1
      DEF IInv, Decoding, Registering, Bound, Answering, Heartbeats, Reports, Copying
    <2>4. Buffer' /\ Asked'
      BY <1>1, <1>3, <2>1 DEF IInv, Buffer, Asked
    <2> QED
      BY <1>2, <2>2, <2>3, <2>4 DEF IInv
  <1> QED
    BY <1>4, <1>5

LEMMA SetSnetidInv == ASSUME IInv, SetSnetid PROVE IInv'
  <1>1. /\ upc = "snetid" /\ upc' = "dnetid" /\ snetid' = req
        /\ UNCHANGED <<flag, addr, port, deviceNetid, gatewayNetid, dnetid, head, body, from, cmd, req,
                       pending, askers, staleHeartbeats, staleReports, tpc, taddr, tsn, tdn, rpc,
                       rsn, rdn>>
    BY DEF SetSnetid, Goto, Udp, p_base, timer, uart, requests, stale
  <1>2. wire' \in [to : Peers, port : Ports, head : Headers, body : Bodies] /\ Sent'
    BY QuietSends DEF SetSnetid
  <1>3. TypeOK'
    BY <1>1, <1>2 DEF IInv, TypeOK, Registering, Copying, NetIds
  <1>4. Decoding' /\ Registering' /\ Bound' /\ Answering' /\ Heartbeats' /\ Reports'
    BY <1>1 DEF IInv, Decoding, Registering, Bound, Answering, Heartbeats, Reports, Copying
  <1>5. Buffer' /\ Asked'
    BY <1>1 DEF IInv, Buffer, Asked
  <1> QED
    BY <1>2, <1>3, <1>4, <1>5 DEF IInv

LEMMA SetDnetidInv == ASSUME IInv, SetDnetid PROVE IInv'
  <1>1. /\ upc = "dnetid" /\ upc' = "encHead" /\ dnetid' = req
        /\ staleHeartbeats' = 0 /\ staleReports' = 0
        /\ UNCHANGED <<flag, addr, port, deviceNetid, gatewayNetid, snetid, head, body, from, cmd, req,
                       pending, askers, tpc, taddr, tsn, tdn, rpc, rsn, rdn>>
    BY DEF SetDnetid, Goto, Udp, p_base, timer, uart, requests, StaleReset
  <1>2. wire' \in [to : Peers, port : Ports, head : Headers, body : Bodies] /\ Sent'
    BY QuietSends DEF SetDnetid
  <1>3. /\ flag = 1 /\ cmd = "LINK_ORDER_BUNDING" /\ req \in NetId /\ req = pending
        /\ deviceNetid = req /\ gatewayNetid = req /\ snetid = req
    BY <1>1 DEF IInv, Registering, Copying
  <1>4. TypeOK'
    BY <1>1, <1>2, <1>3 DEF IInv, TypeOK, NetIds
  <1>5. Decoding' /\ Registering' /\ Bound' /\ Answering' /\ Heartbeats' /\ Reports'
    BY <1>1, <1>3
    DEF Decoding, Registering, Bound, Answering, Answered, Heartbeats, Reports, Copying
  <1>6. Buffer' /\ Asked'
    BY <1>1 DEF IInv, Buffer, Asked
  <1> QED
    BY <1>2, <1>4, <1>5, <1>6 DEF IInv

LEMMA HandleInv == ASSUME IInv, Handle PROVE IInv'
  <1>1. /\ upc = "dispatch" /\ cmd # "LINK_ORDER_BUNDING"
        /\ \/ upc' = "encHead" /\ cmd \in Answered /\ (cmd = "MANAGE_DELETE" => req = Own)
           \/ upc' = "clear"
        /\ UNCHANGED <<config, timer, uart, stale>>
        /\ UNCHANGED <<head, body, from, cmd, req, pending, askers>> /\ Quiet
    BY DEF Handle, Goto, Udp, p_base, requests
  <1>2. /\ Registering' /\ Bound' /\ Heartbeats' /\ Reports'
        /\ UNCHANGED <<flag, addr, port, deviceNetid, gatewayNetid, snetid, dnetid, tpc, taddr, tsn, tdn,
                       rpc, rsn, rdn, staleHeartbeats, staleReports>>
    BY <1>1, ConfigKept DEF Copying
  <1>3. wire' \in [to : Peers, port : Ports, head : Headers, body : Bodies] /\ Sent'
    BY <1>1, QuietSends
  <1>4. TypeOK'
    BY <1>1, <1>2, <1>3 DEF IInv, TypeOK
  <1>5. Decoding' /\ Answering'
    BY <1>1 DEF IInv, Decoding, Answering, Asks
  <1>6. Buffer' /\ Asked'
    BY <1>1, <1>2 DEF IInv, Buffer, Asked
  <1> QED
    BY <1>2, <1>3, <1>4, <1>5, <1>6 DEF IInv

\* An acknowledgement is in the buffer only once its binding is complete.
LEMMA EncodeHeadInv == ASSUME IInv, EncodeAnswerHead PROVE IInv'
  <1>1. /\ upc = "encHead" /\ upc' = "encBody" /\ head' = Plain(Answer[cmd])
        /\ UNCHANGED <<config, timer, uart, stale>>
        /\ UNCHANGED <<body, from, cmd, req, pending, askers>> /\ Quiet
    BY DEF EncodeAnswerHead, Goto, Udp, requests
  <1>2. /\ Registering' /\ Bound' /\ Heartbeats' /\ Reports'
        /\ UNCHANGED <<flag, addr, port, deviceNetid, gatewayNetid, snetid, dnetid, tpc, taddr, tsn, tdn,
                       rpc, rsn, rdn, staleHeartbeats, staleReports>>
    BY <1>1, ConfigKept DEF Copying
  <1>3. wire' \in [to : Peers, port : Ports, head : Headers, body : Bodies] /\ Sent'
    BY <1>1, QuietSends
  <1>4. cmd \in Answered
    BY <1>1 DEF IInv, Answering
  <1>5. /\ head' \in Headers /\ head'.cmd = Answer[cmd] /\ head'.cmd # "REPORT_DATA"
        /\ head'.cmd = "LINK_BUNDING_ACK" => cmd = "LINK_ORDER_BUNDING"
    BY <1>1, <1>4, AnswerOf, PlainType DEF Commands
  <1>6. TypeOK'
    BY <1>1, <1>2, <1>3, <1>5 DEF IInv, TypeOK
  <1>7. Decoding' /\ Answering'
    BY <1>1, <1>2 DEF IInv, Decoding, Answering
  <1>8. Buffer'
    BY <1>1, <1>2, <1>5 DEF IInv, Buffer, Answering
  <1>9. Asked'
    BY <1>1, <1>2 DEF IInv, Asked
  <1> QED
    BY <1>2, <1>3, <1>6, <1>7, <1>8, <1>9 DEF IInv

LEMMA EncodeBodyInv == ASSUME IInv, EncodeAnswerBody PROVE IInv'
  <1>1. /\ upc = "encBody" /\ upc' = "send" /\ body' = AnswerBody
        /\ UNCHANGED <<config, timer, uart, stale>>
        /\ UNCHANGED <<head, from, cmd, req, pending, askers>> /\ Quiet
    BY DEF EncodeAnswerBody, Goto, Udp, requests
  <1>2. /\ Registering' /\ Bound' /\ Heartbeats' /\ Reports'
        /\ UNCHANGED <<flag, addr, port, deviceNetid, gatewayNetid, snetid, dnetid, tpc, taddr, tsn, tdn,
                       rpc, rsn, rdn, staleHeartbeats, staleReports>>
    BY <1>1, ConfigKept DEF Copying
  <1>3. wire' \in [to : Peers, port : Ports, head : Headers, body : Bodies] /\ Sent'
    BY <1>1, QuietSends
  <1>4. body' \in Bodies /\ (body' \in NetId => body' = pending)
    BY <1>1, Distinct DEF AnswerBody, IInv, TypeOK, Answering, Bodies
  <1>5. TypeOK'
    BY <1>1, <1>2, <1>3, <1>4 DEF IInv, TypeOK
  <1>6. Decoding' /\ Answering'
    BY <1>1, <1>2 DEF IInv, Decoding, Answering
  <1>7. Buffer' /\ Asked'
    BY <1>1, <1>2, <1>4 DEF IInv, Buffer, Asked
  <1> QED
    BY <1>2, <1>3, <1>5, <1>6, <1>7 DEF IInv

LEMMA SendAnswerInv == ASSUME IInv, SendAnswer PROVE IInv'
  <1>1. /\ upc = "send"
        /\ upc' = IF cmd = "MANAGE_DELETE" THEN "clearGateinfo"
                  ELSE IF cmd = "MANAGE_MODEL_REBOOT" THEN "reset" ELSE "clear"
        /\ wire' = Packet(from, from, head, body)
        /\ UNCHANGED <<config, timer, uart, stale>>
        /\ UNCHANGED <<head, body, from, cmd, req, pending, askers>>
    BY DEF SendAnswer, Goto, Udp, p_base, requests
  <1>2. /\ Registering' /\ Bound' /\ Heartbeats' /\ Reports' /\ owner' = owner
        /\ UNCHANGED <<flag, addr, port, deviceNetid, gatewayNetid, snetid, dnetid, tpc, taddr, tsn, tdn,
                       rpc, rsn, rdn, staleHeartbeats, staleReports>>
    BY <1>1, ConfigKept DEF Copying
  <1>3. /\ wire' \in [to : Peers, port : Ports, head : Headers, body : Bodies]
        /\ wire'.head = head /\ wire'.body = body
    BY <1>1 DEF Packet, IInv, TypeOK, Ports
  <1>4. head.cmd = "LINK_BUNDING_ACK" /\ body \in NetId => body = owner
    BY OwnerOf DEF IInv, Buffer, Copying
  <1>5. Sent'
    BY <1>2, <1>3, <1>4 DEF IInv, Buffer, Sent, AckTruthful, AddressAsked
  <1>6. TypeOK'
    BY <1>1, <1>2, <1>3 DEF IInv, TypeOK
  <1>7. Decoding' /\ Answering'
    BY <1>1 DEF IInv, Decoding, Answering
  <1>8. head.cmd = "LINK_BUNDING_ACK" => upc' = "clear"
    BY <1>1 DEF IInv, Buffer
  <1>9. Buffer' /\ Asked'
    BY <1>1, <1>2, <1>8 DEF IInv, Buffer, Asked
  <1> QED
    BY <1>2, <1>5, <1>6, <1>7, <1>9 DEF IInv

\* A binding ends.
LEMMA ClearGateinfoInv == ASSUME IInv, ClearGateinfo PROVE IInv'
  <1>1. /\ upc = "clearGateinfo" /\ upc' = "clear" /\ flag' = 0
        /\ staleHeartbeats' = 0 /\ staleReports' = 0
        /\ UNCHANGED <<addr, port, deviceNetid, gatewayNetid, snetid, dnetid, head, body, from, cmd, req,
                       pending, askers, tpc, taddr, tsn, tdn, rpc, rsn, rdn>>
    BY DEF ClearGateinfo, Goto, Udp, p_base, timer, uart, requests, StaleReset
  <1>2. wire' \in [to : Peers, port : Ports, head : Headers, body : Bodies] /\ Sent'
    BY QuietSends DEF ClearGateinfo
  <1>3. TypeOK'
    BY <1>1, <1>2 DEF IInv, TypeOK
  <1>4. Decoding' /\ Registering' /\ Bound' /\ Answering' /\ Heartbeats' /\ Reports'
    BY <1>1 DEF Decoding, Registering, Bound, Answering, Heartbeats, Reports, Copying
  <1>5. Buffer' /\ Asked'
    BY <1>1 DEF IInv, Buffer, Asked
  <1> QED
    BY <1>2, <1>3, <1>4, <1>5 DEF IInv

LEMMA ClearBufferInv == ASSUME IInv, ClearBuffer PROVE IInv'
  <1>1. /\ upc = "clear" /\ upc' = "recv" /\ head' = Zero /\ body' = Junk
        /\ from' = Nobody /\ cmd' = "none" /\ req' = Junk /\ pending' = Nobody
        /\ UNCHANGED <<config, timer, uart, stale>> /\ askers' = askers /\ Quiet
    BY DEF ClearBuffer, Goto, Udp
  <1>2. /\ Registering' /\ Bound' /\ Heartbeats' /\ Reports'
        /\ UNCHANGED <<flag, addr, port, deviceNetid, gatewayNetid, snetid, dnetid, tpc, taddr, tsn, tdn,
                       rpc, rsn, rdn, staleHeartbeats, staleReports>>
    BY <1>1, ConfigKept DEF Copying
  <1>3. wire' \in [to : Peers, port : Ports, head : Headers, body : Bodies] /\ Sent'
    BY <1>1, QuietSends
  <1>4. TypeOK'
    BY <1>1, <1>2, <1>3, ZeroType DEF IInv, TypeOK, Peers, Commands, Bodies, NetIds
  <1>5. Decoding' /\ Answering'
    BY <1>1 DEF Decoding, Answering
  <1>6. Buffer' /\ Asked'
    BY <1>1, <1>2, ZeroType, Distinct DEF IInv, Buffer, Asked
  <1> QED
    BY <1>2, <1>3, <1>4, <1>5, <1>6 DEF IInv

LEMMA InitIInv == Init => IInv
  <1> SUFFICES ASSUME Init PROVE IInv
    OBVIOUS
  <1>1. wire \in [to : Peers, port : Ports, head : Headers, body : Bodies] /\ wire.head.cmd = "none"
    BY NoPacketType DEF Init
  <1>2. TypeOK
    BY <1>1, ZeroType DEF Init, TypeOK, Peers, Ports, NetIds, Commands, Bodies
  <1>3. Decoding /\ Registering /\ Bound /\ Answering /\ Heartbeats /\ Reports
    BY DEF Init, Decoding, Registering, Bound, Answering, Heartbeats, Reports, Copying
  <1>4. Buffer /\ Asked /\ Sent
    BY <1>1, ZeroType, Distinct DEF Init, Buffer, Asked, Sent, AckTruthful, AddressAsked
  <1> QED
    BY <1>2, <1>3, <1>4 DEF IInv

LEMMA PowerUpInv == PowerUp => IInv'
  <1> SUFFICES ASSUME PowerUp PROVE IInv'
    OBVIOUS
  <1>1. wire' \in [to : Peers, port : Ports, head : Headers, body : Bodies] /\ wire'.head.cmd = "none"
    BY NoPacketType DEF PowerUp
  <1>2. TypeOK'
    BY <1>1, ZeroType DEF PowerUp, TypeOK, Peers, Ports, NetIds, Commands, Bodies
  <1>3. Decoding' /\ Registering' /\ Bound' /\ Answering' /\ Heartbeats' /\ Reports'
    BY DEF PowerUp, Decoding, Registering, Bound, Answering, Heartbeats, Reports, Copying
  <1>4. Buffer' /\ Asked' /\ Sent'
    BY <1>1, ZeroType, Distinct DEF PowerUp, Buffer, Asked, Sent, AckTruthful, AddressAsked
  <1> QED
    BY <1>2, <1>3, <1>4 DEF IInv

LEMMA NextIInv == ASSUME IInv, [Next]_vars PROVE IInv'
  <1>1. CASE UdpStep
    BY <1>1, ReceiveInv, IdleAckInv, DecodeInv, RegisterInv, SetSnetidInv, SetDnetidInv,
       HandleInv, EncodeHeadInv, EncodeBodyInv, SendAnswerInv, ClearGateinfoInv, PowerUpInv,
       ClearBufferInv
    DEF UdpStep, ReceiveAny, Reset
  <1>2. CASE TimerStep \/ UartStep \/ PowerUp
    BY <1>2, TimerStepInv, UartStepInv, PowerUpInv
  <1>3. CASE UNCHANGED vars
    <2>1. /\ UNCHANGED <<flag, addr, port, deviceNetid, gatewayNetid, snetid, dnetid, head, body, upc, from,
                         cmd, req, tpc, taddr, tsn, tdn, rpc, rsn, rdn, wire, pending, askers,
                         staleHeartbeats, staleReports>>
      BY <1>3 DEF vars, config, p_base, udp, timer, uart, requests, stale
    <2> QED
      BY <2>1 DEF IInv, TypeOK, Decoding, Asks, Registering, Bound, Answering, Buffer, Asked,
                  Heartbeats, Reports, Sent, AckTruthful, AddressAsked, Copying, owner
  <1> QED
    BY <1>1, <1>2, <1>3 DEF Next

LEMMA AlwaysIInv == Spec => []IInv
  BY InitIInv, NextIInv, PTL DEF Spec

-----------------------------------------------------------------------------
(* The results. *)

\* Every variable keeps its type.
THEOREM TypeCorrect == Spec => []TypeOK
  <1>1. IInv => TypeOK
    BY DEF IInv
  <1> QED
    BY <1>1, AlwaysIInv, PTL

\* At most one heartbeat and one report that do not fit the binding leave after
\* it has begun or ended.
THEOREM StaleBounded == Spec => []AtMostOneStale
  <1>1. IInv => AtMostOneStale
    BY DEF IInv, Heartbeats, Reports, AtMostOneStale
  <1> QED
    BY <1>1, AlwaysIInv, PTL

\* Whoever sends it, an acknowledgement of a binding names the binding in force.
THEOREM AcksTruthful == Spec => []AckTruthful
  <1>1. IInv => AckTruthful
    BY DEF IInv, Sent
  <1> QED
    BY <1>1, AlwaysIInv, PTL

\* Reports go only to an IP address a binding request came from, and to the port one
\* came from or ROUT_UDP_PORT.
THEOREM ReportsAsked == Spec => []AddressAsked
  <1>1. IInv => AddressAsked
    BY DEF IInv, Sent
  <1> QED
    BY <1>1, AlwaysIInv, PTL

-----------------------------------------------------------------------------
(* The session implements Binding.                                          *)

\* A step that changes neither the binding nor the request being served.
LEMMA BindingKept ==
  ASSUME UNCHANGED <<flag, deviceNetid, gatewayNetid, snetid, dnetid, pending>>,
         \/ UNCHANGED <<upc, req>>
         \/ ~Copying /\ ~Copying'
  PROVE  UNCHANGED B!bvars
  BY DEF owner, Copying, B!bvars

LEMMA UdpBinding == ASSUME IInv, UdpStep PROVE [B!Next]_(B!bvars)
  <1>1. CASE ReceiveAny
    <2>1. PICK p \in Peer, c \in Request : \E b \in BodyOf(c) : Receive(p, c, b)
      BY <1>1 DEF ReceiveAny
    <2>2. PICK b \in BodyOf(c) : Receive(p, c, b)
      BY <2>1
    <2>3. /\ upc = "recv" /\ upc' = "head" /\ pending' = Meaning(c, b) /\ UNCHANGED config
      BY <2>2 DEF Receive, Goto
    <2>4. owner' = owner
      BY <2>3 DEF owner, Copying, config
    <2>5. pending = Nobody
      BY <2>3 DEF IInv, Decoding
    <2>6. Meaning(c, b) \in NetId \cup {Own, Nobody}
      BY DEF Meaning
    <2> QED
      BY <2>3, <2>4, <2>5, <2>6 DEF B!Next, B!Ask, B!bvars
  <1>2. CASE (\E p \in Peer : IdleAck(p)) \/ DecodeHead \/ DecodeBody \/ Handle
             \/ EncodeAnswerHead \/ EncodeAnswerBody \/ SendAnswer
    <2>1. UNCHANGED <<flag, deviceNetid, gatewayNetid, snetid, dnetid, pending>>
      BY <1>2 DEF IdleAck, DecodeHead, DecodeBody, Handle, EncodeAnswerHead, EncodeAnswerBody,
                  SendAnswer, config, requests
    <2>2. ~Copying /\ ~Copying'
      BY <1>2 DEF IdleAck, DecodeHead, DecodeBody, Handle, EncodeAnswerHead, EncodeAnswerBody,
                  SendAnswer, Copying, Goto
    <2> QED
      BY <2>1, <2>2, BindingKept
  <1>3. CASE Register
    <2>1. upc = "dispatch" /\ cmd = "LINK_ORDER_BUNDING" /\ pending' = pending /\ req' = req
      BY <1>3 DEF Register, requests
    <2>2. CASE req \in NetId /\ flag = 0
      <3>1. pending = req /\ owner = Nobody
        BY <2>1, <2>2 DEF IInv, Decoding, Asks, owner
      <3>2. owner' = req
        BY <1>3, <2>1, <2>2 DEF Register, Goto, owner, Copying
      <3> QED
        BY <2>1, <2>2, <3>1, <3>2 DEF B!Next, B!Grant
    <2>3. CASE ~(req \in NetId /\ flag = 0)
      BY <1>3, <2>1, <2>3, BindingKept DEF Register, Goto, Copying
    <2> QED
      BY <2>2, <2>3
  <1>4. CASE SetSnetid
    <2>1. Copying /\ Copying' /\ flag' = flag /\ req' = req /\ pending' = pending
      BY <1>4 DEF SetSnetid, Goto, Copying, requests
    <2> QED
      BY <2>1 DEF owner, B!bvars
  <1>5. CASE SetDnetid
    <2>1. /\ upc = "dnetid" /\ upc' = "encHead" /\ dnetid' = req /\ pending' = pending
          /\ UNCHANGED <<flag, deviceNetid, gatewayNetid, snetid>>
      BY <1>5 DEF SetDnetid, Goto, requests
    <2>2. flag = 1 /\ deviceNetid = req /\ gatewayNetid = req /\ snetid = req
      BY <2>1 DEF IInv, Registering, Copying
    <2>3. owner = req /\ owner' = req
      BY <2>1, <2>2 DEF owner, Copying
    <2> QED
      BY <2>1, <2>3 DEF B!bvars
  <1>6. CASE ClearGateinfo
    <2>1. pending = Own /\ pending' = pending /\ flag' = 0
      BY <1>6 DEF ClearGateinfo, IInv, Answering, requests
    <2>2. owner' = Nobody
      BY <2>1 DEF owner
    <2> QED
      BY <2>1, <2>2 DEF B!Next, B!Release
  <1>7. CASE ClearBuffer
    <2>1. upc = "clear" /\ upc' = "recv" /\ pending' = Nobody /\ UNCHANGED config
      BY <1>7 DEF ClearBuffer, Goto
    <2>2. owner' = owner
      BY <2>1 DEF owner, Copying, config
    <2> QED
      BY <2>1, <2>2 DEF B!Next, B!Finish
  <1>8. CASE Reset
    BY <1>8 DEF Reset, PowerUp, owner, B!Next, B!PowerUp
  <1> QED
    BY <1>1, <1>2, <1>3, <1>4, <1>5, <1>6, <1>7, <1>8 DEF UdpStep

LEMMA StepBinding == ASSUME IInv, [Next]_vars PROVE [B!Next]_(B!bvars)
  <1>1. CASE UdpStep
    BY <1>1, UdpBinding
  <1>2. CASE TimerStep
    <2>1. Timer
      BY <1>2 DEF TimerStep, CopyAddr, TimerFlag, TimerSnetid, TimerDnetid, EncodeQuestionHead,
                  EncodeQuestionBody, SendQuestion
    <2> QED
      BY <2>1, BindingKept DEF Timer, config, udp, requests
  <1>3. CASE UartStep
    <2>1. Uart
      BY <1>3 DEF UartStep, ReportSnetid, ReportDnetid, ReportFlag, ReportPort, SendReport
    <2> QED
      BY <2>1, BindingKept DEF Uart, udp, requests
  <1>4. CASE PowerUp
    BY <1>4 DEF PowerUp, owner, B!Next, B!PowerUp
  <1>5. CASE UNCHANGED vars
    BY <1>5, BindingKept DEF vars, config, udp, requests
  <1> QED
    BY <1>1, <1>2, <1>3, <1>4, <1>5 DEF Next

\* The threads together, with their unlocked reads and writes, do to the binding
\* only what Binding allows.
THEOREM GatewayImplementsBinding == Spec => ImplementsBinding
  <1>1. Init => B!Init
    BY DEF Init, owner, B!Init
  <1> QED
    BY <1>1, AlwaysIInv, StepBinding, PTL DEF Spec, ImplementsBinding, B!Spec
=============================================================================
