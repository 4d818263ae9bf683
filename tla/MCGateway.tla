------------------------------ MODULE MCGateway ------------------------------
(***************************************************************************)
(* The gateway session for TLC.  CodecTests has no state: its assumptions, *)
(* about the encoding of the session's datagrams, are evaluated first.     *)
(***************************************************************************)
EXTENDS Gateway, CodecTests, TLC

\* Gateways are interchangeable, and so are the bindings they ask for.
Symmetry == Permutations(Peer) \cup Permutations(NetId)

\* What is written again before it is next read: the port, but for a report that is
\* about to be sent, and the request, once the UDP thread is done with it. States that
\* differ in nothing else are one.
View ==
  <<flag, addr, deviceNetid, gatewayNetid, snetid, dnetid,
    IF rpc = "send" THEN port ELSE Nobody,
    upc, IF upc \in {"clearGateinfo", "reset", "clear"} THEN <<Nobody, "none">> ELSE <<from, cmd>>,
    IF upc \in {"dispatch", "snetid", "dnetid"} THEN req ELSE Junk,
    p_base, timer, uart, wire, requests, stale>>
=============================================================================
