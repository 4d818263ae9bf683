---------------------------- MODULE OtaTransfer ----------------------------
(***************************************************************************)
(* The transfer of a new firmware from the gateway over UDP:               *)
(* tcl_ota_data, the idle branch of localUdpServer_thread, ota_end         *)
(* (tcl/mico_tcl_ota.c).  The module writes packet after packet to flash,  *)
(* acknowledges each one once, and again when nothing arrives for three    *)
(* seconds.  After the last packet it checks the MD5 of what it has        *)
(* written and has the boot table point to it.                             *)
(*                                                                         *)
(* The network loses, repeats and reorders.  The module may restart at any *)
(* moment: its counters start from 0, g_recvsize too, so flash counts as   *)
(* empty, and the boot loader installs what the boot table points to.      *)
(*                                                                         *)
(* The gateway is not in the source.  Here it sends packet after packet,   *)
(* goes on when the packet's number is acknowledged, repeats, and may turn *)
(* to any image at any moment.  A packet is its image and its number:      *)
(* packets have 512 bytes, but for the last, so more than 1024 bytes are   *)
(* more than two packets.  The MD5 is right for a whole image only.        *)
(***************************************************************************)
EXTENDS Naturals, Sequences, FiniteSets

CONSTANTS Image,
          Total,      \* the number of packets of each image
          NULL,
          InFlight    \* bound: packets, and acknowledgements, on the network

ASSUME ImageAssumption ==
  /\ Total \in [Image -> Nat \ {0}]
  /\ NULL \notin Image

VARIABLES upcodenumber,  \* the number of the packet that is needed
          upgradeFlag,   \* a transfer has begun
          codeType,      \* the type and version in its first packet
          flash,         \* the packets written, up to g_recvsize
          pc,            \* "recv", or "end" before ota_end
          boot,          \* what the boot table points to
          result,        \* of the last ota_end: "none", "ok", "md5", "memory"
          packets,       \* on the network, to the module
          acks,          \* on the network, to the gateway
          image, number, \* what the gateway is sending
          done,          \* the gateway has its last acknowledgement
          steady         \* history: no restart, and the gateway kept to one image

module == <<upcodenumber, upgradeFlag, codeType, flash, pc, boot, result>>
gateway == <<image, number, done>>
vars == <<module, packets, acks, gateway, steady>>

Number(i) == 0 .. Total[i] - 1
Whole(i) == [n \in 1 .. Total[i] |-> [image |-> i, number |-> n - 1]]
Packet == UNION {[image : {i}, number : Number(i)] : i \in Image}

\* What is received is taken from the network, or is still to come once more.
Left(net, m) == {net, net \ {m}}

\* The network takes m, or loses it; when it is full it takes m and loses another.
Carried(net, m) ==
  {net} \cup
  IF Cardinality(net \cup {m}) <= InFlight
    THEN {net \cup {m}}
    ELSE {(net \ {x}) \cup {m} : x \in net}

-----------------------------------------------------------------------------
Init ==
  /\ upcodenumber = 0 /\ upgradeFlag = 0
  /\ codeType = NULL /\ flash = <<>> /\ pc = "recv"
  /\ boot = <<>> /\ result = "none"
  /\ packets = {} /\ acks = {}
  /\ image \in Image /\ number = 0 /\ done = FALSE
  /\ steady = TRUE

-----------------------------------------------------------------------------
(* The gateway. *)

Offer ==
  /\ ~done
  /\ packets' \in Carried(packets, [image |-> image, number |-> number])
  /\ UNCHANGED <<module, acks, gateway, steady>>

\* An acknowledgement of the packet, whatever type and version it carries.
Acked(a) ==
  /\ acks' \in Left(acks, a)
  /\ IF a.number = number /\ ~done
       THEN IF number + 1 < Total[image]
              THEN number' = number + 1 /\ UNCHANGED done
              ELSE done' = TRUE /\ UNCHANGED number
       ELSE UNCHANGED <<number, done>>
  /\ UNCHANGED <<module, packets, image, steady>>

Turn(i) ==
  /\ image' = i /\ number' = 0 /\ done' = FALSE
  /\ steady' = FALSE
  /\ UNCHANGED <<module, packets, acks>>

GatewayNext == Offer \/ (\E a \in acks : Acked(a)) \/ (\E i \in Image : Turn(i))

-----------------------------------------------------------------------------
(* The module. *)

Ack(n) == [image |-> codeType', number |-> n]

\* Mutant: any packet is written.
Unordered(p) ==
  /\ pc = "recv" /\ packets' \in Left(packets, p)
  /\ IF p.number = 0 /\ upgradeFlag = 0
       THEN flash' = <<p>> /\ upgradeFlag' = 1 /\ codeType' = p.image
       ELSE flash' = Append(flash, p) /\ UNCHANGED <<upgradeFlag, codeType>>
  /\ upcodenumber' = upcodenumber + 1
  /\ acks' \in Carried(acks, Ack(upcodenumber))
  /\ pc' = IF p.number = Total[p.image] - 1 /\ Len(flash') > 2 THEN "end" ELSE "recv"
  /\ UNCHANGED <<boot, result, gateway, steady>>

\* Mutant: only packets that have been counted are dropped, not those that overtake.
WriteOvertaking(p) ==
  /\ p.number >= upcodenumber
  /\ IF p.number = 0 /\ upgradeFlag = 0
       THEN flash' = <<p>> /\ upgradeFlag' = 1 /\ codeType' = p.image
       ELSE flash' = Append(flash, p) /\ UNCHANGED <<upgradeFlag, codeType>>
  /\ upcodenumber' = upcodenumber + 1
  /\ acks' \in Carried(acks, Ack(p.number))
  /\ pc' = "recv"

\* tcl_ota_data, up to the acknowledgement: the first packet begins the transfer.
\* Writing to flash succeeds: the code does not look at what MicoFlashWrite returns,
\* and acknowledges in any case.
Write(p) ==
  /\ p.number = upcodenumber
  /\ IF p.number = 0 /\ upgradeFlag = 0
       THEN flash' = <<p>> /\ upgradeFlag' = 1 /\ codeType' = p.image
       ELSE flash' = Append(flash, p) /\ UNCHANGED <<upgradeFlag, codeType>>
  /\ upcodenumber' = upcodenumber + 1
  /\ acks' \in Carried(acks, Ack(upcodenumber))
  /\ pc' = IF /\ p.number = Total[p.image] - 1
              /\ upgradeFlag' = 1
              /\ Len(flash') > 2
             THEN "end" ELSE "recv"

\* Any other packet is dropped, and not acknowledged.
Refuse(p) ==
  /\ p.number # upcodenumber
  /\ UNCHANGED <<upcodenumber, upgradeFlag, codeType, flash, pc, acks>>

Receive(p) ==
  /\ pc = "recv" /\ packets' \in Left(packets, p)
  /\ Write(p) \/ Refuse(p)
  /\ UNCHANGED <<boot, result, gateway, steady>>

\* Mutant: the packet that is needed is acknowledged, not the last one written.
IdleAcksNext ==
  /\ pc = "recv" /\ upcodenumber > 0
  /\ UNCHANGED module
  /\ acks' \in Carried(acks, Ack(upcodenumber))
  /\ UNCHANGED <<packets, gateway, steady>>

\* Mutant: the first packet is not acknowledged again.
IdleTooLate ==
  /\ pc = "recv" /\ upcodenumber > 1
  /\ UNCHANGED module
  /\ acks' \in Carried(acks, Ack(upcodenumber - 1))
  /\ UNCHANGED <<packets, gateway, steady>>

\* select() times out: the last packet is acknowledged again.
Idle ==
  /\ pc = "recv" /\ upcodenumber > 0
  /\ UNCHANGED module
  /\ acks' \in Carried(acks, Ack(upcodenumber - 1))
  /\ UNCHANGED <<packets, gateway, steady>>

\* Mutant: after the transfer the module is ready for another one.
EndResets ==
  /\ pc = "end" /\ pc' = "recv"
  /\ \/ flash \in {Whole(i) : i \in Image} /\ boot' = flash /\ result' = "ok"
     \/ flash \notin {Whole(i) : i \in Image} /\ result' = "md5" /\ UNCHANGED boot
  /\ upcodenumber' = 0 /\ upgradeFlag' = 0
  /\ UNCHANGED <<codeType, flash, packets, acks, gateway, steady>>

\* ota_end.  Without memory nothing happens, and nothing is reset in any case.
OtaEnd ==
  /\ pc = "end" /\ pc' = "recv"
  /\ \/ result' = "memory" /\ UNCHANGED boot
     \/ flash \in {Whole(i) : i \in Image} /\ boot' = flash /\ result' = "ok"
     \/ flash \notin {Whole(i) : i \in Image} /\ result' = "md5" /\ UNCHANGED boot
  /\ UNCHANGED <<upcodenumber, upgradeFlag, codeType, flash, packets, acks, gateway, steady>>

\* The network and the gateway go on as they are.
Restart ==
  /\ upcodenumber' = 0 /\ upgradeFlag' = 0 /\ codeType' = NULL
  /\ flash' = <<>> /\ pc' = "recv"
  /\ boot' = <<>> /\ result' = "none"
  /\ steady' = FALSE
  /\ UNCHANGED <<packets, acks, gateway>>

ModuleNext == (\E p \in packets : Receive(p)) \/ Idle \/ OtaEnd \/ Restart

-----------------------------------------------------------------------------
Lose ==
  /\ \/ \E p \in packets : packets' = packets \ {p} /\ UNCHANGED acks
     \/ \E a \in acks : acks' = acks \ {a} /\ UNCHANGED packets
  /\ UNCHANGED <<module, gateway, steady>>

Next == GatewayNext \/ ModuleNext \/ Lose

\* What is sent again and again is received again and again; the thread runs.
Fairness ==
  /\ WF_vars(OtaEnd)
  /\ SF_vars(\E p \in packets : Receive(p) /\ Write(p))
  /\ \A n \in UNION {Number(i) : i \in Image} :
       SF_vars(\E a \in acks : a.number = n /\ Acked(a) /\ gateway' # gateway)
  /\ SF_vars(Offer /\ packets' # packets)

Spec == Init /\ [][Next]_vars /\ Fairness

\* The gateway repeats a packet less often than every three seconds: otherwise
\* select() never times out.
Pauses == SF_vars(Idle /\ acks' # acks)

-----------------------------------------------------------------------------
(* Properties *)

\* No more packets are counted than an image has.
TypeOK ==
  /\ upcodenumber \in Nat /\ (\E i \in Image : upcodenumber <= Total[i])
  /\ upgradeFlag \in {0, 1}
  /\ codeType \in Image \cup {NULL}
  /\ flash \in Seq(Packet) /\ boot \in Seq(Packet)
  /\ pc \in {"recv", "end"} /\ result \in {"none", "ok", "md5", "memory"}
  /\ packets \subseteq Packet
  /\ acks \subseteq [image : Image \cup {NULL}, number : Nat]
  /\ image \in Image /\ number \in Number(image)
  /\ done \in BOOLEAN /\ steady \in BOOLEAN

\* Flash holds packet n at place n, for every packet that was counted, each once,
\* of whatever image: neither repeated nor overtaking packets shift the others.
InOrder ==
  /\ upcodenumber = Len(flash)
  /\ \A n \in DOMAIN flash : flash[n].number = n - 1

\* While the module stays up and the gateway keeps to one image, every packet that
\* the gateway takes to be received is in flash, at its place.
AckedInFlash ==
  steady => \A n \in Number(image) :
              n < number \/ done => n < Len(flash) /\ flash[n + 1] = Whole(image)[n + 1]

\* The boot table points to a whole image, and nothing that arrives later, of the
\* same image or another, touches what it points to.
BootsWhole ==
  boot # <<>> =>
    /\ \E i \in Image : boot = Whole(i)
    /\ Len(boot) <= Len(flash) /\ SubSeq(flash, 1, Len(boot)) = boot

\* An image of more than two packets that the gateway keeps to is received and
\* checked in the end, whatever the network loses, repeats or reorders.
Completes ==
  Pauses /\ []steady /\ Total[image] > 2 => <>[](done /\ result \in {"ok", "memory"})
=============================================================================
