------------------------- MODULE OtaTransferProofs -------------------------
(***************************************************************************)
(* Theorems about OtaTransfer for any images and any bound on the network: *)
(* type correctness, packets in order in flash, and what the boot table    *)
(* and the acknowledgements stand for.                                     *)
(***************************************************************************)
EXTENDS OtaTransfer, SequenceTheorems, TLAPS

\* While the gateway keeps to one image, everything on the network and in flash is
\* of that image, and nothing is acknowledged that is not in flash.
Kept ==
  steady =>
    /\ \A p \in packets : p.image = image
    /\ \A a \in acks : a.number < Len(flash)
    /\ \A n \in DOMAIN flash : flash[n].image = image
    /\ number <= Len(flash)
    /\ done => Total[image] <= Len(flash)

Inv == TypeOK /\ InOrder /\ Kept /\ BootsWhole

\* A packet is a record of its image and its number.
LEMMA PacketIsRecord ==
  ASSUME NEW p \in Packet
  PROVE  /\ p.image \in Image /\ p.number \in Nat /\ p.number < Total[p.image]
         /\ p = [image |-> p.image, number |-> p.number]
<1>1. PICK i \in Image : p \in [image : {i}, number : Number(i)]
  BY DEF Packet
<1>2. p.image = i /\ p.number \in Number(i) /\ p = [image |-> p.image, number |-> p.number]
  BY <1>1
<1>3. Total[i] \in Nat
  BY ImageAssumption
<1> QED
  BY <1>2, <1>3 DEF Number

LEMMA RecordIsPacket ==
  ASSUME NEW i \in Image, NEW n \in Number(i)
  PROVE  [image |-> i, number |-> n] \in Packet
BY DEF Packet

\* The network only ever gains the message that is sent.
LEMMA CarriedOnly ==
  ASSUME NEW net, NEW m, NEW netp \in Carried(net, m), NEW x \in netp
  PROVE  x \in net \/ x = m
<1>1. CASE netp = net
  BY <1>1
<1>2. CASE Cardinality(net \cup {m}) <= InFlight /\ netp = net \cup {m}
  BY <1>2
<1>3. CASE /\ ~(Cardinality(net \cup {m}) <= InFlight)
           /\ netp \in {(net \ {y}) \cup {m} : y \in net}
  BY <1>3
<1>4. netp = net \/ netp \in IF Cardinality(net \cup {m}) <= InFlight
                               THEN {net \cup {m}}
                               ELSE {(net \ {y}) \cup {m} : y \in net}
  BY DEF Carried
<1> QED
  BY <1>1, <1>2, <1>3, <1>4

LEMMA LeftOnly ==
  ASSUME NEW net, NEW m, NEW netp \in Left(net, m), NEW x \in netp
  PROVE  x \in net
BY DEF Left

\* What the module does with a packet it needs.
LEMMA WriteStep ==
  ASSUME Inv, NEW p \in packets, Write(p)
  PROVE  /\ flash' = Append(flash, p)
         /\ upcodenumber' = Len(flash')
         /\ upgradeFlag' \in {0, 1} /\ codeType' \in Image \cup {NULL}
         /\ pc' \in {"recv", "end"}
         /\ acks' \in Carried(acks, Ack(upcodenumber))
<1>1. p \in Packet /\ flash \in Seq(Packet) /\ p.number = Len(flash)
  BY DEF Inv, TypeOK, InOrder, Write
<1>2. p.image \in Image
  BY <1>1, PacketIsRecord
<1>3. CASE p.number = 0 /\ upgradeFlag = 0
  <2>1. flash = <<>>
    BY <1>1, <1>3, EmptySeq
  <2>2. flash' = <<p>>
    BY <1>3 DEF Write
  <2> QED
    BY <1>1, <1>2, <1>3, <2>1, <2>2 DEF Inv, TypeOK, InOrder, Write
<1>4. CASE ~(p.number = 0 /\ upgradeFlag = 0)
  BY <1>1, <1>2, <1>4 DEF Inv, TypeOK, InOrder, Write
<1> QED
  BY <1>3, <1>4

LEMMA InitInv == Init => Inv
<1> SUFFICES ASSUME Init PROVE Inv
  OBVIOUS
<1> USE DEF Init
<1>1. TypeOK
  <2>1. Total[image] \in Nat \ {0}
    BY ImageAssumption
  <2>2. upcodenumber <= Total[image] /\ number \in Number(image)
    BY <2>1 DEF Number
  <2>3. flash \in Seq(Packet) /\ boot \in Seq(Packet)
    BY EmptySeq
  <2> QED
    BY <2>2, <2>3 DEF TypeOK
<1>2. InOrder /\ BootsWhole
  BY DEF InOrder, BootsWhole
<1>3. Kept
  BY DEF Kept
<1> QED
  BY <1>1, <1>2, <1>3 DEF Inv

-----------------------------------------------------------------------------
(* Every step preserves the invariant. *)

LEMMA OfferInv == Inv /\ Offer => Inv'
<1> SUFFICES ASSUME Inv, Offer PROVE Inv'
  OBVIOUS
<1> DEFINE m == [image |-> image, number |-> number]
<1> USE DEF Inv
<1>1. UNCHANGED <<upcodenumber, upgradeFlag, codeType, flash, pc, boot, result,
                  acks, image, number, done, steady>>
  BY DEF Offer, module, gateway
<1>2. \A p \in packets' : p \in packets \/ p = m
  BY CarriedOnly DEF Offer
<1>3. m \in Packet
  BY RecordIsPacket DEF TypeOK
<1>4. TypeOK'
  BY <1>1, <1>2, <1>3 DEF TypeOK
<1>5. Kept'
  BY <1>1, <1>2 DEF Kept
<1> QED
  BY <1>1, <1>4, <1>5 DEF InOrder, BootsWhole

LEMMA AckedInv == ASSUME NEW a \in acks PROVE Inv /\ Acked(a) => Inv'
<1> SUFFICES ASSUME Inv, Acked(a) PROVE Inv'
  OBVIOUS
<1> USE DEF Inv
<1>1. UNCHANGED <<upcodenumber, upgradeFlag, codeType, flash, pc, boot, result,
                  packets, image, steady>>
  BY DEF Acked, module
<1>2. \A x \in acks' : x \in acks
  BY LeftOnly DEF Acked
<1>3. image \in Image /\ Total[image] \in Nat /\ number \in Nat /\ number < Total[image]
  BY ImageAssumption DEF TypeOK, Number
<1>4. /\ number' \in Nat /\ number' < Total[image] /\ done' \in BOOLEAN
      /\ number' # number => number' = number + 1 /\ number = a.number
      /\ done' => done \/ (Total[image] = number + 1 /\ number = a.number)
  <2>1. CASE a.number = number /\ ~done /\ number + 1 < Total[image]
    <3>1. number' = number + 1 /\ done' = done
      BY <2>1 DEF Acked
    <3> QED
      BY <1>3, <2>1, <3>1 DEF TypeOK
  <2>2. CASE a.number = number /\ ~done /\ ~(number + 1 < Total[image])
    <3>1. number' = number /\ done' = TRUE
      BY <2>2 DEF Acked
    <3> QED
      BY <1>3, <2>2, <3>1
  <2>3. CASE ~(a.number = number /\ ~done)
    <3>1. number' = number /\ done' = done
      BY <2>3 DEF Acked
    <3> QED
      BY <1>3, <3>1 DEF TypeOK
  <2> QED
    BY <2>1, <2>2, <2>3
<1>5. TypeOK'
  BY <1>1, <1>2, <1>3, <1>4 DEF TypeOK, Number
<1>6. Kept'
  <2> SUFFICES ASSUME steady'
               PROVE  /\ number' <= Len(flash) /\ (done' => Total[image] <= Len(flash))
    BY <1>1, <1>2 DEF Kept
  <2>1. a.number < Len(flash) /\ number <= Len(flash) /\ (done => Total[image] <= Len(flash))
    BY <1>1 DEF Kept
  <2>2. Len(flash) \in Nat
    BY DEF TypeOK
  <2> QED
    BY <1>3, <1>4, <2>1, <2>2
<1> QED
  BY <1>1, <1>5, <1>6 DEF InOrder, BootsWhole

LEMMA TurnInv == ASSUME NEW i \in Image PROVE Inv /\ Turn(i) => Inv'
<1> SUFFICES ASSUME Inv, Turn(i) PROVE Inv'
  OBVIOUS
<1> USE DEF Inv
<1>1. Total[i] \in Nat \ {0}
  BY ImageAssumption
<1>2. /\ UNCHANGED <<upcodenumber, upgradeFlag, codeType, flash, pc, boot, result,
                     packets, acks>>
      /\ image' = i /\ number' = 0 /\ done' = FALSE /\ steady' = FALSE
  BY DEF Turn, module
<1>3. image' \in Image /\ number' \in Number(image')
  BY <1>1, <1>2 DEF Number
<1>4. TypeOK'
  BY <1>2, <1>3 DEF TypeOK
<1> QED
  BY <1>2, <1>4 DEF Kept, InOrder, BootsWhole

LEMMA ReceiveInv == ASSUME NEW p \in packets PROVE Inv /\ Receive(p) => Inv'
<1> SUFFICES ASSUME Inv, Receive(p) PROVE Inv'
  OBVIOUS
<1> USE DEF Inv
<1>1. UNCHANGED <<boot, result, image, number, done, steady>>
  BY DEF Receive, gateway
<1>2. \A x \in packets' : x \in packets
  BY LeftOnly DEF Receive
<1>3. CASE Refuse(p)
  <2>1. UNCHANGED <<upcodenumber, upgradeFlag, codeType, flash, pc, acks>>
    BY <1>3 DEF Refuse
  <2>2. TypeOK' /\ Kept'
    BY <1>1, <1>2, <2>1 DEF TypeOK, Kept
  <2> QED
    BY <1>1, <2>1, <2>2 DEF InOrder, BootsWhole
<1>4. CASE Write(p)
  <2>1. /\ flash' = Append(flash, p)
        /\ upcodenumber' = Len(flash')
        /\ upgradeFlag' \in {0, 1} /\ codeType' \in Image \cup {NULL}
        /\ pc' \in {"recv", "end"}
        /\ acks' \in Carried(acks, Ack(upcodenumber))
    BY <1>4, WriteStep
  <2>2. p \in Packet /\ flash \in Seq(Packet) /\ p.number = Len(flash)
    BY <1>4 DEF TypeOK, InOrder, Write
  <2>3. p.image \in Image /\ p.number < Total[p.image] /\ Total[p.image] \in Nat
    BY <2>2, PacketIsRecord, ImageAssumption
  <2>4. /\ flash' \in Seq(Packet) /\ Len(flash') = Len(flash) + 1 /\ Len(flash) \in Nat
        /\ \A n \in 1 .. Len(flash) : flash'[n] = flash[n]
        /\ flash'[Len(flash) + 1] = p
    BY <2>1, <2>2, AppendProperties
  <2>5. \A n \in DOMAIN flash' : \/ (n \in DOMAIN flash /\ flash'[n] = flash[n])
                                 \/ (n = Len(flash) + 1 /\ flash'[n] = p)
    BY <2>2, <2>4
  <2>6. \A x \in acks' : x \in acks \/ x = Ack(upcodenumber)
    BY <2>1, CarriedOnly
  <2>7. upcodenumber = Len(flash)
    BY DEF InOrder
  <2>8. TypeOK'
    <3>1. \A x \in acks' : x \in [image : Image \cup {NULL}, number : Nat]
      BY <2>1, <2>6, <2>4, <2>7 DEF TypeOK, Ack
    <3>2. upcodenumber' \in Nat /\ upcodenumber' <= Total[p.image]
      BY <2>1, <2>2, <2>3, <2>4
    <3> QED
      BY <1>1, <1>2, <2>1, <2>3, <2>4, <3>1, <3>2 DEF TypeOK
  <2>9. InOrder'
    BY <2>1, <2>2, <2>4, <2>5 DEF InOrder
  <2>10. Kept'
    <3> SUFFICES ASSUME steady
                 PROVE  /\ \A x \in packets' : x.image = image
                        /\ \A a \in acks' : a.number < Len(flash')
                        /\ \A n \in DOMAIN flash' : flash'[n].image = image
                        /\ number <= Len(flash')
                        /\ done => Total[image] <= Len(flash')
      BY <1>1 DEF Kept
    <3>1. /\ \A x \in packets : x.image = image
          /\ \A a \in acks : a.number < Len(flash)
          /\ \A n \in DOMAIN flash : flash[n].image = image
          /\ number <= Len(flash)
          /\ done => Total[image] <= Len(flash)
      BY DEF Kept
    <3>2. \A a \in acks' : a.number < Len(flash')
      <4> TAKE a \in acks'
      <4>1. CASE a \in acks
        <5>1. a.number \in Nat /\ a.number < Len(flash)
          BY <3>1, <4>1 DEF TypeOK
        <5> QED
          BY <2>4, <5>1
      <4>2. CASE a = Ack(upcodenumber)
        BY <2>4, <2>7, <4>2 DEF Ack
      <4> QED
        BY <2>6, <4>1, <4>2
    <3>3. number \in Nat /\ Total[image] \in Nat
      BY ImageAssumption DEF TypeOK, Number
    <3>4. number <= Len(flash') /\ (done => Total[image] <= Len(flash'))
      BY <2>4, <3>1, <3>3
    <3> QED
      BY <1>2, <2>5, <3>1, <3>2, <3>4
  <2>11. BootsWhole'
    <3> SUFFICES ASSUME boot # <<>>
                 PROVE  Len(boot) <= Len(flash') /\ SubSeq(flash', 1, Len(boot)) = boot
      BY <1>1 DEF BootsWhole
    <3>1. Len(boot) \in Nat /\ Len(boot) <= Len(flash) /\ SubSeq(flash, 1, Len(boot)) = boot
      BY DEF BootsWhole, TypeOK
    <3>2. SubSeq(flash', 1, Len(boot)) = SubSeq(flash, 1, Len(boot))
      BY <2>2, <2>4, <3>1
    <3> QED
      BY <2>4, <3>1, <3>2
  <2> QED
    BY <2>8, <2>9, <2>10, <2>11
<1> QED
  BY <1>3, <1>4 DEF Receive

LEMMA IdleInv == Inv /\ Idle => Inv'
<1> SUFFICES ASSUME Inv, Idle PROVE Inv'
  OBVIOUS
<1> USE DEF Inv
<1>1. UNCHANGED <<upcodenumber, upgradeFlag, codeType, flash, pc, boot, result,
                  packets, image, number, done, steady>>
  BY DEF Idle, module, gateway
<1>2. upcodenumber \in Nat /\ upcodenumber > 0 /\ upcodenumber = Len(flash)
  BY DEF Idle, TypeOK, InOrder
<1>3. \A x \in acks' : x \in acks \/ x = Ack(upcodenumber - 1)
  BY CarriedOnly DEF Idle
<1>4. Ack(upcodenumber - 1) \in [image : Image \cup {NULL}, number : Nat]
  BY <1>1, <1>2 DEF Ack, TypeOK
<1>5. Ack(upcodenumber - 1).number < Len(flash)
  BY <1>2 DEF Ack
<1>6. TypeOK'
  BY <1>1, <1>3, <1>4 DEF TypeOK
<1>7. Kept'
  BY <1>1, <1>3, <1>5 DEF Kept
<1> QED
  BY <1>1, <1>6, <1>7 DEF InOrder, BootsWhole

\* A whole image is in flash from its first packet to its last.
LEMMA OtaEndInv == Inv /\ OtaEnd => Inv'
<1> SUFFICES ASSUME Inv, OtaEnd PROVE Inv'
  OBVIOUS
<1> USE DEF Inv
<1>1. /\ UNCHANGED <<upcodenumber, upgradeFlag, codeType, flash, packets, acks,
                     image, number, done, steady>>
      /\ pc' = "recv" /\ result' \in {"none", "ok", "md5", "memory"}
      /\ boot' = boot \/ (boot' = flash /\ flash \in {Whole(i) : i \in Image})
  BY DEF OtaEnd, gateway
<1>2. TypeOK'
  BY <1>1 DEF TypeOK
<1>3. BootsWhole'
  <2>1. CASE boot' = boot
    BY <1>1, <2>1 DEF BootsWhole
  <2>2. CASE boot' = flash /\ flash \in {Whole(i) : i \in Image}
    <3>1. flash \in Seq(Packet) /\ Len(flash) \in Nat
      BY DEF TypeOK
    <3>2. SubSeq(flash, 1, Len(flash)) = flash
      BY <3>1
    <3> QED
      BY <1>1, <2>2, <3>1, <3>2 DEF BootsWhole
  <2> QED
    BY <1>1, <2>1, <2>2
<1> QED
  BY <1>1, <1>2, <1>3 DEF Kept, InOrder

LEMMA RestartInv == Inv /\ Restart => Inv'
<1> SUFFICES ASSUME Inv, Restart PROVE Inv'
  OBVIOUS
<1> USE DEF Inv
<1>1. /\ UNCHANGED <<packets, acks, image, number, done>>
      /\ upcodenumber' = 0 /\ upgradeFlag' = 0 /\ codeType' = NULL
      /\ flash' = <<>> /\ pc' = "recv" /\ boot' = <<>> /\ result' = "none"
      /\ steady' = FALSE
  BY DEF Restart, gateway
<1>2. image \in Image /\ 0 <= Total[image]
  BY ImageAssumption DEF TypeOK
<1>3. flash' \in Seq(Packet) /\ boot' \in Seq(Packet)
  BY <1>1, EmptySeq
<1>4. TypeOK'
  BY <1>1, <1>2, <1>3 DEF TypeOK
<1> QED
  BY <1>1, <1>4 DEF Kept, InOrder, BootsWhole

LEMMA LoseInv == Inv /\ Lose => Inv'
<1> SUFFICES ASSUME Inv, Lose PROVE Inv'
  OBVIOUS
<1> USE DEF Inv
<1>1. UNCHANGED <<upcodenumber, upgradeFlag, codeType, flash, pc, boot, result,
                  image, number, done, steady>>
  BY DEF Lose, module, gateway
<1>2. packets' \subseteq packets /\ acks' \subseteq acks
  BY DEF Lose
<1>3. TypeOK'
  BY <1>1, <1>2 DEF TypeOK
<1> QED
  BY <1>1, <1>2, <1>3 DEF Kept, InOrder, BootsWhole

LEMMA Inductive == Inv /\ [Next]_vars => Inv'
<1> SUFFICES ASSUME Inv, [Next]_vars PROVE Inv'
  OBVIOUS
<1>1. CASE GatewayNext
  BY <1>1, OfferInv, AckedInv, TurnInv DEF GatewayNext
<1>2. CASE ModuleNext
  BY <1>2, ReceiveInv, IdleInv, OtaEndInv, RestartInv DEF ModuleNext
<1>3. CASE Lose
  BY <1>3, LoseInv
<1>4. CASE UNCHANGED vars
  BY <1>4 DEF vars, module, gateway, Inv, TypeOK, InOrder, Kept, BootsWhole
<1> QED
  BY <1>1, <1>2, <1>3, <1>4 DEF Next

-----------------------------------------------------------------------------
(* The theorems. *)

THEOREM Invariant == Spec => []Inv
<1> QED
  BY InitInv, Inductive, PTL DEF Spec

\* The state is what the declarations say, and upcodenumber is never beyond the
\* last packet of the longest image: tcl_ota_data does not count on.
THEOREM TypeCorrect == Spec => []TypeOK
<1>1. Inv => TypeOK
  BY DEF Inv
<1> QED
  BY <1>1, Invariant, PTL

\* tcl_ota_data writes packet n at place n and each once, however the network
\* loses, repeats and reorders, and whatever the gateway turns to.
THEOREM Ordered == Spec => []InOrder
<1>1. Inv => InOrder
  BY DEF Inv
<1> QED
  BY <1>1, Invariant, PTL

\* What is acknowledged is in flash, of the same image, at its place.
LEMMA KeptInFlash == Inv => AckedInFlash
<1> SUFFICES ASSUME Inv, steady, NEW n \in Number(image), n < number \/ done
             PROVE  n < Len(flash) /\ flash[n + 1] = Whole(image)[n + 1]
  BY DEF AckedInFlash
<1> USE DEF Inv
<1>1. image \in Image /\ Total[image] \in Nat /\ number \in Nat /\ n \in Nat /\ n < Total[image]
  BY ImageAssumption DEF TypeOK, Number
<1>2. flash \in Seq(Packet) /\ Len(flash) \in Nat
  BY DEF TypeOK
<1>3. n < Len(flash)
  BY <1>1, <1>2 DEF Kept
<1>4. n + 1 \in DOMAIN flash /\ n + 1 \in 1 .. Total[image]
  BY <1>1, <1>2, <1>3
<1>5. flash[n + 1] \in Packet
  BY <1>2, <1>4
<1>6. flash[n + 1].image = image /\ flash[n + 1].number = (n + 1) - 1
  BY <1>4 DEF Kept, InOrder
<1>7. flash[n + 1] = [image |-> image, number |-> (n + 1) - 1]
  BY <1>5, <1>6, PacketIsRecord
<1>8. Whole(image)[n + 1] = [image |-> image, number |-> (n + 1) - 1]
  BY <1>4 DEF Whole
<1> QED
  BY <1>3, <1>7, <1>8

\* While the module stays up and the gateway keeps to one image, the gateway never
\* takes a packet to be received that is not in flash: neither tcl_ota_data nor
\* the idle branch of localUdpServer_thread acknowledges too much.
THEOREM Acknowledged == Spec => []AckedInFlash
  BY Invariant, KeptInFlash, PTL

\* After ota_end the boot table points to a whole image, and no packet written later
\* changes it, until the restart that installs it.
THEOREM Boots == Spec => []BootsWhole
<1>1. Inv => BootsWhole
  BY DEF Inv
<1> QED
  BY <1>1, Invariant, PTL
=============================================================================
