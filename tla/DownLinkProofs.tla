--------------------------- MODULE DownLinkProofs ---------------------------
(***************************************************************************)
(* Proofs about the command slot: the types, that a query in flight always *)
(* has its timer running, and the bound on retransmissions, for every      *)
(* RESENDCNT.                                                              *)
(***************************************************************************)
EXTENDS DownLink, TLAPS

\* Wherever the UART thread stops the timer, the slot is not in flight: only
\* the UART thread itself can set state 3.
StoppedSlot == pc.uart \in {"stop", "giveup", "wait"} => state # InFlight

\* A raised flag, or one just taken down, means one more retransmission.
Pending == IF flag \/ pc.uart = "resend" THEN 1 ELSE 0

\* While the timer runs, every retransmission is counted; once it is stopped,
\* at most one more is to come.
Counted ==
  /\ running => resends <= resendcnt
  /\ ~running => resends + Pending <= RESENDCNT + 1
  /\ ~running /\ pc.uart = "resend" => ~flag
  /\ pc.uart \in {"sent", "query", "control", "start", "wait"} => resends = 0

Inv == TypeOK /\ InFlightTimed /\ StoppedSlot /\ Counted

-----------------------------------------------------------------------------
\* Goto moves one thread.
LEMMA GotoFacts ==
  ASSUME pc \in [uart : UartLabel, udp : WriterLabel, timer : WriterLabel],
         NEW t \in Thread, NEW l, Goto(t, l)
  PROVE  /\ pc'.uart = IF t = "uart" THEN l ELSE pc.uart
         /\ pc'.udp = IF t = "udp" THEN l ELSE pc.udp
         /\ pc'.timer = IF t = "timer" THEN l ELSE pc.timer
         /\ pc' = [uart |-> pc'.uart, udp |-> pc'.udp, timer |-> pc'.timer]
BY DEF Goto, Thread

\* Arithmetic of the counts.
LEMMA Fewer ==
  ASSUME NEW a \in Nat, NEW b \in Nat, NEW c \in Nat, NEW d \in Nat, NEW n \in Nat,
         a + b <= n + 1, c <= a, d <= b
  PROVE  c + d <= n + 1
OBVIOUS

LEMMA InitFacts == Init => Inv
<1> SUFFICES ASSUME Init PROVE Inv
  OBVIOUS
<1>1. pc.uart = "rev" /\ pc \in [uart : UartLabel, udp : WriterLabel, timer : WriterLabel]
  BY DEF Init, UartLabel, WriterLabel
<1>2. ~running /\ ~flag /\ running \in BOOLEAN /\ flag \in BOOLEAN /\ answered \in BOOLEAN
  BY DEF Init
<1>3. /\ state = Free /\ data \in Command /\ tempbuf \in Command
      /\ resendcnt = 0 /\ resends = 0
  BY DEF Init, Command
<1>4. resendcnt \in 0 .. RESENDCNT /\ resends \in Nat  BY <1>3, ResendAssumption
<1>5. TypeOK  BY <1>1, <1>2, <1>3, <1>4 DEF TypeOK
<1>6. InFlightTimed /\ StoppedSlot
  BY <1>3 DEF InFlightTimed, StoppedSlot, Free, InFlight
<1>7. Pending = 0  BY <1>1, <1>2 DEF Pending
<1>8. Counted  BY <1>2, <1>3, <1>7, ResendAssumption DEF Counted
<1> QED BY <1>5, <1>6, <1>8 DEF Inv

-----------------------------------------------------------------------------
(* Steps of the other threads. *)

\* A step that leaves the sending and the UART thread alone, and does not put
\* the slot in flight.
LEMMA OtherThread ==
  ASSUME Inv, NEW t \in {"udp", "timer"}, NEW l \in WriterLabel, Goto(t, l),
         UNCHANGED <<sending, timer>>,
         data' \in Command, state' = state \/ state' \in {Free, Written}
  PROVE  Inv'
<1> USE DEF Inv
<1>1. /\ pc'.uart = pc.uart
      /\ pc' \in [uart : UartLabel, udp : WriterLabel, timer : WriterLabel]
  BY GotoFacts DEF TypeOK, Thread
<1>2. /\ tempbuf' = tempbuf /\ resendcnt' = resendcnt /\ resends' = resends
      /\ answered' = answered /\ running' = running /\ flag' = flag
  BY DEF sending, timer
<1>3. TypeOK'  BY <1>1, <1>2 DEF TypeOK
<1>4. state' = InFlight => state = InFlight  BY DEF Free, Written, InFlight
<1>5. InFlightTimed' /\ StoppedSlot'
  BY <1>1, <1>2, <1>4 DEF InFlightTimed, StoppedSlot, At
<1>6. Pending' = Pending  BY <1>1, <1>2 DEF Pending
<1>7. Counted'  BY <1>1, <1>2, <1>6 DEF Counted
<1> QED BY <1>3, <1>5, <1>7

LEMMA SendTimerUpStep ==
  ASSUME Inv, SendTimerUp
  PROVE  Inv'
<1> USE DEF Inv
<1>1. /\ state' = state /\ data' = data /\ tempbuf' = tempbuf /\ resendcnt' = resendcnt
      /\ resends' = resends /\ answered' = answered /\ pc' = pc
      /\ running /\ running' = running /\ flag' = TRUE
  BY DEF SendTimerUp, slot, sending
<1>2. TypeOK'  BY <1>1 DEF TypeOK
<1>3. InFlightTimed' /\ StoppedSlot'  BY <1>1 DEF InFlightTimed, StoppedSlot, At
<1>4. Counted'  BY <1>1 DEF Counted
<1> QED BY <1>2, <1>3, <1>4

-----------------------------------------------------------------------------
(* Steps of the UART thread. *)

\* A step that only moves the UART thread and maybe changes the slot, without
\* reaching a place where something is claimed of the slot or the counts.
LEMMA UartMoves ==
  ASSUME Inv, NEW l \in UartLabel \ {"stop", "giveup", "sent", "query", "control", "start", "wait", "resend"},
         Goto("uart", l), pc.uart # "resend", pc.uart = "start" => state # InFlight,
         UNCHANGED <<sending, timer>>,
         data' \in Command, state' = state \/ state' \in {Free, Written}
  PROVE  Inv'
<1> USE DEF Inv
<1>1. /\ pc'.uart = l
      /\ pc' \in [uart : UartLabel, udp : WriterLabel, timer : WriterLabel]
  BY GotoFacts DEF TypeOK, Thread
<1>2. /\ tempbuf' = tempbuf /\ resendcnt' = resendcnt /\ resends' = resends
      /\ answered' = answered /\ running' = running /\ flag' = flag
  BY DEF sending, timer
<1>3. TypeOK'  BY <1>1, <1>2 DEF TypeOK
<1>4. state' = InFlight => state = InFlight  BY DEF Free, Written, InFlight
<1>5. InFlightTimed' /\ StoppedSlot'
  BY <1>1, <1>2, <1>4 DEF InFlightTimed, StoppedSlot, At
<1>6. Pending' = Pending  BY <1>1, <1>2 DEF Pending
<1>7. Counted'  BY <1>1, <1>2, <1>6 DEF Counted
<1> QED BY <1>3, <1>5, <1>7

LEMMA ReplySteps ==
  ASSUME Inv, Reply \/ GiveUp
  PROVE  Inv'
<1> USE DEF Inv
<1>1. /\ data' = data /\ tempbuf' = tempbuf /\ resendcnt' = resendcnt
      /\ resends' = resends /\ running' = running /\ flag' = flag
      /\ state' = Free /\ answered' \in BOOLEAN
      /\ \/ pc.uart = "reply" /\ Goto("uart", "stop")
         \/ pc.uart = "resend" /\ Goto("uart", "giveup")
  BY DEF Reply, GiveUp, timer, sending, At, TypeOK
<1>2. /\ pc'.uart \in {"stop", "giveup"}
      /\ pc' \in [uart : UartLabel, udp : WriterLabel, timer : WriterLabel]
  BY <1>1, GotoFacts DEF TypeOK, Thread, UartLabel
<1>3. TypeOK'  BY <1>1, <1>2 DEF TypeOK
<1>4. InFlightTimed' /\ StoppedSlot'
  BY <1>1, <1>2 DEF InFlightTimed, StoppedSlot, Free, InFlight
<1>5. Pending' <= Pending  BY <1>1, <1>2 DEF Pending
<1>6. Pending \in Nat /\ Pending' \in Nat /\ resends \in Nat
  BY DEF Pending, TypeOK
<1>7. Counted'
  <2>1. ~running => resends + Pending <= RESENDCNT + 1  BY DEF Counted
  <2>2. resends + Pending <= RESENDCNT + 1 => resends + Pending' <= RESENDCNT + 1
    <3>1. resends <= resends  BY <1>6
    <3> QED BY <3>1, <1>5, <1>6, ResendAssumption, Fewer
  <2>3. ~running' => resends' + Pending' <= RESENDCNT + 1
    BY <1>1, <2>1, <2>2
  <2> QED BY <1>1, <1>2, <2>3 DEF Counted
<1> QED BY <1>3, <1>4, <1>7

LEMMA StopSteps ==
  ASSUME Inv, ReplyStop \/ GiveUpStop
  PROVE  Inv'
<1> USE DEF Inv
<1>1. /\ state' = state /\ data' = data /\ tempbuf' = tempbuf /\ resendcnt' = 0
      /\ resends' = resends /\ answered' = answered /\ ~running' /\ running' \in BOOLEAN
      /\ flag' = flag /\ pc.uart \in {"stop", "giveup"}
      /\ \/ Goto("uart", "timer") \/ Goto("uart", "down")
  BY DEF ReplyStop, GiveUpStop, StopResending, slot, At
<1>2. /\ pc'.uart \in {"timer", "down"}
      /\ pc' \in [uart : UartLabel, udp : WriterLabel, timer : WriterLabel]
  BY <1>1, GotoFacts DEF TypeOK, Thread, UartLabel
<1>3. resendcnt' \in 0 .. RESENDCNT  BY <1>1, ResendAssumption
<1>4. TypeOK'  BY <1>1, <1>2, <1>3 DEF TypeOK
<1>5. InFlightTimed' /\ StoppedSlot'
  BY <1>1, <1>2 DEF InFlightTimed, StoppedSlot
<1>6. Pending \in {0, 1} /\ Pending' = Pending  BY <1>1, <1>2 DEF Pending
<1>7. resends + Pending <= RESENDCNT + 1
  <2>1. CASE running
    <3>1. resends <= resendcnt /\ resends \in Nat /\ resendcnt \in 0 .. RESENDCNT
      BY <2>1 DEF Counted, TypeOK
    <3> QED BY <3>1, <1>6, ResendAssumption
  <2>2. CASE ~running  BY <2>2 DEF Counted
  <2> QED BY <2>1, <2>2
<1>8. Counted'  BY <1>1, <1>2, <1>6, <1>7 DEF Counted
<1> QED BY <1>4, <1>5, <1>8

LEMMA TimerCheckStep ==
  ASSUME Inv, TimerCheck
  PROVE  Inv'
<1> USE DEF Inv
<1>1. /\ state' = state /\ data' = data /\ tempbuf' = tempbuf /\ resendcnt' = resendcnt
      /\ resends' = resends /\ answered' = answered /\ running' = running
      /\ flag' = FALSE /\ pc.uart = "timer"
      /\ Goto("uart", IF flag THEN "resend" ELSE "down")
  BY DEF TimerCheck, slot, sending, At
<1>2. /\ pc'.uart = IF flag THEN "resend" ELSE "down"
      /\ pc' \in [uart : UartLabel, udp : WriterLabel, timer : WriterLabel]
  BY <1>1, GotoFacts DEF TypeOK, Thread, UartLabel
<1>3. TypeOK'  BY <1>1, <1>2 DEF TypeOK
<1>4. InFlightTimed' /\ StoppedSlot'
  BY <1>1, <1>2 DEF InFlightTimed, StoppedSlot, At
<1>5. Pending' = Pending  BY <1>1, <1>2 DEF Pending
<1>6. Counted'  BY <1>1, <1>2, <1>5 DEF Counted
<1> QED BY <1>3, <1>4, <1>6

LEMMA ResendStep ==
  ASSUME Inv, Resend
  PROVE  Inv'
<1> USE DEF Inv
<1>1. /\ state' = state /\ data' = data /\ tempbuf' = tempbuf /\ resendcnt' = resendcnt + 1
      /\ resends' = resends + 1 /\ answered' = answered /\ running' = running
      /\ flag' = flag /\ pc.uart = "resend" /\ resendcnt # RESENDCNT
      /\ Goto("uart", "down")
  BY DEF Resend, slot, timer, At
<1>2. /\ pc'.uart = "down"
      /\ pc' \in [uart : UartLabel, udp : WriterLabel, timer : WriterLabel]
  BY <1>1, GotoFacts DEF TypeOK, Thread, UartLabel
<1>3. resendcnt' \in 0 .. RESENDCNT /\ resends' \in Nat
  BY <1>1, ResendAssumption DEF TypeOK
<1>4. TypeOK'  BY <1>1, <1>2, <1>3 DEF TypeOK
<1>5. InFlightTimed' /\ StoppedSlot'
  BY <1>1, <1>2 DEF InFlightTimed, StoppedSlot, At
<1>6. resends \in Nat /\ resendcnt \in Nat  BY ResendAssumption DEF TypeOK
<1>7. running' => resends' <= resendcnt'  BY <1>1, <1>6 DEF Counted
\* Once the flag of a stopped timer has been taken it stays down.
<1>8. CASE ~running
  <2>1. resends + Pending <= RESENDCNT + 1 /\ ~flag  BY <1>1, <1>8 DEF Counted
  <2>2. Pending = 1 /\ Pending' = 0  BY <1>1, <1>2, <2>1 DEF Pending
  <2>3. resends' + Pending' <= RESENDCNT + 1  BY <1>1, <1>6, <2>1, <2>2, ResendAssumption
  <2>4. Counted'  BY <1>1, <1>2, <1>7, <1>8, <2>1, <2>3 DEF Counted
  <2> QED BY <1>4, <1>5, <2>4
<1>9. CASE running
  <2>1. Counted'  BY <1>1, <1>2, <1>7, <1>9 DEF Counted
  <2> QED BY <1>4, <1>5, <2>1
<1> QED BY <1>8, <1>9

LEMMA SendDataStep ==
  ASSUME Inv, NEW sent \in BOOLEAN, SendData(sent)
  PROVE  Inv'
<1> USE DEF Inv
<1>1. /\ state' = state /\ data' = data /\ tempbuf' = data /\ resendcnt' = resendcnt
      /\ running' = running /\ flag' = flag /\ pc.uart = "send"
      /\ \/ resends' = 0 /\ answered' = FALSE /\ Goto("uart", "sent")
         \/ resends' = resends /\ answered' = answered /\ Goto("uart", "rev")
  BY DEF SendData, slot, timer, At
<1>2. /\ pc'.uart \in {"sent", "rev"} /\ (pc'.uart = "sent" => resends' = 0)
      /\ pc' \in [uart : UartLabel, udp : WriterLabel, timer : WriterLabel]
  BY <1>1, GotoFacts DEF TypeOK, Thread, UartLabel
<1>3. /\ resends' \in Nat /\ resends' \in {0, resends}
      /\ resends \in Nat /\ resendcnt \in 0 .. RESENDCNT
  BY <1>1 DEF TypeOK
<1>3a. answered' \in BOOLEAN  BY <1>1 DEF TypeOK
<1>4. TypeOK'  BY <1>1, <1>2, <1>3, <1>3a DEF TypeOK
<1>5. InFlightTimed' /\ StoppedSlot'
  BY <1>1, <1>2 DEF InFlightTimed, StoppedSlot, At
<1>6. Pending \in Nat /\ Pending' = Pending  BY <1>1, <1>2 DEF Pending
<1>6a. resends' <= resends /\ (resends <= resendcnt => resends' <= resendcnt)
  BY <1>3, ResendAssumption
<1>7. /\ resends <= resendcnt => resends' <= resendcnt
      /\ resends + Pending <= RESENDCNT + 1 => resends' + Pending <= RESENDCNT + 1
  <2>1. Pending <= Pending  BY <1>6
  <2> QED BY <1>3, <1>6, <1>6a, <2>1, ResendAssumption, Fewer
<1>8. Counted'  BY <1>1, <1>2, <1>6, <1>7 DEF Counted
<1> QED BY <1>4, <1>5, <1>8

LEMMA SentStep ==
  ASSUME Inv, Sent
  PROVE  Inv'
<1> USE DEF Inv
<1>1. /\ state' = state /\ data' = data /\ tempbuf' = tempbuf /\ resendcnt' = resendcnt
      /\ resends' = resends /\ answered' = answered
      /\ running' = running /\ flag' = flag /\ pc.uart = "sent"
      /\ Goto("uart", "query") \/ Goto("uart", "control")
  BY DEF Sent, slot, sending, timer, At
<1>2. /\ pc'.uart \in {"query", "control"}
      /\ pc' \in [uart : UartLabel, udp : WriterLabel, timer : WriterLabel]
  BY <1>1, GotoFacts DEF TypeOK, Thread, UartLabel
<1>3. TypeOK'  BY <1>1, <1>2 DEF TypeOK
<1>4. InFlightTimed' /\ StoppedSlot'
  BY <1>1, <1>2 DEF InFlightTimed, StoppedSlot, At
<1>5. Pending' = Pending  BY <1>1, <1>2 DEF Pending
<1>6. Counted'  BY <1>1, <1>2, <1>5 DEF Counted
<1> QED BY <1>3, <1>4, <1>6

LEMMA SetStateStep ==
  ASSUME Inv, SetState
  PROVE  Inv'
<1> USE DEF Inv
<1>1. /\ data' = data /\ tempbuf' = tempbuf /\ resendcnt' = resendcnt
      /\ resends' = resends /\ answered' = answered
      /\ running' = running /\ flag' = flag /\ pc.uart \in {"query", "control"}
      /\ \/ state' = InFlight /\ Goto("uart", "start")
         \/ state' = Free /\ Goto("uart", "wait")
  BY DEF SetState, sending, timer, At
<1>2. /\ pc'.uart \in {"start", "wait"} /\ (pc'.uart = "wait" => state' = Free)
      /\ state' \in {Free, InFlight} /\ (state' = InFlight => pc'["uart"] = "start")
      /\ pc' \in [uart : UartLabel, udp : WriterLabel, timer : WriterLabel]
  BY <1>1, GotoFacts DEF TypeOK, Thread, UartLabel, Free, InFlight
<1>3. TypeOK'  BY <1>1, <1>2 DEF TypeOK
<1>4. InFlightTimed' /\ StoppedSlot'
  BY <1>1, <1>2 DEF InFlightTimed, StoppedSlot, At, Free, InFlight
<1>5. Pending' = Pending  BY <1>1, <1>2 DEF Pending
<1>6. Counted'  BY <1>1, <1>2, <1>5 DEF Counted
<1> QED BY <1>3, <1>4, <1>6

LEMMA StartTimerStep ==
  ASSUME Inv, StartTimer
  PROVE  Inv'
<1> USE DEF Inv
<1>1. /\ state' = state /\ data' = data /\ tempbuf' = tempbuf /\ resendcnt' = resendcnt
      /\ resends' = resends /\ answered' = answered
      /\ running' = TRUE /\ flag' = flag /\ pc.uart = "start" /\ Goto("uart", "rev")
  BY DEF StartTimer, slot, sending, At
<1>2. /\ pc'.uart = "rev"
      /\ pc' \in [uart : UartLabel, udp : WriterLabel, timer : WriterLabel]
  BY <1>1, GotoFacts DEF TypeOK, Thread, UartLabel
<1>3. TypeOK'  BY <1>1, <1>2 DEF TypeOK
<1>4. InFlightTimed' /\ StoppedSlot'  BY <1>1, <1>2 DEF InFlightTimed, StoppedSlot
<1>5. resends = 0 /\ resendcnt \in 0 .. RESENDCNT  BY <1>1 DEF Counted, TypeOK
<1>6. Counted'  BY <1>1, <1>2, <1>5, ResendAssumption DEF Counted
<1> QED BY <1>3, <1>4, <1>6

LEMMA ControlStopStep ==
  ASSUME Inv, ControlStop
  PROVE  Inv'
<1> USE DEF Inv
<1>1. /\ state' = state /\ data' = data /\ tempbuf' = tempbuf /\ resendcnt' = resendcnt
      /\ resends' = resends /\ answered' = answered /\ ~running' /\ running' \in BOOLEAN
      /\ flag' = flag /\ pc.uart = "wait" /\ Goto("uart", "test")
  BY DEF ControlStop, slot, sending, At
<1>2. /\ pc'.uart = "test"
      /\ pc' \in [uart : UartLabel, udp : WriterLabel, timer : WriterLabel]
  BY <1>1, GotoFacts DEF TypeOK, Thread, UartLabel
<1>3. TypeOK'  BY <1>1, <1>2 DEF TypeOK
<1>4. InFlightTimed' /\ StoppedSlot'  BY <1>1, <1>2 DEF InFlightTimed, StoppedSlot
<1>5. resends' = 0 /\ Pending' \in Nat /\ Pending' <= 1
  BY <1>1 DEF Counted, Pending
<1>6. resends' + Pending' <= RESENDCNT + 1
  <2>1. /\ 0 + 1 <= RESENDCNT + 1 /\ resends' <= 0
        /\ resends' \in Nat /\ 0 \in Nat /\ 1 \in Nat
    BY <1>5, ResendAssumption
  <2> QED BY <1>5, <2>1, ResendAssumption, Fewer
<1>7. Counted'  BY <1>1, <1>2, <1>6 DEF Counted
<1> QED BY <1>3, <1>4, <1>7

-----------------------------------------------------------------------------
LEMMA UdpStep == Inv /\ UdpNext => Inv'
<1> SUFFICES ASSUME Inv, UdpNext PROVE Inv'
  OBVIOUS
<1>1. data \in Command  BY DEF Inv, TypeOK
<1>2. CASE UdpCommand
  BY <1>1, <1>2, OtherThread DEF UdpCommand, slot, WriterLabel
<1>3. CASE DataDownWrTest("udp", "idle")
  BY <1>1, <1>3, OtherThread DEF DataDownWrTest, slot, WriterLabel
<1>4. CASE \E c \in Command : DataDownWrCopy("udp", c)
  BY <1>4, OtherThread DEF DataDownWrCopy, WriterLabel
<1>5. CASE DataDownWrSet("udp", "idle")
  BY <1>1, <1>5, OtherThread DEF DataDownWrSet, WriterLabel
<1> QED BY <1>2, <1>3, <1>4, <1>5 DEF UdpNext

LEMMA TimerStep == Inv /\ TimerNext => Inv'
<1> SUFFICES ASSUME Inv, TimerNext PROVE Inv'
  OBVIOUS
<1>1. data \in Command /\ "query" \in Command  BY DEF Inv, TypeOK, Command
<1>2. CASE TimerTest
  BY <1>1, <1>2, OtherThread DEF TimerTest, WriterLabel
<1>3. CASE SendTimerUp  BY <1>3, SendTimerUpStep
<1>4. CASE DataDownWrTest("timer", "idle")
  BY <1>1, <1>4, OtherThread DEF DataDownWrTest, slot, WriterLabel
<1>5. CASE DataDownWrCopy("timer", "query")
  BY <1>1, <1>5, OtherThread DEF DataDownWrCopy, WriterLabel
<1>6. CASE DataDownWrSet("timer", "idle")
  BY <1>1, <1>6, OtherThread DEF DataDownWrSet, WriterLabel
<1> QED BY <1>2, <1>3, <1>4, <1>5, <1>6 DEF TimerNext, TimerWrite

LEMMA UartStep == Inv /\ UartNext => Inv'
<1> SUFFICES ASSUME Inv, UartNext PROVE Inv'
  OBVIOUS
<1>1. data \in Command /\ "query" \in Command  BY DEF Inv, TypeOK, Command
<1>2. CASE RevCmdHandle
  <2>1. \/ Goto("uart", "timer")
        \/ Goto("uart", "reply")
    BY <1>2 DEF RevCmdHandle
  <2> QED BY <1>1, <1>2, <2>1, UartMoves DEF RevCmdHandle, slot, UartLabel, At
<1>3. CASE DatadownCheck
  <2>1. \/ Goto("uart", "send")
        \/ Goto("uart", "rev")
    BY <1>3 DEF DatadownCheck
  <2> QED BY <1>1, <1>3, <2>1, UartMoves DEF DatadownCheck, slot, UartLabel, At
<1>4. CASE UartWrite
  <2>1. CASE DataDownWrTest("uart", "rev")
    <3>1. \/ Goto("uart", "copy")
          \/ Goto("uart", "rev")
      BY <2>1 DEF DataDownWrTest
    <3> QED BY <1>1, <2>1, <3>1, UartMoves DEF DataDownWrTest, slot, UartLabel, At
  <2>2. CASE DataDownWrCopy("uart", "query")
    BY <1>1, <2>2, UartMoves DEF DataDownWrCopy, UartLabel, At
  <2>3. CASE DataDownWrSet("uart", "rev")
    BY <1>1, <2>3, UartMoves DEF DataDownWrSet, UartLabel, At
  <2> QED BY <1>4, <2>1, <2>2, <2>3 DEF UartWrite
<1>5. CASE Reply \/ GiveUp  BY <1>5, ReplySteps
<1>6. CASE ReplyStop \/ GiveUpStop  BY <1>6, StopSteps
<1>7. CASE TimerCheck  BY <1>7, TimerCheckStep
<1>8. CASE Resend  BY <1>8, ResendStep
<1>9. CASE \E sent \in BOOLEAN : SendData(sent)  BY <1>9, SendDataStep
<1>10. CASE Sent  BY <1>10, SentStep
<1>10a. CASE SetState  BY <1>10a, SetStateStep
<1>11. CASE StartTimer  BY <1>11, StartTimerStep
<1>12. CASE ControlStop  BY <1>12, ControlStopStep
<1> QED BY <1>2, <1>3, <1>4, <1>5, <1>6, <1>7, <1>8, <1>9, <1>10, <1>10a, <1>11, <1>12
     DEF UartNext

\* Inv is inductive.
LEMMA Inductive == Spec => []Inv
<1>1. Inv /\ [Next]_vars => Inv'
  <2> SUFFICES ASSUME Inv, [Next]_vars PROVE Inv'
    OBVIOUS
  <2>1. CASE Next  BY <2>1, UdpStep, TimerStep, UartStep DEF Next
  <2>2. CASE UNCHANGED vars
    BY <2>2 DEF vars, slot, sending, timer, Inv, TypeOK, InFlightTimed, StoppedSlot,
                Counted, Pending, At
  <2> QED BY <2>1, <2>2
<1> QED BY <1>1, InitFacts, PTL DEF Spec

-----------------------------------------------------------------------------
\* The retransmission count stops at RESENDCNT, however the threads interleave.
THEOREM TypeCorrect == Spec => []TypeOK
<1>1. Inv => TypeOK  BY DEF Inv
<1> QED BY <1>1, Inductive, PTL

\* A query in flight always has the timer that ends it, although two other
\* threads write the slot without a lock.
THEOREM Timed == Spec => []InFlightTimed
<1>1. Inv => InFlightTimed  BY DEF Inv
<1> QED BY <1>1, Inductive, PTL

\* No frame is retransmitted more than RESENDCNT + 1 times.
THEOREM Bounded == Spec => []ResendBound
<1>1. Inv => ResendBound
  <2> SUFFICES ASSUME Inv PROVE resends <= RESENDCNT + 1
    BY DEF ResendBound
  <2>1. resends \in Nat /\ resendcnt \in 0 .. RESENDCNT /\ Pending \in Nat
    BY DEF Inv, TypeOK, Pending
  <2>2. CASE running
    <3>1. resends <= resendcnt  BY <2>2 DEF Inv, Counted
    <3> QED BY <2>1, <3>1, ResendAssumption
  <2>3. CASE ~running
    <3>1. resends + Pending <= RESENDCNT + 1  BY <2>3 DEF Inv, Counted
    <3>2. 0 <= Pending /\ resends <= resends /\ 0 \in Nat /\ resends + 0 = resends
      BY <2>1
    <3> QED BY <2>1, <3>1, <3>2, ResendAssumption, Fewer
  <2> QED BY <2>2, <2>3
<1> QED BY <1>1, Inductive, PTL
=============================================================================
