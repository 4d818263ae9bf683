------------------------------ MODULE DownLink ------------------------------
(***************************************************************************)
(* The path of a command to the device: the single command slot `datadown` *)
(* and the retransmission of the frame built from it                       *)
(* (tcl/code/devproanaly/devproanaly.c, built with OS and OLD).            *)
(*                                                                         *)
(* Three threads share the slot without a lock.  The UART thread runs the  *)
(* main loop FrameHandle; the UDP thread writes commands of the gateway    *)
(* with DataDownWr; the timer task runs TimerTest, which forces the slot   *)
(* free and writes a status query, and SendTimerUp, which raises the flag  *)
(* of the retransmission timer.  An action here is a stretch of code with  *)
(* at most one access to what the threads share.                           *)
(*                                                                         *)
(* A command is only what the UART thread tests it for: a status query     *)
(* (data[4] = 11), which the device must answer, or a control command.     *)
(***************************************************************************)
EXTENDS Naturals

CONSTANT RESENDCNT       \* retransmissions of a query, 2 in the source

ASSUME ResendAssumption == RESENDCNT \in Nat

VARIABLES state,         \* datadown.state
          data,          \* datadown.framedata
          tempbuf,       \* the frame SendData built last
          resendcnt,     \* framesendpara.resendcnt
          running,       \* framesendtimer is started
          flag,          \* framesendtimer.state
          pc,            \* where each thread is
          resends,       \* history: retransmissions since the last new frame
          answered       \* history: no new frame since the last reply

slot == <<state, data>>
sending == <<tempbuf, resendcnt, resends, answered>>
timer == <<running, flag>>
vars == <<slot, sending, timer, pc>>

Thread == {"uart", "udp", "timer"}
Command == {"query", "control"}

Free == 0                \* no data, or data processed
Written == 2             \* written, to be sent
InFlight == 3            \* sent, waiting for the reply

At(t, l) == pc[t] = l
Goto(t, l) == pc' = [pc EXCEPT ![t] = l]

-----------------------------------------------------------------------------
\* DevParaInit, after which the three threads run.
Init ==
  /\ state = Free /\ data = "control"
  /\ tempbuf = "control"
  /\ resendcnt = 0 /\ resends = 0 /\ answered = FALSE
  /\ running = FALSE /\ flag = FALSE
  /\ pc = [uart |-> "rev", udp |-> "idle", timer |-> "idle"]

-----------------------------------------------------------------------------
(* DataDownWr, called by each thread: test the state, copy, set the state. *)

\* A refused command is dropped: no caller looks at the result.
DataDownWrTest(t, done) ==
  /\ At(t, "test")
  /\ Goto(t, IF state = Free THEN "copy" ELSE done)
  /\ UNCHANGED <<slot, sending, timer>>

DataDownWrCopy(t, c) ==
  /\ At(t, "copy")
  /\ data' = c
  /\ Goto(t, "set")
  /\ UNCHANGED <<state, sending, timer>>

\* Mutant: the state is left at 1, "being written".
LeftBeingWritten(t, done) ==
  /\ At(t, "set")
  /\ state' = 1
  /\ Goto(t, done)
  /\ UNCHANGED <<data, sending, timer>>

DataDownWrSet(t, done) ==
  /\ At(t, "set")
  /\ state' = Written
  /\ Goto(t, done)
  /\ UNCHANGED <<data, sending, timer>>

-----------------------------------------------------------------------------
(* The UDP thread: tcl_data_push. *)

UdpCommand ==
  /\ At("udp", "idle")
  /\ Goto("udp", "test")
  /\ UNCHANGED <<slot, sending, timer>>

UdpNext ==
  \/ UdpCommand
  \/ DataDownWrTest("udp", "idle")
  \/ \E c \in Command : DataDownWrCopy("udp", c)
  \/ DataDownWrSet("udp", "idle")

-----------------------------------------------------------------------------
(* The timer task. *)

\* TimerTest, once a second: whatever the slot holds is given up.
TimerTest ==
  /\ At("timer", "idle")
  /\ state' = Free
  /\ Goto("timer", "test")
  /\ UNCHANGED <<data, sending, timer>>

\* The timer stays started until it is stopped, and fires again and again.
SendTimerUp ==
  /\ At("timer", "idle")
  /\ running
  /\ flag' = TRUE
  /\ UNCHANGED <<slot, sending, running, pc>>

TimerWrite ==
  \/ DataDownWrTest("timer", "idle")
  \/ DataDownWrCopy("timer", "query")
  \/ DataDownWrSet("timer", "idle")

TimerNext == TimerTest \/ SendTimerUp \/ TimerWrite

-----------------------------------------------------------------------------
(* The UART thread: one pass of FrameHandle after another. *)

\* RevCmdHandle looks at the slot when a status frame has been received.
RevCmdHandle ==
  /\ At("uart", "rev")
  /\ \/ state = InFlight /\ Goto("uart", "reply")
     \/ Goto("uart", "timer")
  /\ UNCHANGED <<slot, sending, timer>>

\* Mutant: the timer is stopped before the state is cleared.
ReplyStopsFirst ==
  /\ At("uart", "reply")
  /\ Goto("uart", "stop")
  /\ running' = FALSE /\ answered' = TRUE
  /\ UNCHANGED <<slot, flag, tempbuf, resendcnt, resends>>

Reply ==
  /\ At("uart", "reply")
  /\ state' = Free
  /\ answered' = TRUE
  /\ Goto("uart", "stop")
  /\ UNCHANGED <<data, timer, tempbuf, resendcnt, resends>>

\* Mutant: the retransmission timer keeps running.
NeverStops(next) ==
  /\ resendcnt' = 0
  /\ Goto("uart", next)
  /\ UNCHANGED <<slot, timer, tempbuf, resends, answered>>

\* APIStopTimer and FrameSendparaInit.  A flag already raised stays raised.
StopResending(next) ==
  /\ running' = FALSE
  /\ resendcnt' = 0
  /\ Goto("uart", next)
  /\ UNCHANGED <<slot, flag, tempbuf, resends, answered>>

ReplyStop == At("uart", "stop") /\ StopResending("timer")

\* SendTimerHandle.
TimerCheck ==
  /\ At("uart", "timer")
  /\ flag' = FALSE
  /\ Goto("uart", IF flag THEN "resend" ELSE "down")
  /\ UNCHANGED <<slot, sending, running>>

\* Mutant: one retransmission too many.
ResendOnceMore ==
  /\ At("uart", "resend")
  /\ resendcnt # RESENDCNT + 1
  /\ resendcnt' = resendcnt + 1
  /\ resends' = resends + 1
  /\ Goto("uart", "down")
  /\ UNCHANGED <<slot, timer, tempbuf, answered>>

\* SendData(0) transmits tempbuf as it is, whatever the slot holds by now.
Resend ==
  /\ At("uart", "resend")
  /\ resendcnt # RESENDCNT
  /\ resendcnt' = resendcnt + 1
  /\ resends' = resends + 1
  /\ Goto("uart", "down")
  /\ UNCHANGED <<slot, timer, tempbuf, answered>>

\* Mutant: after the last retransmission the state is not cleared.
GiveUpKeepsState ==
  /\ At("uart", "resend")
  /\ resendcnt = RESENDCNT
  /\ Goto("uart", "giveup")
  /\ UNCHANGED <<slot, sending, timer>>

GiveUp ==
  /\ At("uart", "resend")
  /\ resendcnt = RESENDCNT
  /\ state' = Free
  /\ Goto("uart", "giveup")
  /\ UNCHANGED <<data, sending, timer>>

GiveUpStop == At("uart", "giveup") /\ StopResending("down")

\* DatadownHandle.
DatadownCheck ==
  /\ At("uart", "down")
  /\ Goto("uart", IF state = Written THEN "send" ELSE "rev")
  /\ UNCHANGED <<slot, sending, timer>>

\* SendData(1): the frame is built; writing it to the UART may fail, and the
\* slot then stays as it is for the next pass.
SendData(sent) ==
  /\ At("uart", "send")
  /\ tempbuf' = data
  /\ \/ sent /\ resends' = 0 /\ answered' = FALSE /\ Goto("uart", "sent")
     \/ ~sent /\ UNCHANGED <<resends, answered>> /\ Goto("uart", "rev")
  /\ UNCHANGED <<slot, timer, resendcnt>>

\* The slot is read again to decide whether a reply is to be expected.
Sent ==
  /\ At("uart", "sent")
  /\ Goto("uart", IF data = "query" THEN "query" ELSE "control")
  /\ UNCHANGED <<slot, sending, timer>>

\* The state is set, whatever the other threads have put there meanwhile.
SetState ==
  /\ \/ At("uart", "query") /\ state' = InFlight /\ Goto("uart", "start")
     \/ At("uart", "control") /\ state' = Free /\ Goto("uart", "wait")
  /\ UNCHANGED <<data, sending, timer>>

StartTimer ==
  /\ At("uart", "start")
  /\ running' = TRUE
  /\ Goto("uart", "rev")
  /\ UNCHANGED <<slot, sending, flag>>

\* After a control command: stop the timer (the resend count is kept), then
\* write a status query into the slot.
ControlStop ==
  /\ At("uart", "wait")
  /\ running' = FALSE
  /\ Goto("uart", "test")
  /\ UNCHANGED <<slot, sending, flag>>

UartWrite ==
  \/ DataDownWrTest("uart", "rev")
  \/ DataDownWrCopy("uart", "query")
  \/ DataDownWrSet("uart", "rev")

UartNext ==
  \/ RevCmdHandle \/ Reply \/ ReplyStop
  \/ TimerCheck \/ Resend \/ GiveUp \/ GiveUpStop
  \/ DatadownCheck \/ (\E sent \in BOOLEAN : SendData(sent))
  \/ Sent \/ SetState \/ StartTimer \/ ControlStop \/ UartWrite

-----------------------------------------------------------------------------
Next == UdpNext \/ TimerNext \/ UartNext

\* The UART loop never blocks; a callback of the timer task runs to its end;
\* a started timer fires again and again between other callbacks; TimerTest
\* runs every second.
RunsOn ==
  /\ WF_vars(UartNext)
  /\ WF_vars(TimerWrite)
  /\ SF_vars(SendTimerUp)

\* TimerTest runs every second and a pass of the loop takes far less, so if the
\* slot is filled again and again, a pass looks at it while it is; and the UART
\* does not fail for ever.
Polls ==
  /\ WF_vars(TimerTest)
  /\ []<>(state = Written) => []<><<DatadownCheck /\ state = Written>>_vars
  /\ SF_vars(SendData(TRUE))

Spec == Init /\ [][Next]_vars /\ RunsOn

-----------------------------------------------------------------------------
(* Properties *)

UartLabel == {"rev", "reply", "stop", "timer", "resend", "giveup", "down", "send",
              "sent", "query", "control", "start", "wait", "test", "copy", "set"}
WriterLabel == {"idle", "test", "copy", "set"}

\* The resend count never passes RESENDCNT: SendTimerHandle stops only when it
\* is equal to it.
TypeOK ==
  /\ state \in {Free, Written, InFlight}
  /\ data \in Command /\ tempbuf \in Command
  /\ resendcnt \in 0 .. RESENDCNT
  /\ running \in BOOLEAN /\ flag \in BOOLEAN
  /\ resends \in Nat /\ answered \in BOOLEAN
  /\ pc \in [uart : UartLabel, udp : WriterLabel, timer : WriterLabel]

\* A slot that waits for a reply has its retransmission timer running, whatever
\* TimerTest and the UDP thread do in between: only DatadownHandle, between
\* setting state 3 and starting the timer, is exempt.
InFlightTimed == state = InFlight /\ ~At("uart", "start") => running

\* A frame is retransmitted at most RESENDCNT times, and once more if the timer
\* fired while it was being stopped.
ResendBound == resends <= RESENDCNT + 1

\* A slot that waits for a reply is released, reply or not.
InFlightResolved == state = InFlight ~> state # InFlight

\* No unanswered, dropped or half-sent command blocks the slot: with TimerTest
\* running, frames go to the device for ever, and, once the gateway is silent,
\* status queries do.
PolledForever ==
  Polls => /\ []<>At("uart", "sent")
           /\ <>[]At("udp", "idle") => []<>(At("uart", "sent") /\ tempbuf = "query")

\* devproanaly.h says of the state of the slot "only writable when 0".
WrittenOnlyWhenFree == [][data' # data => state = Free]_slot

\* RevCmdHandle says that a reply stops retransmission.
NoResendAfterReply == [][answered => resends' <= resends]_<<resends, answered>>
=============================================================================
