------------------------------- MODULE UpLink -------------------------------
(***************************************************************************)
(* The path of a status frame from the device: bytes of the UART are       *)
(* framed by RevDataWrFifo, a frame is checked and converted by            *)
(* FrameDataHandle and OldToNew, and RevCmdHandle hands the records one by *)
(* one to the application (tcl/code/devproanaly/devproanaly.c, built with  *)
(* OS and OLD, and the loop of UartRecv.c).                                *)
(*                                                                         *)
(* One buffer, framerevfifo, holds both: `offset` cells of whole converted *)
(* records, then the bytes of the frame being received.  It is the queue   *)
(* that Fifo implements.  The UART thread does everything but RevTimerUp,  *)
(* which the timer task runs between any two of its steps.                 *)
(*                                                                         *)
(* A byte is a cell: a header byte 0xF5, the byte 0x55 that marks an 0xF5  *)
(* inside a frame as data, or a byte that belongs to one place of one      *)
(* frame.  A frame passes the check of crc_cal when it is exactly what the *)
(* device sent: no damaged frame has the right sum by accident.            *)
(*                                                                         *)
(* FrameDataHandle keeps the number of raw bytes in a byte.  A frame that  *)
(* is converted out of U8 of them or more leaves raw bytes among the       *)
(* records (`overrun`); from then on RevCmdHandle may take a raw byte for  *)
(* a length, and `offset` may pass below 0 and lie outside the buffer.     *)
(***************************************************************************)
EXTENDS Integers, Sequences, SequencesExt

CONSTANTS Frames,        \* bound: frames the device sends
          Alarms,        \* those that report an alarm
          REVFIFOLEN,    \* capacity of framerevfifo, 1024 in the source
          U8,            \* 2^8 in the source: lengths are bytes
          U16,           \* 2^16 in the source: offset is an u16
          DATAUPLEN      \* size of dataup

ASSUME UpLinkAssumption ==
  /\ Frames \in Nat
  /\ REVFIFOLEN \in Nat
  /\ U8 \in Nat \ {0}
  /\ U16 \in Nat /\ REVFIFOLEN < U16
  /\ DATAUPLEN \in Nat

VARIABLES wire,          \* bytes sent and not yet received
          sent,          \* number of frames sent
          intact,        \* history: the frames sent without damage
          sound,         \* history: those undamaged behind their header
          data,          \* the bytes RevDataWrFifo has still to look at
          q,             \* framerevfifo
          offset,        \* framerevpara.offset
          datastate,     \* framerevpara.datastate
          wordstate,     \* framerevpara.wordstate
          running,       \* framerevtimer is started
          flag,          \* framerevtimer.state
          dataup,        \* the record handed up; NULL is state 0
          up,            \* history: the records the application took before an overrun
          rushed,        \* history: the timer fired, or a frame or noise began, too early
          overrun,       \* history: a frame was converted out of U8 raw bytes or more
          pc             \* the part of FrameHandle that is next, or "lost"

device == <<wire, sent, intact, sound>>
parser == <<q, offset, datastate, wordstate, overrun>>
timer == <<running, flag>>
vars == <<device, data, parser, timer, dataup, up, rushed, pc>>

NULL == [k |-> "none", f |-> 0, i |-> 0]
F5 == [k |-> "F5", f |-> 0, i |-> 0]
X55 == [k |-> "55", f |-> 0, i |-> 0]
Byte(f, i) == [k |-> "byte", f |-> f, i |-> i]

Heads(n) == [i \in 1 .. n |-> F5]
HEADNUMER == 4
Header == Heads(HEADNUMER)
Frame(f) == Header \o <<Byte(f, 1), F5, X55, Byte(f, 2)>>

\* Converted records: an alarm is 13 bytes and a state 22, here 2 and 3 cells.
Record(k, f) == [i \in 1 .. IF k = "alarm" THEN 2 ELSE 3 |-> [k |-> k, f |-> f, i |-> i]]
IsRecord(c) == c.k \in {"alarm", "state"}

-----------------------------------------------------------------------------
(* The buffer. *)

\* Mutant: the capacity is not looked at.
PushAlways(b, s) == b \o s

\* FifoPushOneByte for one byte after the other: what finds no room is dropped.
Push(b, s) ==
  LET room == REVFIFOLEN - Len(b)
  IN b \o SubSeq(s, 1, IF Len(s) <= room THEN Len(s) ELSE room)

\* FifoDeletHead: the newest n bytes, or all when there are fewer.
DeletHead(b, n) == SubSeq(b, 1, Len(b) - n)

\* FifoInput of a record: it is appended whole, or not at all.
Input(b, r) == IF Len(b) + Len(r) <= REVFIFOLEN THEN b \o r ELSE b

\* OldToNew writes the alarm, FrameDataHandle the state.
Convert(b, f) ==
  Input(IF f \in Alarms THEN Input(b, Record("alarm", f)) ELSE b, Record("state", f))

FrameRevInit == datastate' = "REVHEAD" /\ wordstate' = 0

-----------------------------------------------------------------------------
Init ==
  /\ wire = <<>> /\ sent = 0 /\ intact = {} /\ sound = {} /\ data = <<>>
  /\ q = <<>> /\ offset = 0
  /\ datastate = "REVHEAD" /\ wordstate = 0
  /\ running = FALSE /\ flag = FALSE
  /\ dataup = NULL /\ up = <<>> /\ rushed = FALSE /\ overrun = FALSE
  /\ pc = "app"

\* The line is quiet: everything received and nothing left to be timed out.
Quiet == wire = <<>> /\ ~running /\ ~flag

\* What noise adds behind a frame.
Noise == {<<F5>>, <<X55>>, <<X55, X55>>}

\* The device sends the next frame, whole, or with a byte lost or turned into one
\* of the two that the framing looks for, or with noise right behind it.
Send ==
  /\ sent < Frames
  /\ sent' = sent + 1
  /\ LET s == Frame(sent + 1) IN
       \/ /\ wire' = wire \o s
          /\ intact' = intact \cup {sent + 1} /\ sound' = sound \cup {sent + 1}
          /\ rushed' = (rushed \/ ~Quiet)
       \/ \E i \in DOMAIN s :
          /\ \/ wire' = wire \o RemoveAt(s, i)
             \/ \E c \in {F5, X55} : s[i] # c /\ wire' = wire \o [s EXCEPT ![i] = c]
          /\ UNCHANGED intact
          /\ sound' = IF i <= HEADNUMER THEN sound \cup {sent + 1} ELSE sound
          /\ rushed' = (rushed \/ ~Quiet)
       \/ \E n \in Noise :
          /\ wire' = wire \o (s \o n)
          /\ sound' = sound \cup {sent + 1}
          /\ rushed' = TRUE
          /\ UNCHANGED intact
  /\ UNCHANGED <<data, parser, timer, dataup, up, pc>>

\* RevTimerUp, in the timer task.  The timer runs on until it is stopped.
RevTimerUp ==
  /\ running
  /\ flag' = TRUE
  /\ rushed' = (rushed \/ wire # <<>>)
  /\ UNCHANGED <<device, data, parser, running, dataup, up, pc>>

-----------------------------------------------------------------------------
(* FrameHandle. *)

\* Mutant: the record is handed up again.
AppKeepsState ==
  /\ pc = "app"
  /\ up' = IF dataup = NULL \/ overrun THEN up ELSE Append(up, dataup)
  /\ pc' = "cmd"
  /\ UNCHANGED <<device, data, parser, timer, dataup, rushed>>

\* IsDataUpOk, AppHandleCallback, InitDataUpState.
App ==
  /\ pc = "app"
  /\ up' = IF dataup = NULL \/ overrun THEN up ELSE Append(up, dataup)
  /\ dataup' = NULL
  /\ pc' = "cmd"
  /\ UNCHANGED <<device, data, parser, timer, rushed>>

\* Mutant: every record is taken to be as long as an alarm.
RevCmdShort ==
  /\ pc = "cmd"
  /\ IF offset = 0 \/ dataup # NULL
       THEN UNCHANGED <<q, offset, dataup>>
       ELSE /\ dataup' = q[1]
            /\ q' = SubSeq(q, 3, Len(q))
            /\ offset' = offset - 2
  /\ pc' = "timer"
  /\ UNCHANGED <<device, data, datastate, wordstate, overrun, timer, up, rushed>>

\* FifoDeletTail of the n bytes that are taken for the oldest record.
TakeOff(n) ==
  /\ q' = SubSeq(q, n + 1, Len(q))
  /\ offset' = (offset - n) % U16

\* The first cell of a record holds its length and its command.
AtRecord == q # <<>> /\ IsRecord(q[1]) /\ q[1].i = 1

\* The oldest record, by the length it carries.
TakeRecord ==
  /\ AtRecord
  /\ TakeOff(Len(Record(q[1].k, q[1].f)))
  /\ dataup' = q[1]
  /\ pc' = "timer"

\* Length and command are read from other bytes, or from nothing: any length is
\* taken off, and what is there is handed up or not.  More than DATAUPLEN bytes of
\* it overwrite what lies behind dataup: the thread is not followed further.
TakeAny ==
  /\ ~AtRecord
  /\ \E n \in 0 .. U8 - 1 :
       /\ TakeOff(n)
       /\ \/ dataup' = NULL /\ pc' = "timer"
          \/ /\ q # <<>> /\ dataup' = q[1]
             /\ pc' = IF Len(q) - Len(q') > DATAUPLEN THEN "lost" ELSE "timer"

\* App has run in this pass, so dataup is free.
RevCmdHandle ==
  /\ pc = "cmd"
  /\ IF offset = 0 \/ dataup # NULL
       THEN pc' = "timer" /\ UNCHANGED <<q, offset, dataup>>
       ELSE TakeRecord \/ TakeAny
  /\ UNCHANGED <<device, data, datastate, wordstate, overrun, timer, up, rushed>>

Lost == pc = "lost" /\ UNCHANGED vars

\* The frame that was received, and what is left when its bytes are taken out.
\* templen is a byte: of more than U8 - 1 bytes only the first templen are looked
\* at and the last templen are removed.
templen == (Len(q) - offset) % U8
Good == {f \in 1 .. Frames : /\ offset + templen <= Len(q)
                             /\ SubSeq(q, offset + 1, offset + templen) = Frame(f)}
Emptied == DeletHead(q, templen)

Refuse == Good = {} /\ q' = Emptied /\ UNCHANGED <<offset, overrun>>

Accept ==
  \E f \in Good :
    /\ q' = Convert(Emptied, f)
    /\ offset' = (offset + (Len(q') - Len(Emptied))) % U16
    /\ overrun' = (overrun \/ Len(q) - offset >= U8)

\* Mutant: after a frame that fails the check, the receive state is not reset.
ResetsOnlyGood ==
  \/ Refuse /\ UNCHANGED <<datastate, wordstate>>
  \/ Accept /\ FrameRevInit

FrameDataHandle == (Refuse \/ Accept) /\ FrameRevInit

\* RevTimerHandle: what has been received so far is taken to be the frame.
RevTimerHandle ==
  /\ pc = "timer"
  /\ flag' = FALSE
  /\ IF flag THEN running' = FALSE /\ FrameDataHandle ELSE UNCHANGED <<running, parser>>
  /\ pc' = "recv"
  /\ UNCHANGED <<device, data, dataup, up, rushed>>

-----------------------------------------------------------------------------
(* MicoUartRecv, then RevDataWrFifo, one step for each byte. *)

\* What RevDataWrFifo has still to look at; when nothing is left it returns.
Left(d) == data' = d /\ pc' = IF d = <<>> THEN "app" ELSE "loop"

\* MicoUartRecv takes all that has arrived; RevDataWrFifo takes its number as a
\* byte, so the rest of U8 bytes or more is lost.  The timer is started.
Receive ==
  /\ pc = "recv"
  /\ \E n \in 1 .. Len(wire) :
       /\ Left(SubSeq(wire, 1, n % U8))
       /\ wire' = SubSeq(wire, n + 1, Len(wire))
  /\ running' = TRUE
  /\ UNCHANGED <<sent, intact, sound, parser, flag, dataup, up, rushed>>

\* Nothing has arrived yet.
NoBytes ==
  /\ pc = "recv"
  /\ pc' = "app"
  /\ UNCHANGED <<device, data, parser, timer, dataup, up, rushed>>

\* A header byte that is not the fourth in a row is only counted.
CountHead ==
  /\ data[1] = F5 /\ wordstate + 1 < HEADNUMER
  /\ wordstate' = wordstate + 1
  /\ Left(Tail(data))
  /\ UNCHANGED <<q, offset, datastate, overrun, running>>

\* The fourth begins a frame.
BeginFrame ==
  /\ datastate = "REVHEAD" /\ data[1] = F5 /\ wordstate + 1 = HEADNUMER
  /\ q' = Push(q, Header)
  /\ datastate' = "REVDATA" /\ wordstate' = 0
  /\ Left(Tail(data))
  /\ UNCHANGED <<offset, overrun, running>>

\* Anything else where a header is awaited ends the chunk.
NoHead ==
  /\ datastate = "REVHEAD" /\ data[1] # F5
  /\ wordstate' = 0
  /\ running' = FALSE
  /\ Left(<<>>)
  /\ UNCHANGED <<q, offset, datastate, overrun>>

\* Four header bytes end a frame.  FrameDataHandle clears wordstate, so that the
\* loop which would push them finds nothing to push.
EndFrame ==
  /\ datastate = "REVDATA" /\ data[1] = F5 /\ wordstate + 1 = HEADNUMER
  /\ FrameDataHandle
  /\ Left(Tail(data))
  /\ UNCHANGED running

\* A header byte inside a frame must be followed by 0x55.
BreakFrame ==
  /\ datastate = "REVDATA" /\ data[1] \notin {F5, X55} /\ wordstate # 0
  /\ q' = DeletHead(q, (Len(q) - offset) % U16)
  /\ FrameRevInit
  /\ running' = FALSE
  /\ Left(<<>>)
  /\ UNCHANGED <<offset, overrun>>

DataByte ==
  /\ datastate = "REVDATA" /\ data[1] # F5 /\ (data[1] = X55 \/ wordstate = 0)
  /\ q' = Push(q, Heads(wordstate) \o <<data[1]>>)
  /\ wordstate' = 0
  /\ Left(Tail(data))
  /\ UNCHANGED <<offset, datastate, overrun, running>>

RevDataWrFifo ==
  /\ pc = "loop"
  /\ CountHead \/ BeginFrame \/ NoHead \/ EndFrame \/ BreakFrame \/ DataByte
  /\ UNCHANGED <<device, flag, dataup, up, rushed>>

UartNext ==
  App \/ RevCmdHandle \/ RevTimerHandle \/ Receive \/ NoBytes \/ RevDataWrFifo

Next == Send \/ RevTimerUp \/ UartNext \/ Lost

\* The loop of the UART thread never blocks; bytes that are sent arrive; a timer
\* that stays started fires.
Fairness == WF_vars(UartNext) /\ SF_vars(Receive) /\ WF_vars(RevTimerUp)

Spec == Init /\ [][Next]_vars /\ Fairness

-----------------------------------------------------------------------------
(* Properties *)

Cell == [k : {"none", "F5", "55", "byte", "alarm", "state"}, f : 0 .. Frames, i : 0 .. 3]

\* The buffer is never over-full and the count of header bytes stays below four;
\* until a frame is converted out of U8 raw bytes or more, the converted part lies
\* within the buffer.
TypeOK ==
  /\ wire \in Seq(Cell) /\ data \in Seq(Cell) /\ sent \in 0 .. Frames /\ intact \subseteq sound
  /\ sound \subseteq 1 .. Frames
  /\ q \in Seq(Cell) /\ Len(q) <= REVFIFOLEN
  /\ offset \in 0 .. U16 - 1 /\ (overrun \/ offset <= Len(q))
  /\ datastate \in {"REVHEAD", "REVDATA"} /\ wordstate \in 0 .. HEADNUMER - 1
  /\ running \in BOOLEAN /\ flag \in BOOLEAN /\ rushed \in BOOLEAN /\ overrun \in BOOLEAN
  /\ dataup \in Cell /\ up \in Seq(Cell)
  /\ pc \in {"app", "cmd", "timer", "recv", "loop", "lost"}

\* Below `offset` there are whole records and nothing else, above it nothing but
\* bytes as received: RevCmdHandle, which trusts the length it finds at the head
\* of the buffer, always finds a record there, however full the buffer was and
\* however often a frame was cut off or refused.  Not after an overrun: a frame
\* converted out of U8 raw bytes or more leaves raw bytes below `offset`.
Aligned ==
  overrun \/
  /\ \A j \in 1 .. Len(q) : IsRecord(q[j]) <=> j <= offset
  /\ \A j \in 1 .. offset :
       LET r == Record(q[j].k, q[j].f) IN
       /\ j = 1 => q[j].i = 1
       /\ q[j].i < Len(r) => j < offset /\ q[j + 1] = r[q[j].i + 1]
       /\ q[j].i = Len(r) /\ j < offset => q[j + 1].i = 1

\* a was sent before b, and an alarm goes before the state of the same frame.
Before(a, b) == a.f < b.f \/ (a.f = b.f /\ a.k = "alarm" /\ b.k = "state")

\* What the application is given before an overrun is what the device sent, and
\* comes once and in order, whatever noise, timeouts and chunk boundaries do to the
\* frames.  (A header may be made good by a stray 0xF5 behind the frame before.)
OnlySound ==
  /\ \A j \in DOMAIN up : up[j].f \in sound /\ (up[j].k = "alarm" => up[j].f \in Alarms)
  /\ \A j \in 1 .. Len(up) - 1 : Before(up[j], up[j + 1])

\* Frames that are sent with a pause between them and arrive without one inside
\* are all handed up, with their alarms, even after damaged frames.
HandedUp(k, f) == \E j \in DOMAIN up : up[j].k = k /\ up[j].f = f

EveryFrameUp ==
  <>[](rushed \/ \A f \in intact :
         HandedUp("state", f) /\ (f \in Alarms => HandedUp("alarm", f)))
=============================================================================
