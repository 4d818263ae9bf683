------------------------ MODULE JoylinkSessionProofs ------------------------
(***************************************************************************)
(* The safety of the JoyLink session, for any number of descriptors, any   *)
(* access keys, any limit of unanswered heartbeats and any number of       *)
(* packets under way.                                                      *)
(*                                                                         *)
(* That a session works with a key of its connection is inductive only     *)
(* together with what is under way: a heartbeat, asked for or answered,    *)
(* exists only once a key has been read on this connection, because a new  *)
(* connection starts with nothing under way; and as long as the access key *)
(* has not changed, every packet under way was sealed with it.             *)
(***************************************************************************)
EXTENDS JoylinkSession, SequenceTheorems, TLAPS

HasHb(s) == \E k \in 1 .. Len(s) : s[k].about = "hb"
AllUnder(s, k) == \A j \in 1 .. Len(s) : s[j].about = "auth" => s[j].key = k

Read == key \in {"current", "wrong", "cut"}
HbUnderWay == HasHb(requests) \/ HasHb(answers) => Read
AuthUnderWay == ~rekeyed => AllUnder(requests, accesskey) /\ AllUnder(answers, accesskey)
WrongKey == key = "wrong" => rekeyed
Connected == pc = "recv" => server_st # INIT
Off == pc = "off" => requests = <<>> /\ answers = <<>>
Saved == flash \in written /\ (pc = "ack" => flash = accesskey)

IInv ==
  /\ TypeOK /\ DescriptorOwned /\ Connected /\ Off
  /\ WorksWithItsKey /\ UploadsInSession
  /\ HbUnderWay /\ AuthUnderWay /\ WrongKey
  /\ KeyKept /\ Saved

\* The invariant but for the types, in three parts
Streams == HbUnderWay /\ AuthUnderWay /\ Off
Keys == WrongKey /\ KeyKept /\ Saved
Session == DescriptorOwned /\ Connected /\ WorksWithItsKey /\ UploadsInSession

-----------------------------------------------------------------------------
(* Packets under way. *)

LEMMA EmptyStream ==
  /\ <<>> \in Seq(Packets) /\ Len(<<>>) <= MaxStream
  /\ ~HasHb(<<>>) /\ \A k : AllUnder(<<>>, k)
  BY BoundAssumption DEF HasHb, AllUnder

LEMMA AppendType ==
  ASSUME NEW s \in Seq(Packets), NEW p \in Packets, Len(s) < MaxStream, NEW k
  PROVE  /\ Append(s, p) \in Seq(Packets) /\ Len(Append(s, p)) <= MaxStream
         /\ HasHb(Append(s, p)) => HasHb(s) \/ p.about = "hb"
         /\ AllUnder(s, k) /\ (p.about = "auth" => p.key = k) => AllUnder(Append(s, p), k)
  <1>1. Append(s, p) \in Seq(Packets) /\ Len(Append(s, p)) = Len(s) + 1
    OBVIOUS
  <1>2. Len(s) \in Nat /\ MaxStream \in Nat
    BY BoundAssumption
  <1>3. \A j \in 1 .. Len(s) + 1 :
          (j \in 1 .. Len(s) /\ Append(s, p)[j] = s[j]) \/ Append(s, p)[j] = p
    BY <1>2
  <1>4. HasHb(Append(s, p)) => HasHb(s) \/ p.about = "hb"
    BY <1>1, <1>3 DEF HasHb
  <1>5. AllUnder(s, k) /\ (p.about = "auth" => p.key = k) => AllUnder(Append(s, p), k)
    BY <1>1, <1>3 DEF AllUnder
  <1> QED
    BY <1>1, <1>2, <1>4, <1>5

LEMMA TailType ==
  ASSUME NEW s \in Seq(Packets), s # <<>>, Len(s) <= MaxStream, NEW k
  PROVE  /\ Head(s) \in Packets /\ (Head(s).about = "hb" => HasHb(s))
         /\ AllUnder(s, k) => (Head(s).about = "auth" => Head(s).key = k)
         /\ Tail(s) \in Seq(Packets) /\ Len(Tail(s)) <= MaxStream
         /\ HasHb(Tail(s)) => HasHb(s)
         /\ AllUnder(s, k) => AllUnder(Tail(s), k)
  <1>1. Len(s) \in Nat \ {0} /\ MaxStream \in Nat
    BY BoundAssumption, EmptySeq
  <1>2. Tail(s) \in Seq(Packets) /\ Len(Tail(s)) = Len(s) - 1
    BY <1>1
  <1>3. Head(s) = s[1] /\ s[1] \in Packets /\ 1 \in 1 .. Len(s)
    BY <1>1
  <1>4. \A j \in 1 .. Len(s) - 1 : j + 1 \in 1 .. Len(s) /\ Tail(s)[j] = s[j + 1]
    BY <1>1
  <1>5. HasHb(Tail(s)) => HasHb(s)
    BY <1>2, <1>4 DEF HasHb
  <1>6. AllUnder(s, k) => AllUnder(Tail(s), k)
    BY <1>2, <1>4 DEF AllUnder
  <1>7. /\ Head(s).about = "hb" => HasHb(s)
        /\ AllUnder(s, k) => (Head(s).about = "auth" => Head(s).key = k)
    BY <1>3 DEF HasHb, AllUnder
  <1> QED
    BY <1>1, <1>2, <1>3, <1>5, <1>6, <1>7

\* What a packet cut short leaves in its place asks for nothing.
LEMMA RestType ==
  ASSUME NEW s \in Seq(Packets), s # <<>>, Len(s) <= MaxStream, NEW k
  PROVE  /\ <<Rest>> \o Tail(s) \in Seq(Packets) /\ Len(<<Rest>> \o Tail(s)) <= MaxStream
         /\ HasHb(<<Rest>> \o Tail(s)) => HasHb(s)
         /\ AllUnder(s, k) => AllUnder(<<Rest>> \o Tail(s), k)
  <1> DEFINE t == <<Rest>> \o Tail(s)
  <1>1. Len(s) \in Nat \ {0} /\ MaxStream \in Nat
    BY BoundAssumption, EmptySeq
  <1>2. Rest \in Packets /\ Rest.about = "rest"
    BY DEF Rest, Packet, Packets, SessionKeys
  <1>3. Tail(s) \in Seq(Packets) /\ Len(Tail(s)) = Len(s) - 1
    BY <1>1
  <1>4. t \in Seq(Packets) /\ Len(t) = Len(s)
    BY <1>1, <1>2, <1>3
  <1>5. \A j \in 1 .. Len(s) : t[j] = Rest \/ t[j] = s[j]
    BY <1>1, <1>2, <1>3
  <1>6. HasHb(t) => HasHb(s)
    BY <1>2, <1>4, <1>5 DEF HasHb
  <1>7. AllUnder(s, k) => AllUnder(t, k)
    BY <1>2, <1>4, <1>5 DEF AllUnder
  <1> QED
    BY <1>4, <1>6, <1>7

-----------------------------------------------------------------------------
(* The timer. *)

LEMMA SendType ==
  ASSUME TypeOK, NEW p \in Packets, Send(p), NEW k
  PROVE  /\ requests' \in Seq(Packets) /\ Len(requests') <= MaxStream
         /\ HasHb(requests') => HasHb(requests) \/ p.about = "hb"
         /\ AllUnder(requests, k) /\ (p.about = "auth" => p.key = k) => AllUnder(requests', k)
  <1>1. CASE Len(requests) < MaxStream
    BY <1>1, AppendType DEF TypeOK, Send
  <1>2. CASE ~(Len(requests) < MaxStream)
    BY <1>2 DEF TypeOK, Send
  <1> QED
    BY <1>1, <1>2

\* Nothing is under way on a connection that starts.
LEMMA StInitStep ==
  ASSUME IInv, StInit, pc = "timer", pc' = "select", upload' = NoUpload, UNCHANGED lan
  PROVE  IInv'
  <1>1. Kept \in SUBSET Fd /\ Kept = {}
    BY DEF StInit, Kept, Lost, IInv, TypeOK, DescriptorOwned, INIT, AUTH, WORK
  <1>2. /\ server_st' \in {INIT, AUTH} /\ server_socket' \in Fd \cup {-1}
        /\ hb_lost_count' \in 0 .. JL_MAX_SERVER_HB_LOST + 1
        /\ open' = IF server_st' = INIT THEN {} ELSE {server_socket'}
        /\ server_st' # INIT => server_socket' \in Fd
    BY <1>1, BoundAssumption
    DEF StInit, NoSocket, ConnectFails, Connect, IInv, TypeOK, INIT, AUTH, WORK
  <1>3. key' \in SessionKeys /\ rekeyed' \in BOOLEAN /\ (key' = "wrong" => rekeyed')
    <2>1. CASE NoSocket \/ \E fd \in Fd : ConnectFails(fd)
      BY <2>1 DEF NoSocket, ConnectFails, IInv, TypeOK, WrongKey
    <2>2. CASE \E fd \in Fd : Connect(fd)
      BY <2>2 DEF Connect, SessionKeys
    <2> QED
      BY <2>1, <2>2 DEF StInit
  <1>4. /\ requests' = <<>> /\ answers' = <<>> /\ closed' = FALSE
        /\ UNCHANGED <<accesskey, flash, written, serving>>
    BY DEF StInit
  <1>5. TypeOK'
    BY <1>2, <1>3, <1>4, EmptyStream
    DEF TypeOK, IInv, NoUpload, INIT, AUTH, WORK, SessionKeys
  <1>6. Session'
    BY <1>2 DEF Session, DescriptorOwned, Connected, WorksWithItsKey,
                OfThisConnection, UploadsInSession, NoUpload, INIT, AUTH, WORK
  <1>7. Streams'
    BY <1>4, EmptyStream DEF Streams, HbUnderWay, AuthUnderWay, Off
  <1>8. Keys'
    BY <1>3, <1>4 DEF Keys, IInv, WrongKey, KeyKept, Saved
  <1> QED
    BY <1>5, <1>6, <1>7, <1>8 DEF IInv, Session, Streams, Keys

\* A heartbeat is asked for in WORK only, where a key has been read on this
\* connection.
LEMMA StAskStep ==
  ASSUME IInv, pc = "timer", pc' = "select", upload' = NoUpload, UNCHANGED lan,
         \/ StAsk(AUTH, Packet("auth", accesskey))
         \/ StAsk(WORK, Packet("hb", key))
  PROVE  IInv'
  <1>1. PICK p \in Packets :
          /\ Send(p) /\ (p.about = "hb" => server_st = WORK)
          /\ p.about = "auth" => p.key = accesskey
    BY DEF StAsk, Packet, Packets, IInv, TypeOK
  <1>2. /\ requests' \in Seq(Packets) /\ Len(requests') <= MaxStream
        /\ HasHb(requests') => HasHb(requests) \/ p.about = "hb"
        /\ AllUnder(requests, accesskey) => AllUnder(requests', accesskey)
    BY <1>1, SendType DEF IInv
  <1>3. /\ UNCHANGED <<server_st, server_socket, key, open, keys, answers, closed, serving>>
        /\ hb_lost_count' = hb_lost_count + 1 /\ ~Lost /\ server_st # INIT
    BY DEF StAsk, INIT, AUTH, WORK
  <1>4. hb_lost_count' \in 0 .. JL_MAX_SERVER_HB_LOST + 1
    BY <1>3, BoundAssumption DEF IInv, TypeOK, Lost
  <1>5. TypeOK'
    BY <1>2, <1>3, <1>4 DEF TypeOK, IInv, NoUpload, keys, SessionKeys
  <1>6. Session'
    BY <1>3 DEF IInv, Session, DescriptorOwned, Connected, WorksWithItsKey,
                OfThisConnection, UploadsInSession, NoUpload, keys
  <1>7. Streams'
    BY <1>1, <1>2, <1>3
    DEF IInv, Streams, HbUnderWay, AuthUnderWay, Off, WorksWithItsKey,
        OfThisConnection, Read, keys
  <1>8. Keys'
    BY <1>3 DEF IInv, Keys, WrongKey, KeyKept, Saved, keys
  <1> QED
    BY <1>5, <1>6, <1>7, <1>8 DEF IInv, Session, Streams, Keys

-----------------------------------------------------------------------------
(* The server's socket. *)

\* An answer that is taken leaves the key of this connection, one cut short, or a wrong
\* one if the access key has changed.
LEMMA HandleStep ==
  ASSUME IInv, Handle \/ HandleCut, server_st # INIT, pc \in {"select", "recv"}
  PROVE  IInv'
  <1> DEFINE p == Head(answers)
  <1>1. /\ p \in Packets /\ (p.about = "hb" => HasHb(answers))
        /\ AllUnder(answers, accesskey) => (p.about = "auth" => p.key = accesskey)
        /\ answers' \in Seq(Packets) /\ Len(answers') <= MaxStream
        /\ HasHb(answers') => HasHb(answers)
        /\ AllUnder(answers, accesskey) => AllUnder(answers', accesskey)
    BY TailType, RestType DEF Handle, HandleCut, IInv, TypeOK
  <1>2. /\ hb_lost_count' \in 0 .. JL_MAX_SERVER_HB_LOST + 1
        /\ \/ /\ server_st' = WORK /\ key' \in {"current", "wrong", "cut"}
              /\ key' = "wrong" => rekeyed
              /\ upload' = Upload("server", key')
           \/ /\ UNCHANGED <<server_st, key>> /\ upload' = NoUpload
    <2>1. CASE /\ p.about = "auth"
                /\ \E k \in {Given(p), "cut"} : ProcAuth(k)
      <3>1. ~Opened(p) => rekeyed
        BY <1>1, <2>1 DEF IInv, AuthUnderWay, Opened
      <3> QED
        BY <2>1, <3>1 DEF ProcAuth, Given, IInv, TypeOK
    <2>2. CASE p.about = "hb" /\ ProcHb
      <3>1. Read /\ WrongKey
        BY <1>1, <2>2 DEF IInv, HbUnderWay
      <3> QED
        BY <2>2, <3>1, BoundAssumption DEF ProcHb, Read, WrongKey
    <2>3. CASE upload' = NoUpload /\ UNCHANGED <<server_st, hb_lost_count, key>>
      BY <2>3 DEF IInv, TypeOK
    <2> QED
      BY <2>1, <2>2, <2>3 DEF Handle, HandleCut, Unreadable
  <1>3. /\ UNCHANGED <<server_socket, open, keys, lan, requests, closed, serving>>
        /\ pc' = "timer"
    BY DEF Handle, HandleCut
  <1>4. open' = {server_socket'} /\ server_st' # INIT
    BY <1>2, <1>3 DEF IInv, DescriptorOwned, INIT, WORK
  <1>5. TypeOK'
    BY <1>1, <1>2, <1>3 DEF TypeOK, IInv, Upload, NoUpload, keys, SessionKeys
  <1>6. Session'
    BY <1>2, <1>3, <1>4
    DEF Session, IInv, DescriptorOwned, Connected, WorksWithItsKey,
        OfThisConnection, UploadsInSession, Upload, NoUpload, keys
  <1>7. Streams'
    BY <1>1, <1>2, <1>3 DEF Streams, IInv, HbUnderWay, AuthUnderWay, Off, Read, keys
  <1>8. Keys'
    BY <1>2, <1>3 DEF Keys, IInv, WrongKey, KeyKept, Saved, keys
  <1> QED
    BY <1>5, <1>6, <1>7, <1>8 DEF IInv, Session, Streams, Keys

LEMMA RecvLostStep == ASSUME IInv, RecvLost PROVE IInv'
  <1>1. /\ answers' \in Seq(Packets) /\ Len(answers') <= MaxStream
        /\ HasHb(answers') => HasHb(answers)
        /\ AllUnder(answers, accesskey) => AllUnder(answers', accesskey)
    BY TailType DEF RecvLost, IInv, TypeOK
  <1>2. /\ UNCHANGED <<device, keys, lan, requests, closed, serving>>
        /\ pc' \in {"timer", "recv"} /\ pc = "recv" /\ upload' = NoUpload
    BY DEF RecvLost
  <1>3. TypeOK'
    BY <1>1, <1>2 DEF TypeOK, IInv, device, keys, NoUpload, SessionKeys
  <1>4. Session'
    BY <1>2 DEF IInv, device, keys, NoUpload, Session, DescriptorOwned, Connected,
                WorksWithItsKey, OfThisConnection, UploadsInSession
  <1>5. Streams'
    BY <1>1, <1>2 DEF IInv, device, keys, Streams, HbUnderWay, AuthUnderWay, Off, Read
  <1>6. Keys'
    BY <1>2 DEF IInv, device, keys, Keys, WrongKey, KeyKept, Saved
  <1> QED
    BY <1>3, <1>4, <1>5, <1>6 DEF IInv, Session, Streams, Keys

LEMMA GiveUpStep ==
  ASSUME IInv, GiveUp, server_st # INIT, pc \in {"select", "recv"}
  PROVE  IInv'
  <1>1. open' = {}
    BY DEF GiveUp, IInv, DescriptorOwned
  <1>2. TypeOK'
    BY <1>1, EmptyStream DEF GiveUp, IInv, TypeOK, NoUpload, keys, SessionKeys
  <1>3. Session'
    BY <1>1 DEF GiveUp, Session, DescriptorOwned, Connected, WorksWithItsKey,
                UploadsInSession, NoUpload, INIT, WORK
  <1>4. Streams'
    BY EmptyStream DEF GiveUp, Streams, HbUnderWay, AuthUnderWay, Off
  <1>5. Keys'
    BY DEF GiveUp, IInv, Keys, WrongKey, KeyKept, Saved, keys
  <1> QED
    BY <1>2, <1>3, <1>4, <1>5 DEF IInv, Session, Streams, Keys

-----------------------------------------------------------------------------
(* The steps that leave the session as it is. *)

LEMMA QuietStep ==
  ASSUME IInv, UNCHANGED <<device, keys, requests, answers>>,
         \/ pc' = pc
         \/ pc # "off" /\ pc' \in {"timer", "select", "recv"},
         pc' = "recv" => server_st # INIT,
         lan' \in BOOLEAN, closed' \in BOOLEAN, serving' \in BOOLEAN,
         \/ upload' = NoUpload \/ upload' = Upload("lan", key) \/ UNCHANGED <<upload>>
         \/ upload' = Upload("server", key) /\ key = "current" /\ server_st # INIT
  PROVE  IInv'
  <1>1. TypeOK'
    BY DEF IInv, TypeOK, device, keys, NoUpload, Upload, SessionKeys
  <1>2. DescriptorOwned' /\ Connected' /\ WorksWithItsKey'
    BY DEF IInv, device, keys, DescriptorOwned, Connected, WorksWithItsKey, OfThisConnection
  <1>3. UploadsInSession'
    <2>1. CASE upload' = NoUpload \/ upload' = Upload("lan", key)
      BY <2>1 DEF UploadsInSession, NoUpload, Upload
    <2>2. CASE UNCHANGED <<upload>>
      BY <2>2 DEF IInv, device, keys, UploadsInSession, OfThisConnection
    <2>3. CASE upload' = Upload("server", key) /\ key = "current" /\ server_st # INIT
      BY <2>3 DEF IInv, DescriptorOwned, device, UploadsInSession, OfThisConnection, Upload
    <2> QED
      BY <2>1, <2>2, <2>3
  <1>4. Streams'
    BY DEF IInv, device, keys, Streams, HbUnderWay, AuthUnderWay, Off, Read
  <1>5. Keys'
    BY DEF IInv, device, keys, Keys, WrongKey, KeyKept, Saved
  <1> QED
    BY <1>1, <1>2, <1>3, <1>4, <1>5 DEF IInv, Session, Streams, Keys

\* The server answers a heartbeat only if it was asked for one.
LEMMA AnswerStep == ASSUME IInv, Answer PROVE IInv'
  <1> DEFINE p == Head(requests)
  <1>1. /\ p \in Packets /\ (p.about = "hb" => HasHb(requests))
        /\ AllUnder(requests, accesskey) => (p.about = "auth" => p.key = accesskey)
        /\ requests' \in Seq(Packets) /\ Len(requests') <= MaxStream
        /\ HasHb(requests') => HasHb(requests)
        /\ AllUnder(requests, accesskey) => AllUnder(requests', accesskey)
    BY TailType DEF Answer, IInv, TypeOK
  <1>2. /\ answers' \in Seq(Packets) /\ Len(answers') <= MaxStream
        /\ HasHb(answers') => HasHb(answers) \/ p.about = "hb"
        /\ AllUnder(answers, accesskey) /\ (p.about = "auth" => p.key = accesskey)
             => AllUnder(answers', accesskey)
    BY <1>1, AppendType DEF Answer, IInv, TypeOK
  <1>3. UNCHANGED <<pc, device, keys, lan, closed, serving>> /\ upload' = NoUpload
    BY DEF Answer
  <1>4. TypeOK'
    BY <1>1, <1>2, <1>3 DEF TypeOK, IInv, device, keys, NoUpload, SessionKeys
  <1>5. Session'
    BY <1>3 DEF IInv, device, keys, NoUpload, Session, DescriptorOwned, Connected,
                WorksWithItsKey, OfThisConnection, UploadsInSession
  <1>6. pc # "off"
    BY DEF Answer, IInv, Off
  <1>7. Streams'
    BY <1>1, <1>2, <1>3, <1>6
    DEF IInv, device, keys, Streams, HbUnderWay, AuthUnderWay, Off, Read
  <1>8. Keys'
    BY <1>3 DEF IInv, device, keys, Keys, WrongKey, KeyKept, Saved
  <1> QED
    BY <1>4, <1>5, <1>7, <1>8 DEF IInv, Session, Streams, Keys

-----------------------------------------------------------------------------
(* The access key. *)

LEMMA WriteKeyStep == ASSUME IInv, NEW k \in AccessKeys, WriteKey(k) PROVE IInv'
  <1>1. /\ UNCHANGED <<device, flash, net>>
        /\ pc = "select" /\ pc' = "flash" /\ lan' = FALSE /\ upload' = NoUpload
        /\ accesskey' = k /\ rekeyed' = (rekeyed \/ k # accesskey)
        /\ written' = written \cup {k}
    BY DEF WriteKey
  <1>2. TypeOK'
    BY <1>1 DEF TypeOK, IInv, device, net, NoUpload, SessionKeys
  <1>3. Session'
    BY <1>1 DEF IInv, device, NoUpload, Session, DescriptorOwned, Connected,
                WorksWithItsKey, OfThisConnection, UploadsInSession
  <1>4. ~rekeyed' => ~rekeyed /\ accesskey' = accesskey
    BY <1>1 DEF IInv, TypeOK
  <1>5. Streams'
    BY <1>1, <1>4 DEF IInv, device, net, Streams, HbUnderWay, AuthUnderWay, Off, Read
  <1>6. Keys'
    BY <1>1 DEF IInv, device, Keys, WrongKey, KeyKept, Saved
  <1> QED
    BY <1>2, <1>3, <1>5, <1>6 DEF IInv, Session, Streams, Keys

\* Saving, and the acknowledgement
LEMMA SavingStep == ASSUME IInv, SaveKey \/ AckKey PROVE IInv'
  <1>1. /\ UNCHANGED <<device, accesskey, rekeyed, lan, net>> /\ upload' = NoUpload
        /\ pc # "off" /\ pc' \in {"ack", "timer"}
    BY DEF SaveKey, AckKey
  <1>2. /\ flash' \in AccessKeys /\ written' \in SUBSET AccessKeys
        /\ accesskey \in written' /\ flash' \in written' /\ (pc' = "ack" => flash' = accesskey)
    BY DEF SaveKey, AckKey, IInv, TypeOK, KeyKept, Saved
  <1>3. TypeOK'
    BY <1>1, <1>2 DEF TypeOK, IInv, device, net, NoUpload, SessionKeys
  <1>4. Session'
    BY <1>1 DEF IInv, device, NoUpload, Session, DescriptorOwned, Connected,
                WorksWithItsKey, OfThisConnection, UploadsInSession
  <1>5. Streams'
    BY <1>1 DEF IInv, device, net, Streams, HbUnderWay, AuthUnderWay, Off, Read
  <1>6. Keys'
    BY <1>1, <1>2 DEF IInv, device, Keys, WrongKey, KeyKept, Saved
  <1> QED
    BY <1>3, <1>4, <1>5, <1>6 DEF IInv, Session, Streams, Keys

LEMMA PowerStep == ASSUME IInv, PowerOff \/ PowerOn PROVE IInv'
  <1>1. CASE PowerOff
    <2>0. 0 \in 0 .. JL_MAX_SERVER_HB_LOST + 1
      BY BoundAssumption
    <2>1. TypeOK'
      BY <1>1, <2>0, EmptyStream
      DEF PowerOff, TypeOK, IInv, NoUpload, SessionKeys, AccessKeys, INIT
    <2>2. Session'
      BY <1>1 DEF PowerOff, Session, DescriptorOwned, Connected, WorksWithItsKey,
                  UploadsInSession, NoUpload, INIT, WORK
    <2>3. Streams'
      BY <1>1, EmptyStream DEF PowerOff, Streams, HbUnderWay, AuthUnderWay, Off
    <2>4. Keys'
      BY <1>1 DEF PowerOff, IInv, Keys, WrongKey, KeyKept, Saved
    <2> QED
      BY <2>1, <2>2, <2>3, <2>4 DEF IInv, Session, Streams, Keys
  <1>2. CASE PowerOn
    <2>1. /\ UNCHANGED <<device, flash, rekeyed, written, lan, net>>
          /\ pc = "off" /\ pc' = "timer" /\ upload' = NoUpload /\ accesskey' = flash
      BY <1>2 DEF PowerOn
    <2>2. TypeOK'
      BY <2>1 DEF TypeOK, IInv, device, net, NoUpload, SessionKeys
    <2>3. Session'
      BY <2>1 DEF IInv, device, NoUpload, Session, DescriptorOwned, Connected,
                  WorksWithItsKey, OfThisConnection, UploadsInSession
    <2>4. requests' = <<>> /\ answers' = <<>>
      BY <2>1 DEF IInv, Off, net
    <2>5. Streams'
      BY <2>1, <2>4, EmptyStream DEF Streams, HbUnderWay, AuthUnderWay, Off
    <2>6. Keys'
      BY <2>1 DEF IInv, device, Keys, WrongKey, KeyKept, Saved
    <2> QED
      BY <2>2, <2>3, <2>5, <2>6 DEF IInv, Session, Streams, Keys
  <1> QED
    BY <1>1, <1>2

-----------------------------------------------------------------------------
(* The results. *)

LEMMA InitIInv == Init => IInv
  <1> SUFFICES ASSUME Init PROVE IInv
    OBVIOUS
  <1>1. 0 \in 0 .. JL_MAX_SERVER_HB_LOST + 1
    BY BoundAssumption
  <1>2. TypeOK
    BY <1>1, EmptyStream DEF Init, TypeOK, NoUpload, AccessKeys, SessionKeys
  <1>3. Session
    BY DEF Init, Session, DescriptorOwned, Connected, WorksWithItsKey,
           OfThisConnection, UploadsInSession, NoUpload, INIT, WORK
  <1>4. Streams
    BY EmptyStream DEF Init, Streams, HbUnderWay, AuthUnderWay, Off
  <1>5. Keys
    BY DEF Init, Keys, WrongKey, KeyKept, Saved
  <1> QED
    BY <1>2, <1>3, <1>4, <1>5 DEF IInv, Session, Streams, Keys

LEMMA NextIInv == ASSUME IInv, [Next]_vars PROVE IInv'
  <1>1. CASE ProcServerSt
    BY <1>1, StInitStep, StAskStep DEF ProcServerSt
  <1>2. CASE NoStep
    BY <1>2, QuietStep DEF NoStep, IInv, TypeOK, net
  <1>3. CASE ProcLan
    BY <1>3, QuietStep DEF ProcLan, IInv, TypeOK, net
  <1>4. CASE RecvWhole
    BY <1>4, HandleStep DEF RecvWhole, Selected, INIT
  <1>5. CASE RecvPiece
    BY <1>5, QuietStep DEF RecvPiece, Selected, IInv, TypeOK, net, INIT
  <1>6. CASE RecvFails
    BY <1>6, GiveUpStep DEF RecvFails, Selected, IInv, Connected, INIT
  <1>7. CASE SelectIdle
    BY <1>7, QuietStep DEF SelectIdle, IInv, TypeOK, net
  <1>8. CASE RecvRest
    BY <1>8, HandleStep DEF RecvRest, IInv, Connected
  <1>9. CASE RecvLost
    BY <1>9, RecvLostStep
  <1>20. CASE RecvCut
    BY <1>20, HandleStep DEF RecvCut, Selected, IInv, Connected, INIT
  <1>10. CASE RecvTooBig
    BY <1>10, GiveUpStep DEF RecvTooBig, IInv, Connected
  <1>11. CASE LanArrives
    BY <1>11, QuietStep DEF LanArrives, IInv, TypeOK, Connected, net
  <1>12. CASE Answer
    BY <1>12, AnswerStep
  <1>13. CASE ServerCloses
    BY <1>13, QuietStep DEF ServerCloses, IInv, TypeOK, Connected
  <1>14. CASE \E b \in BOOLEAN : Serve(b)
    BY <1>14, QuietStep DEF Serve, IInv, TypeOK, Connected
  <1>15. CASE UNCHANGED vars
    BY <1>15, QuietStep DEF vars, net, IInv, TypeOK, Connected
  <1>16. CASE \E k \in AccessKey \cup {NoKey} : WriteKey(k)
    BY <1>16, WriteKeyStep DEF AccessKeys
  <1>17. CASE SaveKey \/ AckKey
    BY <1>17, SavingStep
  <1>18. CASE PowerOff \/ PowerOn
    BY <1>18, PowerStep
  <1>19. CASE ProcServerCtrl
    BY <1>19, QuietStep DEF ProcServerCtrl, Selected, IInv, TypeOK, net, INIT
  <1> QED
    BY <1>1, <1>2, <1>3, <1>4, <1>5, <1>6, <1>7, <1>8, <1>9, <1>10, <1>11, <1>12,
       <1>13, <1>14, <1>15, <1>16, <1>17, <1>18, <1>19, <1>20 DEF Next

LEMMA AlwaysIInv == Spec => []IInv
  BY InitIInv, NextIInv, PTL DEF Spec

\* Every variable keeps its type, and the unanswered requests pass their limit by
\* at most one.
THEOREM TypeCorrect == Spec => []TypeOK
  <1>1. IInv => TypeOK
    BY DEF IInv
  <1> QED
    BY <1>1, AlwaysIInv, PTL

\* The session has its one descriptor open, or none: the closes of the error paths
\* neither leak one nor close one twice.
THEOREM DescriptorAlwaysOwned == Spec => []DescriptorOwned
  <1>1. IInv => DescriptorOwned
    BY DEF IInv
  <1> QED
    BY <1>1, AlwaysIInv, PTL

\* A session works only with a key read on its own connection: the one given, or what
\* was read under the wrong access key after that was written anew, or what was read
\* from an answer cut short; never with the key of the connection before.
THEOREM AlwaysItsKey == Spec => []WorksWithItsKey
  <1>1. IInv => WorksWithItsKey
    BY DEF IInv
  <1> QED
    BY <1>1, AlwaysIInv, PTL

\* The upload that follows a server's packet goes out on the open connection under
\* a key read on it, with the same exceptions.
THEOREM UploadsAlwaysInSession == Spec => []UploadsInSession
  <1>1. IInv => UploadsInSession
    BY DEF IInv
  <1> QED
    BY <1>1, AlwaysIInv, PTL

\* Through any loss of power the device goes on with the access key acknowledged
\* last, or one written since.
THEOREM KeyAlwaysKept == Spec => []KeyKept
  <1>1. IInv => KeyKept
    BY DEF IInv
  <1> QED
    BY <1>1, AlwaysIInv, PTL
=============================================================================
