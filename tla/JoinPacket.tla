----------------------------- MODULE JoinPacket -----------------------------
(***************************************************************************)
(* The table in which the parts of a long message of the local network are *)
(* collected (joylink_join_packet.c), with its only user, the branch of    *)
(* joylink_proc_lan for packets of more than one part.                     *)
(*                                                                         *)
(* A message is known by its sender's address and a number. The table      *)
(* keeps, per message, the head of the part that came first and the list   *)
(* of the parts, each with its index. The data of a part is left out, and  *)
(* with it total_len, which counts the bytes listed. Parts may be lost,    *)
(* repeated and come in any order.                                         *)
(***************************************************************************)
EXTENDS Integers, Sequences

CONSTANTS Name,                    \* addresses of senders
          Id,                      \* numbers of messages
          JL_MAX_JOIN_PKG_ARRARY,  \* 20 in the source
          MaxTotal,                \* 255, an unsigned char
          MaxParts                 \* bound: parts listed for one message

\* What the results about every table suppose of the constants
JoinAssumption ==
  /\ JL_MAX_JOIN_PKG_ARRARY \in Nat \ {0}
  /\ MaxTotal \in Nat \ {0, 1} /\ MaxParts \in Nat \ {0}

VARIABLES jps,   \* _g_jps
          ret,   \* what joylink_join_pkg_add_data returned last
          text   \* recPainText: the message put together, or NULL

vars == <<jps, ret, text>>

E_RET_OK == 0
E_RET_ERROR == -1
E_RET_ERROR_PKG_BREAK_ARRAY == -1003
E_RET_ALL_DATA_HIT == 1001
NULL == <<>>

Index == 0 .. JL_MAX_JOIN_PKG_ARRARY - 1

\* The heads joylink_proc_lan passes on. Nothing tests the index, so a part may
\* have one that the message has no place for: it is listed, and never looked for.
Head1 == [total : 2 .. MaxTotal, index : 0 .. MaxTotal]

Init ==
  /\ jps = [i \in Index |-> [is_run |-> FALSE]]
  /\ ret = E_RET_OK /\ text = NULL

-----------------------------------------------------------------------------
First(S) == CHOOSE i \in S : \A j \in S : i <= j

\* joylink_join_pkg_get_index_by_name_id and joylink_join_pkg_get_idle_index.
Found(name, id) == {i \in Index : jps[i].is_run /\ jps[i].name = name /\ jps[i].id = id}
Idle == {i \in Index : ~jps[i].is_run}

\* current_count comes from the zeroed table.
CacheNewNode(name, id, h) ==
  jps' = [jps EXCEPT ![First(Idle)] =
            [is_run |-> TRUE, name |-> name, id |-> id, total |-> h.total,
             current_count |-> 0, parts |-> <<h.index>>]]

AddNode(i, h) ==
  /\ Len(jps[i].parts) < MaxParts
  /\ jps' = [jps EXCEPT ![i].parts = Append(@, h.index)]

\* The count of the parts is compared with the total of the first part's head.
Returns(i) ==
  ret' = IF jps'[i].current_count = jps'[i].total THEN E_RET_ALL_DATA_HIT ELSE E_RET_OK

AddData(name, id, h) ==
  \/ /\ Found(name, id) # {}
     /\ AddNode(First(Found(name, id)), h) /\ Returns(First(Found(name, id)))
  \/ /\ Found(name, id) = {} /\ Idle # {}
     /\ CacheNewNode(name, id, h) /\ Returns(First(Idle))
  \/ /\ Found(name, id) = {} /\ Idle = {}
     /\ ret' = E_RET_ERROR_PKG_BREAK_ARRAY /\ UNCHANGED jps
  \/ \* no memory for the part
     /\ Found(name, id) # {} \/ Idle # {}
     /\ ret' = E_RET_ERROR /\ UNCHANGED jps

Parts(i) == {jps[i].parts[k] : k \in 1 .. Len(jps[i].parts)}
Whole(i) == 1 .. jps[i].total \subseteq Parts(i)

\* joylink_join_pkg_join_data, of the entry just added to.
JoinData(name, id) ==
  IF Whole(First(Found(name, id)))
  THEN [k \in 1 .. jps[First(Found(name, id))].total |-> k]
  ELSE NULL

ProcLan(name, id, h) ==
  /\ AddData(name, id, h)
  /\ text' = IF ret' = E_RET_ALL_DATA_HIT THEN JoinData(name, id)' ELSE NULL

Next == \E name \in Name, id \in Id, h \in Head1 : ProcLan(name, id, h)
Spec == Init /\ [][Next]_vars

-----------------------------------------------------------------------------
(* Properties. *)

\* joylink_join_pkg_add_data returns E_RET_ALL_DATA_HIT when it has added the part
\* that makes a message whole, so that the caller puts it together: no message
\* that is whole is left waiting.
AllDataHit == [][ret' = E_RET_OK => \A i \in Index : jps'[i] # jps[i] => ~Whole(i)']_vars

\* No message is put together, ever: nothing sent in more than one part gets past
\* the table.
NothingJoined == ret # E_RET_ALL_DATA_HIT /\ text = NULL

\* The table never gives an entry back, nor takes it for another message.
Kept(i) == jps[i].is_run => jps'[i].is_run /\ jps'[i].name = jps[i].name /\ jps'[i].id = jps[i].id
NothingReleased == [][\A i \in Index : Kept(i)]_vars

\* Once the table is full, no message that is not in it gets in any more.
Full == Idle = {}
FullForEver ==
  [][\A name \in Name, id \in Id :
       Full /\ Found(name, id) = {} => (Full /\ Found(name, id) = {})']_vars
=============================================================================
