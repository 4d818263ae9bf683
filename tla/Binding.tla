------------------------------- MODULE Binding -------------------------------
(***************************************************************************)
(* What registration with a gateway promises: the module belongs to one    *)
(* binding at a time; a binding begins only for the request being served,  *)
(* when it asks for that very binding and there is none; and it ends only  *)
(* for a request to delete it, or with the module itself.                  *)
(***************************************************************************)
CONSTANTS NetId,   \* the bindings a gateway may ask for, by their net ids
          Delete,  \* the request to delete
          Nobody   \* no binding, no request

VARIABLES owner,   \* the binding in force, or Nobody
          pending  \* the request being served: a binding, Delete or Nobody

bvars == <<owner, pending>>

Init == owner = Nobody /\ pending = Nobody

Ask(r) == pending = Nobody /\ pending' = r /\ UNCHANGED owner

\* The request is over, with or without effect.
Finish == pending' = Nobody /\ UNCHANGED owner

Grant ==
  /\ pending \in NetId /\ owner = Nobody
  /\ owner' = pending /\ UNCHANGED pending

Release ==
  /\ pending = Delete
  /\ owner' = Nobody /\ UNCHANGED pending

PowerUp == owner' = Nobody /\ pending' = Nobody

Next == (\E r \in NetId \cup {Delete} : Ask(r)) \/ Finish \/ Grant \/ Release \/ PowerUp

Spec == Init /\ [][Next]_bvars
=============================================================================
