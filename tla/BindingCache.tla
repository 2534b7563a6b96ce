---------------------------- MODULE BindingCache ----------------------------
(***************************************************************************)
(* What a home agent promises about the datagrams of its mobile nodes,     *)
(* whatever it keeps its bindings in.  Every home address has one route at *)
(* any time: its own link (route[h] = h) or the tunnel to one care-of      *)
(* address.  A registration that is granted leaves a tunnel to the         *)
(* care-of address it names or where one led before (RFC 5944 lets a node  *)
(* keep several bindings), one released leaves none, a refusal leaves      *)
(* everything as it was, and a datagram takes the route of its address.    *)
(* told is what the last step told somebody: the datagram it forwarded or  *)
(* the answer it gave to a request.                                        *)
(***************************************************************************)
CONSTANTS HomeAddress, CareOfAddress, Nothing

VARIABLES route, told

vars == <<route, told>>

Init ==
  /\ route = [h \in HomeAddress |-> h]
  /\ told = Nothing

Register(h, c) ==
  /\ c # h
  /\ \E r \in {c, route[h]} \ {h} : route' = [route EXCEPT ![h] = r]
  /\ told' = [home_address |-> h, care_of_address |-> c, answer |-> "granted"]

Deregister(h) ==
  /\ route' = [route EXCEPT ![h] = h]
  /\ told' = [home_address |-> h, care_of_address |-> h, answer |-> "released"]

Refuse(h, c) ==
  /\ told' = [home_address |-> h, care_of_address |-> c, answer |-> "denied"]
  /\ UNCHANGED route

Forward(h) ==
  /\ told' = [dst |-> h, via |-> route[h]]
  /\ UNCHANGED route

Next ==
  \E h \in HomeAddress :
    \/ \E c \in CareOfAddress : Register(h, c)
    \/ Deregister(h)
    \/ \E c \in CareOfAddress \cup {h} : Refuse(h, c)
    \/ Forward(h)

Spec == Init /\ [][Next]_vars
=============================================================================
