--------------------------- MODULE MobileIPClaims ---------------------------
(***************************************************************************)
(* What the assignment and the RFC kept in the repository promise of the   *)
(* whole system, when at most MaxLosses packets are lost or held up on a   *)
(* link and all others that find the node arrive.                          *)
(***************************************************************************)
EXTENDS MobileIP

CONSTANT MaxLosses

VARIABLE losses  \* packets lost or held up so far

allVars == <<vars, losses>>

\* The node is not on the link the packet is for.
Stray ==
  \/ Request /\ out[1].dest # up
  \/ Answer /\ down # fa
  \/ HomeAnswer /\ out[1].dst = mn /\ down # ha

\* The steps of MobileIP, with the losses counted that are not the node's.
Work ==
  /\ (\E n \in SeqNr : Advertise(n)) \/ Timers \/ Deliver \/ HomeHearsLate \/ (Stray /\ Lose)
  /\ UNCHANGED losses
Loss == losses < MaxLosses /\ ((~ Stray /\ Lose) \/ HoldUp) /\ losses' = losses + 1
Move == write_switch /\ UNCHANGED losses

\* A packet does not stay in flight; agents advertise and timers run again
\* and again.
Reliable ==
  /\ WF_allVars(Work /\ ~ Quiet)
  /\ \A n \in SeqNr : SF_vars(Advertise(n))
  /\ SF_vars(PendingAges) /\ SF_vars(RegistrationAges) /\ SF_vars(RelayAges)

MoveSpec == Init /\ losses = 0 /\ [][Work \/ Loss \/ Move]_allVars /\ Reliable
StaySpec == (Init /\ Abroad) /\ losses = 0 /\ [][Work \/ Loss]_allVars /\ Reliable

\* opgave(3).pdf p.5, "Registraties vervallen als ze niet worden vernieuwd":
\* a node that is home for good, and renews nothing, is found there in the
\* end.  HA and RegRep have no timer and RegReq::push deregisters only
\* once, and only a node that had heard it was registered.
HomeIsReached == <>[]AtHome => <>[]Reached

\* opgave(3).pdf p.2, "Uiteraard moet een succesvolle registratie een
\* correcte reply teruggeven", and RFC 5944 p.55, UDP Destination Port "Copied
\* from the UDP Source Port of the Registration Request": a node that stays
\* abroad and asks again after what was lost at the start has its requests
\* granted, and hears of it again and again.  Relay::relayRep sends a reply
\* to the port of another request of the node.
Connects == []<>connected
=============================================================================
