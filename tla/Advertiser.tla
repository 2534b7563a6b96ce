----------------------------- MODULE Advertiser -----------------------------
(***************************************************************************)
(* How an agent makes itself known: the element Advertisement and the      *)
(* element CheckSolicitation before it (library/fa.click and ha.click).    *)
(* A timer broadcasts an advertisement about once a second, an acceptable  *)
(* solicitation is answered with one of its own, and all of them are       *)
(* numbered in one sequence that starts again when the process does.       *)
(***************************************************************************)
EXTENDS ByteOrder

CONSTANTS
  Host,       \* the source addresses of solicitations
  Nobody,     \* 0.0.0.0
  Everybody,  \* the broadcast address
  NoPacket    \* no packet

VARIABLES
  sequenceNr,  \* Advertisement::_sequenceNr
  sent         \* what the last step pushed

advertiserVars == <<sequenceNr, sent>>

\* A packet from the private network, as far as CheckSolicitation reads it.
\* A solicitation is long when it has the eight bytes of RFC 1256; those of
\* the element Solicitation have six.
Frame ==
  [solicitation : BOOLEAN, src : Host \cup {Nobody}, intact : BOOLEAN,
   code : {0, 1}, long : BOOLEAN]

AdvertiserInit == sequenceNr = 0 /\ sent = NoPacket

\* Variants that do not roll over, and that roll over to zero.
next_sequence_nr_unbounded(n) == n + 1
next_sequence_nr_zero(n) == Minus(n, Byte * Byte - 1)

next_sequence_nr(n) == IF n < Byte * Byte - 1 THEN n + 1 ELSE Byte

\* Advertisement::sendPacket.
sendPacket(destinationIP) ==
  /\ sent' = [dst |-> destinationIP, seq_nr |-> sequenceNr]
  /\ sequenceNr' = next_sequence_nr(sequenceNr)

\* Advertisement::run_timer.
run_timer == sendPacket(Everybody)

\* Advertisement::push.
push(p) == sendPacket(p.src)

\* CheckSolicitation::push: other packets go on to the router.
CheckSolicitation_push(p) ==
  \/ /\ p.solicitation
     /\ p.src # Nobody /\ p.intact /\ p.code = 0 /\ ~ p.long
     /\ push(p)
  \/ /\ p.solicitation
     /\ p.src = Nobody \/ ~ p.intact \/ p.code # 0 \/ p.long
     /\ sent' = NoPacket
     /\ UNCHANGED sequenceNr
  \/ /\ ~ p.solicitation
     /\ sent' = p
     /\ UNCHANGED sequenceNr

\* The agent's process is started anew.
Restart == sequenceNr' = 0 /\ sent' = NoPacket
=============================================================================
