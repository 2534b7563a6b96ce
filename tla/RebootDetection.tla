-------------------------- MODULE RebootDetection --------------------------
(***************************************************************************)
(* An agent that may restart, its broadcast advertisements over a link     *)
(* that may lose them, and a registered mobile node that compares the      *)
(* number of each advertisement it hears with the one it has stored, to    *)
(* tell a restart from a rollover (ProcessAdvertisements::push).           *)
(***************************************************************************)
EXTENDS Advertiser

CONSTANT Unheard   \* the node has stored no advertisement

ASSUME RebootDetectionAssumption ==
  Unheard \notin Word /\ Everybody \notin Host \cup {Nobody}

VARIABLES
  heard,      \* the number of the stored advertisement
  restarted,  \* the agent has restarted since it sent that one
  again       \* the last step made the node register again

rebootVars == <<sequenceNr, sent, heard, restarted, again>>

RebootInit ==
  /\ AdvertiserInit
  /\ heard = Unheard /\ restarted = FALSE /\ again = FALSE

\* A variant that takes an equal number for a new one.
reboot_strict(seq_nr, stored) ==
  LET lsn == IF stored = Unheard THEN Byte * Byte - 1 ELSE htons(stored)
  IN  htons(seq_nr) < lsn /\ htons(seq_nr) < Byte

\* The test of a connected node, on the numbers as they are on the wire.
reboot(seq_nr, stored) ==
  LET lsn == IF stored = Unheard THEN Byte * Byte - 1 ELSE htons(stored)
  IN  htons(seq_nr) <= lsn /\ htons(seq_nr) < Byte

\* The broadcast advertisement of this step reaches the node.
Hear ==
  /\ heard' = sequenceNr
  /\ restarted' = FALSE
  /\ again' = reboot(sequenceNr, heard)

Miss == again' = FALSE /\ UNCHANGED <<heard, restarted>>

Broadcasts == run_timer /\ (Hear \/ Miss)

RebootNext ==
  \/ Broadcasts
  \/ \E p \in Frame : CheckSolicitation_push(p) /\ Miss
  \/ Restart /\ restarted' = TRUE /\ again' = FALSE /\ UNCHANGED heard

RebootSpec == RebootInit /\ [][RebootNext]_rebootVars

\* The timer broadcasts for ever (Advertisement::run_timer reschedules itself),
\* and a link that loses one broadcast or another does not lose every one that
\* carries the first number, or every one that carries the number 256.
HearsNumber(n) == sequenceNr = n /\ run_timer /\ Hear

RebootFairSpec ==
  /\ RebootSpec
  /\ WF_rebootVars(Broadcasts)
  /\ SF_rebootVars(HearsNumber(0)) /\ SF_rebootVars(HearsNumber(Byte))

-----------------------------------------------------------------------------
\* Numbers keep to sixteen bits through rollovers and restarts.
RebootTypeOK ==
  /\ sequenceNr \in Word
  /\ sent \in [dst : Host \cup {Everybody}, seq_nr : Word] \cup Frame \cup {NoPacket}
  /\ heard \in Word \cup {Unheard}
  /\ restarted \in BOOLEAN /\ again \in BOOLEAN

\* A number below the stored one and below 256 comes from a restarted agent
\* only, however many advertisements in between were lost or were answers to
\* solicitations (Advertisement::sendPacket rolls over to 256).
ReductionMeansRestart ==
  [][heard # Unheard /\ heard' # heard /\ heard' < heard /\ heard' < Byte
       => restarted]_rebootVars

\* A node whose agent has restarted and lost its registration registers again
\* in the end.  ProcessAdvertisements::push may hear the restarted agent and
\* take it for the old one, because it compares numbers in the byte order of
\* the wire, in which only multiples of 256 are below 256; but the agent's
\* numbers come by 256 again and again.
RestartsAreNoticed == restarted ~> again
=============================================================================
