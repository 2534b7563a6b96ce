-------------------------- MODULE HomeAgentClaims --------------------------
(***************************************************************************)
(* What the RFC kept in the repository (rfc5944 (annotated).pdf) says of a *)
(* home agent, stated of the program.                                      *)
(***************************************************************************)
EXTENDS MCHomeAgent

\* RFC 5944, p. 62: an accepted request without simultaneous bindings
\* replaces the previous entries of its mobile node, so that datagrams follow
\* it to the new care-of address.  RegRep::push adds an entry behind them and
\* Encapsulator::get_destination_ip answers with the first.
NewestRegistrationWins ==
  [][\A q \in Request :
       RegRep_push(q) /\ check_acceptable(q) = 0 =>
         get_destination_ip(q.home_address)' = q.care_of_address]_vars
=============================================================================
