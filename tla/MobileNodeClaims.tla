-------------------------- MODULE MobileNodeClaims --------------------------
(***************************************************************************)
(* What the RFC kept in the repository (rfc5944 (annotated).pdf) says of a *)
(* mobile node, stated of the program.                                     *)
(***************************************************************************)
EXTENDS MobileNode

\* RFC 5944, p. 28: a node that hears no more of an agent within the lifetime
\* of its advertisement assumes that it has lost contact, so that one that
\* hears nothing any more ends up knowing no agent.  The handler of the
\* expired timer (ProcessAdvertisements::run_timer) returns before it
\* forgets the advertisement.
LostAgentsAreForgotten ==
  <>[][\A ad \in Advertisement : ~ ProcessAdvertisements_push(ad)]_vars => <>[](Known = {})
=============================================================================
