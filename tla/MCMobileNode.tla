---------------------------- MODULE MCMobileNode ----------------------------
(***************************************************************************)
(* Small instances of the mobile node.                                     *)
(***************************************************************************)
EXTENDS MobileNodeClaims
=============================================================================
