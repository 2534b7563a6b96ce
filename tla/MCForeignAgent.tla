--------------------------- MODULE MCForeignAgent ---------------------------
(***************************************************************************)
(* A small instance of the foreign agent.                                  *)
(***************************************************************************)
EXTENDS ForeignAgent

MCFlags == {{}, {"M"}}
=============================================================================
