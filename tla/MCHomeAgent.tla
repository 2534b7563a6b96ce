---------------------------- MODULE MCHomeAgent ----------------------------
(* Two mobile nodes, two foreign agents: every order of registrations,     *)
(* renewals, moves and deregistrations, with the flag bits RegRep looks at. *)
EXTENDS HomeAgent

CONSTANTS h1, h2, c1, c2, ha

MCHomeAddress == {h1, h2}
MCCareOfAddress == {c1, c2}
MCSender == {c1}
MCAgent == {ha, Broadcast}
MCFlags == {{}, {"S"}, {"D"}, {"x"}}
=============================================================================
