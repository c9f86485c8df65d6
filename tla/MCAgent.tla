------------------------------ MODULE MCAgent ------------------------------
(* Agent for TLC: one event has a string that is not UTF-8. *)
EXTENDS Agent

ThirdIsBroken == {<<Me, 3>>}
=============================================================================
