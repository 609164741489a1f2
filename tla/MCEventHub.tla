----------------------------- MODULE MCEventHub -----------------------------
(***************************************************************************)
(* Instances of EventHub for TLC: every start and stop there is.           *)
(***************************************************************************)
EXTENDS EventHub

MCIndefinite == MaxBlocks + 1
MCStarts == 0..(MaxBlocks - 1) \cup {None}
MCStops == 0..(MaxBlocks - 1) \cup {None, MCIndefinite}
=============================================================================
