--------------------------- MODULE MCChannelAdmin ---------------------------
(***************************************************************************)
(* Instances of ChannelAdmin for TLC: the gateway's endorsing peers, and   *)
(* the lists its callers pass.                                             *)
(***************************************************************************)
EXTENDS ChannelAdmin

CONSTANTS p1, p2

TwoPeers == <<p1, p2>>

\* Calls for all of the gateway's peers, and for the first of them.
BothLists == {<<>>, <<p1>>}
=============================================================================
