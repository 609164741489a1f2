---------------------------- MODULE TxLifecycle ----------------------------
(***************************************************************************)
(* What a caller may count on about one transaction: a result is offered   *)
(* to the channel before the channel decides, the channel decides once,    *)
(* for a result that was offered, and the client reports the transaction   *)
(* as valid only if the channel made it so, and as anything only once the  *)
(* channel has decided.                                                    *)
(***************************************************************************)
CONSTANTS Payload, NoPayload

VARIABLES offered, fate, report

vars == <<offered, fate, report>>

Undecided == [state |-> "undecided", payload |-> NoPayload]

Init ==
    /\ offered = {}
    /\ fate = Undecided
    /\ report = "none"

Offer ==
    /\ \E p \in Payload \cup {NoPayload} : offered' = offered \cup {p}
    /\ UNCHANGED <<fate, report>>

\* Only a result that a peer signed can take effect.
Decide ==
    /\ fate = Undecided
    /\ \E p \in offered :
          \/ fate' = [state |-> "invalid", payload |-> p]
          \/ p \in Payload /\ fate' = [state |-> "valid", payload |-> p]
    /\ UNCHANGED <<offered, report>>

\* The client may learn of a duplicate of a transaction that took effect.
\* The step that tells it may offer the transaction once more.
Report ==
    /\ fate # Undecided
    /\ \/ report' = "INVALID"
       \/ report' = "VALID" /\ fate.state = "valid"
    /\ offered' \in {offered} \cup {offered \cup {p} : p \in Payload \cup {NoPayload}}
    /\ UNCHANGED fate

Next == Offer \/ Decide \/ Report

Spec == Init /\ [][Next]_vars
=============================================================================
