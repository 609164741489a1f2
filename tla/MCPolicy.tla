------------------------------ MODULE MCPolicy ------------------------------
(***************************************************************************)
(* Small endorsement policies for TLC: three roles, up to two sub-policies *)
(* side by side and up to three levels.                                    *)
(***************************************************************************)
EXTENDS Policy, Wire

MCRoles == {EndorsementPolicyRole("m1", "MEMBER"), EndorsementPolicyRole("m1", "Admin"),
            EndorsementPolicyRole("m2", "peer")}

\* m1.admin, m1.member, m2.peer.
MCKey == [r \in MCRoles |-> CASE r.role = "admin"  -> 1
                              [] r.role = "member" -> 2
                              [] r.role = "peer"   -> 3]

\* The nodes with n or fewer roles of their own, over the sub-policies subs.
Node(n, outs, subs) ==
    LET roles == UNION {[1..k -> MCRoles] : k \in 0..n}
    IN  [expr : {"And", "Or"}, out_of : {0}, roles : roles, sub_policies : subs]
        \cup
        [expr : {"OutOf"}, out_of : outs, roles : roles, sub_policies : subs]

Leaf == Node(2, 0..2, {<<>>})

Middle == Node(1, 1..2, {<<p>> : p \in Leaf})

MCPolicies ==
    Leaf \cup Middle
    \cup Node(1, 1..2, {<<p, q>> : p \in Leaf, q \in Node(1, {1}, {<<>>})})
    \cup Node(1, {1}, {<<m>> : m \in Middle})

RECURSIVE Height(_)
Height(p) ==
    IF p.sub_policies = <<>> THEN 0
    ELSE 1 + Max({Height(p.sub_policies[i]) : i \in DOMAIN p.sub_policies})

MCDepth == [p \in MCPolicies |-> Height(p)]

RECURSIVE PeerSatisfied(_, _, _)
PeerSatisfied(rule, identities, signers) ==
    Evaluation(rule, identities, signers,
               {i \in DOMAIN SubRules(rule) :
                   PeerSatisfied(SubRules(rule)[i], identities, signers)})
=============================================================================
