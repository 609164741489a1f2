------------------------------- MODULE Policy -------------------------------
(***************************************************************************)
(* An EndorsementPolicy, a tree of roles and sub-policies, is sent to the  *)
(* channel as the bytes of a SignaturePolicyEnvelope: a list of principals *)
(* and a rule that refers to them by their index.  The two are computed    *)
(* apart, each from its own call of all_roles.                             *)
(***************************************************************************)
EXTENDS Naturals, Sequences, FiniteSets, SequencesExt, Protobuf

CONSTANTS
    Roles,     \* the EndorsementPolicyRole objects of the policies
    Key,       \* the order of 'msp.role', a number for each role
    Policies,  \* the EndorsementPolicy objects, each one's sub-policies too
    Depth,     \* how deep the tree of each is
    Satisfied(_, _, _)   \* whether a peer takes a rule, for its envelope's
                         \* identities and for the signers' roles, as satisfied

ASSUME PolicyAssumption ==
    /\ IsFiniteSet(Roles)
    /\ \A r \in Roles : r.role \in {"peer", "member", "admin", "client"}
    /\ \A r \in Roles : r = [msp |-> r.msp, role |-> r.role]
    /\ Key \in [Roles -> Nat]
    /\ \A r \in Roles, s \in Roles : Key[r] = Key[s] => r = s
    /\ \A p \in Policies : p.expr \in {"And", "Or", "OutOf"} /\ p.out_of \in Nat
    /\ \A p \in Policies : p.roles \in Seq(Roles) /\ p.sub_policies \in Seq(Policies)
    /\ Depth \in [Policies -> Nat]
    /\ \A p \in Policies : \A i \in DOMAIN p.sub_policies :
          Depth[p.sub_policies[i]] < Depth[p]

VARIABLES
    policy,   \* endorsement_policy
    status,   \* "new", "built", or "value_error" if building it raises
    sent      \* the bytes of the SignaturePolicyEnvelope, once it is built

vars == <<policy, status, sent>>

-----------------------------------------------------------------------------

\* str.lower, of the ways to write a role.
Lower ==
    [PEER |-> "peer", Peer |-> "peer", peer |-> "peer", MEMBER |-> "member",
     Member |-> "member", member |-> "member", ADMIN |-> "admin",
     Admin |-> "admin", admin |-> "admin", CLIENT |-> "client",
     Client |-> "client", client |-> "client"]

EndorsementPolicyRole(msp, role) == [msp |-> msp, role |-> Lower[role]]

\* MSPRoleType.Value(role.upper()).
RoleValue(role) ==
    LET name == CHOOSE t \in DOMAIN MSPRole_MSPRoleType : Lower[t] = role
    IN  MSPRole_MSPRoleType[name]

\* The roles of a policy and of those below it.
RolesOf(p) ==
    LET all[q \in Policies] ==
            ToSet(q.roles) \cup UNION {all[q.sub_policies[i]] :
                                          i \in DOMAIN q.sub_policies}
    IN  all[p]

\* EndorsementPolicy.all_roles: every role once, sorted.
AllRoles(p) ==
    LET roles == RolesOf(p)
        Before(r) == {s \in roles : Key[s] < Key[r]}
    IN  [i \in 1..Cardinality(roles) |->
            CHOOSE r \in roles : Cardinality(Before(r)) = i - 1]

\* EndorsementPolicy.role_map: where each role is in all_roles.
RoleMap(p) ==
    LET roles == AllRoles(p)
    IN  [r \in ToSet(roles) |-> (CHOOSE i \in DOMAIN roles : roles[i] = r) - 1]

\* OutOf without out_of (None, or 0) is an error, wherever in the tree it is.
Raises(p) ==
    LET raises[q \in Policies] ==
            \/ q.expr = "OutOf" /\ q.out_of = 0
            \/ \E i \in DOMAIN q.sub_policies : raises[q.sub_policies[i]]
    IN  raises[p]

NOutOf(p) ==
    CASE p.expr = "And"   -> Len(p.roles) + Len(p.sub_policies)
      [] p.expr = "Or"    -> 1
      [] p.expr = "OutOf" -> p.out_of

\* A rule: n of the principals' signatures and of the sub-policies.
NOutOfRule(n, signedBy, rules) ==
    New("SignaturePolicy",
        [n_out_of |-> New("SignaturePolicy_NOutOf",
            [n |-> n,
             rules |-> [i \in DOMAIN signedBy |->
                           New("SignaturePolicy", [signed_by |-> signedBy[i]])]
                       \o rules])])

\* Mutant: a sub-policy is built with its own role_map.
BuildWithOwnMap(p, rmap) ==
    LET rule[q \in Policies] ==
            NOutOfRule(NOutOf(q), [i \in DOMAIN q.roles |-> RoleMap(q)[q.roles[i]]],
                       [i \in DOMAIN q.sub_policies |-> rule[q.sub_policies[i]]])
    IN  rule[p]

\* build_endorsement_policy: the rules of the roles, then the sub-policies, all
\* with the role_map of the whole policy.
BuildEndorsementPolicy(p, rmap) ==
    LET rule[q \in Policies] ==
            NOutOfRule(NOutOf(q), [i \in DOMAIN q.roles |-> rmap[q.roles[i]]],
                       [i \in DOMAIN q.sub_policies |-> rule[q.sub_policies[i]]])
    IN  rule[p]

\* The principal of a role.
Principal(r) ==
    New("MSPPrincipal",
        [principal_classification |-> MSPPrincipal_Classification.ROLE,
         principal |-> SerializeToString("MSPRole",
             New("MSPRole", [role |-> RoleValue(r.role),
                             msp_identifier |-> Text(r.msp)]))])

\* The envelope: the rule, and the principals its indices refer to.
BuildSignaturePolicyEnvelope(p) ==
    New("SignaturePolicyEnvelope",
        [version |-> 0, rule |-> BuildEndorsementPolicy(p, RoleMap(p)),
         identities |-> [i \in DOMAIN AllRoles(p) |-> Principal(AllRoles(p)[i])]])

\* generate_instantiate_cc_tx, the policy of it.
Build ==
    /\ status = "new" /\ ~Raises(policy)
    /\ status' = "built"
    /\ sent' = SerializeToString("SignaturePolicyEnvelope",
                                 BuildSignaturePolicyEnvelope(policy))
    /\ UNCHANGED policy

RaiseValueError ==
    /\ status = "new" /\ Raises(policy)
    /\ status' = "value_error"
    /\ UNCHANGED <<policy, sent>>

Init == policy \in Policies /\ status = "new" /\ sent = <<>>

Next == Build \/ RaiseValueError

Spec == Init /\ [][Next]_vars

-----------------------------------------------------------------------------

\* How a peer evaluates a rule (external): the principal's role is a signer's,
\* or of the rules below it n are satisfied.
SubRules(rule) == Sub("SignaturePolicy", rule, "n_out_of").rules

Evaluation(rule, identities, signers, satisfied) ==
    LET principal == identities[rule.signed_by + 1]
        role == FromString("MSPRole", principal.principal)
    IN  IF Has(rule, "signed_by")
        THEN /\ principal.principal_classification = MSPPrincipal_Classification.ROLE
             /\ \E r \in signers : /\ role.msp_identifier = Text(r.msp)
                                   /\ role.role = RoleValue(r.role)
        ELSE Cardinality(satisfied) >= Sub("SignaturePolicy", rule, "n_out_of").n

\* That a peer evaluates rules so, for whoever reasons about its answer.
Evaluates ==
    \A rule, identities, signers :
        IsMessage("SignaturePolicy", rule) =>
            (Satisfied(rule, identities, signers) <=>
                Evaluation(rule, identities, signers,
                           {i \in DOMAIN SubRules(rule) :
                               Satisfied(SubRules(rule)[i], identities, signers)}))

\* What the caller meant: all of, one of, or out_of of the roles and the
\* sub-policies.
Meets(p, signers) ==
    LET meets[q \in Policies] ==
            LET met == {i \in DOMAIN q.roles : q.roles[i] \in signers}
                sub == {i \in DOMAIN q.sub_policies : meets[q.sub_policies[i]]}
            IN  CASE q.expr = "And"   -> /\ met = DOMAIN q.roles
                                         /\ sub = DOMAIN q.sub_policies
                  [] q.expr = "Or"    -> met # {} \/ sub # {}
                  [] q.expr = "OutOf" ->
                        Cardinality(met) + Cardinality(sub) >= q.out_of
    IN  meets[p]

\* What a peer reads asks for the signatures the policy asks for, whichever
\* roles sign: every index of the rule, however deep in the tree, refers to the
\* principal of the role it was computed for, the index 0 and the role MEMBER,
\* which are zeros, too (build_endorsement_policy with all_roles and role_map).
EnvelopeMeansPolicy ==
    status = "built" =>
        LET envelope == FromString("SignaturePolicyEnvelope", sent)
            rule == Sub("SignaturePolicyEnvelope", envelope, "rule")
        IN  /\ WellFormed("SignaturePolicyEnvelope", sent)
            /\ \A signers \in SUBSET Roles :
                  Satisfied(rule, envelope.identities, signers)
                     <=> Meets(policy, signers)
=============================================================================
