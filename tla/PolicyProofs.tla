---------------------------- MODULE PolicyProofs ----------------------------
(***************************************************************************)
(* Proof that the envelope of a policy means the policy, for policies of   *)
(* any depth and any roles.                                                *)
(***************************************************************************)
EXTENDS Policy, FiniteSetTheorems, TLAPS

PolicyRank(p) == Depth[p]

PoliciesBelow(p) == {p.sub_policies[i] : i \in DOMAIN p.sub_policies}

\* The right-hand sides of the recursive definitions.
RolesValue(x, f, p) ==
    ToSet(p.roles) \cup UNION {f[p.sub_policies[i]] : i \in DOMAIN p.sub_policies}

RuleValue(rmap, f, p) ==
    NOutOfRule(NOutOf(p), [i \in DOMAIN p.roles |-> rmap[p.roles[i]]],
               [i \in DOMAIN p.sub_policies |-> f[p.sub_policies[i]]])

MeetsValue(signers, f, p) ==
    LET met == {i \in DOMAIN p.roles : p.roles[i] \in signers}
        sub == {i \in DOMAIN p.sub_policies : f[p.sub_policies[i]]}
    IN  CASE p.expr = "And"   -> met = DOMAIN p.roles /\ sub = DOMAIN p.sub_policies
          [] p.expr = "Or"    -> met # {} \/ sub # {}
          [] p.expr = "OutOf" -> Cardinality(met) + Cardinality(sub) >= p.out_of

RolesTree == INSTANCE Recursion
    WITH Trees <- Policies, Rank <- PolicyRank, Below <- PoliciesBelow,
         Value <- RolesValue

RuleTree == INSTANCE Recursion
    WITH Trees <- Policies, Rank <- PolicyRank, Below <- PoliciesBelow,
         Value <- RuleValue

MeetsTree == INSTANCE Recursion
    WITH Trees <- Policies, Rank <- PolicyRank, Below <- PoliciesBelow,
         Value <- MeetsValue

-----------------------------------------------------------------------------

\* Sub-policies are policies, of a smaller depth.
LEMMA Subs ==
  ASSUME NEW p \in Policies
  PROVE  /\ p.sub_policies \in Seq(Policies)
         /\ \A i \in DOMAIN p.sub_policies :
               /\ p.sub_policies[i] \in Policies
               /\ p.sub_policies[i] \in PoliciesBelow(p)
         /\ PolicyRank(p) \in Nat
         /\ PoliciesBelow(p) \subseteq Policies
         /\ \A q \in PoliciesBelow(p) : PolicyRank(q) < PolicyRank(p)
  BY PolicyAssumption DEF PoliciesBelow, PolicyRank

LEMMA Trees ==
  RolesTree!Ranked /\ RuleTree!Ranked /\ MeetsTree!Ranked
  BY Subs DEF RolesTree!Ranked, RuleTree!Ranked, MeetsTree!Ranked

LEMMA RolesLocal == RolesTree!Local
<1> SUFFICES ASSUME NEW x, NEW f, NEW g, NEW p \in Policies,
                    \A q \in PoliciesBelow(p) : f[q] = g[q]
             PROVE  RolesValue(x, f, p) = RolesValue(x, g, p)
  BY DEF RolesTree!Local
<1>1. \A i \in DOMAIN p.sub_policies : f[p.sub_policies[i]] = g[p.sub_policies[i]]
  BY Subs
<1> QED
  BY <1>1 DEF RolesValue

LEMMA RuleLocal == RuleTree!Local
<1> SUFFICES ASSUME NEW x, NEW f, NEW g, NEW p \in Policies,
                    \A q \in PoliciesBelow(p) : f[q] = g[q]
             PROVE  RuleValue(x, f, p) = RuleValue(x, g, p)
  BY DEF RuleTree!Local
<1>1. [i \in DOMAIN p.sub_policies |-> f[p.sub_policies[i]]]
        = [i \in DOMAIN p.sub_policies |-> g[p.sub_policies[i]]]
  BY Subs
<1> QED
  BY <1>1, Zenon DEF RuleValue

LEMMA MeetsLocal == MeetsTree!Local
<1> SUFFICES ASSUME NEW x, NEW f, NEW g, NEW p \in Policies,
                    \A q \in PoliciesBelow(p) : f[q] = g[q]
             PROVE  MeetsValue(x, f, p) = MeetsValue(x, g, p)
  BY DEF MeetsTree!Local
<1>1. {i \in DOMAIN p.sub_policies : f[p.sub_policies[i]]}
        = {i \in DOMAIN p.sub_policies : g[p.sub_policies[i]]}
  BY Subs
<1> QED
  BY <1>1, Zenon DEF MeetsValue

\* The equations of the recursive definitions.
LEMMA RolesEquation ==
  ASSUME NEW p \in Policies
  PROVE  RolesOf(p) = ToSet(p.roles) \cup UNION {RolesOf(p.sub_policies[i]) :
                                                  i \in DOMAIN p.sub_policies}
<1> DEFINE all == CHOOSE f : f = [q \in Policies |-> RolesValue(0, f, q)]
<1>1. all = [q \in Policies |-> RolesValue(0, all, q)]
  <2>1. \E f : RolesTree!Solves(0, f, Policies)
    BY Trees, RolesLocal, RolesTree!Existence
  <2>2. \E f : f = [q \in Policies |-> RolesValue(0, f, q)]
    BY <2>1, Zenon DEF RolesTree!Solves
  <2> QED
    BY <2>2
<1>2. \A q : RolesOf(q) = all[q]
  BY DEF RolesOf, RolesValue
<1> HIDE DEF all
<1>3. all[p] = RolesValue(0, all, p)
  BY <1>1, Zenon
<1>4. RolesOf(p) = RolesValue(0, all, p)
  BY <1>2, <1>3, Zenon
<1> QED
  BY <1>2, <1>4, Zenon DEF RolesValue

LEMMA RuleEquation ==
  ASSUME NEW p \in Policies, NEW rmap
  PROVE  BuildEndorsementPolicy(p, rmap) =
           NOutOfRule(NOutOf(p), [i \in DOMAIN p.roles |-> rmap[p.roles[i]]],
               [i \in DOMAIN p.sub_policies |->
                   BuildEndorsementPolicy(p.sub_policies[i], rmap)])
<1> DEFINE rule == CHOOSE f : f = [q \in Policies |-> RuleValue(rmap, f, q)]
<1>1. rule = [q \in Policies |-> RuleValue(rmap, rule, q)]
  <2>1. \E f : RuleTree!Solves(rmap, f, Policies)
    BY Trees, RuleLocal, RuleTree!Existence
  <2>2. \E f : f = [q \in Policies |-> RuleValue(rmap, f, q)]
    BY <2>1, Zenon DEF RuleTree!Solves
  <2> QED
    BY <2>2
<1>2. \A q : BuildEndorsementPolicy(q, rmap) = rule[q]
  BY DEF BuildEndorsementPolicy, RuleValue
<1> HIDE DEF rule
<1>3. rule[p] = RuleValue(rmap, rule, p)
  BY <1>1, Zenon
<1>4. BuildEndorsementPolicy(p, rmap) = RuleValue(rmap, rule, p)
  BY <1>2, <1>3, Zenon
<1> QED
  BY <1>2, <1>4, Zenon DEF RuleValue

MetRoles(p, signers) == {i \in DOMAIN p.roles : p.roles[i] \in signers}

MetSubs(p, signers) == {i \in DOMAIN p.sub_policies : Meets(p.sub_policies[i], signers)}

LEMMA MeetsEquation ==
  ASSUME NEW p \in Policies, NEW signers
  PROVE  Meets(p, signers) =
           CASE p.expr = "And"   -> /\ MetRoles(p, signers) = DOMAIN p.roles
                                    /\ MetSubs(p, signers) = DOMAIN p.sub_policies
             [] p.expr = "Or"    -> MetRoles(p, signers) # {} \/ MetSubs(p, signers) # {}
             [] p.expr = "OutOf" -> Cardinality(MetRoles(p, signers))
                                      + Cardinality(MetSubs(p, signers)) >= p.out_of
<1> DEFINE meets == CHOOSE f : f = [q \in Policies |-> MeetsValue(signers, f, q)]
<1>1. meets = [q \in Policies |-> MeetsValue(signers, meets, q)]
  <2>1. \E f : MeetsTree!Solves(signers, f, Policies)
    BY Trees, MeetsLocal, MeetsTree!Existence
  <2>2. \E f : f = [q \in Policies |-> MeetsValue(signers, f, q)]
    BY <2>1, Zenon DEF MeetsTree!Solves
  <2> QED
    BY <2>2
<1>2. \A q : Meets(q, signers) = meets[q]
  BY DEF Meets, MeetsValue
<1> HIDE DEF meets
<1>3. meets[p] = MeetsValue(signers, meets, p)
  BY <1>1, Zenon
<1>4. Meets(p, signers) = MeetsValue(signers, meets, p)
  BY <1>2, <1>3, Zenon
<1> QED
  BY <1>2, <1>4, Zenon DEF MeetsValue, MetRoles, MetSubs

-----------------------------------------------------------------------------

\* The roles of a policy are roles, those of what is below it among them.
LEMMA RolesAreRoles ==
  ASSUME NEW p \in Policies
  PROVE  RolesOf(p) \subseteq Roles
<1> DEFINE T == {q \in Policies : RolesOf(q) \subseteq Roles}
<1>1. ASSUME NEW q \in Policies, \A r \in PoliciesBelow(q) : r \in T
      PROVE  q \in T
  <2>1. \A i \in DOMAIN q.sub_policies : RolesOf(q.sub_policies[i]) \subseteq Roles
    BY <1>1, Subs
  <2>2. ToSet(q.roles) \subseteq Roles
    BY PolicyAssumption DEF ToSet
  <2> QED
    BY <2>1, <2>2, RolesEquation
<1> HIDE DEF T
<1>2. Policies \subseteq T
  BY <1>1, Trees, RolesTree!Induction
<1> QED
  BY <1>2 DEF T

LEMMA RolesBelow ==
  ASSUME NEW p \in Policies
  PROVE  /\ \A i \in DOMAIN p.roles : p.roles[i] \in RolesOf(p)
         /\ \A i \in DOMAIN p.sub_policies :
               RolesOf(p.sub_policies[i]) \subseteq RolesOf(p)
<1>1. \A i \in DOMAIN p.roles : p.roles[i] \in ToSet(p.roles)
  BY DEF ToSet
<1> QED
  BY <1>1, RolesEquation

\* How many roles of a policy come before a role.
Place(p, r) == Cardinality({s \in RolesOf(p) : Key[s] < Key[r]})

\* The places are the numbers below the number of roles, each one role's.
LEMMA Places ==
  ASSUME NEW p \in Policies
  PROVE  /\ Cardinality(RolesOf(p)) \in Nat
         /\ \A r \in RolesOf(p) : Place(p, r) \in 0..(Cardinality(RolesOf(p)) - 1)
         /\ \A r, s \in RolesOf(p) : Place(p, r) = Place(p, s) => r = s
         /\ \A i \in 1..Cardinality(RolesOf(p)) :
               \E r \in RolesOf(p) : Place(p, r) = i - 1
<1> DEFINE R == RolesOf(p)
           Before(r) == {s \in R : Key[s] < Key[r]}
           n == Cardinality(R)
<1>1. R \subseteq Roles /\ IsFiniteSet(R) /\ n \in Nat
  BY RolesAreRoles, PolicyAssumption, FS_Subset, FS_CardinalityType
<1>2. \A r \in R : Key[r] \in Nat
  BY <1>1, PolicyAssumption
<1>3. \A r, s \in R : Key[r] = Key[s] => r = s
  BY <1>1, PolicyAssumption
<1> HIDE DEF R
<1>4. ASSUME NEW r \in R
      PROVE  /\ IsFiniteSet(Before(r)) /\ Cardinality(Before(r)) \in Nat
             /\ Cardinality(Before(r)) < n
  <2>1. Before(r) \subseteq R \ {r}
    BY <1>2
  <2>2. IsFiniteSet(R \ {r}) /\ Cardinality(R \ {r}) = n - 1
    BY <1>1, FS_RemoveElement
  <2>3. IsFiniteSet(Before(r)) /\ Cardinality(Before(r)) <= n - 1
    BY <2>1, <2>2, FS_Subset
  <2> QED
    BY <1>1, <2>3, FS_CardinalityType
<1>5. ASSUME NEW r \in R, NEW s \in R, Key[r] < Key[s]
      PROVE  Cardinality(Before(r)) < Cardinality(Before(s))
  <2>1. Before(r) \subseteq Before(s)
    BY <1>2, <1>5
  <2>2. Before(r) # Before(s)
    BY <1>2, <1>5
  <2>3. /\ IsFiniteSet(Before(s)) /\ Before(r) \in SUBSET Before(s)
        /\ Cardinality(Before(r)) \in Nat /\ Cardinality(Before(s)) \in Nat
    BY <1>4, <2>1
  <2>4. Cardinality(Before(r)) <= Cardinality(Before(s))
        /\ Cardinality(Before(r)) # Cardinality(Before(s))
    BY <2>2, <2>3, FS_Subset
  <2> QED
    BY <2>3, <2>4
<1>6. ASSUME NEW r \in R, NEW s \in R, Cardinality(Before(r)) = Cardinality(Before(s))
      PROVE  r = s
  <2> HIDE DEF Before
  <2>1. Cardinality(Before(r)) \in Nat /\ Cardinality(Before(s)) \in Nat
    BY <1>4
  <2>2. ~(Key[r] < Key[s]) /\ ~(Key[s] < Key[r])
    BY <1>5, <1>6, <2>1
  <2> QED
    BY <1>2, <1>3, <2>2
<1> DEFINE place == [r \in R |-> Cardinality(Before(r))]
<1>7. place \in Injection(R, 0..(n - 1))
  <2> HIDE DEF Before, n
  <2>1. place \in [R -> 0..(n - 1)]
    BY <1>1, <1>4
  <2>2. \A r, s \in R : place[r] = place[s] => r = s
    BY <1>6
  <2> QED
    BY <2>1, <2>2 DEF Injection, IsInjective
<1>8. IsFiniteSet(0..(n - 1)) /\ Cardinality(0..(n - 1)) = n
  BY <1>1, FS_Interval
<1>9. place \in Surjection(R, 0..(n - 1))
  BY <1>7, <1>8, FS_Injection
<1>10. ASSUME NEW i \in 1..n PROVE \E r \in R : Cardinality(Before(r)) = i - 1
  <2> HIDE DEF Before, n
  <2>1. i - 1 \in 0..(n - 1)
    BY <1>1
  <2> QED
    BY <2>1, <1>9 DEF Surjection
<1>11. \A r \in R : Place(p, r) = Cardinality(Before(r))
  BY DEF Place, R
<1> HIDE DEF Before
<1> QED
  BY <1>1, <1>4, <1>6, <1>10, <1>11 DEF R

\* all_roles has every role once, and role_map has where.
LEMMA RoleMapFinds ==
  ASSUME NEW p \in Policies
  PROVE  /\ DOMAIN AllRoles(p) = 1..Cardinality(RolesOf(p))
         /\ \A i \in DOMAIN AllRoles(p) : AllRoles(p)[i] \in RolesOf(p)
         /\ \A r \in RolesOf(p) :
               /\ RoleMap(p)[r] \in Nat
               /\ RoleMap(p)[r] + 1 \in DOMAIN AllRoles(p)
               /\ AllRoles(p)[RoleMap(p)[r] + 1] = r
<1> DEFINE n == Cardinality(RolesOf(p))
           all == AllRoles(p)
<1>1. all = [i \in 1..n |-> CHOOSE r \in RolesOf(p) : Place(p, r) = i - 1]
  BY DEF AllRoles, Place
<1>2. n \in Nat /\ DOMAIN all = 1..n
  BY <1>1, Places
<1>3. ASSUME NEW i \in 1..n
      PROVE  all[i] \in RolesOf(p) /\ Place(p, all[i]) = i - 1
  <2>1. \E r \in RolesOf(p) : Place(p, r) = i - 1
    BY Places
  <2>2. all[i] = CHOOSE r \in RolesOf(p) : Place(p, r) = i - 1
    BY <1>1, Zenon
  <2> QED
    BY <2>1, <2>2
<1>4. ASSUME NEW r \in RolesOf(p)
      PROVE  /\ RoleMap(p)[r] \in Nat
             /\ RoleMap(p)[r] + 1 \in DOMAIN all
             /\ all[RoleMap(p)[r] + 1] = r
  <2>1. Place(p, r) + 1 \in 1..n /\ (Place(p, r) + 1) - 1 = Place(p, r)
    BY <1>2, Places
  <2>2. all[Place(p, r) + 1] = r
    BY <1>3, <2>1, Places
  <2>3. \E i \in DOMAIN all : all[i] = r
    BY <1>2, <2>1, <2>2
  <2> DEFINE i == CHOOSE j \in DOMAIN all : all[j] = r
  <2>4. i \in 1..n /\ all[i] = r
    BY <1>2, <2>3
  <2>5. RoleMap(p)[r] = i - 1
    <3>1. r \in ToSet(all)
      BY <2>3 DEF ToSet
    <3> QED
      BY <3>1 DEF RoleMap
  <2> HIDE DEF i, all, n
  <2>6. i - 1 \in Nat /\ (i - 1) + 1 = i
    BY <1>2, <2>4
  <2> QED
    BY <1>2, <2>4, <2>5, <2>6
<1> QED
  BY <1>2, <1>3, <1>4

-----------------------------------------------------------------------------

\* The descriptors of the messages an envelope is made of.
LEMMA PolicyTypes ==
  ASSUME Schema = MessageTypes
  PROVE  /\ Fields("SignaturePolicyEnvelope") = SignaturePolicyEnvelope
         /\ Fields("SignaturePolicy") = SignaturePolicy
         /\ Fields("SignaturePolicy_NOutOf") = SignaturePolicy_NOutOf
         /\ Fields("MSPPrincipal") = MSPPrincipal
         /\ Fields("MSPRole") = MSPRole
         /\ {"SignaturePolicyEnvelope", "SignaturePolicy", "SignaturePolicy_NOutOf",
             "MSPPrincipal", "MSPRole"} \subseteq DOMAIN Schema
  BY DEF MessageTypes, Fields

\* The fields of a rule.
LEMMA RuleFields ==
  /\ DOMAIN SignaturePolicy = {"signed_by", "n_out_of"}
  /\ SignaturePolicy["signed_by"].kind = "int"
  /\ SignaturePolicy["signed_by"].label = "optional"
  /\ SignaturePolicy["n_out_of"].kind = "message"
  /\ SignaturePolicy["n_out_of"].of = "SignaturePolicy_NOutOf"
  /\ SignaturePolicy["n_out_of"].label = "optional"
  /\ SignaturePolicy["signed_by"].oneof = "Type"
  /\ SignaturePolicy["n_out_of"].oneof = "Type"
  BY DEF SignaturePolicy, OneOf, Varint, Message, Scalar, Field

LEMMA NoDefaults == Defaults(SignaturePolicy) = [f \in {} |-> 0]
<1>1. {g \in DOMAIN SignaturePolicy : HasDefault(SignaturePolicy[g])} = {}
  BY RuleFields DEF HasDefault
<1> QED
  BY <1>1 DEF Defaults

\* What the constructors make.
LEMMA NewSignedBy ==
  ASSUME Schema = MessageTypes, NEW k
  PROVE  New("SignaturePolicy", [signed_by |-> k]) = [signed_by |-> k]
  BY NoDefaults, PolicyTypes DEF New, With

LEMMA NewNOutOf ==
  ASSUME Schema = MessageTypes, NEW n, NEW rules
  PROVE  New("SignaturePolicy",
             [n_out_of |-> New("SignaturePolicy_NOutOf", [n |-> n, rules |-> rules])])
           = [n_out_of |-> [n |-> n, rules |-> rules]]
<1>1. DOMAIN Defaults(SignaturePolicy_NOutOf) \subseteq {"n", "rules"}
  BY DEF Defaults, SignaturePolicy_NOutOf
<1>2. New("SignaturePolicy_NOutOf", [n |-> n, rules |-> rules]) = [n |-> n, rules |-> rules]
  BY <1>1, PolicyTypes DEF New, With
<1> QED
  BY <1>2, NoDefaults, PolicyTypes DEF New, With

LEMMA NewRole ==
  ASSUME Schema = MessageTypes, NEW role, NEW msp
  PROVE  New("MSPRole", [role |-> role, msp_identifier |-> msp])
           = [role |-> role, msp_identifier |-> msp]
<1>1. DOMAIN Defaults(MSPRole) \subseteq {"role", "msp_identifier"}
  BY DEF Defaults, MSPRole
<1> QED
  BY <1>1, PolicyTypes DEF New, With

LEMMA NewPrincipal ==
  ASSUME Schema = MessageTypes, NEW class, NEW principal
  PROVE  New("MSPPrincipal",
             [principal_classification |-> class, principal |-> principal])
           = [principal_classification |-> class, principal |-> principal]
<1>1. DOMAIN Defaults(MSPPrincipal) \subseteq {"principal_classification", "principal"}
  BY DEF Defaults, MSPPrincipal
<1> QED
  BY <1>1, PolicyTypes DEF New, With

LEMMA NewEnvelope ==
  ASSUME Schema = MessageTypes, NEW version, NEW rule, NEW identities
  PROVE  New("SignaturePolicyEnvelope",
             [version |-> version, rule |-> rule, identities |-> identities])
           = [version |-> version, rule |-> rule, identities |-> identities]
<1>1. DOMAIN Defaults(SignaturePolicyEnvelope) \subseteq {"version", "rule", "identities"}
  BY DEF Defaults, SignaturePolicyEnvelope
<1> QED
  BY <1>1, PolicyTypes DEF New, With

-----------------------------------------------------------------------------

Suits(field, v) == Fits(IsMessage, field, v)

\* With fields of the right types comes a message that survives the wire.
LEMMA Made ==
  ASSUME Promise, NEW type \in DOMAIN Schema, NEW m, m = [f \in DOMAIN m |-> m[f]],
         DOMAIN Defaults(Fields(type)) \subseteq DOMAIN m,
         DOMAIN m \subseteq DOMAIN Fields(type),
         \A f \in DOMAIN m : Suits(Fields(type)[f], m[f]),
         \A f \in DOMAIN m, g \in DOMAIN m :
            Fields(type)[f].oneof # "" /\ Fields(type)[f].oneof = Fields(type)[g].oneof
               => f = g
  PROVE  /\ IsMessage(type, m)
         /\ WellFormed(type, SerializeToString(type, m))
         /\ FromString(type, SerializeToString(type, m)) = m
<1>1. MessageOf(IsMessage, type, m)
  BY Zenon DEF MessageOf, Suits
<1>2. IsMessage(type, m)
  BY <1>1, Zenon DEF Promise
<1> QED
  BY <1>2, Zenon DEF Promise

LEMMA SignedByIsMessage ==
  ASSUME Schema = MessageTypes, Promise, NEW k \in Nat
  PROVE  IsMessage("SignaturePolicy", [signed_by |-> k])
<1> DEFINE m == [signed_by |-> k]
<1>1. Suits(SignaturePolicy["signed_by"], k)
  BY RuleFields DEF Fits, FitsOne, Suits
<1>2. DOMAIN m = {"signed_by"} /\ m = [f \in DOMAIN m |-> m[f]] /\ m["signed_by"] = k
  OBVIOUS
<1> HIDE DEF m
<1>3. DOMAIN Defaults(SignaturePolicy) = {}
  BY NoDefaults
<1>4. IsMessage("SignaturePolicy", m)
  BY <1>1, <1>2, <1>3, RuleFields, PolicyTypes, Made
<1> QED
  BY <1>4 DEF m

LEMMA NOutOfIsMessage ==
  ASSUME Schema = MessageTypes, Promise, NEW n \in Nat, NEW rules,
         Len(rules) \in Nat, rules = [i \in 1..Len(rules) |-> rules[i]],
         \A i \in 1..Len(rules) : IsMessage("SignaturePolicy", rules[i])
  PROVE  IsMessage("SignaturePolicy", [n_out_of |-> [n |-> n, rules |-> rules]])
<1> DEFINE nOutOf == [n |-> n, rules |-> rules]
           m == [n_out_of |-> nOutOf]
<1>1. Suits(SignaturePolicy_NOutOf["n"], n)
  BY DEF Suits, Fits, FitsOne, SignaturePolicy_NOutOf, Varint, Scalar, Field
<1>2. Suits(SignaturePolicy_NOutOf["rules"], rules)
  BY DEF Suits, Fits, FitsOne, SignaturePolicy_NOutOf, Repeated, Message, Scalar, Field
<1>3. /\ DOMAIN SignaturePolicy_NOutOf = {"n", "rules"}
      /\ DOMAIN Defaults(SignaturePolicy_NOutOf) \subseteq {"n", "rules"}
  BY DEF Defaults, SignaturePolicy_NOutOf
<1>4. SignaturePolicy_NOutOf["n"].oneof = "" /\ SignaturePolicy_NOutOf["rules"].oneof = ""
  BY DEF SignaturePolicy_NOutOf, Repeated, Message, Varint, Scalar, Field
<1>5. /\ DOMAIN nOutOf = {"n", "rules"} /\ nOutOf = [f \in DOMAIN nOutOf |-> nOutOf[f]]
      /\ nOutOf["n"] = n /\ nOutOf["rules"] = rules
  OBVIOUS
<1>6. IsMessage("SignaturePolicy_NOutOf", nOutOf)
  <2> HIDE DEF nOutOf
  <2> QED
    BY <1>1, <1>2, <1>3, <1>4, <1>5, PolicyTypes, Made
<1> HIDE DEF nOutOf
<1>7. Suits(SignaturePolicy["n_out_of"], nOutOf)
  BY <1>6, RuleFields DEF Suits, Fits, FitsOne
<1>8. DOMAIN m = {"n_out_of"} /\ m = [f \in DOMAIN m |-> m[f]] /\ m["n_out_of"] = nOutOf
  OBVIOUS
<1> HIDE DEF m
<1>9. DOMAIN Defaults(SignaturePolicy) = {}
  BY NoDefaults
<1>10. IsMessage("SignaturePolicy", m)
  BY <1>7, <1>8, <1>9, RuleFields, PolicyTypes, Made
<1> QED
  BY <1>10 DEF m, nOutOf

LEMMA TextIsStr ==
  ASSUME NEW s
  PROVE  \A i \in DOMAIN Text(s) : Text(s)[i][2] \in {"text", "hex"}
<1>1. CASE s = ""
  <2>1. Text(s) = <<>>
    BY <1>1 DEF Text
  <2>2. DOMAIN <<>> = {}
    OBVIOUS
  <2> QED
    BY <2>1, <2>2
<1>2. CASE s # ""
  <2> DEFINE piece == <<0, "text", s>>
  <2>1. Text(s) = <<piece>> /\ piece[2] = "text"
    BY <1>2 DEF Text, Opaque
  <2> HIDE DEF piece
  <2>2. DOMAIN <<piece>> = {1} /\ <<piece>>[1] = piece
    OBVIOUS
  <2> QED
    BY <2>1, <2>2
<1> QED
  BY <1>1, <1>2

LEMMA RoleReads ==
  ASSUME Schema = MessageTypes, Promise, NEW v \in Nat, NEW str,
         \A i \in DOMAIN str : str[i][2] \in {"text", "hex"}
  PROVE  LET m == [role |-> v, msp_identifier |-> str]
         IN  FromString("MSPRole", SerializeToString("MSPRole", m)) = m
<1> DEFINE m == [role |-> v, msp_identifier |-> str]
<1>1. Suits(MSPRole["role"], v)
  BY DEF Suits, Fits, FitsOne, MSPRole, Enum, Field
<1>2. Suits(MSPRole["msp_identifier"], str)
  BY DEF Suits, Fits, FitsOne, MSPRole, String, Scalar, Field
<1>3. /\ DOMAIN MSPRole = {"role", "msp_identifier"}
      /\ DOMAIN Defaults(MSPRole) \subseteq {"role", "msp_identifier"}
  BY DEF Defaults, MSPRole
<1>4. MSPRole["role"].oneof = "" /\ MSPRole["msp_identifier"].oneof = ""
  BY DEF MSPRole, Enum, String, Scalar, Field
<1>5. /\ DOMAIN m = {"role", "msp_identifier"} /\ m = [f \in DOMAIN m |-> m[f]]
      /\ m["role"] = v /\ m["msp_identifier"] = str
  OBVIOUS
<1> HIDE DEF m
<1>6. FromString("MSPRole", SerializeToString("MSPRole", m)) = m
  BY <1>1, <1>2, <1>3, <1>4, <1>5, PolicyTypes, Made
<1> QED
  BY <1>6 DEF m

LEMMA PrincipalIsMessage ==
  ASSUME Schema = MessageTypes, Promise, NEW bytes
  PROVE  IsMessage("MSPPrincipal",
             [principal_classification |-> MSPPrincipal_Classification.ROLE,
              principal |-> bytes])
<1> DEFINE m == [principal_classification |-> MSPPrincipal_Classification.ROLE,
                 principal |-> bytes]
<1>1. Suits(MSPPrincipal["principal_classification"], MSPPrincipal_Classification.ROLE)
  BY DEF Suits, Fits, FitsOne, MSPPrincipal, Enum, Field, MSPPrincipal_Classification
<1>2. Suits(MSPPrincipal["principal"], bytes)
  BY DEF Suits, Fits, FitsOne, MSPPrincipal, Bytes, Scalar, Field
<1>3. /\ DOMAIN MSPPrincipal = {"principal_classification", "principal"}
      /\ DOMAIN Defaults(MSPPrincipal) \subseteq {"principal_classification", "principal"}
  BY DEF Defaults, MSPPrincipal
<1>4. /\ MSPPrincipal["principal_classification"].oneof = ""
      /\ MSPPrincipal["principal"].oneof = ""
  BY DEF MSPPrincipal, Enum, Bytes, Scalar, Field
<1>5. /\ DOMAIN m = {"principal_classification", "principal"}
      /\ m = [f \in DOMAIN m |-> m[f]]
      /\ m["principal_classification"] = MSPPrincipal_Classification.ROLE
      /\ m["principal"] = bytes
  OBVIOUS
<1> HIDE DEF m
<1>6. IsMessage("MSPPrincipal", m)
  BY <1>1, <1>2, <1>3, <1>4, <1>5, PolicyTypes, Made
<1> QED
  BY <1>6 DEF m

\* The principal of a role is a message, and the role is read from its bytes.
LEMMA PrincipalReads ==
  ASSUME Schema = MessageTypes, Promise, NEW r \in Roles
  PROVE  /\ IsMessage("MSPPrincipal", Principal(r))
         /\ Principal(r).principal_classification = MSPPrincipal_Classification.ROLE
         /\ FromString("MSPRole", Principal(r).principal).role = RoleValue(r.role)
         /\ FromString("MSPRole", Principal(r).principal).msp_identifier = Text(r.msp)
<1> DEFINE m == [role |-> RoleValue(r.role), msp_identifier |-> Text(r.msp)]
           bytes == SerializeToString("MSPRole", m)
<1>1. RoleValue(r.role) \in Nat
  BY PolicyAssumption DEF RoleValue, Lower, MSPRole_MSPRoleType
<1>2. FromString("MSPRole", bytes) = m
  BY <1>1, TextIsStr, RoleReads
<1>3. m.role = RoleValue(r.role) /\ m.msp_identifier = Text(r.msp)
  OBVIOUS
<1>4. Principal(r) = [principal_classification |-> MSPPrincipal_Classification.ROLE,
                      principal |-> bytes]
  BY NewRole, NewPrincipal DEF Principal
<1> HIDE DEF m
<1> QED
  BY <1>2, <1>3, <1>4, PrincipalIsMessage

-----------------------------------------------------------------------------

\* A principal is of one role only.
LEMMA OneRole ==
  ASSUME NEW r \in Roles, NEW s \in Roles,
         Text(r.msp) = Text(s.msp), RoleValue(r.role) = RoleValue(s.role)
  PROVE  r = s
<1>1. r.role = s.role
  <2>1. /\ RoleValue("member") = 0 /\ RoleValue("admin") = 1
        /\ RoleValue("client") = 2 /\ RoleValue("peer") = 3
    BY DEF RoleValue, Lower, MSPRole_MSPRoleType
  <2> QED
    BY <2>1, PolicyAssumption
<1>2. r.msp = s.msp
  <2>1. \A m : m # "" => Text(m) # <<>> /\ Text(m)[1][3] = m
    BY DEF Text, Opaque
  <2>2. Text("") = <<>>
    BY DEF Text
  <2>3. CASE r.msp = "" \/ s.msp = ""
    BY <2>1, <2>2, <2>3
  <2>4. CASE r.msp # "" /\ s.msp # ""
    BY <2>1, <2>4
  <2> QED
    BY <2>3, <2>4
<1> QED
  BY <1>1, <1>2, PolicyAssumption

\* A rule that names a principal by its index asks for the signature of its role.
LEMMA SignedBySatisfied ==
  ASSUME Schema = MessageTypes, Promise, Evaluates, NEW r \in Roles, NEW k \in Nat,
         NEW identities, identities[k + 1] = Principal(r), NEW signers \in SUBSET Roles
  PROVE  Satisfied([signed_by |-> k], identities, signers) <=> r \in signers
<1> DEFINE rule == [signed_by |-> k]
           met == {i \in DOMAIN SubRules(rule) :
                      Satisfied(SubRules(rule)[i], identities, signers)}
<1>1. Satisfied(rule, identities, signers) <=> Evaluation(rule, identities, signers, met)
  BY SignedByIsMessage, Zenon DEF Evaluates
<1>2. Has(rule, "signed_by") /\ rule.signed_by = k
  BY DEF Has
<1> HIDE DEF met, rule
<1>3. Evaluation(rule, identities, signers, met)
        <=> \E s \in signers : Text(r.msp) = Text(s.msp) /\ RoleValue(r.role) = RoleValue(s.role)
  BY <1>2, PrincipalReads DEF Evaluation
<1> QED
  BY <1>1, <1>3, OneRole DEF rule

\* Two sequences one after the other.
LEMMA Joined ==
  ASSUME NEW a \in Nat, NEW b \in Nat, NEW s, s = [i \in 1..a |-> s[i]],
         NEW t, t = [i \in 1..b |-> t[i]]
  PROVE  /\ Len(s \o t) = a + b
         /\ s \o t = [i \in 1..(a + b) |-> (s \o t)[i]]
         /\ \A i \in 1..a : (s \o t)[i] = s[i]
         /\ \A i \in 1..b : (s \o t)[a + i] = t[i]
<1> DEFINE S == {s[i] : i \in 1..a} \cup {t[i] : i \in 1..b}
<1>1. s \in [1..a -> S] /\ t \in [1..b -> S]
  OBVIOUS
<1> HIDE DEF S
<1>2. s \in Seq(S) /\ Len(s) = a /\ t \in Seq(S) /\ Len(t) = b
  BY <1>1
<1> QED
  BY <1>2

\* The numbers of a set in 1..a and of one in 1..b, when the latter come after.
Splits(M, a, A, b, B) ==
    /\ A \subseteq 1..a /\ B \subseteq 1..b /\ M \subseteq 1..(a + b)
    /\ \A i \in 1..a : i \in M <=> i \in A
    /\ \A j \in 1..b : a + j \in M <=> j \in B

LEMMA Counted ==
  ASSUME NEW a \in Nat, NEW b \in Nat, NEW A, NEW B, NEW M,
         Splits(M, a, A, b, B)
  PROVE  /\ Cardinality(M) = Cardinality(A) + Cardinality(B)
         /\ Cardinality(A) \in Nat /\ Cardinality(B) \in Nat
         /\ Cardinality(A) <= a /\ Cardinality(B) <= b
         /\ Cardinality(A) = a <=> A = 1..a
         /\ Cardinality(B) = b <=> B = 1..b
         /\ Cardinality(A) = 0 <=> A = {}
         /\ Cardinality(B) = 0 <=> B = {}
<1> DEFINE C == {a + j : j \in B}
<1>1. /\ IsFiniteSet(1..a) /\ Cardinality(1..a) = a
      /\ IsFiniteSet(1..b) /\ Cardinality(1..b) = b
  BY FS_Interval
<1>2. /\ IsFiniteSet(A) /\ Cardinality(A) <= a /\ (Cardinality(A) = a => A = 1..a)
      /\ IsFiniteSet(B) /\ Cardinality(B) <= b /\ (Cardinality(B) = b => B = 1..b)
  <2>1. A \in SUBSET (1..a) /\ B \in SUBSET (1..b)
    BY DEF Splits
  <2> QED
    BY <1>1, <2>1, FS_Subset
<1>3. /\ Cardinality(A) \in Nat /\ Cardinality(B) \in Nat
      /\ Cardinality(A) = 0 <=> A = {}
      /\ Cardinality(B) = 0 <=> B = {}
  BY <1>2, FS_CardinalityType, FS_EmptySet
<1>4. IsFiniteSet(C) /\ Cardinality(C) = Cardinality(B)
  <2> DEFINE shift == [j \in B |-> a + j]
  <2>1. shift \in Bijection(B, C)
    <3>1. shift \in [B -> C]
      OBVIOUS
    <3>2. \A i, j \in B : shift[i] = shift[j] => i = j
      BY DEF Splits
    <3>3. \A c \in C : \E j \in B : shift[j] = c
      OBVIOUS
    <3> QED
      BY <3>1, <3>2, <3>3 DEF Bijection, Injection, Surjection, IsInjective
  <2> QED
    BY <1>2, <2>1, FS_Bijection DEF ExistsBijection
<1>5. A \cap C = {}
  BY DEF Splits
<1>6. M = A \cup C
  <2>1. ASSUME NEW i \in M PROVE i \in A \cup C
    <3>1. CASE i \in 1..a
      BY <3>1 DEF Splits
    <3>2. CASE i \notin 1..a
      <4>1. i - a \in 1..b /\ a + (i - a) = i
        BY <3>2 DEF Splits
      <4>2. i - a \in B
        BY <4>1 DEF Splits
      <4> QED
        BY <4>1, <4>2
    <3> QED
      BY <3>1, <3>2
  <2>2. ASSUME NEW i \in A PROVE i \in M
    BY DEF Splits
  <2>3. ASSUME NEW j \in B PROVE a + j \in M
    BY DEF Splits
  <2> QED
    BY <2>1, <2>2, <2>3
<1> HIDE DEF C
<1>7. Cardinality(A \cup C) = Cardinality(A) + Cardinality(B)
  <2>1. Cardinality(A \cup C) = Cardinality(A) + Cardinality(C) - Cardinality(A \cap C)
    BY <1>2, <1>4, FS_Union
  <2>2. Cardinality(A \cap C) = 0
    BY <1>5, FS_EmptySet
  <2> QED
    BY <1>3, <1>4, <2>1, <2>2
<1>8. /\ A = 1..a => Cardinality(A) = a
      /\ B = 1..b => Cardinality(B) = b
  BY <1>1
<1> QED
  BY <1>2, <1>3, <1>6, <1>7, <1>8

-----------------------------------------------------------------------------

\* A rule of n asks for n of the rules below it.
LEMMA NOutOfSatisfied ==
  ASSUME Schema = MessageTypes, Promise, Evaluates, NEW n \in Nat, NEW rules,
         Len(rules) \in Nat, rules = [i \in 1..Len(rules) |-> rules[i]],
         \A i \in 1..Len(rules) : IsMessage("SignaturePolicy", rules[i]),
         NEW identities, NEW signers
  PROVE  Satisfied([n_out_of |-> [n |-> n, rules |-> rules]], identities, signers)
           <=> Cardinality({i \in 1..Len(rules) :
                               Satisfied(rules[i], identities, signers)}) >= n
<1> DEFINE rule == [n_out_of |-> [n |-> n, rules |-> rules]]
           met == {i \in DOMAIN SubRules(rule) :
                      Satisfied(SubRules(rule)[i], identities, signers)}
<1>1. Satisfied(rule, identities, signers) <=> Evaluation(rule, identities, signers, met)
  BY NOutOfIsMessage, Zenon DEF Evaluates
<1>2. /\ Sub("SignaturePolicy", rule, "n_out_of").n = n
      /\ SubRules(rule) = rules
  BY DEF SubRules, Sub, Has
<1>3. ~Has(rule, "signed_by")
  BY DEF Has
<1>4. met = {i \in 1..Len(rules) : Satisfied(rules[i], identities, signers)}
  <2>1. DOMAIN rules = 1..Len(rules)
    OBVIOUS
  <2> HIDE DEF rule
  <2> QED
    BY <1>2, <2>1
<1> HIDE DEF met, rule
<1>5. Evaluation(rule, identities, signers, met) <=> Cardinality(met) >= n
  BY <1>2, <1>3 DEF Evaluation
<1> QED
  BY <1>1, <1>4, <1>5 DEF rule

\* The rules of a policy: those of its roles, then those of its sub-policies.
RulesOf(q, rmap) ==
    [i \in DOMAIN q.roles |-> [signed_by |-> rmap[q.roles[i]]]]
    \o [i \in DOMAIN q.sub_policies |-> BuildEndorsementPolicy(q.sub_policies[i], rmap)]

LEMMA RuleOf ==
  ASSUME Schema = MessageTypes, NEW q \in Policies, NEW rmap
  PROVE  BuildEndorsementPolicy(q, rmap)
           = [n_out_of |-> [n |-> NOutOf(q), rules |-> RulesOf(q, rmap)]]
<1> DEFINE signedBy == [i \in DOMAIN q.roles |-> rmap[q.roles[i]]]
           subs == [i \in DOMAIN q.sub_policies |->
                       BuildEndorsementPolicy(q.sub_policies[i], rmap)]
           leaves == [i \in DOMAIN signedBy |->
                         New("SignaturePolicy", [signed_by |-> signedBy[i]])]
<1>1. leaves = [i \in DOMAIN q.roles |-> [signed_by |-> rmap[q.roles[i]]]]
  BY NewSignedBy
<1>2. BuildEndorsementPolicy(q, rmap) = NOutOfRule(NOutOf(q), signedBy, subs)
  BY RuleEquation
<1> HIDE DEF signedBy, subs
<1>3. NOutOfRule(NOutOf(q), signedBy, subs)
        = New("SignaturePolicy",
              [n_out_of |-> New("SignaturePolicy_NOutOf",
                  [n |-> NOutOf(q), rules |-> leaves \o subs])])
  BY DEF NOutOfRule
<1> HIDE DEF leaves
<1>4. NOutOfRule(NOutOf(q), signedBy, subs)
        = [n_out_of |-> [n |-> NOutOf(q), rules |-> leaves \o subs]]
  BY <1>3, NewNOutOf
<1>5. leaves \o subs = RulesOf(q, rmap)
  BY <1>1 DEF RulesOf, subs
<1> QED
  BY <1>2, <1>4, <1>5

\* If the rules of the sub-policies mean the sub-policies, so does the rule of the
\* policy.
LEMMA RuleMeetsStep ==
  ASSUME Schema = MessageTypes, Promise, Evaluates, NEW q \in Policies, NEW rmap,
         NEW identities,
         \A i \in DOMAIN q.roles :
            /\ rmap[q.roles[i]] \in Nat
            /\ identities[rmap[q.roles[i]] + 1] = Principal(q.roles[i]),
         \A i \in DOMAIN q.sub_policies :
            /\ IsMessage("SignaturePolicy", BuildEndorsementPolicy(q.sub_policies[i], rmap))
            /\ \A signers \in SUBSET Roles :
                  Satisfied(BuildEndorsementPolicy(q.sub_policies[i], rmap), identities, signers)
                     <=> Meets(q.sub_policies[i], signers)
  PROVE  /\ IsMessage("SignaturePolicy", BuildEndorsementPolicy(q, rmap))
         /\ \A signers \in SUBSET Roles :
               Satisfied(BuildEndorsementPolicy(q, rmap), identities, signers)
                  <=> Meets(q, signers)
<1> DEFINE a == Len(q.roles)
           b == Len(q.sub_policies)
           leaves == [i \in DOMAIN q.roles |-> [signed_by |-> rmap[q.roles[i]]]]
           subs == [i \in DOMAIN q.sub_policies |->
                       BuildEndorsementPolicy(q.sub_policies[i], rmap)]
           rules == RulesOf(q, rmap)
<1>1. /\ a \in Nat /\ DOMAIN q.roles = 1..a
      /\ b \in Nat /\ DOMAIN q.sub_policies = 1..b
      /\ \A i \in 1..a : q.roles[i] \in Roles
  BY PolicyAssumption
<1>2. /\ leaves = [i \in 1..a |-> leaves[i]] /\ subs = [i \in 1..b |-> subs[i]]
      /\ rules = leaves \o subs
  BY <1>1 DEF RulesOf
<1>3. /\ \A i \in 1..a : leaves[i] = [signed_by |-> rmap[q.roles[i]]]
      /\ \A i \in 1..b : subs[i] = BuildEndorsementPolicy(q.sub_policies[i], rmap)
  BY <1>1
<1> HIDE DEF a, b, leaves, subs, rules
<1>4. NOutOf(q) \in Nat
  <2>1. q.expr \in {"And", "Or", "OutOf"} /\ q.out_of \in Nat
    BY PolicyAssumption
  <2>2. CASE q.expr = "And"
    <3>1. NOutOf(q) = a + b
      BY <2>2 DEF NOutOf, a, b
    <3> QED
      BY <1>1, <3>1
  <2>3. CASE q.expr = "Or"
    BY <2>3 DEF NOutOf
  <2>4. CASE q.expr = "OutOf"
    BY <2>1, <2>4 DEF NOutOf
  <2> QED
    BY <2>1, <2>2, <2>3, <2>4
<1>5. /\ Len(rules) = a + b
      /\ rules = [i \in 1..(a + b) |-> rules[i]]
      /\ \A i \in 1..a : rules[i] = [signed_by |-> rmap[q.roles[i]]]
      /\ \A i \in 1..b : rules[a + i] = BuildEndorsementPolicy(q.sub_policies[i], rmap)
  BY <1>1, <1>2, <1>3, Joined
<1>6. ASSUME NEW i \in 1..(a + b) PROVE IsMessage("SignaturePolicy", rules[i])
  <2>1. CASE i \in 1..a
    BY <1>1, <1>5, <2>1, SignedByIsMessage
  <2>2. CASE i \notin 1..a
    <3>1. i - a \in 1..b /\ a + (i - a) = i
      BY <1>1, <2>2
    <3>2. rules[a + (i - a)] = BuildEndorsementPolicy(q.sub_policies[i - a], rmap)
      BY <1>5, <3>1
    <3> QED
      BY <1>1, <3>1, <3>2
  <2> QED
    BY <2>1, <2>2
<1>7. a + b \in Nat
  BY <1>1
<1>8. BuildEndorsementPolicy(q, rmap) = [n_out_of |-> [n |-> NOutOf(q), rules |-> rules]]
  BY RuleOf DEF rules
<1>9. IsMessage("SignaturePolicy", BuildEndorsementPolicy(q, rmap))
  BY <1>4, <1>5, <1>6, <1>7, <1>8, NOutOfIsMessage
<1>10. ASSUME NEW signers \in SUBSET Roles
       PROVE  Satisfied(BuildEndorsementPolicy(q, rmap), identities, signers)
                <=> Meets(q, signers)
  <2> DEFINE A == {i \in 1..a : q.roles[i] \in signers}
             B == {i \in 1..b : Meets(q.sub_policies[i], signers)}
             M == {i \in 1..(a + b) : Satisfied(rules[i], identities, signers)}
  <2>1. Satisfied(BuildEndorsementPolicy(q, rmap), identities, signers)
          <=> Cardinality(M) >= NOutOf(q)
    <3>1. Satisfied(BuildEndorsementPolicy(q, rmap), identities, signers)
            <=> Cardinality({i \in 1..Len(rules) :
                                Satisfied(rules[i], identities, signers)}) >= NOutOf(q)
      <4> Len(rules) \in Nat /\ rules = [i \in 1..Len(rules) |-> rules[i]]
          /\ \A i \in 1..Len(rules) : IsMessage("SignaturePolicy", rules[i])
        BY <1>5, <1>6, <1>7
      <4> QED
        BY <1>4, <1>8, NOutOfSatisfied
    <3> QED
      BY <1>5, <3>1
  <2>2. ASSUME NEW i \in 1..a
        PROVE  Satisfied(rules[i], identities, signers) <=> i \in A
    <3>1. PICK r, k : r = q.roles[i] /\ k = rmap[q.roles[i]]
      OBVIOUS
    <3>2. r \in Roles /\ k \in Nat /\ identities[k + 1] = Principal(r)
      BY <1>1, <3>1
    <3>3. Satisfied([signed_by |-> k], identities, signers) <=> r \in signers
      BY <3>2, SignedBySatisfied
    <3> QED
      BY <1>5, <3>1, <3>3
  <2>3. ASSUME NEW i \in 1..b
        PROVE  Satisfied(rules[a + i], identities, signers) <=> i \in B
    BY <1>1, <1>5
  <2>4. A \subseteq 1..a /\ B \subseteq 1..b /\ M \subseteq 1..(a + b)
    OBVIOUS
  <2>5. /\ \A i \in 1..a : i \in M <=> i \in A
        /\ \A j \in 1..b : a + j \in M <=> j \in B
    <3>1. \A i \in 1..a : i \in 1..(a + b)
      BY <1>1
    <3>2. \A j \in 1..b : a + j \in 1..(a + b)
      BY <1>1
    <3>3. \A i \in 1..(a + b) : i \in M <=> Satisfied(rules[i], identities, signers)
      OBVIOUS
    <3> HIDE DEF A, B, M
    <3> QED
      BY <2>2, <2>3, <3>1, <3>2, <3>3
  <2>6. A = MetRoles(q, signers) /\ B = MetSubs(q, signers)
    BY <1>1 DEF MetRoles, MetSubs
  <2> HIDE DEF A, B, M
  <2>7. Meets(q, signers) =
          CASE q.expr = "And"   -> A = 1..a /\ B = 1..b
            [] q.expr = "Or"    -> A # {} \/ B # {}
            [] q.expr = "OutOf" -> Cardinality(A) + Cardinality(B) >= q.out_of
    BY <1>1, <2>6, MeetsEquation, Zenon
  <2>8. /\ Cardinality(M) = Cardinality(A) + Cardinality(B)
        /\ Cardinality(A) \in Nat /\ Cardinality(B) \in Nat
        /\ Cardinality(A) <= a /\ Cardinality(B) <= b
        /\ Cardinality(A) = a <=> A = 1..a
        /\ Cardinality(B) = b <=> B = 1..b
        /\ Cardinality(A) = 0 <=> A = {}
        /\ Cardinality(B) = 0 <=> B = {}
    <3>1. a \in Nat /\ b \in Nat
      BY <1>1
    <3>2. Splits(M, a, A, b, B)
      BY <2>4, <2>5 DEF Splits
    <3> QED
      BY <3>1, <3>2, Counted
  <2>9. CASE q.expr = "And"
    <3>1. NOutOf(q) = a + b
      BY <2>9 DEF NOutOf, a, b
    <3>2. Meets(q, signers) <=> A = 1..a /\ B = 1..b
      BY <2>7, <2>9
    <3> QED
      BY <1>1, <2>1, <2>8, <3>1, <3>2
  <2>10. CASE q.expr = "Or"
    <3>1. NOutOf(q) = 1
      BY <2>10 DEF NOutOf
    <3>2. Meets(q, signers) <=> A # {} \/ B # {}
      BY <2>7, <2>10
    <3> QED
      BY <2>1, <2>8, <3>1, <3>2
  <2>11. CASE q.expr = "OutOf"
    <3>1. NOutOf(q) = q.out_of
      BY <2>11 DEF NOutOf
    <3>2. Meets(q, signers) <=> Cardinality(A) + Cardinality(B) >= q.out_of
      BY <2>7, <2>11
    <3> QED
      BY <2>1, <2>8, <3>1, <3>2
  <2> QED
    BY <2>9, <2>10, <2>11, PolicyAssumption
<1> QED
  BY <1>9, <1>10

\* What is below it asks for the rest, so by induction every rule means its
\* policy, with the indices of any map that finds the principals.
LEMMA RuleMeets ==
  ASSUME Schema = MessageTypes, Promise, Evaluates, NEW rmap, NEW identities, NEW R,
         \A r \in R : rmap[r] \in Nat /\ identities[rmap[r] + 1] = Principal(r),
         NEW p \in Policies, RolesOf(p) \subseteq R
  PROVE  /\ IsMessage("SignaturePolicy", BuildEndorsementPolicy(p, rmap))
         /\ \A signers \in SUBSET Roles :
               Satisfied(BuildEndorsementPolicy(p, rmap), identities, signers)
                  <=> Meets(p, signers)
<1> DEFINE Means(q) ==
             /\ IsMessage("SignaturePolicy", BuildEndorsementPolicy(q, rmap))
             /\ \A signers \in SUBSET Roles :
                   Satisfied(BuildEndorsementPolicy(q, rmap), identities, signers)
                      <=> Meets(q, signers)
           T == {q \in Policies : RolesOf(q) \subseteq R => Means(q)}
<1>1. ASSUME NEW q \in Policies, \A u \in PoliciesBelow(q) : u \in T
      PROVE  q \in T
  <2> SUFFICES ASSUME RolesOf(q) \subseteq R PROVE Means(q)
    OBVIOUS
  <2>1. \A i \in DOMAIN q.roles :
           /\ rmap[q.roles[i]] \in Nat
           /\ identities[rmap[q.roles[i]] + 1] = Principal(q.roles[i])
    BY RolesBelow
  <2>2. \A i \in DOMAIN q.sub_policies : Means(q.sub_policies[i])
    <3> HIDE DEF Means
    <3> QED
      BY <1>1, Subs, RolesBelow
  <2> QED
    BY <2>1, <2>2, RuleMeetsStep
<1> HIDE DEF T
<1>2. Policies \subseteq T
  BY <1>1, Trees, RolesTree!Induction
<1> QED
  BY <1>2 DEF T

\* The bytes of an envelope, if its rule and its identities are messages, give
\* the envelope back.
LEMMA EnvelopeReads ==
  ASSUME Schema = MessageTypes, Promise, NEW rule, NEW identities,
         IsMessage("SignaturePolicy", rule),
         Len(identities) \in Nat,
         identities = [i \in 1..Len(identities) |-> identities[i]],
         \A i \in 1..Len(identities) : IsMessage("MSPPrincipal", identities[i])
  PROVE  LET m == [version |-> 0, rule |-> rule, identities |-> identities]
             bytes == SerializeToString("SignaturePolicyEnvelope", m)
         IN  /\ WellFormed("SignaturePolicyEnvelope", bytes)
             /\ FromString("SignaturePolicyEnvelope", bytes) = m
<1> DEFINE m == [version |-> 0, rule |-> rule, identities |-> identities]
<1>1. Suits(SignaturePolicyEnvelope["version"], 0)
  BY DEF Suits, Fits, FitsOne, SignaturePolicyEnvelope, Varint, Scalar, Field
<1>2. Suits(SignaturePolicyEnvelope["rule"], rule)
  BY DEF Suits, Fits, FitsOne, SignaturePolicyEnvelope, Message, Field
<1>3. Suits(SignaturePolicyEnvelope["identities"], identities)
  BY DEF Suits, Fits, FitsOne, SignaturePolicyEnvelope, Repeated, Message, Scalar, Field
<1>4. /\ DOMAIN SignaturePolicyEnvelope = {"version", "rule", "identities"}
      /\ DOMAIN Defaults(SignaturePolicyEnvelope) \subseteq {"version", "rule", "identities"}
  BY DEF Defaults, SignaturePolicyEnvelope
<1>5. /\ SignaturePolicyEnvelope["version"].oneof = ""
      /\ SignaturePolicyEnvelope["rule"].oneof = ""
      /\ SignaturePolicyEnvelope["identities"].oneof = ""
  BY DEF SignaturePolicyEnvelope, Repeated, Message, Varint, Scalar, Field
<1>6. /\ DOMAIN m = {"version", "rule", "identities"} /\ m = [f \in DOMAIN m |-> m[f]]
      /\ m["version"] = 0 /\ m["rule"] = rule /\ m["identities"] = identities
  OBVIOUS
<1> HIDE DEF m
<1>7. /\ WellFormed("SignaturePolicyEnvelope", SerializeToString("SignaturePolicyEnvelope", m))
      /\ FromString("SignaturePolicyEnvelope",
                    SerializeToString("SignaturePolicyEnvelope", m)) = m
  <2> DEFINE fields == Fields("SignaturePolicyEnvelope")
  <2>1. fields = SignaturePolicyEnvelope /\ "SignaturePolicyEnvelope" \in DOMAIN Schema
    BY PolicyTypes
  <2> HIDE DEF fields
  <2>2. DOMAIN Defaults(fields) \subseteq DOMAIN m /\ DOMAIN m \subseteq DOMAIN fields
    BY <1>4, <1>6, <2>1
  <2>3. \A f \in DOMAIN m : Suits(fields[f], m[f]) /\ fields[f].oneof = ""
    BY <1>1, <1>2, <1>3, <1>5, <1>6, <2>1
  <2> QED
    BY <1>6, <2>1, <2>2, <2>3, Made DEF fields
<1> QED
  BY <1>7 DEF m

-----------------------------------------------------------------------------

\* What a peer reads from the bytes of an envelope, for every policy.
LEMMA EnvelopeMeans ==
  ASSUME Schema = MessageTypes, Promise, Evaluates, NEW p \in Policies, NEW bytes,
         bytes = SerializeToString("SignaturePolicyEnvelope",
                                   BuildSignaturePolicyEnvelope(p)),
         NEW envelope, envelope = FromString("SignaturePolicyEnvelope", bytes)
  PROVE  /\ WellFormed("SignaturePolicyEnvelope", bytes)
         /\ \A signers \in SUBSET Roles :
               Satisfied(Sub("SignaturePolicyEnvelope", envelope, "rule"),
                         envelope.identities, signers)
                  <=> Meets(p, signers)
<1> DEFINE n == Cardinality(RolesOf(p))
           rule == BuildEndorsementPolicy(p, RoleMap(p))
           identities == [i \in DOMAIN AllRoles(p) |-> Principal(AllRoles(p)[i])]
           m == [version |-> 0, rule |-> rule, identities |-> identities]
<1>1. n \in Nat /\ DOMAIN AllRoles(p) = 1..n
  BY Places, RoleMapFinds
<1>2. \A i \in 1..n : identities[i] = Principal(AllRoles(p)[i])
  BY <1>1
<1>3. identities = [i \in 1..n |-> identities[i]] /\ Len(identities) = n
  BY <1>1
<1>4. BuildSignaturePolicyEnvelope(p) = m
  BY NewEnvelope DEF BuildSignaturePolicyEnvelope
<1> HIDE DEF n, identities, rule
<1>5. ASSUME NEW i \in 1..n PROVE IsMessage("MSPPrincipal", identities[i])
  <2>1. AllRoles(p)[i] \in Roles
    BY <1>1, RoleMapFinds, RolesAreRoles
  <2> QED
    BY <1>2, <2>1, PrincipalReads
<1>6. ASSUME NEW r \in RolesOf(p)
      PROVE  RoleMap(p)[r] \in Nat /\ identities[RoleMap(p)[r] + 1] = Principal(r)
  BY <1>1, <1>2, RoleMapFinds
<1>7. /\ IsMessage("SignaturePolicy", rule)
      /\ \A signers \in SUBSET Roles :
            Satisfied(rule, identities, signers) <=> Meets(p, signers)
  BY <1>6, RuleMeets DEF rule
<1>8. WellFormed("SignaturePolicyEnvelope", bytes) /\ envelope = m
  <2>1. /\ Len(identities) \in Nat
        /\ identities = [i \in 1..Len(identities) |-> identities[i]]
        /\ \A i \in 1..Len(identities) : IsMessage("MSPPrincipal", identities[i])
    BY <1>1, <1>3, <1>5
  <2> QED
    BY <1>4, <1>7, <2>1, EnvelopeReads
<1>9. /\ Sub("SignaturePolicyEnvelope", m, "rule") = rule
      /\ m.identities = identities
  BY DEF Sub, Has
<1> HIDE DEF m
<1> QED
  BY <1>7, <1>8, <1>9

\* What was sent is the bytes of the policy's envelope.
SentEnvelope ==
    /\ policy \in Policies
    /\ status = "built" =>
          sent = SerializeToString("SignaturePolicyEnvelope",
                                   BuildSignaturePolicyEnvelope(policy))

\* Whatever the policy, however deep its tree and whichever its roles, the peer
\* that reads the envelope of generate_instantiate_cc_tx asks for the signatures
\* the policy asks for, if google.protobuf keeps its promise and the peer
\* evaluates rules as it says.
THEOREM EnvelopesMeanPolicies ==
  ASSUME Schema = MessageTypes, Promise, Evaluates
  PROVE  Spec => []EnvelopeMeansPolicy
<1>1. Init => SentEnvelope
  BY DEF Init, SentEnvelope
<1>2. SentEnvelope /\ [Next]_vars => SentEnvelope'
  BY DEF SentEnvelope, Next, Build, RaiseValueError, vars
<1>3. SentEnvelope => EnvelopeMeansPolicy
  BY EnvelopeMeans DEF SentEnvelope, EnvelopeMeansPolicy
<1> QED
  BY <1>1, <1>2, <1>3, PTL DEF Spec
=============================================================================
