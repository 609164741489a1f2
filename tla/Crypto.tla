------------------------------- MODULE Crypto -------------------------------
(***************************************************************************)
(* The signatures of the crypto suite.  An ECDSA signature is a pair of r  *)
(* and s, and whoever has (r, s) has (r, order - s) too; the suite signs   *)
(* with the lower of the two, and takes only that one for a signature, as  *)
(* the peers and the orderers do.                                          *)
(***************************************************************************)
EXTENDS Naturals

CONSTANT Order    \* the order of the curve, a prime

ASSUME CryptoAssumption == Order \in Nat /\ Order > 2 /\ Order % 2 = 1

HalfOrder == Order \div 2

\* The values of s an ECDSA signer may come up with.
Scalars == 1..(Order - 1)

\* Mutant: s is compared with the order, not with half of it.
PreventMalleabilityHigh(s) == IF s > Order THEN Order - s ELSE s

PreventMalleability(s) == IF s > HalfOrder THEN Order - s ELSE s

CheckMalleability(s) == ~(s > HalfOrder)

\* A signature is its signer's over the message, with either s.
EcdsaSign(key, message, s) == [by |-> key, over |-> message, s |-> s]

EcdsaVerify(key, message, signature) ==
    signature.by = key /\ signature.over = message

Sign(key, message, s) ==
    LET signer == EcdsaSign(key, message, s)
    IN  [signer EXCEPT !.s = PreventMalleability(@)]

Verify(key, message, signature) ==
    /\ CheckMalleability(signature.s)
    /\ EcdsaVerify(key, message, signature)
=============================================================================
