---------------------------- MODULE MCRedemption ----------------------------
EXTENDS Redemption, TLC

CONSTANTS admin, u1

MCCreatorOf == [k \in Codes |-> admin]
HandlerSymmetry == Permutations(Handlers)
=============================================================================
