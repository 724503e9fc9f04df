---------------------------- MODULE MCTopupOrder ----------------------------
EXTENDS TopupOrder, TLC

CONSTANTS o1, o2, u1

MCUserOf == [o \in Orders |-> u1]
AllCrypto == [o \in Orders |-> "crypto"]
StripeAndEpay == o1 :> "stripe" @@ o2 :> "epay"
HandlerSymmetry == Permutations(Handlers)
=============================================================================
