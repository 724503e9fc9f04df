--------------------------- MODULE MCRelayBilling ---------------------------
EXTENDS RelayBilling, TLC

CONSTANTS k1, u1

MCTokenOf == [r \in Requests |-> k1]
MCOwnerOf == [k \in Tokens |-> u1]
RequestSymmetry == Permutations(Requests)

\* At most one mishap: a crash, a failed statement or a deleted token.
MCMishaps == crashes + faults + Cardinality({k \in Tokens : ~token[k].live}) <= 1
MCSpec == Init /\ [][Next /\ MCMishaps']_vars
=============================================================================
