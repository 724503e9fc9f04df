---------------------------- MODULE MCVideoTask ----------------------------
(* Instances of VideoTask for TLC: every submission is paid by one token of *)
(* one account, so that tasks compete for one wallet.                       *)
EXTENDS VideoTaskRefinement, TLC

CONSTANTS u1, k1

MCUsers == {u1}
MCTokens == {k1}
MCTokenOf == [t \in Tasks |-> k1]
MCOwnerOf == [k \in MCTokens |-> u1]
NodeSymmetry == Permutations(Nodes)
\* Tasks are interchangeable too: one token pays for all of them.
RaceSymmetry == NodeSymmetry \cup Permutations(Tasks)
=============================================================================
