-------------------------------- MODULE MCEpc --------------------------------
(* Small instances of the control plane for TLC. *)
EXTENDS EpcInvariants, TLC

\* The first terminal of each of the first two subnets.
MCTwoUE == {0, 252}

\* Every terminal holds the key of its row in autn_info.
MCKeys == [u \in UE |-> u]

MCRands == [u \in UE |-> 1]

ThreadSymmetry == Permutations(S11Threads) \cup Permutations(PgwThreads)
=============================================================================
