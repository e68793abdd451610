-------------------------------- MODULE MCMkb --------------------------------
(* An instance of the multicore nodes.                                     *)
EXTENDS Mkb, TLC

MCTerminals == {1, 2}

\* The first terminal comes back once.
MCRounds == [u \in MCTerminals |-> IF u = 1 THEN 2 ELSE 1]

CoreSymmetry == Permutations(MmeCore) \cup Permutations(SgwCore) \cup Permutations(PgwCore)
=============================================================================
