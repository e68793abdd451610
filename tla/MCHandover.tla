------------------------------ MODULE MCHandover ------------------------------
(* A small instance of the handover for TLC. *)
EXTENDS Handover, TLC

\* ranS and ranT, and the first terminals of each of the first two subnets.
MCTerminals == {0, 1, 2, 252}

\* Terminal 252 holds another key than its row.
MCWrongKey == [u \in UE |-> IF u = 252 THEN u + 1 ELSE u]

MCRands == [u \in UE |-> 1]
=============================================================================
