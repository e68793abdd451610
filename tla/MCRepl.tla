-------------------------------- MODULE MCRepl --------------------------------
(* Small instances of the replicated core for TLC. *)
EXTENDS Repl

CONSTANTS m1, m2, s1, s2, p1, p2

MCReplicas == {m1, m2}

\* INIT_VAL of two replicas, far enough apart for the bounds.
MCInitVal == [m \in MmeReplica |-> IF m = m1 THEN 0 ELSE 10]

MCPgwHash == [s \in SgwReplica |-> IF s = s2 /\ p2 \in PgwReplica THEN p2 ELSE p1]

\* What UdpClient::rcv returns, which has no return statement.
MCNoErr == {0}

\* Any MME or SGW replica may crash.
MCAll == MmeReplica \cup SgwReplica
=============================================================================
