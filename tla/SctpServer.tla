----------------------------- MODULE SctpServer ------------------------------
(***************************************************************************)
(* The S1-MME transport: the multithreaded SctpServer and the SctpClient   *)
(* of each RAN thread.  A master thread accepts connections and hands them *)
(* to the worker threads in turn; from then on one worker, and only that   *)
(* worker, serves every message of the connection.  Each direction of a    *)
(* connection is a stream of whole messages in order (read_sctp_pkt reads  *)
(* a length and then exactly that many bytes).                             *)
(***************************************************************************)
EXTENDS EpcBase

VARIABLES
    s1ap_up,       \* per subscriber, messages on the way to the MME
    s1ap_dn,       \* per subscriber, messages on the way to the RAN
    backlog,       \* connections not yet accepted, in order
    turn,          \* the worker that gets the next connection
    conn_worker,   \* the worker serving each subscriber's connection
    closed         \* connections the RAN side has closed

s1apVars == <<s1ap_up, s1ap_dn>>
connVars == <<backlog, turn, conn_worker, closed>>

SctpTypeOK ==
    /\ s1ap_up \in [UE -> Seq(UpMsg)]
    /\ s1ap_dn \in [UE -> Seq(DnMsg)]
    /\ backlog \in Seq(UE)
    /\ turn \in Worker
    /\ conn_worker \in [UE -> Worker \cup {Nil}]
    /\ closed \in SUBSET UE

SctpInit ==
    /\ s1ap_up = [u \in UE |-> <<>>]
    /\ s1ap_dn = [u \in UE |-> <<>>]
    /\ backlog = <<>>
    /\ turn = 0
    /\ conn_worker = [u \in UE |-> Nil]
    /\ closed = {}

-----------------------------------------------------------------------------
\* SctpClient::conn: the connection waits in the listen queue.
Connect(u) ==
    /\ backlog' = Append(backlog, u)
    /\ UNCHANGED <<turn, conn_worker, closed>>

CloseConnection(u) ==
    /\ closed' = closed \cup {u}
    /\ UNCHANGED <<backlog, turn, conn_worker>>

\* Deviation: the turn does not wrap around.
NextTurn_NoWrap(i) == i + 1

NextTurn(i) == (i + 1) % WorkersCount

\* The master thread: connections go to the workers round-robin.
AcceptClient ==
    /\ backlog # <<>>
    /\ conn_worker' = [conn_worker EXCEPT ![Head(backlog)] = turn]
    /\ backlog' = Tail(backlog)
    /\ turn' = NextTurn(turn)
    /\ UNCHANGED closed

\* A worker reads end-of-file and drops the connection.
DropConnection(u) ==
    /\ u \in closed
    /\ s1ap_up[u] = <<>>
    /\ conn_worker' = [conn_worker EXCEPT ![u] = Nil]
    /\ UNCHANGED <<backlog, turn, closed>>
=============================================================================
