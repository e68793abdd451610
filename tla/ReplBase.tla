------------------------------- MODULE ReplBase -------------------------------
(***************************************************************************)
(* Vocabulary of the v2.0 core: MME, SGW and PGW are clusters of replicas  *)
(* behind load balancers, and the replicas of a cluster share a key-value  *)
(* store.  A subscriber's GUTI, IMSI, address and every tunnel identifier  *)
(* are functions of its number u (EpcBase), so u stands for each of them;  *)
(* 0 is an identifier never assigned, the empty address, and the IMSI that *)
(* get_imsi and get_guti return for an unknown key.                        *)
(*                                                                         *)
(* A subscriber has at most one request in the core: the simulator of the  *)
(* fault tolerance experiments blocks on each request and sleeps 4 s       *)
(* before a retry, while every receive inside the core gives up after 1 s. *)
(* The state of a request, in whichever node it is, is the record job[u].  *)
(***************************************************************************)
EXTENDS Integers, FiniteSets

CONSTANTS
    UE,               \* subscribers, positive numbers
    MmeReplica,       \* the replicas of each cluster
    SgwReplica,
    PgwReplica,
    InitVal,          \* INIT_VAL of each MME replica
    PgwHash,          \* the PGW replica that "-s sh" gives each SGW replica
    Binding,          \* UE_BINDING: how often state is synchronised
    NoCache,          \* NOCACHE: the gateways pull for every data packet
    Rep,              \* REP: state is replicated to the siblings
    ErrCodes,         \* what UdpClient::rcv, without a return statement, returns
    RetryLimitStep,   \* retries of one step
    RetryLimitFull,   \* retries before a terminal starts afresh
    Crashing,         \* the replicas that may crash
    MaxTries,         \* bound: initial attaches of one terminal
    MaxCrashes,       \* bound: crashes of replicas
    MaxRestarts,      \* bound: restarts of crashed MME replicas
    MaxLosses,        \* bound: lost datagrams
    MaxPulls,         \* bound: data packets that wait for a context
    None,             \* model value: no entry under a key
    Broken            \* model value: a connection whose replica has crashed

ASSUME ReplUEAssumption     == UE \subseteq Nat \ {0} /\ IsFiniteSet(UE)
ASSUME ReplReplicaAssumption ==
    /\ MmeReplica # {} /\ SgwReplica # {}
    /\ MmeReplica \cap SgwReplica = {}
ASSUME ReplInitAssumption   == InitVal \in [MmeReplica -> Nat]
ASSUME ReplHashAssumption   == PgwHash \in [SgwReplica -> PgwReplica]
ASSUME ReplModeAssumption   == Binding \in {"STATE_LESS", "SESSION_BASED", "UE_BASED"}
ASSUME ReplFlagAssumption   == {NoCache, Rep} \subseteq BOOLEAN
ASSUME ReplErrAssumption    == ErrCodes \subseteq Int /\ ErrCodes # {}
ASSUME ReplRetryAssumption  == RetryLimitStep \in Nat /\ RetryLimitFull \in Nat
ASSUME ReplBoundAssumption  ==
    {MaxTries, MaxCrashes, MaxRestarts, MaxLosses, MaxPulls} \subseteq Nat

AlwaysSync  == Binding = "STATE_LESS"
SessionSync == Binding \in {"STATE_LESS", "SESSION_BASED"}

\* A tunnel identifier, an IMSI, a GUTI or an address.
Teid == {0} \cup UE

\* mme_s1ap_ue_id: each replica counts from its own INIT_VAL.
UeId == UNION {InitVal[m] + 1 .. InitVal[m] + Cardinality(UE) * MaxTries : m \in MmeReplica}

Step == {"initial_attach", "authenticate", "set_security", "set_eps_session", "detach"}

-----------------------------------------------------------------------------
(* Contexts: the fields a later handler reads.                             *)

MmeContext == [imsi : Teid, id : {0} \cup UeId, xres : Teid, k_nas : Teid,
               s11_cteid_sgw : Teid, s1_uteid_dl : Teid, ecm_state : {0, 1}]

NewMmeContext == [imsi |-> 0, id |-> 0, xres |-> 0, k_nas |-> 0,
                  s11_cteid_sgw |-> 0, s1_uteid_dl |-> 0, ecm_state |-> 0]

\* s11, s1, s5: the keys s11_cteid_sgw, s1_uteid_ul and s5_uteid_dl; enodeb and
\* pgw: whether that peer's address and port are known.
SgwContext == [s11 : Teid, s1 : Teid, s5 : Teid, s1_uteid_dl : Teid, s5_cteid_ul : Teid,
               enodeb : BOOLEAN, pgw : BOOLEAN]

NewSgwContext == [s11 |-> 0, s1 |-> 0, s5 |-> 0, s1_uteid_dl |-> 0, s5_cteid_ul |-> 0,
                  enodeb |-> FALSE, pgw |-> FALSE]

\* s5 and sgi: the keys s5_uteid_ul and ip_addr.
PgwContext == [s5 : Teid, sgi : Teid, s5_uteid_dl : Teid]

NewPgwContext == [s5 |-> 0, sgi |-> 0, s5_uteid_dl |-> 0]

\* Mme_state, Sgw_state and Pgw_state: a context and whose it is.
Entry(context) == [imsi : Teid, ctx : context]

\* The value of a failed get: its context is a new one, but the constructor of
\* Sgw_state and Pgw_state leaves the imsi what the stack holds.
Missing(junk, context) == [imsi |-> junk, ctx |-> context]

-----------------------------------------------------------------------------
VARIABLES
    job,       \* the request of each subscriber, wherever it is
    losses,    \* datagrams lost so far
    exited     \* replicas that called handle_type1_error

\* at: who has the request next; m, s: the replicas that serve it; live: the
\* connection to m still stands; ctx, sess: the local context of the MME's handler,
\* local context and imsi of the SGW's; key: what the terminal computed its HMAC with; id, teid,
\* imsi, s5, ip, ok: fields of the message under way.
Job == [at : {"none", "mme", "sgw", "pgw", "sgw_answer", "mme_answer", "reply", "silent"},
        step : Step, m : MmeReplica, s : SgwReplica, live : BOOLEAN,
        ctx : MmeContext, sess : Entry(SgwContext), id : {0} \cup UeId, key : Teid,
        teid : Teid, imsi : Teid, s5 : Teid, ip : Teid, ok : BOOLEAN]

NoJob == [at |-> "none", step |-> "detach", m |-> CHOOSE m \in MmeReplica : TRUE,
          s |-> CHOOSE s \in SgwReplica : TRUE, live |-> TRUE, ctx |-> NewMmeContext,
          sess |-> Missing(0, NewSgwContext), id |-> 0, key |-> 0, teid |-> 0, imsi |-> 0, s5 |-> 0,
          ip |-> 0, ok |-> FALSE]

Busy(u) == job[u].at # "none"

At(u, at, step) == job[u].at = at /\ job[u].step = step

Pass(u, j) == job' = [job EXCEPT ![u] = j]

Exit(r) == exited' = exited \cup {r}

\* What a receive that timed out leaves: a packet of zeros.  While the SGW waits,
\* teid is a local variable of its handler.
TimedOut(j, at) ==
    [j EXCEPT !.at = at, !.teid = IF at = "sgw_answer" THEN @ ELSE 0,
              !.s5 = 0, !.ip = 0, !.ok = FALSE]

\* A datagram that carries the request on, or is lost on its way to "to" so
\* that the node "waiting" for an answer times out.
Datagram(u, j, waiting) ==
    \/ Pass(u, j) /\ UNCHANGED losses
    \/ /\ losses < MaxLosses
       /\ losses' = losses + 1
       /\ Pass(u, TimedOut(j, waiting))
=============================================================================
