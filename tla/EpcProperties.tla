---------------------------- MODULE EpcProperties ----------------------------
(***************************************************************************)
(* What the control plane must guarantee, across its components.           *)
(***************************************************************************)
EXTENDS Epc

\* No assertion of the program fails: no process ever calls
\* handle_type1_error because of a zero GUTI or IMSI, a missing UE context, an
\* unknown peer address or a missing HMAC.
NoExit == exited = {}

-----------------------------------------------------------------------------
(* The data path.                                                          *)

Attached(u) == ran_pc[u] = "transfer"

\* Uplink: the TEID the terminal sends with leads through s1_id to its own SGW
\* context, which knows the PGW; the session's control TEID leads on to its
\* entry in the PGW's s5_id.
UplinkConnected(u) ==
    /\ sgw_id[1][ran_ctx[u].s1_uteid_ul] = u
    /\ sgw_ctx[u] # Nil
    /\ sgw_ctx[u].pgw
    /\ pgw_s5_id[sgw_ctx[u].s5_cteid_ul] = u

\* Downlink: the terminal's address leads through sgi_id to its PGW context,
\* that TEID through s5_id to its SGW context.
DownlinkConnected(u) ==
    /\ pgw_sgi_id[ran_ctx[u].ip_addr] = u
    /\ pgw_ctx[u] # Nil
    /\ sgw_id[5][pgw_ctx[u].s5_uteid_dl] = u
    /\ sgw_ctx[u].enodeb => sgw_ctx[u].s1_uteid_dl = ran_ctx[u].s1_uteid_dl

\* While a terminal transfers data, both directions of its bearer are
\* connected through the tables of SGW and PGW, for that terminal and no other.
BearerConnected == \A u \in UE : Attached(u) => UplinkConnected(u) /\ DownlinkConnected(u)

\* The terminal and the network have derived the same NAS key from the same
\* authentication vector.  Nothing in the program checks it: the keys do not
\* enter the HMACs.
KeysAgree == \A u \in UE : Attached(u) =>
    mme_ctx[u] # Nil /\ mme_ctx[u].k_nas = ran_ctx[u].k_nas /\ mme_ctx[u].k_asme = ran_ctx[u].k_asme

\* A subscriber whose key differs from the HSS's never gets a session: only
\* terminals that authenticated reach the gateways.
OnlyAuthenticated ==
    \A u \in UE : HssKey[u] # RanKey(u) => sgw_ctx[u] = Nil /\ pgw_ctx[u] = Nil

-----------------------------------------------------------------------------
(* Matching of requests and answers.  No receiver looks at a message type. *)

ExpectedType == [authenticate |-> "autn_request", set_security |-> "security_command",
                 set_eps_session |-> "attach_accept", detach |-> "detach_complete"]

\* What a RAN thread reads is what it waits for: at most one message is queued
\* for it, of the type its blocking call parses.
RanReadsExpected ==
    \A u \in UE : s1ap_dn[u] # <<>> =>
        /\ Len(s1ap_dn[u]) = 1
        /\ ran_pc[u] \in DOMAIN ExpectedType
        /\ Head(s1ap_dn[u]).type = ExpectedType[ran_pc[u]]

\* A blocked call gets the answer to its own request: every answer in flight is
\* addressed to a thread that waits for an answer of just that type.
AnswersMatch ==
    /\ \A m \in s11_rsp : mme_pc[m.w] = m.type
    /\ \A m \in s5_rsp : sgw_pc[m.t] = m.type
    /\ \A m \in s6a_rsp : mme_pc[m.w] = "autn_info"

\* A session's answer names tunnels that the SGW has entered for the very
\* subscriber the worker is serving.
SessionsMatch ==
    \A m \in s11_rsp : m.type = "create" =>
        /\ sgw_id[11][m.s11] = mme_job[m.w].guti
        /\ sgw_id[1][m.ul] = mme_job[m.w].guti

-----------------------------------------------------------------------------
(* Tables.                                                                 *)

Entries(table, u) == {x \in DOMAIN table : table[x] = u}

\* The tables of a gateway agree: a subscriber that no thread of it is working
\* on has either a context and exactly one entry per table, or nothing.
SgwConsistent ==
    \A u \in UE : (\A t \in S11Threads : sgw_job[t].imsi # u) =>
        IF sgw_ctx[u] = Nil THEN \A i \in Itf : Entries(sgw_id[i], u) = {}
        ELSE \A i \in Itf : Cardinality(Entries(sgw_id[i], u)) = 1

PgwConsistent ==
    \A u \in UE : (\A p \in PgwThreads : pgw_job[p].imsi # u) =>
        IF pgw_ctx[u] = Nil THEN Entries(pgw_s5_id, u) = {} /\ Entries(pgw_sgi_id, u) = {}
        ELSE /\ Cardinality(Entries(pgw_s5_id, u)) = 1
             /\ Cardinality(Entries(pgw_sgi_id, u)) = 1

Busy(u) ==
    \/ ran_pc[u] \notin {"connect", "loop", "done"}
    \/ s1ap_up[u] # <<>>
    \/ \E w \in Worker : mme_job[w].conn = u
    \/ \E t \in S11Threads : sgw_job[t].imsi = u
    \/ \E p \in PgwThreads : pgw_job[p].imsi = u

\* A terminal that has detached leaves nothing behind in any node.
NoResidue ==
    \A u \in UE : ~Busy(u) =>
        /\ Entries(s1mme_id, u) = {} /\ mme_ctx[u] = Nil
        /\ sgw_ctx[u] = Nil /\ \A i \in Itf : Entries(sgw_id[i], u) = {}
        /\ pgw_ctx[u] = Nil /\ Entries(pgw_s5_id, u) = {} /\ Entries(pgw_sgi_id, u) = {}

\* However two gateway threads interleave on two subscribers, neither disturbs
\* what the other's subscriber relies on: no node ends itself, bearers and answers
\* are the right ones, tables agree and nothing stays behind.
NoInterference ==
    /\ NoExit
    /\ BearerConnected
    /\ RanReadsExpected
    /\ SessionsMatch
    /\ SgwConsistent
    /\ PgwConsistent
    /\ NoResidue

-----------------------------------------------------------------------------
(* Refinement.                                                             *)

Phase(u) == CASE ran_pc[u] \in {"connect", "loop", "done"} -> "idle"
              [] ran_pc[u] \in {"authenticate", "set_security", "set_eps_session"} -> "attaching"
              [] ran_pc[u] = "transfer" -> "attached"
              [] ran_pc[u] = "detach" -> "releasing"
              [] ran_pc[u] = "failed" -> "rejected"

\* A node serves a subscriber when all its entries for it are in place.
Serving(u) ==
    {n \in {"mme", "sgw", "pgw"} :
        \/ n = "mme" /\ mme_ctx[u] # Nil
        \/ n = "sgw" /\ sgw_ctx[u] # Nil /\ \A i \in Itf : Entries(sgw_id[i], u) # {}
        \/ n = "pgw" /\ pgw_ctx[u] # Nil /\ Entries(pgw_s5_id, u) # {}
                     /\ Entries(pgw_sgi_id, u) # {}}

Bearer == INSTANCE EpsBearer WITH phase <- [u \in UE |-> Phase(u)],
                                  nodes <- [u \in UE |-> Serving(u)]

\* The control plane implements the service: in particular no late removal by
\* an earlier detach ever hits a bearer that has been set up again.
ImplementsBearer == Bearer!BearerSpec
=============================================================================
