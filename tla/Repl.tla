--------------------------------- MODULE Repl ---------------------------------
(***************************************************************************)
(* The v2.0 core: the clusters, their stores and replication channels, the *)
(* terminals, and the faults of the fault tolerance experiments.           *)
(***************************************************************************)
EXTENDS ReplPgw

vars == <<job, losses, exited, ranVars, alive, mmeVars, sgwVars, pgwVars>>

Init ==
    /\ job = [u \in UE |-> NoJob]
    /\ losses = 0
    /\ exited = {}
    /\ RanInit
    /\ ReplMmeInit
    /\ ReplSgwInit
    /\ ReplPgwInit

TypeOK ==
    /\ job \in [UE -> Job]
    /\ losses \in 0 .. MaxLosses
    /\ exited \subseteq Replica
    /\ RanTypeOK
    /\ ReplMmeTypeOK
    /\ ReplSgwTypeOK
    /\ ReplPgwTypeOK

\* What the terminals and the nodes do on their own.
Serve(u) ==
    \/ RanStep(u) /\ UNCHANGED <<mmeVars, sgwVars, pgwVars>>
    \/ MmeStep(u) /\ UNCHANGED <<sgwVars, pgwVars>>
    \/ /\ \E s \in SgwReplica, step \in {"set_security", "set_eps_session", "detach"} :
             MmeAsk(u, step, s)
       /\ UNCHANGED <<sgwVars, pgwVars>>
    \/ SgwStep(u) /\ UNCHANGED pgwVars
    \/ PgwStep(u)

Synchronise ==
    \/ MmeReceiveReplication /\ UNCHANGED <<sgwVars, pgwVars>>
    \/ SgwReceiveReplication /\ UNCHANGED pgwVars
    \/ PgwReceiveReplication

Forward ==
    \/ (\E s \in SgwReplica, u \in UE : SgwFetch(s, u)) /\ UNCHANGED pgwVars
    \/ SgwFill /\ UNCHANGED pgwVars
    \/ \E p \in PgwReplica, u \in UE : PgwFetch(p, u)
    \/ PgwFillStep

Fault ==
    \/ (\E m \in MmeReplica : MmeCrash(m) \/ MmeRestart(m)) /\ UNCHANGED <<sgwVars, pgwVars>>
    \/ (\E s \in SgwReplica : SgwCrash(s)) /\ UNCHANGED pgwVars

\* The runs of the terminals are over, or a replica has ended itself: what the
\* others would do after that is not modelled.
Done == exited # {} \/ \A u \in UE : ran_pc[u] = "done"

Next ==
    \/ exited = {} /\ ((\E u \in UE : Serve(u)) \/ Synchronise \/ Forward \/ Fault)
    \/ Done /\ UNCHANGED vars

Spec == Init /\ [][Next]_vars

\* Every node goes on serving and delivering; faults and data packets may stop.
Fairness ==
    /\ \A u \in UE : WF_vars(exited = {} /\ Serve(u))
    /\ WF_vars(exited = {} /\ Synchronise)

LiveSpec == Spec /\ Fairness

-----------------------------------------------------------------------------
(* What the replicated core owes its subscribers.                          *)

\* At most a replica of the MME has failed, which is what the retries are for.
OnlyMmeFailed == losses = 0 /\ restarts = 0 /\ SgwReplica \subseteq alive

\* No replica ends itself over a request (handle_type1_error on an unknown imsi,
\* a missing context or a wrong HMAC), whatever replica the request or its retry
\* lands on, as long as only an MME replica has crashed.
NoExit == OnlyMmeFailed => exited = {}

\* An mme_s1ap_ue_id that a terminal holds leads to that terminal in every replica
\* that knows it and in the store: the ranges from INIT_VAL keep the replicas'
\* ids apart, and pulls and pushes never mix two subscribers up.
IdLeadsHome ==
    \A u \in UE :
        LET id == ran_ctx[u].id
        IN  id # 0 /\ ran_pc[u] \in Step \ {"initial_attach"} =>
                /\ \A m \in MmeReplica : mme[m].ids[id] \in {0, u}
                /\ mme_store[id] # None => mme_store[id].imsi = u

-----------------------------------------------------------------------------
\* The stores hold what any replica needs to serve a step of u.
MmeStoreHolds(u, id, step) ==
    /\ mme_store[id] # None
    /\ mme_store[id].imsi = u
    /\ LET ctx == mme_store[id].ctx
       IN  /\ ctx.id = id
           /\ step \in {"authenticate", "set_security", "set_eps_session", "detach"} => ctx.xres = u
           /\ step \in {"set_security", "set_eps_session", "detach"} => ctx.k_nas = u
           /\ step \in {"set_eps_session", "detach"} => ctx.s11_cteid_sgw = u

SgwStoreHolds(u, enodeb) ==
    \A i \in Interface :
        /\ sgw_store[i][u] # None
        /\ sgw_store[i][u].imsi = u
        /\ LET ctx == sgw_store[i][u].ctx
           IN  /\ <<ctx.s11, ctx.s1, ctx.s5, ctx.s5_cteid_ul, ctx.pgw>> = <<u, u, u, u, TRUE>>
               /\ enodeb => ctx.enodeb /\ ctx.s1_uteid_dl = u

PgwStoreHolds(u) ==
    \A i \in PgwInterface :
        /\ pgw_store[i][u] # None
        /\ pgw_store[i][u] = [imsi |-> u, ctx |-> [s5 |-> u, sgi |-> u, s5_uteid_dl |-> u]]

StoreSuffices(u, id, step) ==
    /\ MmeStoreHolds(u, id, step)
    /\ step \in {"set_eps_session", "detach"} => SgwStoreHolds(u, step = "detach")
    /\ step \in {"set_eps_session", "detach"} => PgwStoreHolds(u)

Following == [initial_attach |-> "authenticate", authenticate |-> "set_security",
              set_security |-> "set_eps_session", set_eps_session |-> "detach"]

\* What an answer promises is in the stores when the answer leaves the MME: with
\* STATE_LESS binding after every step, with SESSION_BASED after an attach, the
\* next request finds all it needs, whatever replicas it reaches.  (After a lost
\* datagram the MME answers and stores a session of zeros.)
AnsweredIsStored ==
    OnlyMmeFailed => \A u \in UE :
        (/\ job[u].at = "reply"
         /\ job[u].step # "detach"
         /\ \/ AlwaysSync /\ (job[u].step = "set_eps_session" => job[u].ok)
            \/ SessionSync /\ job[u].step = "set_eps_session" /\ job[u].ok)
        => StoreSuffices(u, job[u].id, Following[job[u].step])

\* When a detach is answered, the gateways' stores hold nothing of the subscriber.
NoGatewayResidue ==
    SessionSync /\ OnlyMmeFailed =>
        \A u \in UE :
            At(u, "reply", "detach") =>
                /\ \A i \in Interface : sgw_store[i][u] = None
                /\ \A i \in PgwInterface : pgw_store[i][u] = None

\* Every step is served, whichever replicas it reaches and whatever MME replica
\* crashes meanwhile: no replica ends itself, what is answered is stored, and a
\* detach leaves nothing in the gateways' stores.
RequestsServed == NoExit /\ AnsweredIsStored /\ NoGatewayResidue

-----------------------------------------------------------------------------
\* The attach was completed and answered, and the terminal has not left yet.
Registered(u) ==
    /\ ran_pc[u] = "detach"
    /\ ~Busy(u)
    /\ ctr[u] = 0
    /\ mme_store[ran_ctx[u].id] # None
    /\ mme_store[ran_ctx[u].id].ctx.ecm_state = 1

\* Replica s forwards a downlink (uplink) packet of u: from its cache or, if that
\* has no entry, from the store.
SgwDownlink(s, u) ==
    \A r \in SgwPulled(sgw[s], "s5", u) :
        LET imsi == SgwGetImsi(r, "s5", u)
        IN  imsi = u /\ r.ctx[imsi] # None /\ r.ctx[imsi].enodeb /\ r.ctx[imsi].s1_uteid_dl = u

SgwUplink(s, u) ==
    \A r \in SgwPulled(sgw[s], "s1", u) :
        SgwGetImsi(r, "s1", u) = u /\ r.ctx[u] # None

PgwDownlink(p, u) ==
    \A r \in IF PgwCached(pgw[p], u) THEN {pgw[p]}
             ELSE {PgwFill(pgw[p], u, e) : e \in PgwGet("sgi", u)} :
        r.sgi[u] = u /\ r.ctx[u] # None /\ r.ctx[u].s5_uteid_dl = u

\* A registered subscriber's packets are forwarded by whatever replicas they
\* reach: caches that were filled before, by whom and when, do not hide the store.
Forwarded ==
    SessionSync =>
        \A u \in UE : Registered(u) =>
            /\ \A s \in SgwReplica \cap alive : SgwDownlink(s, u) /\ SgwUplink(s, u)
            /\ \A p \in PgwReplica \cap alive : PgwDownlink(p, u)

\* Two terminals whose steps spread over all replicas are both served, and reached
\* afterwards.
BothServed == RequestsServed /\ Forwarded

-----------------------------------------------------------------------------
\* With replication, once its datagrams have arrived, every sibling of the MME
\* replica that completed an attach can serve the detach, and every SGW and PGW
\* replica it may reach knows the session.
SiblingsTakeOver ==
    Rep /\ mme_rep = {} /\ sgw_rep = {} /\ pgw_rep = {} =>
        \A u \in UE :
            (/\ ran_pc[u] = "detach" /\ ~Busy(u) /\ ctr[u] = 0
             /\ \E m \in MmeReplica : mme[m].ctx[u] # None /\ mme[m].ctx[u].ecm_state = 1)
            => /\ \A m \in MmeReplica \cap alive :
                      /\ mme[m].ids[ran_ctx[u].id] = u
                      /\ mme[m].ctx[u] # None
                      /\ mme[m].ctx[u].k_nas = u
                      /\ mme[m].ctx[u].s11_cteid_sgw = u
               /\ \A s \in SgwReplica :
                      sgw[s].s11[u] = u /\ sgw[s].ctx[u] # None /\ sgw[s].ctx[u].s5_cteid_ul = u
               /\ \A p \in PgwReplica : pgw[p].s5[u] = u

\* In spite of the crash of an MME replica each terminal completes a round: retries
\* of a step, of an attach, or a fresh start get it through attach and detach.
Recovers == \A u \in UE : <>(At(u, "reply", "detach") \/ ~OnlyMmeFailed)

\* Whatever crashes, is lost or restarted, no request and no retry goes on for
\* ever: the terminals' runs end, or a replica has ended itself.
RunsEnd == <>Done
=============================================================================
