------------------------------- MODULE ReplPgw -------------------------------
(***************************************************************************)
(* The PGW replicas of v2.0.  No handler waits.  A detach with a shared    *)
(* store works on what it pulls alone and leaves the tables of its replica *)
(* as they are.  A downlink packet whose address is not cached pulls, and  *)
(* what it got is cached, the imsi of a failed get included.               *)
(***************************************************************************)
EXTENDS ReplSgw

VARIABLES
    pgw,          \* s5 and sgi (the id tables) and ctx (ue_ctx) of each replica
    pgw_store,    \* S5_ID, SGI_ID: key -> Pgw_state
    pgw_rep,      \* replication datagrams under way
    pgw_pull      \* data packets between the get and the cache update

pgwVars == <<pgw, pgw_store, pgw_rep, pgw_pull>>

PgwInterface == {"s5", "sgi"}

PgwState == [s5 : IdTable, sgi : IdTable, ctx : [Teid -> PgwContext \cup {None}]]

NewPgw == [s5 |-> NewIdTable, sgi |-> NewIdTable, ctx |-> [i \in Teid |-> None]]

ReplPgwTypeOK ==
    /\ pgw \in [PgwReplica -> PgwState]
    /\ pgw_store \in [PgwInterface -> [Teid -> Entry(PgwContext) \cup {None}]]
    /\ pgw_rep \subseteq [to : PgwReplica, push : BOOLEAN, n : 0 .. MaxTries,
                          entry : Entry(PgwContext)]
    /\ pgw_pull \subseteq [p : PgwReplica, ip : UE, entry : Entry(PgwContext)]

ReplPgwInit ==
    /\ pgw = [p \in PgwReplica |-> NewPgw]
    /\ pgw_store = [i \in PgwInterface |-> [t \in Teid |-> None]]
    /\ pgw_rep = {}
    /\ pgw_pull = {}

-----------------------------------------------------------------------------
PgwContextOf(r, imsi) == IF r.ctx[imsi] = None THEN NewPgwContext ELSE r.ctx[imsi]

PgwRemember(r, e) ==
    [r EXCEPT !.s5[e.ctx.s5] = e.imsi, !.sgi[e.ctx.sgi] = e.imsi, !.ctx[e.imsi] = e.ctx]

PgwForget(r, e) ==
    [r EXCEPT !.s5[e.ctx.s5] = None, !.sgi[e.ctx.sgi] = None, !.ctx[e.imsi] = None]

PgwGet(itf, key) ==
    IF pgw_store[itf][key] = None THEN {Missing(junk, NewPgwContext) : junk \in Teid}
    ELSE {pgw_store[itf][key]}

\* pull_data_context from the get on.
PgwFill(r, ip, e) == [r EXCEPT !.ctx[e.imsi] = e.ctx, !.sgi[ip] = e.imsi]

PgwCached(r, ip) == ~NoCache /\ r.sgi[ip] # None

PgwReplicate(u, p, push, e) ==
    pgw_rep' = IF ~Rep THEN pgw_rep
               ELSE pgw_rep \cup {[to |-> q, push |-> push, n |-> tries[u], entry |-> e] :
                                  q \in PgwReplica \ {p}}

\* The load balancer of the PGW cluster: round robin, or with UE_BASED binding by
\* the address of the SGW replica.
PgwServing(u, p, step) ==
    /\ At(u, "pgw", step)
    /\ p \in alive
    /\ SessionSync \/ p = PgwHash[job[u].s]
    /\ UNCHANGED <<ranVars, alive, mmeVars, sgwVars, pgw_pull>>

PgwStorePut(e) == [pgw_store EXCEPT !["s5"][e.ctx.s5] = e, !["sgi"][e.ctx.sgi] = e]

\* Deviation: erase_context leaves the entry of the address.
PgwStoreErase_NotSgi(e) == [pgw_store EXCEPT !["s5"][e.ctx.s5] = None]

PgwStoreErase(e) == [pgw_store EXCEPT !["s5"][e.ctx.s5] = None, !["sgi"][e.ctx.sgi] = None]

\* handle_create_session at the replica that the load balancer picks; the
\* address is that of ip_addrs[imsi].
PgwCreate(u, p) ==
    /\ PgwServing(u, p, "set_security")
    /\ LET j == job[u]
           e == [imsi |-> j.imsi,
                 ctx  |-> [s5 |-> j.teid, sgi |-> j.imsi, s5_uteid_dl |-> j.teid]]
       IN  /\ pgw' = [pgw EXCEPT ![p] = PgwRemember(@, e)]
           /\ pgw_store' = IF SessionSync THEN PgwStorePut(e) ELSE pgw_store
           /\ PgwReplicate(u, p, TRUE, e)
           /\ Datagram(u, [j EXCEPT !.at = "sgw_answer", !.s5 = j.teid, !.ip = j.imsi,
                                    !.ok = TRUE], "sgw_answer")
    /\ UNCHANGED exited

\* What a detach finds: in the store, or in the tables of the replica.
PgwFound(p, teid) ==
    IF SessionSync THEN PgwGet("s5", teid)
    ELSE LET imsi == IF pgw[p].s5[teid] = None THEN 0 ELSE pgw[p].s5[teid]
         IN  {[imsi |-> imsi, ctx |-> PgwContextOf(pgw[p], imsi)]}

\* handle_detach; without a store its ue_ctx[imsi] makes an entry.
PgwDetach(u, p) ==
    /\ PgwServing(u, p, "detach")
    /\ \E e \in PgwFound(p, job[u].s5) :
          /\ pgw' = IF SessionSync THEN pgw ELSE [pgw EXCEPT ![p].ctx[e.imsi] = e.ctx]
          /\ \/ /\ e.imsi = 0
                /\ Exit(p)
                /\ Pass(u, TimedOut(job[u], "sgw_answer"))
                /\ UNCHANGED <<pgw_store, pgw_rep, losses>>
             \/ /\ e.imsi # 0
                /\ pgw_store' = IF SessionSync THEN PgwStoreErase(e) ELSE pgw_store
                /\ PgwReplicate(u, p, FALSE, e)
                /\ Datagram(u, [job[u] EXCEPT !.at = "sgw_answer", !.ok = TRUE], "sgw_answer")
                /\ UNCHANGED exited

-----------------------------------------------------------------------------
\* handle_downlink_udata, as far as it changes state.
PgwFetch(p, u) ==
    /\ p \in alive
    /\ Active(u)
    /\ SessionSync
    /\ Cardinality(pgw_pull) < MaxPulls
    /\ ~PgwCached(pgw[p], u)
    /\ \E e \in PgwGet("sgi", u) : pgw_pull' = pgw_pull \cup {[p |-> p, ip |-> u, entry |-> e]}
    /\ UNCHANGED <<ranVars, alive, mmeVars, sgwVars, pgw, pgw_store, pgw_rep, job, losses, exited>>

PgwFillStep ==
    /\ \E q \in pgw_pull :
          /\ q.p \in alive
          /\ pgw' = [pgw EXCEPT ![q.p] = PgwFill(@, q.ip, q.entry)]
          /\ pgw_pull' = pgw_pull \ {q}
    /\ UNCHANGED <<ranVars, alive, mmeVars, sgwVars, pgw_store, pgw_rep, job, losses, exited>>

\* receive_replication.
PgwReceiveReplication ==
    /\ \E q \in pgw_rep :
          /\ q.to \in alive
          /\ pgw' = [pgw EXCEPT ![q.to] = IF q.push THEN PgwRemember(@, q.entry)
                                          ELSE PgwForget(@, q.entry)]
          /\ pgw_rep' = pgw_rep \ {q}
    /\ UNCHANGED <<ranVars, alive, mmeVars, sgwVars, pgw_store, pgw_pull, job, losses, exited>>

PgwStep(u) == \E p \in PgwReplica : PgwCreate(u, p) \/ PgwDetach(u, p)
=============================================================================
