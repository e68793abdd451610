------------------------------- MODULE ReplSgw -------------------------------
(***************************************************************************)
(* The SGW replicas of v2.0.  A create waits for the PGW inside the        *)
(* handler, as a detach does; a data packet whose key is not cached pulls  *)
(* the context from the store, and the table it is put into is the cache   *)
(* of the packets that follow.  A get that fails is not told from one that *)
(* succeeds: what it left is put into the tables all the same.             *)
(***************************************************************************)
EXTENDS ReplMme

VARIABLES
    sgw,          \* s11, s1, s5 (the id tables) and ctx (ue_ctx) of each replica
    sgw_store,    \* SGW11, SGW1, SGW5: TEID -> Sgw_state
    sgw_rep,      \* replication datagrams under way
    sgw_pull      \* data packets between the get and the cache update

sgwVars == <<sgw, sgw_store, sgw_rep, sgw_pull>>

Interface == {"s11", "s1", "s5"}

IdTable == [Teid -> Teid \cup {None}]

NewIdTable == [t \in Teid |-> None]

SgwState == [s11 : IdTable, s1 : IdTable, s5 : IdTable, ctx : [Teid -> SgwContext \cup {None}]]

NewSgw == [s11 |-> NewIdTable, s1 |-> NewIdTable, s5 |-> NewIdTable,
           ctx |-> [i \in Teid |-> None]]

ReplSgwTypeOK ==
    /\ sgw \in [SgwReplica -> SgwState]
    /\ sgw_store \in [Interface -> [Teid -> Entry(SgwContext) \cup {None}]]
    /\ sgw_rep \subseteq [to : SgwReplica, push : BOOLEAN, n : 0 .. MaxTries,
                          entry : Entry(SgwContext)]
    /\ sgw_pull \subseteq [s : SgwReplica, itf : {"s1", "s5"}, entry : Entry(SgwContext)]

ReplSgwInit ==
    /\ sgw = [s \in SgwReplica |-> NewSgw]
    /\ sgw_store = [i \in Interface |-> [t \in Teid |-> None]]
    /\ sgw_rep = {}
    /\ sgw_pull = {}

-----------------------------------------------------------------------------
SgwContextOf(r, imsi) == IF r.ctx[imsi] = None THEN NewSgwContext ELSE r.ctx[imsi]

SgwSetContext(r, imsi, ctx) == [r EXCEPT !.ctx[imsi] = ctx]

\* get_imsi.
SgwGetImsi(r, itf, teid) == IF r[itf][teid] = None THEN 0 ELSE r[itf][teid]

SetIds(r, ctx, s11, s1, s5) ==
    [r EXCEPT !.s11[ctx.s11] = s11, !.s1[ctx.s1] = s1, !.s5[ctx.s5] = s5]

SgwRemember(r, entry) ==
    SetIds(SgwSetContext(r, entry.imsi, entry.ctx), entry.ctx, entry.imsi, entry.imsi, entry.imsi)

SgwForget(r, imsi, ctx) == SgwSetContext(SetIds(r, ctx, None, None, None), imsi, None)

\* What a get returns: the entry, or a default state with whatever imsi.
SgwGet(itf, teid) ==
    IF sgw_store[itf][teid] = None THEN {Missing(junk, NewSgwContext) : junk \in Teid}
    ELSE {sgw_store[itf][teid]}

\* pull_data_context from the get on: the context and one id table are set.
Fill(r, itf, entry) ==
    [SgwSetContext(r, entry.imsi, entry.ctx) EXCEPT ![itf][entry.ctx[itf]] = entry.imsi]

Cached(r, itf, teid) == ~NoCache /\ r[itf][teid] # None

\* pull_data_context of a handler: the tables it may leave.
SgwPulled(r, itf, teid) ==
    IF Cached(r, itf, teid) THEN {r} ELSE {Fill(r, itf, e) : e \in SgwGet(itf, teid)}

StorePut(entry) ==
    [i \in Interface |-> [sgw_store[i] EXCEPT ![entry.ctx[i]] = entry]]

\* Deviation: erase_context leaves the entry of the S5 interface.
StoreErase_NotS5(ctx) ==
    [i \in Interface |-> IF i = "s5" THEN sgw_store[i] ELSE [sgw_store[i] EXCEPT ![ctx[i]] = None]]

StoreErase(ctx) == [i \in Interface |-> [sgw_store[i] EXCEPT ![ctx[i]] = None]]

\* Deviation: only the end of a session is replicated.
SgwReplicate_EraseOnly(u, s, push, entry) ==
    sgw_rep' = IF ~Rep \/ push THEN sgw_rep
               ELSE sgw_rep \cup {[to |-> t, push |-> push, n |-> tries[u], entry |-> entry] :
                                  t \in SgwReplica \ {s}}

SgwReplicate(u, s, push, entry) ==
    sgw_rep' = IF ~Rep THEN sgw_rep
               ELSE sgw_rep \cup {[to |-> t, push |-> push, n |-> tries[u], entry |-> entry] :
                                  t \in SgwReplica \ {s}}

SgwServing(u, at, step) ==
    /\ At(u, at, step)
    /\ job[u].s \in alive
    /\ UNCHANGED <<ranVars, alive, mmeVars, sgw_pull>>

SetSgw(u, r) == sgw' = [sgw EXCEPT ![job[u].s] = r]

\* A handler that returns without an answer: the MME times out.
SgwReturn(u, r) ==
    /\ SetSgw(u, r)
    /\ Pass(u, TimedOut(job[u], "mme_answer"))
    /\ UNCHANGED <<sgw_store, sgw_rep, losses, exited>>

\* The answer of a create or a detach.  If the SGW had to wait for a timeout of
\* its own, the MME has as a rule timed out before.
SgwReply(u, late) ==
    \/ Datagram(u, [job[u] EXCEPT !.at = "mme_answer", !.ok = TRUE], "mme_answer")
    \/ late /\ Pass(u, TimedOut(job[u], "mme_answer")) /\ UNCHANGED losses

-----------------------------------------------------------------------------
\* handle_create_session up to the receive.  init leaves the eNodeB of an old entry.
SgwCreate(u) ==
    /\ SgwServing(u, "sgw", "set_security")
    /\ LET j == job[u]
           r == sgw[j.s]
           ctx == [SgwContextOf(r, j.imsi) EXCEPT
                      !.s11 = j.teid, !.s1 = j.teid, !.s5 = j.teid, !.pgw = TRUE]
       IN  /\ SetSgw(u, SgwRemember(r, [imsi |-> j.imsi, ctx |-> ctx]))
           /\ Datagram(u, [j EXCEPT !.at = "pgw"], "sgw_answer")
    /\ UNCHANGED <<sgw_store, sgw_rep, exited>>

\* ... and from the answer of the PGW on.
SgwCreateAnswer(u) ==
    /\ SgwServing(u, "sgw_answer", "set_security")
    /\ LET j   == job[u]
           ctx == [SgwContextOf(sgw[j.s], j.imsi) EXCEPT !.s5_cteid_ul = j.s5]
       IN  /\ SetSgw(u, SgwSetContext(sgw[j.s], j.imsi, ctx))
           /\ sgw_store' = IF AlwaysSync THEN StorePut([imsi |-> j.imsi, ctx |-> ctx])
                           ELSE sgw_store
           /\ SgwReply(u, ~j.ok)
    /\ UNCHANGED <<sgw_rep, exited>>

SgwPush(entry) == IF SessionSync THEN sgw_store' = StorePut(entry) ELSE UNCHANGED sgw_store

\* Deviation: the address of the eNodeB is not kept.
WithEnodeb_Forgotten(ctx, dl) == [ctx EXCEPT !.s1_uteid_dl = dl]

WithEnodeb(ctx, dl) == [ctx EXCEPT !.s1_uteid_dl = dl, !.enodeb = TRUE]

\* handle_modify_bearer: outside UE_BASED binding the replica drops its id
\* entries, so that what comes next asks the store.
SgwModify(u) ==
    /\ SgwServing(u, "sgw", "set_eps_session")
    /\ LET j == job[u]
       IN  \E r \in IF AlwaysSync THEN SgwPulled(sgw[j.s], "s11", j.teid) ELSE {sgw[j.s]} :
              LET imsi == SgwGetImsi(r, "s11", j.teid)
                  ctx  == WithEnodeb(SgwContextOf(r, imsi), j.ctx.s1_uteid_dl)
                  new  == SgwSetContext(r, imsi, ctx)
              IN  \/ imsi = 0 /\ SgwReturn(u, r)
                  \/ /\ imsi # 0
                     /\ SetSgw(u, IF Binding = "UE_BASED" THEN new
                                  ELSE SetIds(new, ctx, None, None, None))
                     /\ SgwPush([imsi |-> imsi, ctx |-> ctx])
                     /\ SgwReplicate(u, j.s, TRUE, [imsi |-> imsi, ctx |-> ctx])
                     /\ SgwReply(u, FALSE)
                     /\ UNCHANGED exited

\* handle_detach up to the receive.  Without the PGW's address the request goes
\* nowhere.
SgwDetach(u) ==
    /\ SgwServing(u, "sgw", "detach")
    /\ LET j == job[u]
       IN  \E r \in IF SessionSync THEN SgwPulled(sgw[j.s], "s11", j.teid) ELSE {sgw[j.s]} :
              LET imsi == SgwGetImsi(r, "s11", j.teid)
                  ctx  == SgwContextOf(r, imsi)
                  req  == [j EXCEPT !.sess = [imsi |-> imsi, ctx |-> ctx],
                                    !.s5 = ctx.s5_cteid_ul, !.at = "pgw"]
              IN  \/ imsi = 0 /\ SgwReturn(u, r)
                  \/ /\ imsi # 0 /\ r.ctx[imsi] = None
                     /\ SetSgw(u, r)
                     /\ Exit(j.s)
                     /\ Pass(u, TimedOut(j, "mme_answer"))
                     /\ UNCHANGED <<sgw_store, sgw_rep, losses>>
                  \/ /\ imsi # 0 /\ r.ctx[imsi] # None
                     /\ SetSgw(u, r)
                     /\ IF ctx.pgw THEN Datagram(u, req, "sgw_answer")
                        ELSE Pass(u, TimedOut(req, "sgw_answer")) /\ UNCHANGED losses
                     /\ UNCHANGED <<sgw_store, sgw_rep, exited>>

\* ... and from the answer of the PGW on, with the locals of the first half.
SgwDetachAnswer(u) ==
    /\ SgwServing(u, "sgw_answer", "detach")
    /\ LET j == job[u]
       IN  \/ ~j.ok /\ SgwReturn(u, sgw[j.s])
           \/ /\ j.ok
              /\ SetSgw(u, SgwForget(sgw[j.s], j.sess.imsi, j.sess.ctx))
              /\ sgw_store' = IF SessionSync THEN StoreErase(j.sess.ctx) ELSE sgw_store
              /\ SgwReplicate(u, j.s, FALSE, j.sess)
              /\ SgwReply(u, FALSE)
              /\ UNCHANGED exited

\* A dead replica works on nothing: the MME times out.
SgwGone(u) ==
    /\ job[u].at \in {"sgw", "sgw_answer"}
    /\ job[u].s \notin alive
    /\ Pass(u, TimedOut(job[u], "mme_answer"))
    /\ UNCHANGED <<ranVars, alive, mmeVars, sgwVars, losses, exited>>

-----------------------------------------------------------------------------
\* A terminal whose packets may come.
Active(u) == ran_pc[u] = "detach" /\ ~Busy(u)

\* handle_uplink_udata and handle_downlink_udata, as far as they change state: a
\* packet for a TEID that is not cached gets the context ...
SgwFetch(s, u) ==
    /\ s \in alive
    /\ Active(u)
    /\ SessionSync
    /\ Cardinality(sgw_pull) < MaxPulls
    /\ \E itf \in {"s1", "s5"} :
          /\ ~Cached(sgw[s], itf, u)
          /\ \E e \in SgwGet(itf, u) :
                sgw_pull' = sgw_pull \cup {[s |-> s, itf |-> itf, entry |-> e]}
    /\ UNCHANGED <<ranVars, alive, mmeVars, sgw, sgw_store, sgw_rep, job, losses, exited>>

\* ... and puts it into the tables.
SgwFill ==
    /\ \E p \in sgw_pull :
          /\ p.s \in alive
          /\ sgw' = [sgw EXCEPT ![p.s] = Fill(@, p.itf, p.entry)]
          /\ sgw_pull' = sgw_pull \ {p}
    /\ UNCHANGED <<ranVars, alive, mmeVars, sgw_store, sgw_rep, job, losses, exited>>

\* receive_replication.
SgwReceiveReplication ==
    /\ \E p \in sgw_rep :
          /\ p.to \in alive
          /\ sgw' = [sgw EXCEPT ![p.to] = IF p.push THEN SgwRemember(@, p.entry)
                                          ELSE SgwForget(@, p.entry.imsi, p.entry.ctx)]
          /\ sgw_rep' = sgw_rep \ {p}
    /\ UNCHANGED <<ranVars, alive, mmeVars, sgw_store, sgw_pull, job, losses, exited>>

SgwCrash(s) ==
    /\ s \in alive \cap Crashing
    /\ alive \cap SgwReplica # {s}
    /\ Cardinality(Replica \ alive) < MaxCrashes
    /\ alive' = alive \ {s}
    /\ UNCHANGED <<ranVars, mmeVars, sgwVars, job, losses, exited>>

SgwStep(u) ==
    \/ SgwCreate(u) \/ SgwCreateAnswer(u) \/ SgwModify(u)
    \/ SgwDetach(u) \/ SgwDetachAnswer(u) \/ SgwGone(u)
=============================================================================
