------------------------------- MODULE ReplMme -------------------------------
(***************************************************************************)
(* The MME replicas of v2.0.  With STATE_LESS binding every handler pulls  *)
(* the context from the store and pushes it before it answers; with        *)
(* SESSION_BASED only the end of an attach pushes and only a detach pulls. *)
(* A handler is cut where it waits for the SGW; between two cuts it works  *)
(* on entries of the subscriber it serves, and the HSS answers in time.    *)
(***************************************************************************)
EXTENDS ReplRan

VARIABLES
    mme,          \* count, ids (s1mme_id) and ctx (ue_ctx) of each replica
    mme_store,    \* ds_mme_state: mme_s1ap_ue_id -> Mme_state
    mme_rep,      \* replication datagrams under way
    flow,         \* the SGW replica behind each socket: of a replica, for a TEID
    restarts      \* restarts so far

mmeVars == <<mme, mme_store, mme_rep, flow, restarts>>

MmeState == [count : Nat, ids : [UeId -> Teid], ctx : [Teid -> MmeContext \cup {None}]]

\* Deviation: every replica counts from the same value.
InitialCount_Shared(m) == InitVal[CHOOSE n \in MmeReplica : TRUE]

InitialCount(m) == InitVal[m]

\* A replica that has just started.
NewMme(m) == [count |-> InitialCount(m), ids |-> [i \in UeId |-> 0],
              ctx |-> [g \in Teid |-> None]]

ReplMmeTypeOK ==
    /\ mme \in [MmeReplica -> MmeState]
    /\ mme_store \in [UeId -> Entry(MmeContext) \cup {None}]
    /\ mme_rep \subseteq [to : MmeReplica, push : BOOLEAN, id : UeId, n : 0 .. MaxTries,
                          entry : Entry(MmeContext)]
    /\ flow \in [MmeReplica -> [UE -> SgwReplica \cup {None}]]
    /\ restarts \in 0 .. MaxRestarts

ReplMmeInit ==
    /\ mme = [m \in MmeReplica |-> NewMme(m)]
    /\ mme_store = [i \in UeId |-> None]
    /\ mme_rep = {}
    /\ flow = [m \in MmeReplica |-> [u \in UE |-> None]]
    /\ restarts = 0

-----------------------------------------------------------------------------
\* ue_ctx[guti] as operator[] reads it.
ContextOf(r, guti) == IF r.ctx[guti] = None THEN NewMmeContext ELSE r.ctx[guti]

SetContext(r, guti, ctx) == [r EXCEPT !.ctx[guti] = ctx]

\* rem_itfid and rem_uectx.
Forget(r, id, guti) == [r EXCEPT !.ids[id] = 0, !.ctx[guti] = None]

Remember(r, id, entry) == [r EXCEPT !.ids[id] = entry.imsi, !.ctx[entry.imsi] = entry.ctx]

\* pull_context: the tables of replica r after it.
Pulled(r, id) == IF mme_store[id] = None THEN r ELSE Remember(r, id, mme_store[id])

\* push_context: the key is the id in the context.
PushContext(guti, ctx) ==
    mme_store' = [mme_store EXCEPT ![ctx.id] = [imsi |-> guti, ctx |-> ctx]]

\* Deviation: a context is pushed only once the attach is complete.
PushIfAlwaysSync_Late(guti, ctx) == UNCHANGED mme_store

PushIfAlwaysSync(guti, ctx) ==
    IF AlwaysSync THEN PushContext(guti, ctx) ELSE UNCHANGED mme_store

\* send_replication: one datagram to every sibling.
Replicate(u, m, push, id, guti, ctx) ==
    mme_rep' = IF ~Rep THEN mme_rep
               ELSE mme_rep \cup {[to |-> n, push |-> push, id |-> id, n |-> tries[u],
                                   entry |-> [imsi |-> guti, ctx |-> ctx]] :
                                  n \in MmeReplica \ {m}}

Silent(u) == Pass(u, [job[u] EXCEPT !.at = "silent"])

Reply(u, j) == Pass(u, [j EXCEPT !.at = "reply"])

\* The handler that serves u's request of a step: its replica, and the tables
\* of it after the pull that the binding asks for.
Serving(u, step) ==
    /\ At(u, "mme", step)
    /\ job[u].live
    /\ UNCHANGED <<ranVars, alive, restarts>>

SetMme(u, r) == mme' = [mme EXCEPT ![job[u].m] = r]

\* The early returns: nothing in the store, or no GUTI for the id.
NotFound(u, pulls, r) ==
    \/ pulls /\ mme_store[job[u].id] = None
    \/ r.ids[job[u].id] = 0

Return(u, r) ==
    /\ SetMme(u, r)
    /\ Silent(u)
    /\ UNCHANGED <<mme_store, mme_rep, flow, losses, exited>>

HmacFailure(u, r) ==
    /\ Exit(job[u].m)
    /\ SetMme(u, r)
    /\ Silent(u)
    /\ UNCHANGED <<mme_store, mme_rep, flow, losses>>

-----------------------------------------------------------------------------
\* handle_initial_attach, the HSS's answer included.
MmeInitialAttach(u) ==
    /\ Serving(u, "initial_attach")
    /\ LET m   == job[u].m
           id  == mme[m].count + 1
           ctx == [NewMmeContext EXCEPT !.imsi = u, !.id = id, !.xres = u]
       IN  /\ SetMme(u, [Remember(mme[m], id, [imsi |-> u, ctx |-> ctx]) EXCEPT !.count = id])
           /\ PushIfAlwaysSync(u, ctx)
           /\ Reply(u, [job[u] EXCEPT !.id = id])
    /\ UNCHANGED <<mme_rep, flow, losses, exited>>

\* handle_autn, then handle_security_mode_cmd.
MmeAuthenticate(u) ==
    /\ Serving(u, "authenticate")
    /\ LET id   == job[u].id
           r    == IF AlwaysSync THEN Pulled(mme[job[u].m], id) ELSE mme[job[u].m]
           guti == r.ids[id]
           ctx  == ContextOf(r, guti)
           new  == [ctx EXCEPT !.k_nas = ctx.xres]
       IN  \/ NotFound(u, AlwaysSync, r) /\ Return(u, r)
           \/ /\ ~NotFound(u, AlwaysSync, r)
              /\ ctx.xres # job[u].key
              /\ Return(u, Forget(r, id, guti))
           \/ /\ ~NotFound(u, AlwaysSync, r)
              /\ ctx.xres = job[u].key
              /\ SetMme(u, SetContext(r, guti, new))
              /\ PushIfAlwaysSync(guti, new)
              /\ Reply(u, job[u])
              /\ UNCHANGED <<mme_rep, flow, losses, exited>>

\* The load balancer of the SGW cluster: STATE_LESS round robin, otherwise by the
\* source, a socket that the MME chooses by the TEID.
Route(u, s) ==
    LET bound == flow[job[u].m][u]
    IN  /\ s \in alive
        /\ AlwaysSync \/ bound \notin alive \/ s = bound
        /\ flow' = [flow EXCEPT ![job[u].m][u] = IF AlwaysSync THEN None ELSE s]

\* The handlers that check an HMAC and then ask the SGW: pull, look up, check,
\* and go on with the request that new(guti, ctx) makes of it.
AskSgw(u, pulls, r, keeps, request) ==
    LET guti == r.ids[job[u].id]
        ctx  == ContextOf(r, guti)
    IN  \/ NotFound(u, pulls, r) /\ Return(u, r)
        \/ ~NotFound(u, pulls, r) /\ ctx.k_nas # job[u].key /\ HmacFailure(u, r)
        \/ /\ ~NotFound(u, pulls, r)
           /\ ctx.k_nas = job[u].key
           /\ SetMme(u, IF keeps THEN SetContext(r, guti, request.ctx) ELSE r)
           /\ Route(u, request.s)
           /\ Datagram(u, request, "mme_answer")
           /\ UNCHANGED <<mme_store, mme_rep, exited>>

\* handle_create_session up to the receive; its TEID is get_s11cteidmme(guti).
CreateRequest(j, s, guti, ctx) ==
    [j EXCEPT !.at = "sgw", !.s = s, !.ctx = ctx, !.imsi = ctx.imsi, !.teid = guti]

\* handle_attach_complete and handle_modify_bearer up to the receive.
ModifyRequest(j, s, ctx) ==
    [j EXCEPT !.at = "sgw", !.s = s, !.ctx = [ctx EXCEPT !.s1_uteid_dl = j.teid],
              !.teid = ctx.s11_cteid_sgw]

\* handle_detach up to the receive; imsi keeps the GUTI of the terminal.
DetachRequest(j, s, ctx) ==
    [j EXCEPT !.at = "sgw", !.s = s, !.ctx = ctx, !.teid = ctx.s11_cteid_sgw]

PullsFor(step) == IF step = "detach" THEN SessionSync ELSE AlwaysSync

\* Requests for the SGW cluster; s is the replica its load balancer picks.
MmeAsk(u, step, s) ==
    /\ Serving(u, step)
    /\ LET j    == job[u]
           r    == IF PullsFor(step) THEN Pulled(mme[j.m], j.id) ELSE mme[j.m]
           guti == r.ids[j.id]
           ctx  == ContextOf(r, guti)
       IN  \/ /\ step = "set_security"
              /\ AskSgw(u, PullsFor(step), r, FALSE, CreateRequest(j, s, guti, ctx))
           \/ /\ step = "set_eps_session"
              /\ AskSgw(u, PullsFor(step), r, TRUE, ModifyRequest(j, s, ctx))
           \/ /\ step = "detach"
              /\ AskSgw(u, PullsFor(step), r, FALSE, DetachRequest(j, s, ctx))

-----------------------------------------------------------------------------
\* A receive ends; one that timed out has opened a new socket (conn_refresh).
Answered(u, step) ==
    /\ At(u, "mme_answer", step)
    /\ job[u].live
    /\ flow' = [flow EXCEPT ![job[u].m][u] = IF job[u].ok THEN @ ELSE None]
    /\ UNCHANGED <<ranVars, alive, restarts, losses, exited>>

\* The local guti of a blocked handler, the IMSI of its context.
GutiOf(u) == job[u].ctx.imsi

\* handle_create_session from the answer on; a receive that timed out left zeros.
MmeCreateAnswer(u) ==
    /\ Answered(u, "set_security")
    /\ \E err_code \in ErrCodes :
          LET ctx == [job[u].ctx EXCEPT !.s11_cteid_sgw = job[u].teid]
          IN  /\ SetMme(u, SetContext(mme[job[u].m], GutiOf(u), ctx))
              /\ PushIfAlwaysSync(GutiOf(u), ctx)
              /\ Reply(u, [job[u] EXCEPT !.ok = err_code >= 0, !.imsi = GutiOf(u)])
    /\ UNCHANGED mme_rep

\* Deviation: the end of an attach is not pushed.
PushIfSessionSync_Never(guti, ctx) == UNCHANGED mme_store

PushIfSessionSync(guti, ctx) ==
    IF SessionSync THEN PushContext(guti, ctx) ELSE UNCHANGED mme_store

\* handle_modify_bearer from the answer on: "false" or "true" to the terminal.
MmeModifyAnswer(u) ==
    /\ Answered(u, "set_eps_session")
    /\ \E err_code \in ErrCodes :
          LET ok  == job[u].ok /\ err_code = 0
              ctx == [job[u].ctx EXCEPT !.ecm_state = 1]
          IN  \/ ~ok /\ UNCHANGED <<mme, mme_store, mme_rep>> /\ Reply(u, [job[u] EXCEPT !.ok = FALSE])
              \/ /\ ok
                 /\ SetMme(u, SetContext(mme[job[u].m], GutiOf(u), ctx))
                 /\ PushIfSessionSync(GutiOf(u), ctx)
                 /\ Replicate(u, job[u].m, TRUE, ctx.id, GutiOf(u), ctx)
                 /\ Reply(u, job[u])

\* handle_detach from the answer on; erase_context is empty, so the entry in the
\* store stays.
MmeDetachAnswer(u) ==
    /\ Answered(u, "detach")
    /\ \E err_code \in ErrCodes :
          LET j  == job[u]
              ok == j.ok /\ err_code = 0
          IN  \/ ~ok /\ UNCHANGED <<mme, mme_store, mme_rep>> /\ Silent(u)
              \/ /\ ok
                 /\ SetMme(u, Forget(mme[j.m], j.id, j.imsi))
                 /\ Replicate(u, j.m, FALSE, j.id, j.imsi, NewMmeContext)
                 /\ Reply(u, j)
                 /\ UNCHANGED mme_store

\* receive_replication.
MmeReceiveReplication ==
    /\ \E p \in mme_rep :
          /\ p.to \in alive
          /\ mme' = [mme EXCEPT ![p.to] = IF p.push THEN Remember(@, p.id, p.entry)
                                          ELSE Forget(@, p.id, p.entry.imsi)]
          /\ mme_rep' = mme_rep \ {p}
    /\ UNCHANGED <<ranVars, alive, job, losses, exited, mme_store, flow, restarts>>

-----------------------------------------------------------------------------
\* A replica dies: the terminals see their connections broken, and the load
\* balancer sends nothing to it any more.
MmeCrash(m) ==
    /\ m \in alive \cap Crashing
    /\ alive \cap MmeReplica # {m}
    /\ Cardinality(Replica \ alive) < MaxCrashes
    /\ alive' = alive \ {m}
    /\ conn' = [u \in UE |-> [i \in Step |-> IF conn[u][i] = m THEN Broken ELSE conn[u][i]]]
    /\ job' = [u \in UE |-> IF job[u].m = m THEN [job[u] EXCEPT !.live = FALSE] ELSE job[u]]
    /\ mme' = [mme EXCEPT ![m] = NewMme(m)]
    /\ UNCHANGED <<ran_pc, ran_ctx, ctr, tries, mme_store, mme_rep, flow, restarts, losses, exited>>

\* ... and is started again, with empty tables and the same INIT_VAL.
MmeRestart(m) ==
    /\ m \notin alive
    /\ restarts < MaxRestarts
    /\ restarts' = restarts + 1
    /\ alive' = alive \cup {m}
    /\ UNCHANGED <<ranVars, mme, mme_store, mme_rep, flow, job, losses, exited>>

\* The request of a terminal whose replica has died, once no gateway works on it.
ConnectionLost(u) ==
    /\ job[u].at \in {"mme", "mme_answer", "reply"}
    /\ ~job[u].live
    /\ Silent(u)
    /\ UNCHANGED <<ranVars, alive, mmeVars, losses, exited>>

MmeStep(u) ==
    \/ MmeInitialAttach(u) \/ MmeAuthenticate(u)
    \/ MmeCreateAnswer(u) \/ MmeModifyAnswer(u) \/ MmeDetachAnswer(u)
    \/ ConnectionLost(u)
=============================================================================
