---------------------------- MODULE EpcInvariants ----------------------------
(***************************************************************************)
(* Inductive invariants of the control plane, from which the properties    *)
(* follow: what every blocked thread and every message relies on in each   *)
(* state (TypeInv, OneCall), what terminal and MME know of each other      *)
(* (UeInv), what is said of a session and who has one (SessionInv,         *)
(* GenuineInv), and what SGW and PGW hold of it (GwInv).  The modules named *)
(* Epc...Proofs prove them for any number of subscribers and threads.      *)
(***************************************************************************)
EXTENDS EpcProperties

(* Types.                                                                  *)

\* A thread inside a handler has the locals that handler assigned before its
\* first shared access; a create request carries its subscriber.
MmeJobsOK ==
    \A w \in Worker : mme_pc[w] # "idle" =>
        mme_job[w].conn \in UE /\ mme_job[w].guti \in UE /\ mme_job[w].id \in 1 .. ue_count

SgwJobsOK ==
    /\ \A t \in S11Threads : sgw_pc[t] # "idle" =>
          sgw_job[t].src \in Worker /\ sgw_job[t].imsi \in UE
    /\ \A t \in S11Threads : sgw_pc[t] \in {"update_itfid", "rem_itfid"} => sgw_itf[t] # <<>>

PgwJobsOK ==
    \A p \in PgwThreads : pgw_pc[p] # "idle" =>
        pgw_job[p].src \in S11Threads /\ pgw_job[p].imsi \in UE

CreatesOK ==
    /\ \A m \in s11_req : m.type = "create" => m.imsi \in UE
    /\ \A m \in s5_req : m.type = "create" => m.imsi \in UE

TypeInv == TypeOK /\ MmeJobsOK /\ SgwJobsOK /\ PgwJobsOK /\ CreatesOK

-----------------------------------------------------------------------------
(* Calls.  A blocking call passes through stages: request in flight,       *)
(* server thread that owes the answer, answer in flight.                   *)

\* The type of the answer a server thread owes at pc; "none" once it is sent.
SgwOwes(pc) == CASE pc \in {"update_itfid", "init_ctx", "create"} -> "create"
                 [] pc = "modify_ctx"                             -> "modify"
                 [] pc \in {"detach_ctx", "detach"}               -> "detach"
                 [] OTHER                                         -> "none"

PgwOwes(pc) == CASE pc \in {"update_s5", "update_sgi", "init_ctx"} -> "create"
                 [] pc = "detach_ctx"                              -> "detach"
                 [] OTHER                                          -> "none"

\* Every stage belongs to a caller that waits for an answer of that type, ...
S6aAwaited ==
    /\ \A m \in s6a_req : mme_pc[m.w] = "autn_info"
    /\ \A m \in s6a_rsp : mme_pc[m.w] = "autn_info"

S11Awaited ==
    /\ \A m \in s11_req : mme_pc[m.w] = m.type
    /\ \A t \in S11Threads : SgwOwes(sgw_pc[t]) # "none" => mme_pc[sgw_job[t].src] = SgwOwes(sgw_pc[t])
    /\ \A m \in s11_rsp : mme_pc[m.w] = m.type

S5Awaited ==
    /\ \A m \in s5_req : sgw_pc[m.t] = m.type
    /\ \A p \in PgwThreads : PgwOwes(pgw_pc[p]) # "none" => sgw_pc[pgw_job[p].src] = PgwOwes(pgw_pc[p])
    /\ \A m \in s5_rsp : sgw_pc[m.t] = m.type

\* ... and a caller has one call in one stage.
S6aSingle ==
    /\ \A m, n \in s6a_req : m.w = n.w => m = n
    /\ \A m, n \in s6a_rsp : m.w = n.w => m = n
    /\ \A m \in s6a_req, n \in s6a_rsp : m.w # n.w

S11Single ==
    /\ \A m, n \in s11_req : m.w = n.w => m = n
    /\ \A m, n \in s11_rsp : m.w = n.w => m = n
    /\ \A m \in s11_req, n \in s11_rsp : m.w # n.w
    /\ \A s, t \in S11Threads :
          /\ SgwOwes(sgw_pc[s]) # "none"
          /\ SgwOwes(sgw_pc[t]) # "none"
          /\ sgw_job[s].src = sgw_job[t].src
          => s = t
    /\ \A t \in S11Threads : SgwOwes(sgw_pc[t]) # "none" =>
          \A m \in s11_req \cup s11_rsp : m.w # sgw_job[t].src

S5Single ==
    /\ \A m, n \in s5_req : m.t = n.t => m = n
    /\ \A m, n \in s5_rsp : m.t = n.t => m = n
    /\ \A m \in s5_req, n \in s5_rsp : m.t # n.t
    /\ \A p, q \in PgwThreads :
          /\ PgwOwes(pgw_pc[p]) # "none"
          /\ PgwOwes(pgw_pc[q]) # "none"
          /\ pgw_job[p].src = pgw_job[q].src
          => p = q
    /\ \A p \in PgwThreads : PgwOwes(pgw_pc[p]) # "none" =>
          \A m \in s5_req \cup s5_rsp : m.t # pgw_job[p].src

S6aCalls == S6aAwaited /\ S6aSingle
S11Calls == S11Awaited /\ S11Single
S5Calls  == S5Awaited /\ S5Single

\* A blocked thread of MME or SGW has at most one call under way, in one stage,
\* and every request, answer and serving thread works for one that waits for it.
OneCall == S6aCalls /\ S11Calls /\ S5Calls

-----------------------------------------------------------------------------
(* Terminal and MME: strengthenings of RanReadsExpected and KeysAgree.     *)
(* All that concerns one subscriber is gathered in its view; a step of the *)
(* program changes one view at most, so the proofs look at one subscriber  *)
(* at a time, whatever the other threads do.                               *)

\* The worker that serves a subscriber right now, with the id it works on.
Handler(u) ==
    LET w == conn_worker[u]
    IN  IF w # Nil /\ mme_job[w].conn = u THEN [pc |-> mme_pc[w], id |-> mme_job[w].id]
        ELSE [pc |-> "idle", id |-> 0]

\* A worker inside a handler serves a connection of its own, for the subscriber
\* that opened it.
WorkersOK ==
    \A w \in Worker :
        IF mme_pc[w] = "idle" THEN mme_job[w] = NoMmeJob
        ELSE conn_worker[mme_job[w].conn] = w /\ mme_job[w].guti = mme_job[w].conn

\* A connection waits once, and nobody serves it before it is accepted.
BacklogOK ==
    /\ \A i, j \in 1 .. Len(backlog) : backlog[i] = backlog[j] => i = j
    /\ \A i \in 1 .. Len(backlog) :
          conn_worker[backlog[i]] = Nil /\ ran_pc[backlog[i]] # "connect"
    /\ \A u \in UE : ran_pc[u] = "connect" => conn_worker[u] = Nil

\* What is in flight between a worker and the HSS is about its subscriber.
VectorsOK ==
    /\ \A m \in s6a_req : m.imsi = mme_job[m.w].guti
    /\ \A m \in s6a_rsp : m = AutnInfo(m.w, mme_job[m.w].guti)

\* No terminal and no HSS or MME thread ever meets a failed assertion.
OnlyGatewaysExit == exited \subseteq {"sgw", "pgw"}

-----------------------------------------------------------------------------
(* The view of a subscriber.                                               *)

View(u) == [pc  |-> ran_pc[u],              \* where its RAN thread stands
            ran |-> ran_ctx[u],             \* what that thread knows
            up  |-> s1ap_up[u],             \* what it has sent,
            dn  |-> s1ap_dn[u],             \* what has been sent to it
            at  |-> Handler(u),             \* the worker that serves it
            ctx |-> mme_ctx[u],             \* what the MME knows
            ids |-> Entries(s1mme_id, u)]   \* the ids the MME knows it by

None(q)      == Len(q) = 0
One(q, a)    == Len(q) = 1 /\ q[1].type = a
Two(q, a, b) == Len(q) = 2 /\ q[1].type = a /\ q[2].type = b

\* A worker at one of these has nothing more to say to the terminal.
Cleaning == {"idle", "rem_itfid", "rem_uectx"}

\* The conversation: who speaks next at each point of simulate().  Both sides
\* overlap twice: a terminal leaves while its bearer is still being modified,
\* and comes back while its entries are still being removed.
Conversation(v) ==
    \/ v.pc \in {"connect", "failed"} /\ None(v.up) /\ None(v.dn) /\ v.at.pc = "idle"
    \/ v.pc \in {"loop", "done"} /\ None(v.up) /\ None(v.dn) /\ v.at.pc \in Cleaning
    \/ /\ v.pc = "authenticate"
       /\ \/ One(v.up, "initial_attach") /\ None(v.dn) /\ v.at.pc \in Cleaning
          \/ None(v.up) /\ None(v.dn) /\ v.at.pc = "autn_info"
          \/ None(v.up) /\ One(v.dn, "autn_request") /\ v.at.pc = "idle"
    \/ /\ v.pc = "set_security"
       /\ v.at.pc = "idle"
       /\ \/ One(v.up, "auth_response") /\ None(v.dn)
          \/ None(v.up) /\ One(v.dn, "security_command")
    \/ /\ v.pc = "set_eps_session"
       /\ \/ One(v.up, "security_complete") /\ None(v.dn) /\ v.at.pc = "idle"
          \/ None(v.up) /\ None(v.dn) /\ v.at.pc = "create"
          \/ None(v.up) /\ One(v.dn, "attach_accept") /\ v.at.pc = "idle"
    \/ /\ v.pc = "transfer"
       /\ None(v.dn)
       /\ \/ One(v.up, "attach_complete") /\ v.at.pc = "idle"
          \/ None(v.up) /\ v.at.pc \in {"modify", "idle"}
    \/ /\ v.pc = "detach"
       /\ \/ Two(v.up, "attach_complete", "detach_request") /\ None(v.dn) /\ v.at.pc = "idle"
          \/ One(v.up, "detach_request") /\ None(v.dn) /\ v.at.pc \in {"modify", "idle"}
          \/ None(v.up) /\ None(v.dn) /\ v.at.pc = "detach"
          \/ None(v.up) /\ One(v.dn, "detach_complete") /\ v.at.pc \in Cleaning

\* The MME has accepted the subscriber's identity and not yet begun to forget it.
Known(v) ==
    \/ v.pc \in {"set_security", "set_eps_session", "transfer"}
    \/ v.pc = "detach" /\ ~None(v.up)

\* The MME has answered the last detach, or has not seen the first attach.
Left(v) ==
    \/ v.pc \in {"connect", "loop", "done"}
    \/ v.pc = "authenticate" /\ ~None(v.up)
    \/ v.pc = "detach" /\ ~None(v.dn)

\* One id at a time leads to the subscriber, and it is the one both sides use.
IdsOK(v) ==
    /\ \A i, j \in v.ids : i = j
    /\ Known(v) => v.ran.mme_s1ap_ue_id \in v.ids
    /\ v.pc = "authenticate" => \A i \in 1 .. Len(v.dn) : v.dn[i].id \in v.ids
    /\ \A i \in 1 .. Len(v.up) :
          v.up[i].type # "initial_attach" => v.up[i].id = v.ran.mme_s1ap_ue_id
    /\ v.at.pc \notin {"idle", "rem_uectx"} => v.at.id \in v.ids
    /\ Left(v) /\ v.at.pc # "rem_itfid" => v.ids = {}
    /\ Left(v) /\ v.at.pc \notin {"rem_itfid", "rem_uectx"} => v.ctx = Nil

\* Messages that must carry an HMAC do.
MacsOK(v) ==
    /\ \A i \in 1 .. Len(v.up) : v.up[i].type \in {"initial_attach", "auth_response"} \/ v.up[i].mac
    /\ \A i \in 1 .. Len(v.dn) : v.dn[i].type = "autn_request" \/ v.dn[i].mac

HssXres(u)  == Xres(HssKey[u], HssRand[u])
HssKAsme(u) == KAsme(HssXres(u), HssRand[u])

\* Both sides go by the subscriber's row in autn_info; a terminal with another
\* key does not get past the first message.
KeysOK(u, v) ==
    /\ Known(v) \/ (v.pc = "authenticate" /\ ~None(v.dn)) =>
          v.ctx # Nil /\ v.ctx.xres = HssXres(u) /\ v.ctx.k_asme = HssKAsme(u)
    /\ v.pc = "authenticate" => \A i \in 1 .. Len(v.dn) :
          v.dn[i].autn = Autn(HssXres(u)) /\ v.dn[i].rand = HssRand[u]
    /\ \A i \in 1 .. Len(v.up) : v.up[i].type = "auth_response" => v.up[i].res = HssXres(u)
    /\ v.pc \in {"set_security", "set_eps_session", "transfer", "detach"} =>
          HssKey[u] = RanKey(u) /\ v.ran.k_asme = HssKAsme(u)
    /\ Known(v) /\ (v.pc = "set_security" => ~None(v.dn)) => v.ctx.k_nas = KNasMme(HssKAsme(u))
    /\ v.pc \in {"set_eps_session", "transfer", "detach"} => v.ran.k_nas = KNasRan(HssKAsme(u))

ViewOK(u, v) == Conversation(v) /\ IdsOK(v) /\ MacsOK(v) /\ KeysOK(u, v)

UeInv ==
    /\ WorkersOK
    /\ BacklogOK
    /\ VectorsOK
    /\ OnlyGatewaysExit
    /\ \A u \in UE : ViewOK(u, View(u))

-----------------------------------------------------------------------------
(* The gateways: strengthenings of OnlyAuthenticated, NoExit,              *)
(* BearerConnected, SessionsMatch, SgwConsistent, PgwConsistent and        *)
(* NoResidue.                                                              *)

\* Every identifier of a session is the one the MME derived from the GUTI.
Tunnel(u)  == S11CteidMme(u)
Tunnels(u) == [i \in Itf |-> Tunnel(u)]

-----------------------------------------------------------------------------
(* Sessions: the contents of messages and locals.                          *)

\* The terminal has been offered a bearer and has not had it released.
Offered(v) ==
    \/ v.pc = "set_eps_session" /\ ~None(v.dn)
    \/ v.pc = "transfer"
    \/ v.pc = "detach" /\ ~None(v.up)

\* Terminal and MME name the bearer by the subscriber's own identifiers.
BearerOK(u, v) ==
    /\ Offered(v) => v.ctx.s11_cteid_sgw = Tunnel(u)
    /\ \A i \in 1 .. Len(v.dn) :
          v.dn[i].type = "attach_accept" => v.dn[i].teid = Tunnel(u) /\ v.dn[i].ip = IpAddr(u)
    /\ \A i \in 1 .. Len(v.up) : v.up[i].type = "attach_complete" => v.up[i].teid = Tunnel(u)
    /\ v.pc = "transfer" =>
          /\ v.ran.s1_uteid_ul = Tunnel(u)
          /\ v.ran.s1_uteid_dl = Tunnel(u)
          /\ v.ran.ip_addr = IpAddr(u)

BearersOK == \A u \in UE : BearerOK(u, View(u))

\* An entry of a table stands under an identifier of the subscriber it names.
TablesOK ==
    /\ \A i \in Itf, x \in Teid : sgw_id[i][x] # Nil => x = Tunnel(sgw_id[i][x])
    /\ \A x \in Teid : pgw_s5_id[x] # Nil => x = Tunnel(pgw_s5_id[x])
    /\ \A a \in Ip : pgw_sgi_id[a] # Nil => a = IpAddr(pgw_sgi_id[a])

\* What is in flight between a worker and the SGW is about the subscriber it serves, ...
S11RequestOK(m, u) ==
    /\ m.type = "create" => m.imsi = u /\ m.mme = Tunnel(u)
    /\ m.type = "modify" => m.teid = Tunnel(u) /\ m.dl = Tunnel(u)
    /\ m.type = "detach" => m.teid = Tunnel(u)

S11AnswerOK(m, u) ==
    m.type = "create" => m.s11 = Tunnel(u) /\ m.ul = Tunnel(u) /\ m.ip = IpAddr(u)

S11Content ==
    /\ \A m \in s11_req : S11RequestOK(m, mme_job[m.w].conn)
    /\ \A m \in s11_rsp : S11AnswerOK(m, mme_job[m.w].conn)

\* ... and between an SGW thread and the PGW about the one it works on.
S5RequestOK(m, u) == m.type = "create" => m.imsi = u /\ m.teid = Tunnel(u)

S5AnswerOK(m, u) ==
    m.type = "create" => m.teid = Tunnel(u) /\ m.ul = Tunnel(u) /\ m.ip = IpAddr(u)

S5Content ==
    /\ \A m \in s5_req : S5RequestOK(m, sgw_job[m.t].imsi)
    /\ \A m \in s5_rsp : S5AnswerOK(m, sgw_job[m.t].imsi)

\* A gateway thread that owes an answer works on the subscriber of the caller,
\* and one that creates a session does so under the subscriber's identifiers.
SgwLocalOK(pc, job) ==
    LET u == job.imsi
    IN  /\ pc = "idle" => job = NoSgwJob
        /\ SgwOwes(pc) # "none" => mme_job[job.src].conn = u
        /\ SgwOwes(pc) = "create" => job.cteid = Tunnel(u) /\ job.teid = Tunnels(u)
        /\ pc = "modify_ctx" => job.dl = Tunnel(u)

SgwLocalsOK == \A t \in S11Threads : SgwLocalOK(sgw_pc[t], sgw_job[t])

PgwLocalOK(pc, job) ==
    LET u == job.imsi
    IN  /\ pc = "idle" => job = NoPgwJob
        /\ PgwOwes(pc) = "create" =>
              sgw_job[job.src].imsi = u /\ job.teid = Tunnel(u) /\ job.ip = IpAddr(u)

PgwLocalsOK == \A p \in PgwThreads : PgwLocalOK(pgw_pc[p], pgw_job[p])

SessionInv ==
    /\ BearersOK
    /\ TablesOK
    /\ S11Content
    /\ S5Content
    /\ SgwLocalsOK
    /\ PgwLocalsOK

-----------------------------------------------------------------------------
(* Authentication.                                                         *)

\* The subscribers whose terminal has the key of its row.
Genuine == {u \in UE : HssKey[u] = RanKey(u)}

\* No other subscriber ever reaches a gateway.
GenuineInv ==
    /\ \A m \in s11_req : m.type = "create" => m.imsi \in Genuine
    /\ \A m \in s5_req : m.type = "create" => m.imsi \in Genuine
    /\ \A t \in S11Threads : sgw_job[t].imsi \in Genuine \cup {Nil}
    /\ \A p \in PgwThreads : pgw_job[p].imsi \in Genuine \cup {Nil}
    /\ \A i \in Itf, x \in Teid : sgw_id[i][x] \in Genuine \cup {Nil}
    /\ \A x \in Teid : pgw_s5_id[x] \in Genuine \cup {Nil}
    /\ \A u \in UE : sgw_ctx[u] # Nil \/ pgw_ctx[u] # Nil => u \in Genuine

-----------------------------------------------------------------------------
(* Configurations in which a subscriber's next session cannot overtake the *)
(* removals of its last one.                                               *)

Single(S) == \A s, t \in S : s = t

\* Terminals attach once, or each gateway serves its port with one thread.
Serialised == MaxRounds <= 1 \/ (Single(S11Threads) /\ Single(PgwThreads))

\* Every subscriber has an address of its own.
Addressable == \A u \in UE : u < MAX_UE_COUNT

-----------------------------------------------------------------------------
(* The SGW.                                                                *)

\* The SGW has answered a create, and the MME has not read it yet; the MME has
\* asked for a detach, and the SGW has not read it yet.
Given(u) == \E m \in s11_rsp : m.type = "create" /\ mme_job[m.w].conn = u
Asked(u) == \E m \in s11_req : m.type = "detach" /\ mme_job[m.w].conn = u

\* As far as its messages to and from the SGW tell, the MME may use the session.
Holds(u) == Offered(View(u)) \/ Given(u) \/ Asked(u)

\* The threads that work on a subscriber, and the tables that hold its entry.
SgwOn(u) == {t \in S11Threads : sgw_job[t].imsi = u}

SgwIn(u) == {i \in Itf : sgw_id[i][Tunnel(u)] = u}

\* What a create leaves before the PGW has answered, and once it has.
SgwHalf(u, ctx) ==
    /\ ctx # Nil
    /\ ctx.s11_cteid_sgw = Tunnel(u) /\ ctx.s1_uteid_ul = Tunnel(u) /\ ctx.s5_uteid_dl = Tunnel(u)
    /\ ctx.pgw
    /\ ctx.enodeb => ctx.s1_uteid_dl = Tunnel(u)

SgwFull(u, ctx) == SgwHalf(u, ctx) /\ ctx.s5_uteid_ul = Tunnel(u) /\ ctx.s5_cteid_ul = Tunnel(u)

\* How far a loop over the interfaces is.
Looped(itf, done) ==
    \/ itf = <<11, 1, 5>> /\ done = {}
    \/ itf = <<1, 5>>     /\ done = {11}
    \/ itf = <<5>>        /\ done = {11, 1}

\* What concerns a subscriber and the thread that works on it.
SgwView(u, t) == [pc |-> sgw_pc[t], itf |-> sgw_itf[t], job |-> sgw_job[t],
                  in |-> SgwIn(u), ctx |-> sgw_ctx[u], holds |-> Holds(u)]

\* What the thread that works on a subscriber finds, by where it stands.
SgwStage(u, s) ==
    \/ s.pc = "update_itfid" /\ Looped(s.itf, s.in) /\ s.ctx = Nil /\ ~s.holds
    \/ s.pc = "init_ctx" /\ s.in = Itf /\ s.ctx = Nil /\ ~s.holds
    \/ s.pc = "create" /\ s.in = Itf /\ SgwHalf(u, s.ctx) /\ ~s.holds
    \/ s.pc = "modify_ctx" /\ s.in = Itf /\ SgwFull(u, s.ctx) /\ s.holds
    \/ s.pc = "detach_ctx" /\ s.in = Itf /\ SgwFull(u, s.ctx) /\ ~s.holds
    \/ s.pc = "detach" /\ s.in = Itf /\ SgwFull(u, s.ctx) /\ s.job.teid = Tunnels(u) /\ ~s.holds
    \/ s.pc = "rem_itfid" /\ Looped(s.itf, Itf \ s.in) /\ s.ctx # Nil
          /\ s.job.teid = Tunnels(u) /\ ~s.holds
    \/ s.pc = "rem_uectx" /\ s.in = {} /\ s.ctx # Nil /\ ~s.holds

\* What it finds when no thread works on it.
SgwRest(u) ==
    IF Holds(u) THEN SgwIn(u) = Itf /\ SgwFull(u, sgw_ctx[u])
    ELSE SgwIn(u) = {} /\ sgw_ctx[u] = Nil

SgwOK(u) ==
    /\ \A s, t \in SgwOn(u) : s = t
    /\ \A t \in SgwOn(u) : SgwStage(u, SgwView(u, t))
    /\ SgwOn(u) = {} => SgwRest(u)

-----------------------------------------------------------------------------
(* The PGW.                                                                *)

\* The same between SGW and PGW.
PgwGiven(u) == \E m \in s5_rsp : m.type = "create" /\ sgw_job[m.t].imsi = u
PgwAsked(u) == \E m \in s5_req : m.type = "detach" /\ sgw_job[m.t].imsi = u

\* A modify or a detach that has not reached the PGW yet holds the session, too.
PgwHolds(u) ==
    \/ PgwGiven(u)
    \/ PgwAsked(u)
    \/ \E t \in SgwOn(u) : sgw_pc[t] \in {"modify_ctx", "detach_ctx"}
    \/ SgwOn(u) = {} /\ Holds(u)

\* The threads that work on a subscriber.
PgwOn(u) == {p \in PgwThreads : pgw_job[p].imsi = u}

\* A complete context.
PgwFull(u, ctx) ==
    /\ ctx # Nil
    /\ ctx.ip_addr = IpAddr(u)
    /\ ctx.s5_uteid_ul = Tunnel(u) /\ ctx.s5_uteid_dl = Tunnel(u)
    /\ ctx.s5_cteid_ul = Tunnel(u) /\ ctx.s5_cteid_dl = Tunnel(u)

\* What concerns a subscriber and the thread that works on it.
PgwView(u, p) == [pc |-> pgw_pc[p], job |-> pgw_job[p], s5 |-> pgw_s5_id[Tunnel(u)],
                  sgi |-> pgw_sgi_id[IpAddr(u)], ctx |-> pgw_ctx[u], holds |-> PgwHolds(u)]

\* What that thread finds, by where it stands.
PgwStage(u, s) ==
    /\ ~s.holds
    /\ \/ s.pc = "update_s5" /\ s.s5 = Nil /\ s.sgi = Nil /\ s.ctx = Nil
       \/ s.pc = "update_sgi" /\ s.s5 = u /\ s.sgi = Nil /\ s.ctx = Nil
       \/ s.pc = "init_ctx" /\ s.s5 = u /\ s.sgi = u /\ s.ctx = Nil
       \/ s.pc = "detach_ctx" /\ s.s5 = u /\ s.sgi = u /\ PgwFull(u, s.ctx)
       \/ s.pc = "rem_s5" /\ s.s5 = u /\ s.sgi = u /\ s.ctx # Nil
             /\ s.job.teid = Tunnel(u) /\ s.job.ip = IpAddr(u)
       \/ s.pc = "rem_sgi" /\ s.s5 = Nil /\ s.sgi = u /\ s.ctx # Nil /\ s.job.ip = IpAddr(u)
       \/ s.pc = "rem_uectx" /\ s.s5 = Nil /\ s.sgi = Nil /\ s.ctx # Nil

\* What it finds when no thread works on it.
PgwRest(u) ==
    IF PgwHolds(u)
    THEN pgw_s5_id[Tunnel(u)] = u /\ pgw_sgi_id[IpAddr(u)] = u /\ PgwFull(u, pgw_ctx[u])
    ELSE pgw_s5_id[Tunnel(u)] = Nil /\ pgw_sgi_id[IpAddr(u)] = Nil /\ pgw_ctx[u] = Nil

PgwOK(u) ==
    /\ \A p, q \in PgwOn(u) : p = q
    /\ \A p \in PgwOn(u) : PgwStage(u, PgwView(u, p))
    /\ PgwOn(u) = {} => PgwRest(u)

\* A detach names the session's tunnel, and the PGW works on its subscriber.
DetachesOK ==
    /\ \A m \in s5_req : m.type = "detach" => m.teid = Tunnel(sgw_job[m.t].imsi)
    /\ \A p \in PgwThreads :
          PgwOwes(pgw_pc[p]) = "detach" => sgw_job[pgw_job[p].src].imsi = pgw_job[p].imsi

\* A thread removes what a detach left, when it has been answered already.
Removing(u) ==
    \/ \E t \in SgwOn(u) : sgw_pc[t] \in {"rem_itfid", "rem_uectx"}
    \/ \E p \in PgwOn(u) : pgw_pc[p] \in {"rem_s5", "rem_sgi", "rem_uectx"}

\* The terminal is leaving, or away and not coming back.
Gone(u) ==
    \/ ran_pc[u] = "detach"
    \/ ran_pc[u] \in {"loop", "done"} /\ ran_round[u] >= MaxRounds

GwInv ==
    /\ NoExit
    /\ \A u \in UE : SgwOK(u)
    /\ \A u \in UE : PgwOK(u)
    /\ DetachesOK
    /\ MaxRounds <= 1 => \A u \in UE : Removing(u) => Gone(u)
=============================================================================
