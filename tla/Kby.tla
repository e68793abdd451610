---------------------------------- MODULE Kby ----------------------------------
(***************************************************************************)
(* The v3.0 control plane: RAN simulator, HSS, and the three event loops.  *)
(* epoll_wait may report the descriptors that are ready in any order, so a *)
(* step handles any one of them.  The model stops when a node exits: its   *)
(* peers would find their connections broken.                              *)
(***************************************************************************)
EXTENDS KbyPgw

vars == <<ranVars, mmeVars, sgwVars, pgwVars, linkVars, exited>>

Init == KbyBaseInit /\ KbyRanInit /\ KbyMmeInit /\ KbySgwInit /\ KbyPgwInit

Rest == UNCHANGED <<mmeVars, sgwVars, pgwVars>>

RanStep(u) == RanNext(u) /\ Rest
HssStep    == \E f \in Fd : HssAnswer(f) /\ Rest
MmeStep ==
    /\ MmeAccept \/ (\E u \in UE : MmeServeRan(u)) \/ (\E f \in Fd : MmeServe(f))
    /\ UNCHANGED <<sgwVars, pgwVars>>
SgwStep ==
    /\ SgwAccept \/ \E f \in Fd : SgwServeMme(f) \/ SgwServe(f)
    /\ UNCHANGED pgwVars
PgwStep == PgwAccept \/ \E f \in Fd : PgwServe(f)

Serving == (\E u \in UE : RanStep(u)) \/ HssStep \/ MmeStep \/ SgwStep \/ PgwStep

\* The duration is over for every terminal.
Over == \A u \in UE : ran_pc[u] = "idle" /\ rounds[u] = Rounds[u]

Next ==
    \/ exited = {} /\ Serving
    \/ (Over \/ exited # {}) /\ UNCHANGED vars

Spec == Init /\ [][Next]_vars

\* As long as some loop has an event to serve or some terminal an answer to read,
\* one of them goes on: epoll_wait and read return, in whatever order.
LiveSpec == Spec /\ WF_vars(Next)

-----------------------------------------------------------------------------
(* What the control plane must keep to.                                   *)

\* Every variable stays in its type: descriptors, keys and message fields.
TypeOK ==
    /\ KbyBaseTypeOK /\ KbyRanTypeOK /\ KbyMmeTypeOK /\ KbySgwTypeOK /\ KbyPgwTypeOK

\* No order of events makes a node take a legal request for a broken one: no
\* lookup or cross check of an event loop ends it.  What may end the MME is act 7,
\* when mTCP refuses the second EPOLL_CTL_DEL of the terminal's descriptor.
OnlyDelExits == [][exited' # exited => \E f \in Fd : MmeDetachAnswer(f)]_vars

\* The rest is about nodes that run: act 7 exits half way through its clean-up.
AllUp == exited = {}

\* A node of which each call has descriptors: those that are armed have an entry
\* and are open, and each other descriptor that is open is named by exactly one
\* entry.
Accounted(map, armed, used) ==
    LET second == [f \in {g \in armed : map[g].initial_fd # 0} |-> map[f].initial_fd]
    IN  /\ armed = {f \in Fd : map[f] # None}
        /\ armed \subseteq used
        /\ used \ armed = Range(second)
        /\ IsInjective(second)

\* No call leaks a descriptor or leaves an entry or an epoll registration behind
\* for the next connection that gets its number, and no two calls share one.
FdsAccounted == AllUp =>
    /\ \A f \in mme_armed : mme_fdmap[f] # None
    /\ \A f \in sgw_armed : sgw_fdmap[f] # None
    /\ Accounted(mme_fdmap, mme_armed, MmeUsed)
    /\ Accounted(sgw_fdmap, sgw_armed, SgwUsed)
    /\ pgw_armed = pgw_fdmap /\ pgw_armed = PgwUsed

\* Along the descriptors of a call every entry names the subscriber at its end.
CallsKeptApart == AllUp =>
    /\ \A f \in mme_armed, u \in UE :
          (mme_fdmap[f].act # 1 /\ mme_fdmap[f].initial_fd = s1[u].srv) =>
              /\ s1mme_id[mme_fdmap[f].msui] = u
              /\ mme_fdmap[f].buf # None => mme_fdmap[f].buf.imsi = u
    /\ \A g \in sgw_armed, f \in Fd :
          (sgw_fdmap[g].act # 1 /\ sgw_fdmap[g].initial_fd = s11[f].srv) =>
              /\ mme_fdmap[f] # None
              /\ sgw_fdmap[g].guti \in UE
              /\ s1[sgw_fdmap[g].guti].srv = mme_fdmap[f].initial_fd
              /\ sgw_fdmap[g].tid = sgw_fdmap[g].guti

\* The message type a terminal waits for: the parse of its step fits no other.
Expected == [authenticate |-> 1, set_security |-> 2, set_eps_session |-> 3,
             attach_complete |-> 4, detach |-> 5]

\* The terminal does not look at the type of what it reads, nor at whom it is for:
\* the next answer on its connection is the one to its last message.
AnswersMatch == AllUp =>
    \A u \in UE : s1[u].down # None =>
        LET m == s1[u].down
        IN  /\ ran_pc[u] \in DOMAIN Expected
            /\ m.type = Expected[ran_pc[u]]
            /\ m.imsi \in {0, u}
            /\ m.id # 0 => s1mme_id[m.id] = u

\* An attached terminal has a path: its connections lead from one node to the
\* next over the descriptors the entries name, and the tables of all nodes agree
\* with each other and with the terminal.  The MME's s5_uteid_dl is left out: it may
\* be another call's, see DownlinkStored.
BearerConnected == AllUp =>
    \A u \in UE : ran_pc[u] = "attached" =>
        LET f == mme_fdmap[s1[u].srv].initial_fd
            g == sgw_fdmap[s11[f].srv].initial_fd
        IN  /\ s5[g].srv \in pgw_armed
            /\ s1mme_id[ran_ctx[u].id] = ran_ctx[u].guti
            /\ mme_ctx[u].ecm_state = 1
            /\ mme_ctx[u].s11_cteid_sgw = sgw_ctx[u].teid
            /\ mme_ctx[u].s1_uteid_dl = sgw_ctx[u].s1_uteid_dl
            /\ ran_ctx[u].s1_uteid_ul = sgw_ctx[u].teid
            /\ \A table \in {s11_id, s1_id, s5_id} : table[sgw_ctx[u].teid] = u
            /\ sgw_ctx[u].s5_ul = pgw_ctx[u].teid
            /\ pgw_s5_id[pgw_ctx[u].teid] = u
            /\ ran_ctx[u].ip = pgw_ctx[u].ip_addr /\ sgi_id[ran_ctx[u].ip] = u

\* The downlink TEID that the MME keeps for an attached terminal is its SGW's.
DownlinkStored ==
    \A u \in UE : ran_pc[u] = "attached" => mme_ctx[u].s5_uteid_dl = sgw_ctx[u].teid

\* A terminal that has read the answer to its detach left no trace: no table of
\* any node has an entry for it, whatever the others are doing, and once all are
\* gone every connection is closed.
NoResidue == AllUp =>
    /\ \A u \in UE : ran_pc[u] = "idle" =>
          /\ u \notin Range(s1mme_id) \cup Range(s11_id) \cup Range(s1_id) \cup Range(s5_id)
                      \cup Range(pgw_s5_id) \cup Range(sgi_id)
          /\ mme_ctx[u] = None /\ sgw_ctx[u] = None /\ pgw_ctx[u] = None
    /\ (\A u \in UE : ran_pc[u] = "idle") => MmeUsed \cup SgwUsed \cup PgwUsed = {}

-----------------------------------------------------------------------------
(* The service the packet core offers.                                     *)

Phase(u) ==
    CASE ran_pc[u] = "idle"     -> "idle"
      [] ran_pc[u] = "attached" -> "attached"
      [] ran_pc[u] = "detach"   -> "releasing"
      [] OTHER                  -> "attaching"

\* The nodes with a complete set of entries for u.
ServingNodes(u) ==
    {n \in {"mme", "sgw", "pgw"} :
        \/ n = "mme" /\ mme_ctx[u] # None /\ u \in Range(s1mme_id)
        \/ n = "sgw" /\ sgw_ctx[u] # None /\ s11_id[u] = u /\ s1_id[u] = u /\ s5_id[u] = u
        \/ n = "pgw" /\ pgw_ctx[u] # None /\ pgw_s5_id[u] = u /\ sgi_id[u] = u}

Bearer == INSTANCE EpsBearer WITH phase <- [u \in UE |-> Phase(u)],
                                  nodes <- [u \in UE |-> ServingNodes(u)]

\* The event driven nodes implement the same service as the threads of v1.0: a
\* terminal is attached only while all three serve it, and they are set up from
\* the MME to the PGW.
ImplementsBearer == Bearer!BearerSpec

-----------------------------------------------------------------------------
\* Every terminal gets through all its rounds, however the loops order the events
\* of the calls they interleave: no event is waited for that nobody causes.  Only
\* the exit of act 7 can come before.
RoundsComplete == <>(Over \/ ~AllUp)
=============================================================================
