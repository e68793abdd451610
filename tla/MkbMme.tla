-------------------------------- MODULE MkbMme --------------------------------
(***************************************************************************)
(* The MME: one event loop per core, shared s1mme_id and ue_ctx.  What a   *)
(* handler does to the tables concerns the subscriber of its call alone    *)
(* and is one step here, except after a detach: the terminal has its       *)
(* answer, and may come back through another core, before the two removals *)
(* are made, each under its own mutex.                                     *)
(***************************************************************************)
EXTENDS MkbRan

VARIABLES
    mme_fd,         \* the entry of each call in the fdmap of its core
    mme_removal,    \* per core: what is left to remove after a detach
    mme_srcaddr,    \* calls that hold a source address of the pool
    ue_count,
    s1mme_id,       \* mme_s1ap_ue_id -> GUTI
    mme_ctx         \* ue_ctx

mmeVars == <<mme_fd, mme_removal, mme_srcaddr, ue_count, s1mme_id, mme_ctx>>

\* mdata; sgw: for act 1, whether initial_fd is the SGW's descriptor and not -1.
MmeData == [act : 1 .. 7, sgw : BOOLEAN, msui : {0} \cup UeId, buf : Message \cup {None}]

FromRan(sgw) == [act |-> 1, sgw |-> sgw, msui |-> 0, buf |-> None]

MmeContext == [imsi : Teid, xres : Teid, s11_cteid_sgw : Teid, ecm_state : {0, 1}]

NewMmeContext == [imsi |-> 0, xres |-> 0, s11_cteid_sgw |-> 0, ecm_state |-> 0]

Removal == [tables : SUBSET {"s1mme_id", "ue_ctx"}, id : UeId, guti : UE]

ASSUME MkbMmeNoneAssumption == None \notin MmeData \cup MmeContext \cup Removal

MkbMmeTypeOK ==
    /\ mme_fd \in [Call -> MmeData \cup {None}]
    /\ mme_removal \in [MmeCore -> Removal \cup {None}]
    /\ mme_srcaddr \subseteq Call
    /\ ue_count \in {0} \cup UeId
    /\ s1mme_id \in [UeId -> Teid]
    /\ mme_ctx \in [UE -> MmeContext \cup {None}]

MkbMmeInit ==
    /\ mme_fd = [c \in Call |-> None]
    /\ mme_removal = [k \in MmeCore |-> None]
    /\ mme_srcaddr = {}
    /\ ue_count = 0
    /\ s1mme_id = [i \in UeId |-> 0]
    /\ mme_ctx = [u \in UE |-> None]

-----------------------------------------------------------------------------
\* Deviation: a terminal attaches again as soon as it has its answer.
Pause_None(u) == TRUE

\* A round begins with sleep(1), which is taken to outlast the removals that a
\* core of the MME still has to make for the terminal's last round.
Pause(u) == \A k \in MmeCore : mme_removal[k] # None => mme_removal[k].guti # u

Attach(u) == RanAttach(u) /\ Pause(u)

\* The accept loop of core k.
MmeAccept(k, c) ==
    /\ mme_removal[k] = None
    /\ link["s1"][c].state = "syn"
    /\ link' = Accept(link, "s1", c, k)
    /\ mme_fd' = [mme_fd EXCEPT ![c] = FromRan(FALSE)]
    /\ UNCHANGED <<exited, mme_removal, mme_srcaddr, ue_count, s1mme_id, mme_ctx>>

\* Core k handles an event of call c by its act.
MmeEvent(k, c, act) ==
    /\ mme_removal[k] = None
    /\ link["s1"][c].core = k
    /\ mme_fd[c] # None
    /\ mme_fd[c].act = act

\* act 1 with a message of some type; without an identifier it is a first attach.
MmeRequest(k, c, type) ==
    /\ MmeEvent(k, c, 1)
    /\ Arrived("s1", c, k)
    /\ LET m == link["s1"][c].up IN IF m.id = 0 THEN type = 1 ELSE type # 1 /\ m.type = type

\* Deviation: the counter is incremented twice.
NextUeId_Twice == ue_count + 2

\* ue_count is incremented and read under uectx_mux.
NextUeId == ue_count + 1

Guti(id) == s1mme_id[id]

\* Where find fails and nobody exits, guti is still that of the core's last event.
GutiOf(id) == IF Guti(id) = 0 THEN UE ELSE {Guti(id)}

\* ue_ctx[guti] makes the context it misses.
Context(guti) == IF mme_ctx[guti] = None THEN NewMmeContext ELSE mme_ctx[guti]

SetContext(guti, ctx) == mme_ctx' = [mme_ctx EXCEPT ![guti] = ctx]

MmeExit == Exit("mme") /\ UNCHANGED mmeVars

Wait(c, act, id, buf) ==
    mme_fd' = [mme_fd EXCEPT ![c] = [act |-> act, sgw |-> FALSE, msui |-> id, buf |-> buf]]

-----------------------------------------------------------------------------
\* act 1, the end of the stream: both descriptors are closed, nothing is removed
\* from the tables, and the source address is not given back.
MmeHungUp(k, c) ==
    /\ MmeEvent(k, c, 1)
    /\ Ended("s1", c, k)
    /\ link' = ServerClose(IF mme_fd[c].sgw THEN ClientClose(link, "s11", c) ELSE link, "s1", c)
    /\ mme_fd' = [mme_fd EXCEPT ![c] = None]
    /\ UNCHANGED <<exited, mme_removal, mme_srcaddr, ue_count, s1mme_id, mme_ctx>>

\* act 1, first attach: the context, the identifier and a connection to the HSS.
MmeAttachOne(k, c) ==
    /\ MmeRequest(k, c, 1)
    /\ LET guti == link["s1"][c].up.imsi
       IN  /\ ue_count' = NextUeId
           /\ SetContext(guti, [Context(guti) EXCEPT !.imsi = guti])
           /\ s1mme_id' = [s1mme_id EXCEPT ![ue_count'] = guti]
           /\ Wait(c, 2, ue_count', [Msg(1) EXCEPT !.imsi = guti])
           /\ link' = Connect(ReadUp(link, "s1", c), "s6a", c)
    /\ UNCHANGED <<exited, mme_removal, mme_srcaddr>>

\* act 2, the HSS has accepted.
MmeHssConnected(k, c) ==
    /\ MmeEvent(k, c, 2)
    /\ link' = SendUp(Accept(link, "s6a", c, None), "s6a", c, mme_fd[c].buf)
    /\ Wait(c, 3, mme_fd[c].msui, None)
    /\ UNCHANGED <<exited, mme_removal, mme_srcaddr, ue_count, s1mme_id, mme_ctx>>

\* act 3: a context without an imsi gets that of the GUTI.
MmeHssAnswer(k, c) ==
    /\ MmeEvent(k, c, 3)
    /\ link["s6a"][c].down # None
    /\ LET id   == mme_fd[c].msui
           xres == link["s6a"][c].down.imsi
       IN  /\ \E guti \in GutiOf(id) :
                SetContext(guti, [Context(guti) EXCEPT !.xres = xres, !.imsi = IF @ = 0 THEN guti ELSE @])
           /\ link' = [SendDown(link, "s1", c, [Msg(1) EXCEPT !.id = id, !.imsi = xres])
                          EXCEPT !["s6a"][c] = NoLink]
    /\ mme_fd' = [mme_fd EXCEPT ![c] = FromRan(FALSE)]
    /\ UNCHANGED <<exited, mme_removal, mme_srcaddr, ue_count, s1mme_id>>

\* act 1, second attach: res is compared with xres.
MmeAttachTwo(k, c) ==
    /\ MmeRequest(k, c, 2)
    /\ LET m == link["s1"][c].up
       IN  IF Guti(m.id) = 0 \/ Context(Guti(m.id)).xres # m.imsi THEN MmeExit
           ELSE /\ link' = SendDown(ReadUp(link, "s1", c), "s1", c, [Msg(2) EXCEPT !.id = m.id])
                /\ mme_fd' = [mme_fd EXCEPT ![c] = FromRan(FALSE)]
                /\ UNCHANGED <<exited, mme_removal, mme_srcaddr, ue_count, s1mme_id, mme_ctx>>

\* act 1, third attach: a source address that leads answers to this core, and a
\* connection to the SGW.
MmeAttachThree(k, c) ==
    /\ MmeRequest(k, c, 3)
    /\ LET id   == link["s1"][c].up.id
           guti == Guti(id)
       IN  IF guti = 0 THEN MmeExit
           ELSE /\ mme_srcaddr' = mme_srcaddr \cup {c}
                /\ Wait(c, 4, id, [Msg(1) EXCEPT !.teid = guti, !.imsi = Context(guti).imsi])
                /\ link' = Connect(ReadUp(link, "s1", c), "s11", c)
                /\ UNCHANGED <<exited, mme_removal, ue_count, s1mme_id, mme_ctx>>

\* act 4.  The SGW may not have accepted yet.
MmeSgwConnected(k, c) ==
    /\ MmeEvent(k, c, 4)
    /\ link' = SendUp(link, "s11", c, mme_fd[c].buf)
    /\ Wait(c, 5, mme_fd[c].msui, None)
    /\ UNCHANGED <<exited, mme_removal, mme_srcaddr, ue_count, s1mme_id, mme_ctx>>

\* The SGW's answer to what act waits for.
MmeSgwAnswer(k, c, act) == MmeEvent(k, c, act) /\ link["s11"][c].down # None

\* Deviation: the terminal's descriptor does not remember the SGW's.
Resume_NoSgw(c, reply) ==
    /\ link' = SendDown(ReadDown(link, "s11", c), "s1", c, reply)
    /\ mme_fd' = [mme_fd EXCEPT ![c] = FromRan(FALSE)]
    /\ UNCHANGED <<exited, mme_removal, mme_srcaddr, ue_count, s1mme_id>>

\* The terminal gets an answer, and its descriptor remembers the SGW's.
Resume(c, reply) ==
    /\ link' = SendDown(ReadDown(link, "s11", c), "s1", c, reply)
    /\ mme_fd' = [mme_fd EXCEPT ![c] = FromRan(TRUE)]
    /\ UNCHANGED <<exited, mme_removal, mme_srcaddr, ue_count, s1mme_id>>

\* act 5.
MmeCreateAnswer(k, c) ==
    /\ MmeSgwAnswer(k, c, 5)
    /\ LET m    == link["s11"][c].down
           guti == Guti(mme_fd[c].msui)
       IN  IF guti = 0 \/ guti # m.teid THEN MmeExit
           ELSE /\ SetContext(guti, [Context(guti) EXCEPT !.s11_cteid_sgw = m.teid])
                /\ Resume(c, [Msg(3) EXCEPT !.imsi = guti, !.teid = m.teid, !.ip = m.ip])

\* A request that goes to the SGW of the call.
Forward(c, act, id, request) ==
    /\ Wait(c, act, id, None)
    /\ link' = SendUp(ReadUp(link, "s1", c), "s11", c, request)
    /\ UNCHANGED <<exited, mme_removal, mme_srcaddr, ue_count, s1mme_id>>

\* act 1, fourth attach: imsi stands for s1_uteid_dl in the request.
MmeAttachFour(k, c) ==
    /\ MmeRequest(k, c, 4)
    /\ LET m    == link["s1"][c].up
           guti == Guti(m.id)
       IN  IF guti = 0 THEN MmeExit
           ELSE /\ SetContext(guti, Context(guti))
                /\ Forward(c, 6, m.id, [Msg(2) EXCEPT !.teid = Context(guti).s11_cteid_sgw,
                                                      !.imsi = m.teid])

\* act 6.
MmeModifyAnswer(k, c) ==
    /\ MmeSgwAnswer(k, c, 6)
    /\ LET guti == Guti(mme_fd[c].msui)
       IN  IF guti = 0 THEN MmeExit
           ELSE /\ SetContext(guti, [Context(guti) EXCEPT !.ecm_state = 1])
                /\ Resume(c, [Msg(4) EXCEPT !.imsi = guti])

\* act 1, detach.
MmeDetach(k, c) ==
    /\ MmeRequest(k, c, 5)
    /\ LET m    == link["s1"][c].up
           guti == Guti(m.id)
       IN  IF guti = 0 THEN MmeExit
           ELSE /\ SetContext(guti, Context(guti))
                /\ Forward(c, 7, m.id, [Msg(3) EXCEPT !.teid = Context(guti).s11_cteid_sgw])

\* Deviation: the connection to the SGW stays open.
MmeRelease_KeepsSgw(l, c) == ServerClose(l, "s1", c)

\* Both connections of a call are closed.
MmeRelease(l, c) == ClientClose(ServerClose(l, "s1", c), "s11", c)

\* act 7: the answer, and the end of both connections.
MmeDetachAnswer(k, c) ==
    /\ MmeSgwAnswer(k, c, 7)
    /\ LET id   == mme_fd[c].msui
           guti == Guti(id)
       IN  IF guti = 0 \/ c \notin mme_srcaddr THEN MmeExit
           ELSE /\ link' = MmeRelease(SendDown(ReadDown(link, "s11", c), "s1", c, Msg(5)), c)
                /\ mme_fd' = [mme_fd EXCEPT ![c] = None]
                /\ mme_srcaddr' = mme_srcaddr \ {c}
                /\ mme_removal' = [mme_removal EXCEPT
                      ![k] = [tables |-> {"s1mme_id", "ue_ctx"}, id |-> id, guti |-> guti]]
                /\ UNCHANGED <<exited, ue_count, s1mme_id, mme_ctx>>

\* act 7, s1mme_id.erase and ue_ctx.erase.
MmeRemove(k) ==
    /\ mme_removal[k] # None
    /\ LET r == mme_removal[k]
       IN  IF "s1mme_id" \in r.tables
           THEN /\ s1mme_id' = [s1mme_id EXCEPT ![r.id] = 0]
                /\ mme_removal' = [mme_removal EXCEPT ![k].tables = {"ue_ctx"}]
                /\ UNCHANGED mme_ctx
           ELSE /\ mme_ctx' = [mme_ctx EXCEPT ![r.guti] = None]
                /\ mme_removal' = [mme_removal EXCEPT ![k] = None]
                /\ UNCHANGED s1mme_id
    /\ UNCHANGED <<linkVars, mme_fd, mme_srcaddr, ue_count>>

MmeServe(k, c) ==
    \/ MmeAccept(k, c) \/ MmeHungUp(k, c)
    \/ MmeAttachOne(k, c) \/ MmeAttachTwo(k, c) \/ MmeAttachThree(k, c)
    \/ MmeAttachFour(k, c) \/ MmeDetach(k, c)
    \/ MmeHssConnected(k, c) \/ MmeHssAnswer(k, c)
    \/ MmeSgwConnected(k, c) \/ MmeCreateAnswer(k, c) \/ MmeModifyAnswer(k, c)
    \/ MmeDetachAnswer(k, c)
=============================================================================
