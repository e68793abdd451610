-------------------------------- MODULE KbyMme --------------------------------
(***************************************************************************)
(* The MME of v3.0: the actions (act) of fdmap that its event loop runs    *)
(* through for a call.  While a call waits for the HSS or the SGW, the     *)
(* terminal's descriptor is neither in the epoll set nor in fdmap, but the *)
(* initial_fd of the descriptor the call waits on; between two requests    *)
(* the terminal's entry keeps the SGW's descriptor there.                  *)
(***************************************************************************)
EXTENDS KbyRan

VARIABLES
    mme_fdmap,   \* fdmap
    mme_armed,   \* descriptors in the epoll set, the listening one apart
    ue_count,
    s1mme_id,    \* mme_s1ap_ue_id -> GUTI
    mme_ctx      \* ue_ctx

mmeVars == <<mme_fdmap, mme_armed, ue_count, s1mme_id, mme_ctx>>

MmeContext == [xres : Teid, s11_cteid_sgw : Teid, s5_uteid_dl : Teid, s1_uteid_dl : Teid,
               ecm_state : {0, 1}]

NewMmeContext == [xres |-> 0, s11_cteid_sgw |-> 0, s5_uteid_dl |-> 0, s1_uteid_dl |-> 0,
                  ecm_state |-> 0]

\* mdata; msui is the mme_s1ap_ue_id of the call.
MmeData == [act : 1 .. 7, initial_fd : {0} \cup Fd, msui : {0} \cup UeId,
            buf : Message \cup {None}]

ASSUME KbyMmeNoneAssumption == None \notin MmeContext \cup MmeData

FromRan(initial_fd) == [act |-> 1, initial_fd |-> initial_fd, msui |-> 0, buf |-> None]

KbyMmeTypeOK ==
    /\ mme_fdmap \in [Fd -> MmeData \cup {None}]
    /\ mme_armed \subseteq Fd
    /\ ue_count \in {0} \cup UeId
    /\ s1mme_id \in [UeId -> Teid]
    /\ mme_ctx \in [UE -> MmeContext \cup {None}]

KbyMmeInit ==
    /\ mme_fdmap = [f \in Fd |-> None]
    /\ mme_armed = {}
    /\ ue_count = 0
    /\ s1mme_id = [i \in UeId |-> 0]
    /\ mme_ctx = [u \in UE |-> None]

-----------------------------------------------------------------------------
MmeUsed == Servers(s1) \cup Clients(s6a) \cup Clients(s11)

\* handle_ran_accept.
MmeAccept ==
    /\ Pending(s1) # {}
    /\ \E g \in Accepts(s1, MmeUsed) :
          /\ s1' = AcceptAll(s1, g)
          /\ mme_armed' = mme_armed \cup Range(g)
          /\ mme_fdmap' = InsertAll(mme_fdmap, Range(g), FromRan(0))
    /\ UNCHANGED <<ranVars, s6a, s11, s5, ue_count, s1mme_id, mme_ctx, exited>>

\* An event of descriptor f is handled by its act.
MmeEvent(f, act) ==
    /\ f \in mme_armed
    /\ mme_fdmap[f] # None
    /\ mme_fdmap[f].act = act
    /\ UNCHANGED <<ranVars, s5>>

\* act 1 with a message of some type from the terminal on connection u: one without
\* an identifier is a first attach, whatever its type.
MmeRequest(u, type) ==
    /\ s1[u].up # None
    /\ IF s1[u].up.id = 0 THEN type = 1 ELSE type # 1 /\ s1[u].up.type = type
    /\ s1[u].srv # 0
    /\ MmeEvent(s1[u].srv, 1)

RequestRead(u) == s1' = [s1 EXCEPT ![u].up = None]

Unknown(id) == s1mme_id[id] = 0

\* Deviation: guti is not looked up again after a wait.
GutiOf_Last(id) == UE

\* guti is a variable of run(): where find fails and nobody exits it stays that of
\* the last subscriber handled, whichever that was.
GutiOf(id) == IF Unknown(id) THEN UE ELSE {s1mme_id[id]}

\* ue_ctx[guti] = ctx, and a read of it: operator[] makes the context it misses.
Context(guti) == IF mme_ctx[guti] = None THEN NewMmeContext ELSE mme_ctx[guti]

SetContext(guti, ctx) == mme_ctx' = [mme_ctx EXCEPT ![guti] = ctx]

\* Deviation: the counter is incremented twice.
NextUeId_Twice == ue_count + 2

NextUeId == ue_count + 1

\* An exit(-1): the MME is gone.
MmeExit ==
    /\ Exit("mme")
    /\ UNCHANGED <<mmeVars, linkVars>>

\* The descriptors a call waits on next are armed instead of f.
Rearm(f, g) == mme_armed' = (mme_armed \ {f}) \cup {g}

\* connect on a new descriptor g: the request waits in its entry, and the entry
\* of f is gone.
Park(f, g, act, id, request) ==
    /\ Rearm(f, g)
    /\ mme_fdmap' = Insert(Erase(mme_fdmap, f), g,
                           [act |-> act, initial_fd |-> f, msui |-> id, buf |-> request])

-----------------------------------------------------------------------------
\* act 1, first attach, and handle_hss_connect.
MmeAttachOne(u) ==
    /\ MmeRequest(u, 1)
    /\ LET guti == s1[u].up.imsi
           g    == FreeFd(MmeUsed)
       IN  /\ ue_count' = NextUeId
           /\ s1mme_id' = [s1mme_id EXCEPT ![ue_count'] = guti]
           /\ SetContext(guti, Context(guti))
           /\ s6a' = Connect(s6a, g)
           /\ Park(s1[u].srv, g, 2, ue_count', [Msg(1) EXCEPT !.imsi = guti])
           /\ RequestRead(u)
    /\ UNCHANGED <<s11, exited>>

\* act 2, send_request_hss.
MmeHssConnected(f) ==
    /\ MmeEvent(f, 2)
    /\ s6a' = SendUp([s6a EXCEPT ![f].state = "open"], f, mme_fdmap[f].buf)
    /\ mme_fdmap' = [mme_fdmap EXCEPT ![f].act = 3, ![f].buf = None]
    /\ UNCHANGED <<s1, s11, mme_armed, ue_count, s1mme_id, mme_ctx, exited>>

\* act 3 and send_ran_attach_one.
MmeHssAnswer(f) ==
    /\ MmeEvent(f, 3)
    /\ s6a[f].down # None
    /\ LET d == mme_fdmap[f]
       IN  \E guti \in GutiOf(d.msui) :
           /\ SetContext(guti, [Context(guti) EXCEPT !.xres = s6a[f].down.imsi])
           /\ s6a' = [s6a EXCEPT ![f] = NoLink]
           /\ s1' = Reply(s1, d.initial_fd, [Msg(1) EXCEPT !.id = d.msui, !.imsi = s6a[f].down.imsi])
           /\ mme_fdmap' = Insert(Erase(Erase(mme_fdmap, f), d.initial_fd), d.initial_fd, FromRan(0))
           /\ Rearm(f, d.initial_fd)
    /\ UNCHANGED <<s11, ue_count, s1mme_id, exited>>

\* act 1, second attach, and send_ran_attach_two: res is compared with xres.
MmeAttachTwo(u) ==
    /\ MmeRequest(u, 2)
    /\ LET m    == s1[u].up
           guti == s1mme_id[m.id]
       IN  IF guti = 0 \/ Context(guti).xres # m.imsi THEN MmeExit
           ELSE /\ s1' = Answer(s1, u, [Msg(2) EXCEPT !.id = m.id])
                /\ UNCHANGED <<s6a, s11, mme_fdmap, mme_armed, ue_count, s1mme_id, mme_ctx, exited>>

\* act 1, third attach, and handle_sgw_connect.
MmeAttachThree(u) ==
    /\ MmeRequest(u, 3)
    /\ LET id   == s1[u].up.id
           guti == s1mme_id[id]
           g    == FreeFd(MmeUsed)
       IN  IF Unknown(id) THEN MmeExit
           ELSE /\ s11' = Connect(s11, g)
                /\ Park(s1[u].srv, g, 4, id, [Msg(1) EXCEPT !.teid = guti, !.imsi = guti])
                /\ RequestRead(u)
                /\ UNCHANGED <<s6a, ue_count, s1mme_id, mme_ctx, exited>>

\* act 4, send_request_sgw_athree.  The SGW may not have accepted yet.
MmeSgwConnected(f) ==
    /\ MmeEvent(f, 4)
    /\ s11' = SendUp(s11, f, mme_fdmap[f].buf)
    /\ mme_fdmap' = [mme_fdmap EXCEPT ![f].act = 5, ![f].buf = None]
    /\ UNCHANGED <<s1, s6a, mme_armed, ue_count, s1mme_id, mme_ctx, exited>>

\* The answer of the SGW goes to the terminal, whose descriptor is armed again;
\* its entry remembers the SGW's descriptor.
Resume(f, reply) ==
    LET ran_fd == mme_fdmap[f].initial_fd
    IN  /\ s11' = [s11 EXCEPT ![f].down = None]
        /\ s1' = Reply(s1, ran_fd, reply)
        /\ mme_fdmap' = Insert(Erase(mme_fdmap, f), ran_fd, FromRan(f))
        /\ Rearm(f, ran_fd)
        /\ UNCHANGED <<s6a, ue_count, s1mme_id, exited>>

\* act 5.
MmeCreateAnswer(f) ==
    /\ MmeEvent(f, 5)
    /\ s11[f].down # None
    /\ LET id   == mme_fdmap[f].msui
           guti == s1mme_id[id]
           m    == s11[f].down
       IN  IF Unknown(id) \/ guti # m.teid THEN MmeExit
           ELSE /\ SetContext(guti, [Context(guti) EXCEPT !.s11_cteid_sgw = m.teid, !.s5_uteid_dl = m.s5])
                /\ Resume(f, [Msg(3) EXCEPT !.imsi = guti, !.teid = m.teid, !.ip = m.ip])

\* Deviation: the entry gets the identifier that was assigned last.
Forward_LastId(f, act, id, request) ==
    LET sgw_fd == mme_fdmap[f].initial_fd
    IN  /\ s11' = SendUp(s11, sgw_fd, request)
        /\ Rearm(f, sgw_fd)
        /\ mme_fdmap' = Insert(Erase(mme_fdmap, f), sgw_fd,
                               [act |-> act, initial_fd |-> f, msui |-> ue_count, buf |-> None])
        /\ UNCHANGED <<s6a, ue_count, s1mme_id, exited>>

\* act 1, a request that the SGW gets on the call's connection, and send_sgw_afour
\* and send_sgw_detach: f is the terminal's descriptor.
Forward(f, act, id, request) ==
    LET sgw_fd == mme_fdmap[f].initial_fd
    IN  /\ s11' = SendUp(s11, sgw_fd, request)
        /\ Rearm(f, sgw_fd)
        /\ mme_fdmap' = Insert(Erase(mme_fdmap, f), sgw_fd,
                               [act |-> act, initial_fd |-> f, msui |-> id, buf |-> None])
        /\ UNCHANGED <<s6a, ue_count, s1mme_id, exited>>

\* act 1, fourth attach.
MmeAttachFour(u) ==
    /\ MmeRequest(u, 4)
    /\ LET m    == s1[u].up
           guti == s1mme_id[m.id]
       IN  IF Unknown(m.id) THEN MmeExit
           ELSE /\ SetContext(guti, [Context(guti) EXCEPT !.s1_uteid_dl = m.teid])
                /\ Forward(s1[u].srv, 6, m.id,
                           [Msg(2) EXCEPT !.teid = Context(guti).s11_cteid_sgw, !.imsi = m.teid])
                /\ RequestRead(u)

\* act 6.
MmeModifyAnswer(f) ==
    /\ MmeEvent(f, 6)
    /\ s11[f].down # None
    /\ \E guti \in GutiOf(mme_fdmap[f].msui) :
          /\ SetContext(guti, [Context(guti) EXCEPT !.ecm_state = 1])
          /\ Resume(f, [Msg(4) EXCEPT !.imsi = guti])

\* act 1, detach.
MmeDetach(u) ==
    /\ MmeRequest(u, 5)
    /\ LET m == s1[u].up
       IN  IF Unknown(m.id) THEN MmeExit
           ELSE /\ Forward(s1[u].srv, 7, m.id,
                           [Msg(3) EXCEPT !.teid = Context(s1mme_id[m.id]).s11_cteid_sgw])
                /\ RequestRead(u)
                /\ UNCHANGED mme_ctx

\* Deviation: the terminal's connection is not closed.
MmeShut_KeepsRan(links, f) == links

\* mtcp_close of the terminal's descriptor.
MmeShut(links, f) == Shut(links, f)

\* act 7: the answer, and the end of both connections and of the subscriber.  The
\* terminal's descriptor left the epoll set when act 1 read the detach, so that this
\* DEL asks for one that is not there, and the MME exits if mTCP says so.
MmeDetachAnswer(f) ==
    /\ MmeEvent(f, 7)
    /\ s11[f].down # None
    /\ LET ran_fd == mme_fdmap[f].initial_fd
           id     == mme_fdmap[f].msui
       IN  \E guti \in GutiOf(id) :
           LET answered == Reply(s1, ran_fd, [Msg(5) EXCEPT !.imsi = guti])
           IN  /\ s11' = [s11 EXCEPT ![f] = NoLink]
               /\ s1mme_id' = [s1mme_id EXCEPT ![id] = 0]
               /\ mme_ctx' = [mme_ctx EXCEPT ![guti] = None]
               /\ mme_fdmap' = Erase(Erase(mme_fdmap, f), ran_fd)
               /\ mme_armed' = mme_armed \ {f, ran_fd}
               /\ \E returnval \in EpollDel(mme_armed \ {f}, ran_fd) :
                     \/ returnval = -1 /\ s1' = answered /\ Exit("mme")
                     \/ returnval = 0 /\ s1' = MmeShut(answered, ran_fd) /\ UNCHANGED exited
    /\ UNCHANGED <<s6a, ue_count>>

MmeServe(f) ==
    \/ MmeHssConnected(f) \/ MmeHssAnswer(f)
    \/ MmeSgwConnected(f) \/ MmeCreateAnswer(f) \/ MmeModifyAnswer(f) \/ MmeDetachAnswer(f)

MmeServeRan(u) ==
    \/ MmeAttachOne(u) \/ MmeAttachTwo(u) \/ MmeAttachThree(u)
    \/ MmeAttachFour(u) \/ MmeDetach(u)
=============================================================================
