-------------------------------- MODULE KbySgw --------------------------------
(***************************************************************************)
(* The SGW of v3.0.  A call has two descriptors, the MME's and the PGW's:  *)
(* the one it waits on is in the epoll set and in fdmap, and its entry     *)
(* names the other one.                                                    *)
(***************************************************************************)
EXTENDS KbyMme

VARIABLES
    sgw_fdmap, sgw_armed,
    s11_id, s1_id, s5_id,   \* TEID -> IMSI, 0 for no entry
    sgw_ctx,                \* ue_ctx
    sgw_dl                  \* s5_uteid_dl, a variable of run()

sgwVars == <<sgw_fdmap, sgw_armed, s11_id, s1_id, s5_id, sgw_ctx, sgw_dl>>

\* teid: all identifiers the create sets; s5_ul: s5_cteid_ul and s5_uteid_ul.
SgwContext == [teid : Teid, s1_uteid_dl : Teid, s5_ul : Teid]

NewSgwContext == [teid |-> 0, s1_uteid_dl |-> 0, s5_ul |-> 0]

SgwData == [act : 1 .. 4, initial_fd : {0} \cup Fd, tid : Teid, guti : Teid,
            buf : Message \cup {None}]

ASSUME KbySgwNoneAssumption == None \notin SgwContext \cup SgwData

FromMme(initial_fd) ==
    [act |-> 1, initial_fd |-> initial_fd, tid |-> 0, guti |-> 0, buf |-> None]

KbySgwTypeOK ==
    /\ sgw_fdmap \in [Fd -> SgwData \cup {None}]
    /\ sgw_armed \subseteq Fd
    /\ {s11_id, s1_id, s5_id} \subseteq [UE -> Teid]
    /\ sgw_ctx \in [UE -> SgwContext \cup {None}]
    /\ sgw_dl \in Teid

KbySgwInit ==
    /\ sgw_fdmap = [f \in Fd |-> None]
    /\ sgw_armed = {}
    /\ s11_id = [u \in UE |-> 0]
    /\ s1_id = [u \in UE |-> 0]
    /\ s5_id = [u \in UE |-> 0]
    /\ sgw_ctx = [u \in UE |-> None]
    /\ sgw_dl = 0

sgwTables == <<s11_id, s1_id, s5_id>>

-----------------------------------------------------------------------------
SgwUsed == Servers(s11) \cup Clients(s5)

\* handle_sgw_accept.
SgwAccept ==
    /\ Pending(s11) # {}
    /\ \E g \in Accepts(s11, SgwUsed) :
          /\ s11' = AcceptAll(s11, g)
          /\ sgw_armed' = sgw_armed \cup Range(g)
          /\ sgw_fdmap' = InsertAll(sgw_fdmap, Range(g), FromMme(0))
    /\ UNCHANGED <<ranVars, mmeVars, s1, s6a, s5, sgwTables, sgw_ctx, sgw_dl, exited>>

SgwEvent(f, act) ==
    /\ f \in sgw_armed
    /\ sgw_fdmap[f] # None
    /\ sgw_fdmap[f].act = act
    /\ UNCHANGED <<ranVars, mmeVars, s1, s6a>>

\* act 1 with a message of some type from the MME on connection c.
SgwRequest(c, type) ==
    /\ s11[c].up # None
    /\ s11[c].up.type = type
    /\ s11[c].srv # 0
    /\ SgwEvent(s11[c].srv, 1)

SgwExit == Exit("sgw") /\ UNCHANGED <<sgwVars, s11, s5>>

\* The imsi of a TEID, 0 for none.
Imsi(teid) == IF teid = 0 THEN 0 ELSE s11_id[teid]

\* An entry with act d is all that waits for the call of descriptor f: it is on g.
SgwWait(f, g, d) ==
    /\ sgw_armed' = (sgw_armed \ {f}) \cup {g}
    /\ sgw_fdmap' = Insert(Erase(sgw_fdmap, f), g, d)

-----------------------------------------------------------------------------
\* act 1, create session, and handle_pgw_connect.
SgwCreate(c) ==
    /\ SgwRequest(c, 1)
    /\ LET t    == s11[c].up.teid
           imsi == s11[c].up.imsi
           ctx  == sgw_ctx[imsi]
           g    == FreeFd(SgwUsed)
       IN  /\ s11_id' = [s11_id EXCEPT ![t] = imsi]
           /\ s1_id' = [s1_id EXCEPT ![t] = imsi]
           /\ s5_id' = [s5_id EXCEPT ![t] = imsi]
           /\ sgw_dl' = t
           /\ sgw_ctx' = [sgw_ctx EXCEPT
                 ![imsi] = [(IF ctx = None THEN NewSgwContext ELSE ctx) EXCEPT !.teid = t]]
           /\ s5' = Connect(s5, g)
           /\ SgwWait(s11[c].srv, g,
                      [act |-> 2, initial_fd |-> s11[c].srv, tid |-> t, guti |-> imsi,
                       buf |-> [Msg(1) EXCEPT !.teid = t, !.imsi = imsi]])
    /\ s11' = [s11 EXCEPT ![c].up = None]
    /\ UNCHANGED exited

\* Deviation: the entry and the events waited for stay what they were.
SgwPgwConnected_StaysArmed(f) ==
    /\ SgwEvent(f, 2)
    /\ s5' = SendUp(s5, f, sgw_fdmap[f].buf)
    /\ UNCHANGED <<s11, sgw_fdmap, sgw_armed, sgwTables, sgw_ctx, sgw_dl, exited>>

\* act 2, send_request_pgw.
SgwPgwConnected(f) ==
    /\ SgwEvent(f, 2)
    /\ s5' = SendUp(s5, f, sgw_fdmap[f].buf)
    /\ sgw_fdmap' = [sgw_fdmap EXCEPT ![f].act = 3, ![f].buf = None]
    /\ UNCHANGED <<s11, sgw_armed, sgwTables, sgw_ctx, sgw_dl, exited>>

\* act 3.  The downlink TEID of the answer is what run() handled last.
SgwCreateAnswer(f) ==
    /\ SgwEvent(f, 3)
    /\ s5[f].down # None
    /\ LET d == sgw_fdmap[f]
       IN  /\ sgw_ctx' = [sgw_ctx EXCEPT ![d.guti].s5_ul = s5[f].down.teid]
           /\ s5' = [s5 EXCEPT ![f].down = None]
           /\ s11' = Reply(s11, d.initial_fd,
                           [Msg(1) EXCEPT !.teid = d.tid, !.s5 = sgw_dl, !.ip = s5[f].down.ip])
           /\ SgwWait(f, d.initial_fd, FromMme(f))
    /\ UNCHANGED <<sgwTables, sgw_dl, exited>>

\* act 1, modify bearer, and send_attach_four.
SgwModify(c) ==
    /\ SgwRequest(c, 2)
    /\ LET imsi == Imsi(s11[c].up.teid)
       IN  IF imsi = 0 THEN SgwExit
           ELSE /\ sgw_ctx' = [sgw_ctx EXCEPT ![imsi].s1_uteid_dl = s11[c].up.imsi]
                /\ s11' = Answer(s11, c, [Msg(2) EXCEPT !.teid = sgw_ctx[imsi].teid])
                /\ UNCHANGED <<sgw_fdmap, sgw_armed, sgwTables, sgw_dl, s5, exited>>

\* act 1, detach, and send_pgw_detach on the call's connection to the PGW.
SgwDetach(c) ==
    /\ SgwRequest(c, 3)
    /\ LET t      == s11[c].up.teid
           imsi   == Imsi(t)
           f      == s11[c].srv
           pgw_fd == sgw_fdmap[f].initial_fd
       IN  IF imsi = 0 \/ imsi # t \/ sgw_ctx[imsi] = None THEN SgwExit
           ELSE /\ sgw_dl' = sgw_ctx[imsi].teid
                /\ s11' = [s11 EXCEPT ![c].up = None]
                /\ s5' = SendUp(s5, pgw_fd, [Msg(4) EXCEPT !.teid = sgw_ctx[imsi].s5_ul])
                /\ SgwWait(f, pgw_fd,
                           [act |-> 4, initial_fd |-> f, tid |-> sgw_ctx[imsi].teid,
                            guti |-> imsi, buf |-> None])
                /\ UNCHANGED <<sgwTables, sgw_ctx, exited>>

\* Deviation: one table is left out.
SgwForget_KeepsS5(t) ==
    /\ s11_id' = [s11_id EXCEPT ![t] = 0]
    /\ s1_id' = [s1_id EXCEPT ![t] = 0]
    /\ sgw_ctx' = [sgw_ctx EXCEPT ![Imsi(t)] = None]
    /\ UNCHANGED s5_id

\* The end of a session: its entries in all tables.
SgwForget(t) ==
    /\ s11_id' = [s11_id EXCEPT ![t] = 0]
    /\ s1_id' = [s1_id EXCEPT ![t] = 0]
    /\ s5_id' = [s5_id EXCEPT ![t] = 0]
    /\ sgw_ctx' = [sgw_ctx EXCEPT ![Imsi(t)] = None]

\* act 4: the session and both connections end.
SgwDetachAnswer(f) ==
    /\ SgwEvent(f, 4)
    /\ s5[f].down # None
    /\ LET t      == sgw_fdmap[f].tid
           mme_fd == sgw_fdmap[f].initial_fd
       IN  IF Imsi(t) = 0 THEN SgwExit
           ELSE /\ SgwForget(t)
                /\ s5' = [s5 EXCEPT ![f] = NoLink]
                /\ s11' = Shut(Reply(s11, mme_fd, [Msg(3) EXCEPT !.teid = t]), mme_fd)
                /\ sgw_fdmap' = Erase(Erase(sgw_fdmap, f), mme_fd)
                /\ sgw_armed' = sgw_armed \ {f, mme_fd}
                /\ UNCHANGED <<sgw_dl, exited>>

SgwServe(f) == SgwPgwConnected(f) \/ SgwCreateAnswer(f) \/ SgwDetachAnswer(f)

SgwServeMme(c) == SgwCreate(c) \/ SgwModify(c) \/ SgwDetach(c)
=============================================================================
