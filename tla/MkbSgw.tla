-------------------------------- MODULE MkbSgw --------------------------------
(***************************************************************************)
(* The SGW: one event loop per core, shared tables.  A create enters, and  *)
(* the end of a detach removes, the subscriber table by table, each under  *)
(* its own mutex, while other cores serve other calls.                     *)
(***************************************************************************)
EXTENDS MkbMme

VARIABLES
    sgw_fd,      \* the entry of each call in the fdmap of its core
    sgw_job,     \* per core: the handler that goes through the tables
    sgw_id,      \* s11_id, s1_id, s5_id: TEID -> IMSI
    sgw_ctx      \* ue_ctx

sgwVars == <<sgw_fd, sgw_job, sgw_id, sgw_ctx>>

\* mdata; pgw: for act 1, whether initial_fd is the PGW's descriptor and not -1.
SgwData == [act : 1 .. 4, pgw : BOOLEAN, tid : Teid, guti : Teid, buf : Message \cup {None}]

FromMme(pgw) == [act |-> 1, pgw |-> pgw, tid |-> 0, guti |-> 0, buf |-> None]

\* teid: the identifiers that the create sets; s5_ul: those of the PGW.
SgwContext == [teid : Teid, s1_uteid_dl : Teid, s5_ul : Teid]

NewSgwContext == [teid |-> 0, s1_uteid_dl |-> 0, s5_ul |-> 0]

\* at: the table that is next.
SgwJob == [call : Call, do : {"create", "remove"}, at : {"s1", "s5", "ue_ctx"},
           teid : UE, imsi : Teid]

ASSUME MkbSgwNoneAssumption == None \notin SgwData \cup SgwContext \cup SgwJob

MkbSgwTypeOK ==
    /\ sgw_fd \in [Call -> SgwData \cup {None}]
    /\ sgw_job \in [SgwCore -> SgwJob \cup {None}]
    /\ sgw_id \in [{"s11", "s1", "s5"} -> [UE -> Teid]]
    /\ sgw_ctx \in [UE -> SgwContext \cup {None}]

MkbSgwInit ==
    /\ sgw_fd = [c \in Call |-> None]
    /\ sgw_job = [k \in SgwCore |-> None]
    /\ sgw_id = [i \in {"s11", "s1", "s5"} |-> [u \in UE |-> 0]]
    /\ sgw_ctx = [u \in UE |-> None]

-----------------------------------------------------------------------------
\* The accept loop of core k.
SgwAccept(k, c) ==
    /\ sgw_job[k] = None
    /\ link["s11"][c].state = "syn"
    /\ link' = Accept(link, "s11", c, k)
    /\ sgw_fd' = [sgw_fd EXCEPT ![c] = FromMme(FALSE)]
    /\ UNCHANGED <<exited, sgw_job, sgw_id, sgw_ctx>>

SgwEvent(k, c, act) ==
    /\ sgw_job[k] = None
    /\ link["s11"][c].core = k
    /\ sgw_fd[c] # None
    /\ sgw_fd[c].act = act

SgwRequest(k, c, type) ==
    /\ SgwEvent(k, c, 1)
    /\ Arrived("s11", c, k)
    /\ link["s11"][c].up.type = type

SgwExit == Exit("sgw") /\ UNCHANGED sgwVars

Imsi(teid) == IF teid = 0 THEN 0 ELSE sgw_id["s11"][teid]

\* act 1, the end of the stream: the tables keep the session.
SgwHungUp(k, c) ==
    /\ SgwEvent(k, c, 1)
    /\ Ended("s11", c, k)
    /\ link' = ServerClose(IF sgw_fd[c].pgw THEN ClientClose(link, "s5", c) ELSE link, "s11", c)
    /\ sgw_fd' = [sgw_fd EXCEPT ![c] = None]
    /\ UNCHANGED <<exited, sgw_job, sgw_id, sgw_ctx>>

\* act 1, create session, up to s11_id.
SgwCreate(k, c) ==
    /\ SgwRequest(k, c, 1)
    /\ LET m == link["s11"][c].up
       IN  /\ sgw_id' = [sgw_id EXCEPT !["s11"][m.teid] = m.imsi]
           /\ sgw_job' = [sgw_job EXCEPT
                 ![k] = [call |-> c, do |-> "create", at |-> "s1", teid |-> m.teid, imsi |-> m.imsi]]
    /\ link' = ReadUp(link, "s11", c)
    /\ UNCHANGED <<exited, sgw_fd, sgw_ctx>>

\* Deviation: a removal leaves the entry of s5_id.
SgwEntry_KeepsS5(j) ==
    IF j.do = "create" THEN j.imsi ELSE IF j.at = "s5" THEN sgw_id["s5"][j.teid] ELSE 0

\* The entry that a handler leaves in a table.
SgwEntry(j) == IF j.do = "create" THEN j.imsi ELSE 0

\* s1_id, then s5_id.
SgwSection(k) ==
    /\ sgw_job[k] # None
    /\ sgw_job[k].at \in {"s1", "s5"}
    /\ LET j == sgw_job[k]
       IN  /\ sgw_id' = [sgw_id EXCEPT ![j.at][j.teid] = SgwEntry(j)]
           /\ sgw_job' = [sgw_job EXCEPT ![k].at = IF j.at = "s1" THEN "s5" ELSE "ue_ctx"]
    /\ UNCHANGED <<linkVars, sgw_fd, sgw_ctx>>

SgwLast(k, do) == sgw_job[k] # None /\ sgw_job[k].at = "ue_ctx" /\ sgw_job[k].do = do

\* The end of a create: the context, and a connection to the PGW.
SgwCreated(k) ==
    /\ SgwLast(k, "create")
    /\ LET j == sgw_job[k]
       IN  /\ sgw_ctx' = [sgw_ctx EXCEPT
                 ![j.imsi] = [(IF @ = None THEN NewSgwContext ELSE @) EXCEPT !.teid = j.teid]]
           /\ sgw_fd' = [sgw_fd EXCEPT
                 ![j.call] = [act |-> 2, pgw |-> FALSE, tid |-> j.teid, guti |-> j.imsi,
                              buf |-> [Msg(1) EXCEPT !.teid = j.teid, !.imsi = j.imsi]]]
           /\ link' = Connect(link, "s5", j.call)
    /\ sgw_job' = [sgw_job EXCEPT ![k] = None]
    /\ UNCHANGED <<exited, sgw_id>>

\* act 2.
SgwPgwConnected(k, c) ==
    /\ SgwEvent(k, c, 2)
    /\ link' = SendUp(link, "s5", c, sgw_fd[c].buf)
    /\ sgw_fd' = [sgw_fd EXCEPT ![c].act = 3, ![c].buf = None]
    /\ UNCHANGED <<exited, sgw_job, sgw_id, sgw_ctx>>

\* act 3.  The answer also carries s5_uteid_dl, which is not among the fields kept
\* here: it is run()'s variable of whichever call this core handled last
\* (mkb_sgw.cpp:640), as in the single-core SGW, where DownlinkStored shows it.
SgwCreateAnswer(k, c) ==
    /\ SgwEvent(k, c, 3)
    /\ link["s5"][c].down # None
    /\ LET m == link["s5"][c].down
       IN  /\ sgw_ctx' = [sgw_ctx EXCEPT ![sgw_fd[c].guti] =
                             [(IF @ = None THEN NewSgwContext ELSE @) EXCEPT !.s5_ul = m.teid]]
           /\ link' = SendDown(ReadDown(link, "s5", c), "s11", c,
                               [Msg(1) EXCEPT !.teid = sgw_fd[c].tid, !.ip = m.ip])
    /\ sgw_fd' = [sgw_fd EXCEPT ![c] = FromMme(TRUE)]
    /\ UNCHANGED <<exited, sgw_job, sgw_id>>

\* act 1, modify bearer.
SgwModify(k, c) ==
    /\ SgwRequest(k, c, 2)
    /\ LET imsi == Imsi(link["s11"][c].up.teid)
       IN  IF imsi = 0 THEN SgwExit
           ELSE /\ sgw_ctx' = [sgw_ctx EXCEPT ![imsi] =
                      [(IF @ = None THEN NewSgwContext ELSE @) EXCEPT !.s1_uteid_dl = link["s11"][c].up.imsi]]
                /\ link' = SendDown(ReadUp(link, "s11", c), "s11", c, Msg(2))
                /\ UNCHANGED <<exited, sgw_fd, sgw_job, sgw_id>>

\* act 1, detach: the request goes on to the PGW of the call.
SgwDetach(k, c) ==
    /\ SgwRequest(k, c, 3)
    /\ LET t    == link["s11"][c].up.teid
           imsi == Imsi(t)
       IN  IF imsi = 0 \/ imsi # t \/ sgw_ctx[imsi] = None THEN SgwExit
           ELSE /\ link' = SendUp(ReadUp(link, "s11", c), "s5", c,
                                  [Msg(4) EXCEPT !.teid = sgw_ctx[imsi].s5_ul])
                /\ sgw_fd' = [sgw_fd EXCEPT
                      ![c] = [act |-> 4, pgw |-> FALSE, tid |-> sgw_ctx[imsi].teid,
                              guti |-> imsi, buf |-> None]]
                /\ UNCHANGED <<exited, sgw_job, sgw_id, sgw_ctx>>

\* act 4, up to s11_id.
SgwDetachAnswer(k, c) ==
    /\ SgwEvent(k, c, 4)
    /\ link["s5"][c].down # None
    /\ LET t == sgw_fd[c].tid
       IN  IF Imsi(t) = 0 THEN SgwExit
           ELSE /\ sgw_id' = [sgw_id EXCEPT !["s11"][t] = 0]
                /\ sgw_job' = [sgw_job EXCEPT
                      ![k] = [call |-> c, do |-> "remove", at |-> "s1", teid |-> t, imsi |-> Imsi(t)]]
                /\ link' = ReadDown(link, "s5", c)
                /\ UNCHANGED <<exited, sgw_fd, sgw_ctx>>

\* The end of a detach: the context, the answer, and both connections.
SgwRemoved(k) ==
    /\ SgwLast(k, "remove")
    /\ LET j == sgw_job[k]
       IN  /\ sgw_ctx' = [sgw_ctx EXCEPT ![j.imsi] = None]
           /\ sgw_fd' = [sgw_fd EXCEPT ![j.call] = None]
           /\ link' = ServerClose(ClientClose(SendDown(link, "s11", j.call, Msg(3)), "s5", j.call),
                                  "s11", j.call)
    /\ sgw_job' = [sgw_job EXCEPT ![k] = None]
    /\ UNCHANGED <<exited, sgw_id>>

SgwServe(k, c) ==
    \/ SgwAccept(k, c) \/ SgwHungUp(k, c)
    \/ SgwCreate(k, c) \/ SgwModify(k, c) \/ SgwDetach(k, c)
    \/ SgwPgwConnected(k, c) \/ SgwCreateAnswer(k, c) \/ SgwDetachAnswer(k, c)

SgwWork(k) == SgwSection(k) \/ SgwCreated(k) \/ SgwRemoved(k)
=============================================================================
