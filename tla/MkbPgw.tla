-------------------------------- MODULE MkbPgw --------------------------------
(***************************************************************************)
(* The PGW: one event loop per core, shared tables, gone through one after *)
(* the other under their mutexes within each event.                        *)
(***************************************************************************)
EXTENDS MkbSgw

VARIABLES
    pgw_fd,        \* calls with an entry in the fdmap of their core
    pgw_job,       \* per core: the handler that goes through the tables
    pgw_s5_id,     \* s5_id: TEID -> IMSI
    sgi_id,        \* address -> IMSI
    pgw_ctx        \* ue_ctx

pgwVars == <<pgw_fd, pgw_job, pgw_s5_id, sgi_id, pgw_ctx>>

\* teid: its identifiers, all of the value the create brought.
PgwContext == [teid : Teid, ip_addr : Teid]

\* A create has two tables left after s5_id, a removal two after ue_ctx.
PgwJob == [call : Call, do : {"create", "remove"}, at : {"sgi_id", "ue_ctx", "s5_id"},
           teid : Teid, imsi : UE, ip : Teid]

ASSUME MkbPgwNoneAssumption == None \notin PgwContext \cup PgwJob

NewPgwContext == [teid |-> 0, ip_addr |-> 0]

MkbPgwTypeOK ==
    /\ pgw_fd \subseteq Call
    /\ pgw_job \in [PgwCore -> PgwJob \cup {None}]
    /\ pgw_s5_id \in [UE -> Teid]
    /\ sgi_id \in [Teid -> Teid]
    /\ pgw_ctx \in [UE -> PgwContext \cup {None}]

MkbPgwInit ==
    /\ pgw_fd = {}
    /\ pgw_job = [k \in PgwCore |-> None]
    /\ pgw_s5_id = [u \in UE |-> 0]
    /\ sgi_id = [ip \in Teid |-> 0]
    /\ pgw_ctx = [u \in UE |-> None]

-----------------------------------------------------------------------------
\* The accept loop of core k.
PgwAccept(k, c) ==
    /\ pgw_job[k] = None
    /\ link["s5"][c].state = "syn"
    /\ link' = Accept(link, "s5", c, k)
    /\ pgw_fd' = pgw_fd \cup {c}
    /\ UNCHANGED <<exited, pgw_job, pgw_s5_id, sgi_id, pgw_ctx>>

PgwRequest(k, c, type) ==
    /\ pgw_job[k] = None
    /\ c \in pgw_fd
    /\ Arrived("s5", c, k)
    /\ link["s5"][c].up.type = type

\* The end of the stream: the tables keep the session.
PgwHungUp(k, c) ==
    /\ pgw_job[k] = None
    /\ c \in pgw_fd
    /\ Ended("s5", c, k)
    /\ link' = ServerClose(link, "s5", c)
    /\ pgw_fd' = pgw_fd \ {c}
    /\ UNCHANGED <<exited, pgw_job, pgw_s5_id, sgi_id, pgw_ctx>>

\* Create session, up to s5_id.
PgwCreate(k, c) ==
    /\ PgwRequest(k, c, 1)
    /\ LET m == link["s5"][c].up
       IN  /\ pgw_s5_id' = [pgw_s5_id EXCEPT ![m.teid] = m.imsi]
           /\ pgw_job' = [pgw_job EXCEPT
                 ![k] = [call |-> c, do |-> "create", at |-> "sgi_id", teid |-> m.teid,
                         imsi |-> m.imsi, ip |-> IpAddr(m.imsi)]]
    /\ link' = ReadUp(link, "s5", c)
    /\ UNCHANGED <<exited, pgw_fd, sgi_id, pgw_ctx>>

\* Detach, up to ue_ctx.
PgwDetach(k, c) ==
    /\ PgwRequest(k, c, 4)
    /\ LET t    == link["s5"][c].up.teid
           imsi == IF t = 0 THEN 0 ELSE pgw_s5_id[t]
           ctx  == IF pgw_ctx[imsi] = None THEN NewPgwContext ELSE pgw_ctx[imsi]
       IN  IF imsi = 0 \/ imsi # t THEN Exit("pgw") /\ UNCHANGED pgwVars
           ELSE /\ pgw_ctx' = [pgw_ctx EXCEPT ![imsi] = None]
                /\ pgw_job' = [pgw_job EXCEPT
                      ![k] = [call |-> c, do |-> "remove", at |-> "sgi_id",
                              teid |-> ctx.teid, imsi |-> imsi, ip |-> ctx.ip_addr]]
                /\ link' = ReadUp(link, "s5", c)
                /\ UNCHANGED <<exited, pgw_fd, pgw_s5_id, sgi_id>>

\* Deviation: a removal leaves the entry of the address.
PgwEntry_Kept(j) == j.imsi

\* The entry that a handler leaves in a table.
PgwEntry(j) == IF j.do = "create" THEN j.imsi ELSE 0

\* sgi_id.
PgwSection(k) ==
    /\ pgw_job[k] # None
    /\ pgw_job[k].at = "sgi_id"
    /\ LET j == pgw_job[k]
       IN  /\ sgi_id' = [sgi_id EXCEPT ![j.ip] = PgwEntry(j)]
           /\ pgw_job' = [pgw_job EXCEPT ![k].at = IF j.do = "create" THEN "ue_ctx" ELSE "s5_id"]
    /\ UNCHANGED <<linkVars, pgw_fd, pgw_s5_id, pgw_ctx>>

\* The end of a create: the context and the answer.
PgwCreated(k) ==
    /\ pgw_job[k] # None
    /\ pgw_job[k].at = "ue_ctx"
    /\ LET j == pgw_job[k]
       IN  /\ pgw_ctx' = [pgw_ctx EXCEPT ![j.imsi] = [teid |-> j.teid, ip_addr |-> j.ip]]
           /\ link' = SendDown(link, "s5", j.call, [Msg(1) EXCEPT !.teid = j.teid, !.ip = j.ip])
    /\ pgw_job' = [pgw_job EXCEPT ![k] = None]
    /\ UNCHANGED <<exited, pgw_fd, pgw_s5_id, sgi_id>>

\* The end of a detach: s5_id, the answer and the connection.
PgwRemoved(k) ==
    /\ pgw_job[k] # None
    /\ pgw_job[k].at = "s5_id"
    /\ LET j == pgw_job[k]
       IN  /\ pgw_s5_id' = [t \in UE |-> IF t = j.teid THEN 0 ELSE pgw_s5_id[t]]
           /\ link' = ServerClose(SendDown(link, "s5", j.call, Msg(4)), "s5", j.call)
           /\ pgw_fd' = pgw_fd \ {j.call}
    /\ pgw_job' = [pgw_job EXCEPT ![k] = None]
    /\ UNCHANGED <<exited, sgi_id, pgw_ctx>>

PgwServe(k, c) == PgwAccept(k, c) \/ PgwHungUp(k, c) \/ PgwCreate(k, c) \/ PgwDetach(k, c)

PgwWork(k) == PgwSection(k) \/ PgwCreated(k) \/ PgwRemoved(k)
=============================================================================
