-------------------------------- MODULE KbyPgw --------------------------------
(***************************************************************************)
(* The PGW of v3.0: every message is handled and answered within its       *)
(* event, so that entries of fdmap only ever have act 1.                   *)
(***************************************************************************)
EXTENDS KbySgw

VARIABLES
    pgw_fdmap,     \* the descriptors that have an entry
    pgw_armed,
    pgw_s5_id,     \* s5_id: TEID -> IMSI
    sgi_id,        \* address -> IMSI
    pgw_ctx        \* ue_ctx

pgwVars == <<pgw_fdmap, pgw_armed, pgw_s5_id, sgi_id, pgw_ctx>>

\* teid: its identifiers, all of the value the create brought.
PgwContext == [teid : Teid, ip_addr : Teid]

ASSUME KbyPgwNoneAssumption == None \notin PgwContext

KbyPgwTypeOK ==
    /\ pgw_fdmap \subseteq Fd
    /\ pgw_armed \subseteq Fd
    /\ pgw_s5_id \in [UE -> Teid]
    /\ sgi_id \in [Teid -> Teid]
    /\ pgw_ctx \in [UE -> PgwContext \cup {None}]

KbyPgwInit ==
    /\ pgw_fdmap = {}
    /\ pgw_armed = {}
    /\ pgw_s5_id = [u \in UE |-> 0]
    /\ sgi_id = [ip \in Teid |-> 0]
    /\ pgw_ctx = [u \in UE |-> None]

-----------------------------------------------------------------------------
PgwUsed == Servers(s5)

\* handle_pgw_accept.
PgwAccept ==
    /\ Pending(s5) # {}
    /\ \E g \in Accepts(s5, PgwUsed) :
          /\ s5' = AcceptAll(s5, g)
          /\ pgw_armed' = pgw_armed \cup Range(g)
          /\ pgw_fdmap' = pgw_fdmap \cup Range(g)
    /\ UNCHANGED <<ranVars, mmeVars, sgwVars, s1, s6a, s11, pgw_s5_id, sgi_id, pgw_ctx, exited>>

\* act 1 with a message of some type from the SGW on connection c.
PgwRequest(c, type) ==
    /\ s5[c].up # None
    /\ s5[c].up.type = type
    /\ s5[c].srv \in pgw_armed \cap pgw_fdmap
    /\ UNCHANGED <<ranVars, mmeVars, sgwVars, s1, s6a, s11>>

\* Create session and pgw_send_a3.
PgwCreate(c) ==
    /\ PgwRequest(c, 1)
    /\ LET t    == s5[c].up.teid
           imsi == s5[c].up.imsi
           ip   == IpAddr(imsi)
       IN  /\ pgw_s5_id' = [pgw_s5_id EXCEPT ![t] = imsi]
           /\ sgi_id' = [sgi_id EXCEPT ![ip] = imsi]
           /\ pgw_ctx' = [pgw_ctx EXCEPT ![imsi] = [teid |-> t, ip_addr |-> ip]]
           /\ s5' = Answer(s5, c, [Msg(1) EXCEPT !.teid = t, !.ip = ip])
    /\ UNCHANGED <<pgw_fdmap, pgw_armed, exited>>

\* Detach: the session and the connection end.
PgwDetach(c) ==
    /\ PgwRequest(c, 4)
    /\ LET t    == s5[c].up.teid
           imsi == IF t = 0 THEN 0 ELSE pgw_s5_id[t]
       IN  IF imsi = 0 \/ imsi # t
           THEN Exit("pgw") /\ UNCHANGED <<pgwVars, s5>>
           ELSE /\ pgw_s5_id' = [pgw_s5_id EXCEPT ![pgw_ctx[imsi].teid] = 0]
                /\ sgi_id' = [sgi_id EXCEPT ![pgw_ctx[imsi].ip_addr] = 0]
                /\ pgw_ctx' = [pgw_ctx EXCEPT ![imsi] = None]
                /\ s5' = Shut(Answer(s5, c, [Msg(4) EXCEPT !.teid = pgw_ctx[imsi].teid]), s5[c].srv)
                /\ pgw_fdmap' = pgw_fdmap \ {s5[c].srv}
                /\ pgw_armed' = pgw_armed \ {s5[c].srv}
                /\ UNCHANGED exited

PgwServe(c) == PgwCreate(c) \/ PgwDetach(c)
=============================================================================
