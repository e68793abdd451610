--------------------------------- MODULE Epc ---------------------------------
(***************************************************************************)
(* The v1.0 control plane: RAN simulator, MME, HSS, SGW and PGW composed   *)
(* over their interfaces.                                                  *)
(***************************************************************************)
EXTENDS Ran, Mme, Sgw, Pgw

vars == <<exited, s1apVars, connVars, ranVars, mmeVars, s6aVars, s11Vars, s5Vars,
          sgwVars, pgwVars>>

TypeOK ==
    /\ exited \in SUBSET Process
    /\ SctpTypeOK
    /\ RanTypeOK
    /\ MmeTypeOK
    /\ S6aTypeOK
    /\ S11TypeOK
    /\ S5TypeOK
    /\ SgwTypeOK
    /\ PgwTypeOK

Init ==
    /\ exited = {}
    /\ SctpInit
    /\ RanInit
    /\ MmeInit
    /\ S6aInit
    /\ UdpInit
    /\ SgwInit
    /\ PgwInit

-----------------------------------------------------------------------------
RanNext(u) == RanStep(u) /\ UNCHANGED <<mmeVars, s6aVars, s11Vars, s5Vars, sgwVars, pgwVars>>
AcceptNext == AcceptConnection /\ UNCHANGED <<ranVars, s5Vars, sgwVars, pgwVars>>
MmeNext(w) == MmeStep(w) /\ UNCHANGED <<ranVars, s5Vars, sgwVars, pgwVars>>
HssNext(w) == HandleAutninfoReq(w) /\ UNCHANGED <<s1apVars, connVars, ranVars, mmeVars,
                                                  s11Vars, s5Vars, sgwVars, pgwVars>>
SgwNext(t) == SgwStep(t) /\ UNCHANGED <<s1apVars, connVars, ranVars, mmeVars, s6aVars, pgwVars>>
PgwNext(p) == PgwStep(p) /\ UNCHANGED <<s1apVars, connVars, ranVars, mmeVars, s6aVars,
                                        s11Vars, sgwVars>>

\* Nothing is left to do: every RAN thread has returned and every server
\* thread waits for a message that will not come.  A process exit also ends
\* the run; what the others do after it is not modelled.
Finished ==
    /\ \A u \in UE : ran_pc[u] \in {"done", "failed"} /\ s1ap_up[u] = <<>> /\ conn_worker[u] = Nil
    /\ backlog = <<>>
    /\ \A w \in Worker : mme_pc[w] = "idle"
    /\ \A t \in S11Threads : sgw_pc[t] = "idle"
    /\ \A p \in PgwThreads : pgw_pc[p] = "idle"

Terminating == (Finished \/ exited # {}) /\ UNCHANGED vars

Next ==
    \/ \E u \in UE : RanNext(u)
    \/ AcceptNext
    \/ \E w \in Worker : MmeNext(w) \/ HssNext(w)
    \/ \E t \in S11Threads : SgwNext(t)
    \/ \E p \in PgwThreads : PgwNext(p)
    \/ Terminating

Spec == Init /\ [][Next]_vars
=============================================================================
