------------------------------- MODULE ReplRan -------------------------------
(***************************************************************************)
(* The fault tolerant RAN simulator of v2.0.  Its connections go through   *)
(* the load balancer of the MME cluster: with UE_BASED binding a terminal  *)
(* has one, with SESSION_BASED one for attach and one for detach, with     *)
(* STATE_LESS one per step.  A step that fails is retried on fresh         *)
(* connections; after RetryLimitStep retries the whole attach is, and      *)
(* after RetryLimitFull the terminal starts with a fresh context.          *)
(***************************************************************************)
EXTENDS ReplBase

VARIABLES
    ran_pc,    \* the step each terminal is at
    ran_ctx,   \* what it knows
    ctr,       \* its retries
    tries,     \* its initial attaches
    conn,      \* the MME replica behind the connection of each step
    alive      \* replicas that run

ranVars == <<ran_pc, ran_ctx, ctr, tries, conn>>

Replica == MmeReplica \cup SgwReplica \cup PgwReplica

RanContext == [id : {0} \cup UeId, k_asme : Teid, guti : Teid, s1_uteid_ul : Teid, ip : Teid]

NewRanContext == [id |-> 0, k_asme |-> 0, guti |-> 0, s1_uteid_ul |-> 0, ip |-> 0]

\* Ran::conn_mme: the load balancer picks a live replica for each connection.
Connections ==
    {c \in [Step -> MmeReplica \cap alive] :
        \A i, j \in Step :
            \/ AlwaysSync
            \/ Binding = "SESSION_BASED" /\ (i = "detach" \/ j = "detach")
            \/ c[i] = c[j]}

RanTypeOK ==
    /\ ran_pc \in [UE -> Step \cup {"idle", "done"}]
    /\ ran_ctx \in [UE -> RanContext]
    /\ ctr \in [UE -> 0 .. RetryLimitFull]
    /\ tries \in [UE -> 0 .. MaxTries]
    /\ conn \in [UE -> [Step -> MmeReplica \cup {Broken}]]
    /\ alive \subseteq Replica

RanInit ==
    /\ ran_pc = [u \in UE |-> "idle"]
    /\ ran_ctx = [u \in UE |-> NewRanContext]
    /\ ctr = [u \in UE |-> 0]
    /\ tries = [u \in UE |-> 0]
    /\ conn = [u \in UE |-> [i \in Step |-> Broken]]
    /\ alive = Replica

-----------------------------------------------------------------------------
\* The run is over: its duration is a number of initial attaches here.
TimeExceeded(u) == tries[u] = MaxTries

Goto(u, step) ==
    ran_pc' = [ran_pc EXCEPT ![u] =
                  IF step = "initial_attach" /\ TimeExceeded(u) THEN "done" ELSE step]

\* relaunch: a new Ran and its connections.
Launch(u) ==
    /\ Goto(u, "initial_attach")
    /\ ran_ctx' = [ran_ctx EXCEPT ![u] = NewRanContext]
    /\ ctr' = [ctr EXCEPT ![u] = 0]
    /\ \E c \in Connections : conn' = [conn EXCEPT ![u] = c]
    /\ UNCHANGED tries

Start(u) ==
    /\ ran_pc[u] = "idle"
    /\ Launch(u)
    /\ UNCHANGED <<job, alive, losses, exited>>

\* Where a retry resumes: at the step itself, or at the attach once the step
\* has been retried often enough; a detach is only ever retried itself.
Retried(u) ==
    IF ran_pc[u] = "detach" \/ ctr[u] < RetryLimitStep THEN ran_pc[u] ELSE "initial_attach"

\* Deviation: a step is retried without a limit.
MayRetry_Forever(u) == TRUE

MayRetry(u) == ctr[u] < RetryLimitFull

\* Deviation: retries are not counted.
RetryWith_Uncounted(u, ctx) ==
    /\ ran_pc' = [ran_pc EXCEPT ![u] = IF TimeExceeded(u) THEN "done" ELSE Retried(u)]
    /\ \E c \in Connections : conn' = [conn EXCEPT ![u] = c]
    /\ ran_ctx' = [ran_ctx EXCEPT ![u] = ctx]
    /\ UNCHANGED <<ctr, tries>>

\* !ok, and the run may be over: on with new connections and the context ctx, as
\* the failed step has left it.
RetryWith(u, ctx) ==
    \/ /\ TimeExceeded(u)
       /\ ran_pc' = [ran_pc EXCEPT ![u] = "done"]
       /\ ran_ctx' = [ran_ctx EXCEPT ![u] = ctx]
       /\ UNCHANGED <<ctr, tries, conn>>
    \/ /\ ~TimeExceeded(u)
       /\ MayRetry(u)
       /\ ctr' = [ctr EXCEPT ![u] = @ + 1]
       /\ ran_pc' = [ran_pc EXCEPT ![u] = Retried(u)]
       /\ ran_ctx' = [ran_ctx EXCEPT ![u] = ctx]
       /\ \E c \in Connections : conn' = [conn EXCEPT ![u] = c]
       /\ UNCHANGED tries
    \/ ~TimeExceeded(u) /\ ~MayRetry(u) /\ Launch(u)

Retry(u) == RetryWith(u, ran_ctx[u])

\* A step whose request was not answered.  set_eps_session looks at no error:
\* the terminal goes on to its detach.
GiveUp(u) ==
    IF ran_pc[u] = "set_eps_session"
    THEN Goto(u, "detach") /\ UNCHANGED <<ran_ctx, ctr, tries, conn>>
    ELSE Retry(u)

-----------------------------------------------------------------------------
\* A step sends its request on its connection.
Request(u) ==
    /\ ran_pc[u] \in Step
    /\ ~Busy(u)
    /\ conn[u][ran_pc[u]] # Broken
    /\ ran_pc[u] = "initial_attach" => ~TimeExceeded(u)
    /\ tries' = [tries EXCEPT ![u] = IF ran_pc[u] = "initial_attach" THEN @ + 1 ELSE @]
    /\ Pass(u, [NoJob EXCEPT !.at = "mme", !.step = ran_pc[u], !.m = conn[u][ran_pc[u]],
                             !.id = ran_ctx[u].id, !.key = ran_ctx[u].k_asme,
                             !.imsi = ran_ctx[u].guti, !.teid = ran_ctx[u].s1_uteid_ul])
    /\ UNCHANGED <<ran_pc, ran_ctx, ctr, conn, alive, losses, exited>>

\* ... whose replica has crashed.
RequestOnBrokenConnection(u) ==
    /\ ran_pc[u] \in Step
    /\ ~Busy(u)
    /\ conn[u][ran_pc[u]] = Broken
    /\ GiveUp(u)
    /\ UNCHANGED <<job, alive, losses, exited>>

\* Some node of the core may have had to wait out a receive of its own.
Late == losses > 0 \/ ~(SgwReplica \subseteq alive)

\* The receive of a step times out or finds the connection closed, after
\* everything its request set off in the core has come to an end.  The nodes and
\* the terminal wait equally long, so that an answer which a node gave after a
\* timeout may come too late.
NoAnswer(u) ==
    /\ job[u].at = "silent" \/ (job[u].at = "reply" /\ Late)
    /\ Pass(u, NoJob)
    /\ GiveUp(u)
    /\ UNCHANGED <<alive, losses, exited>>

Advance(u, step, ctx) ==
    /\ Goto(u, step)
    /\ ran_ctx' = [ran_ctx EXCEPT ![u] = ctx]
    /\ UNCHANGED <<ctr, tries, conn>>

\* The rest of a step, from its answer on.
InitialAttachAnswer(u) ==
    Advance(u, "authenticate", [ran_ctx[u] EXCEPT !.id = job[u].id, !.k_asme = u])

AuthenticateAnswer(u) == Advance(u, "set_security", ran_ctx[u])

\* The context is overwritten before res is looked at.
SetSecurityAnswer(u) ==
    LET ctx == [ran_ctx[u] EXCEPT !.guti = job[u].imsi, !.s1_uteid_ul = job[u].teid,
                                  !.ip = job[u].ip]
    IN  IF job[u].ok THEN Advance(u, "set_eps_session", ctx) ELSE RetryWith(u, ctx)

SetEpsSessionAnswer(u) == Advance(u, "detach", ran_ctx[u])

\* A completed detach ends the round; the next one keeps connections and context.
DetachAnswer(u) ==
    /\ Goto(u, "initial_attach")
    /\ ctr' = [ctr EXCEPT ![u] = 0]
    /\ UNCHANGED <<ran_ctx, tries, conn>>

Answer(u) ==
    /\ job[u].at = "reply"
    /\ Pass(u, NoJob)
    /\ \/ job[u].step = "initial_attach"  /\ InitialAttachAnswer(u)
       \/ job[u].step = "authenticate"    /\ AuthenticateAnswer(u)
       \/ job[u].step = "set_security"    /\ SetSecurityAnswer(u)
       \/ job[u].step = "set_eps_session" /\ SetEpsSessionAnswer(u)
       \/ job[u].step = "detach"          /\ DetachAnswer(u)
    /\ UNCHANGED <<alive, losses, exited>>

RanStep(u) ==
    Start(u) \/ Request(u) \/ RequestOnBrokenConnection(u) \/ NoAnswer(u) \/ Answer(u)
=============================================================================
