\* SESSION_BASED with faults: an MME or SGW replica crashes, an MME replica starts
\* again, a datagram is lost, and the terminal retries.
SPECIFICATION LiveSpec
CONSTANTS
    m1 = m1
    m2 = m2
    s1 = s1
    s2 = s2
    p1 = p1
    p2 = p2
    None = None
    Broken = Broken
    UE = {1}
    MmeReplica <- MCReplicas
    SgwReplica = {s1, s2}
    PgwReplica = {p1}
    InitVal <- MCInitVal
    PgwHash <- MCPgwHash
    Binding = "SESSION_BASED"
    NoCache = FALSE
    Rep = FALSE
    ErrCodes <- MCNoErr
    RetryLimitStep = 1
    RetryLimitFull = 1
    Crashing = {m1, s1}
    MaxTries = 2
    MaxCrashes = 1
    MaxRestarts = 1
    MaxLosses = 1
    MaxPulls = 0
INVARIANT TypeOK
INVARIANT RequestsServed
PROPERTY Recovers
PROPERTY RunsEnd
