\* Two cores in each node, interchangeable; one terminal has two rounds, and one
\* round of either terminal may be cut off.
CONSTANTS
    None = None
    UE <- MCTerminals
    Rounds <- MCRounds
    MmeCore = {m1, m2}
    SgwCore = {s1, s2}
    PgwCore = {p1, p2}
    MaxHangups = 1
SPECIFICATION Spec
SYMMETRY CoreSymmetry
INVARIANT TypeOK
INVARIANT NoExit
INVARIANT BearerConnected
INVARIANT GatewaysAgree
INVARIANT NoResidue
INVARIANT CallsEnd
