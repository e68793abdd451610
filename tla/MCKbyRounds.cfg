\* Two terminals, one of which comes back for a second round.
CONSTANTS
    None = None
    DelUnarmed <- MCEitherWay
    UE <- MCTwo
    Rounds <- MCOneComesBack
SPECIFICATION LiveSpec
INVARIANT TypeOK
INVARIANT FdsAccounted
INVARIANT CallsKeptApart
INVARIANT AnswersMatch
INVARIANT BearerConnected
INVARIANT NoResidue
PROPERTY OnlyDelExits
PROPERTY ImplementsBearer
PROPERTY RoundsComplete
