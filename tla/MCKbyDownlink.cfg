\* Two terminals, one round each.
CONSTANTS
    None = None
    DelUnarmed <- MCEitherWay
    UE <- MCTwo
    Rounds <- MCOnce
SPECIFICATION Spec
INVARIANT DownlinkStored
