SPECIFICATION FairSpec
CONSTANTS
    Inputs <- MCInputs
    MaxData = 3
CHECK_DEADLOCK FALSE
INVARIANTS
    TypeOK
    ConfigFaithful
    OnlyPanicsSpread
    PageIsWhole
PROPERTIES
    NewestShown
