\* One token, native on either side, at two scales.
SPECIFICATION Spec
CONSTANTS
    Scales <- MCScales
    Tens <- MCTens
    Ulps <- MCUlps
    Significands = 32
    PlainBelow = 100
    U64 = 40
    Exponential = Exponential
    AmountsOn <- MCAmounts
    MaxVault <- MCVaults
    MaxGained = 2
    None = None
INVARIANTS TypeOK Backed JobsAreNear
PROPERTY ImplementsEscrow
CHECK_DEADLOCK FALSE
