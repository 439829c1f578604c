\* One token, native on either side: amounts from Solana that print with an exponent.
SPECIFICATION Spec
CONSTANTS
    Scales <- MCScales
    Tens <- MCTens
    Ulps <- MCUlps
    Significands = 32
    PlainBelow = 100
    U64 = 40
    Exponential = Exponential
    AmountsOn <- MCAmounts
    MaxVault <- MCVaults
    MaxGained = 2
    None = None
INVARIANT LargeAmountsAreRead
CHECK_DEADLOCK FALSE
