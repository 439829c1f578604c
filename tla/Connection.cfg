\* Two networks; a new provider is ready, not ready yet, cannot be created, or
\* cannot be set up to the end.
SPECIFICATION FairSpec
CONSTANTS
    Networks <- TwoNetworks
    Outcomes = {"ready", "not ready", "throws", "set-up throws"}
    MaxFailures = 3
    MaxErrors = 3
INVARIANTS TypeOK HeardOncePerAlarm OneAttemptPerError DeafOnlyByDroppedProvider
PROPERTY HeardAgain
CHECK_DEADLOCK FALSE
