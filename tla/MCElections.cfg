SPECIFICATION Spec
CONSTANTS
    Server = {s1, s2, s3}
    Nobody = Nobody
    MaxTerm = 2
    MaxStarts = 2
    MaxCrashes = 1
INVARIANTS OnePrimaryUnlessEarlyVote WinnerHasMajority AnsweredVotesAreStored
PROPERTIES OldPrimaryStepsDown
CHECK_DEADLOCK FALSE
