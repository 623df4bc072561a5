CONSTANTS
    Sizes = {1, 2, 3}
    Services <- TheServices
    Alphabets <- TheAlphabets
    Starts <- TheStarts
    AlphabetGAS = 10000
    GASThreshold = 10
    Funds <- TheFunds
    MaxMishaps <- TheMishaps
SPECIFICATION Spec
INVARIANTS GoalsBehind FundedOnce EvenShares
PROPERTIES Settled DeployedOrStranded
CHECK_DEADLOCK FALSE
