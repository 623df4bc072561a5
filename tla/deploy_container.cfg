CONSTANTS
    Sizes = {1}
    Services <- TheServices
    Alphabets <- TheAlphabets
    Starts <- FreshStarts
    AlphabetGAS = 10000
    GASThreshold = 10
    Funds <- TheFunds
    MaxMishaps <- OneMishap
SPECIFICATION Spec
PROPERTIES Deployed
CHECK_DEADLOCK FALSE
