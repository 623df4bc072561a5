CONSTANTS
    Keys = {0, 1, 2, 3}
    Standby = {0, 1, 2}
    Nobody = Nobody
    InnerRing = {0, 1}
    Neo <- TheNeo
    Produced = {0, 30}
    InitialGas <- OfEach
    MaxProxyGas = 28
    MaxEpoch = 1
    Base = 4
    Epochs = {1, 5}
    Peers <- ThePeers
    Lists <- TheLists
    MaxWork = 4
    Fee = 14
    MaxLost = 1
SPECIFICATION GovernanceSpec
INVARIANTS ReputationKept
PROPERTIES TargetElected VotesCurrent
CHECK_DEADLOCK FALSE
