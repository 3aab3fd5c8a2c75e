CONSTANTS
    Alias <- SmallAlias
    SuffixedRank <- SmallSuffixedRank
    AliasLen <- SmallAliasLen
    metadataCharLimit = 10
    SuffixFixedLen = 8
    NumeralBase = 2
    Node <- TwoNodes
    Server = {"s1", "s2"}
    NameMatch <- TwoNodesMatch
    LandbSetValue <- SmallLandbSetValue
    DesiredStates <- ShiftDesired
    InitialMeta <- ShiftMeta
    ManualWrite <- TwoNodesManual
    MaxEdits = 0
    MaxFaults = 1
SPECIFICATION FairSpec
PROPERTY SyncTerminates
