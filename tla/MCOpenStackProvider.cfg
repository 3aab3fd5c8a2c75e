CONSTANTS
    Alias <- SmallAlias
    SuffixedRank <- SmallSuffixedRank
    AliasLen <- SmallAliasLen
    metadataCharLimit = 10
    SuffixFixedLen = 8
    NumeralBase = 2
    Node <- TwoNodes
    Server = {"s1", "s2"}
    NameMatch <- TwoNodesMatch
    LandbSetValue <- SmallLandbSetValue
    DesiredStates <- TwoNodesDesired
    InitialMeta <- TwoNodesMeta
    ManualWrite <- TwoNodesManual
    MaxEdits = 1
    MaxFaults = 1
SPECIFICATION Spec
INVARIANTS TypeOK TasksReconciled FailuresExcused
PROPERTIES AliasNeverDropped OnlyOwnedKeysChange NoNeedlessWrite
