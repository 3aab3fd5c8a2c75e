CONSTANTS
    Alias <- SmallAlias
    SuffixedRank <- SmallSuffixedRank
    AliasLen <- SmallAliasLen
    metadataCharLimit = 21
    SuffixFixedLen = 8
    NumeralBase = 2
    Node <- ThreeNodes
    Server = {"s1", "s2", "s3", "s4"}
    NameMatch <- ThreeNodesMatch
    LandbSetValue <- SmallLandbSetValue
    DesiredStates <- ThreeNodesDesired
    InitialMeta <- NoMeta
    ManualWrite = {}
    MaxEdits = 0
    MaxFaults = 1
SPECIFICATION Spec
INVARIANTS TasksReconciled FailuresExcused SuffixRangeContiguous
PROPERTIES AliasNeverDropped ImplementsContract
