CONSTANTS
    Alias <- SmallAlias
    SuffixedRank <- SmallSuffixedRank
    AliasLen <- SmallAliasLen
    metadataCharLimit = 10
    SuffixFixedLen = 8
    NumeralBase = 2
    Node <- PrefixNodes
    Server = {"s1", "s10"}
    NameMatch <- PrefixMatch
    LandbSetValue <- SmallLandbSetValue
    DesiredStates <- PrefixDesired
    InitialMeta <- NoMeta
    ManualWrite = {}
    MaxEdits = 0
    MaxFaults = 0
SPECIFICATION Spec
INVARIANT NameResolved
