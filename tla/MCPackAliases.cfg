CONSTANTS
    Alias <- FiveAliases
    SuffixedRank <- FiveRanks
    AliasLen <- FiveLens
    metadataCharLimit = 23
    SuffixFixedLen = 5
    NumeralBase = 2
    Inputs <- SmallInputs
SPECIFICATION Spec
CHECK_DEADLOCK FALSE
INVARIANTS TypeOK NothingLost ValuesFit KeysMinimal SameForAnyOrder
