CONSTANTS
    NodeName <- TwoNodes
    NameRank <- Rank
    ingressNodeLabels <- BothLabels
    AnyValue = AnyValue
    LandbKey = {"landb.cern.ch/set"}
    landbSetKey = "landb.cern.ch/set"
    Host <- Hosts
    AliasOf <- Alias
    NoAlias = "none"
    AliasRank <- Ranks
    IngressName = {"i1"}
    NodeObject <- Objects
    InitialNodes <- StartNodes
    InitialIngresses <- StartIngresses
    InitialServed <- StartServed
    InitialSet <- StartSet
    HostSets <- SmallHostSets
    Budgets <- OneChange
SPECIFICATION Spec
INVARIANT LabelledNodeSelected
