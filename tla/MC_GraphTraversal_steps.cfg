CONSTANTS
    n1 = n1
    n2 = n2
    n3 = n3
    n4 = n4
    s1 = s1
    s2 = s2
    i0 = i0
    NodeIds = {n1, n2, n3, n4}
    NodeOrder <- Order
    Meta <- Metadata
    Edges <- EdgeList
    Keys = {"Type", "Port", "Name"}
    Absent = Absent
    NoFilter = NoFilter
    NoRange = NoRange
    HasArgs <- SoundHasArgs
    NodeFilters <- VNodeArgs
    EdgeFilters <- EdgeArgs
    RangeArgs = {0, 1, 2}
    SumArgs <- SumKeys
    SPTargets <- Targets
    SPEdgeFilters <- SPEdges
    PageRanges <- FromZero
    MaxSteps = 4
SPECIFICATION Spec
INVARIANT TypeOK
INVARIANT PaginationLaw
PROPERTY ErrorSticky
PROPERTY HasFollowsSpec
PROPERTY DedupFollowsSpec
CHECK_DEADLOCK FALSE
