CONSTANTS
    a1 = a1  a2 = a2  c1 = c1  c2 = c2  n1 = n1  n2 = n2  h1 = h1
    Analyzers = {a1}
    Captures = {c1, c2}
    Nodes = {n1}
    Hosts = {h1}
    HostOf <- OneHost
    QueryMatch <- SingleTarget
    InitNodes <- EmptyGraph
    DeliveryOutcomes <- Reliable
    NoCapture = NoCapture
    NoLeader = NoLeader
    MaxGraphEvents = 2
    MaxCaptureUpdates = 1
    MaxRestarts = 1
    MaxLeaderChanges = 0
SPECIFICATION StableSpec
INVARIANT TypeOK
PROPERTY Converges
CHECK_DEADLOCK FALSE
