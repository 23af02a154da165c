CONSTANTS
    a1 = a1  a2 = a2  c1 = c1  c2 = c2  n1 = n1  n2 = n2  h1 = h1
    Analyzers = {a1}
    Captures = {c1}
    Nodes = {n1, n2}
    Hosts = {h1}
    HostOf <- OneHost
    QueryMatch <- TwoTargets
    InitNodes <- OnlyN1
    DeliveryOutcomes <- Reliable
    NoCapture = NoCapture
    NoLeader = NoLeader
    MaxGraphEvents = 1
    MaxCaptureUpdates = 0
    MaxRestarts = 0
    MaxLeaderChanges = 0
SPECIFICATION StableSpec
PROPERTY Converges
CHECK_DEADLOCK FALSE
