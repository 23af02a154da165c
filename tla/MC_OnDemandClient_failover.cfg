CONSTANTS
    a1 = a1  a2 = a2  c1 = c1  c2 = c2  n1 = n1  n2 = n2  h1 = h1
    Analyzers = {a1, a2}
    Captures = {c1}
    Nodes = {n1}
    Hosts = {h1}
    HostOf <- OneHost
    QueryMatch <- SingleTarget
    InitNodes <- OnlyN1
    DeliveryOutcomes <- Reliable
    NoCapture = NoCapture
    NoLeader = NoLeader
    MaxGraphEvents = 0
    MaxCaptureUpdates = 0
    MaxRestarts = 0
    MaxLeaderChanges = 2
SPECIFICATION Spec
INVARIANT MasterMapTracksRegistry
CHECK_DEADLOCK FALSE
