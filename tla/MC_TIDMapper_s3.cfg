CONSTANTS
    h1 = h1  h2 = h2  ns = ns  veth = veth  port = port  fab = fab
    p1 = p1  u1 = u1  nameNs = nameNs  nameVeth = nameVeth  namePort = namePort
    Nodes = {h1, h2, ns, veth, port, fab}
    Meta <- NodeMeta
    Edges <- EdgeSet
    Absent = Absent
    NoHost = NoHost
    TopDown = TRUE
    MaxDeletes = 0
SPECIFICATION Spec
PROPERTY TIDRefinesSpec
CHECK_DEADLOCK FALSE
