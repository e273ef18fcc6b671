\* On each netlayer, a node connects to itself and to a second, which connects back and to a
\* third of another version.
SPECIFICATION Spec
CONSTANTS
    n1 = n1  n2 = n2  n3 = n3  c1 = c1  c2 = c2  c3 = c3  a1 = a1  a2 = a2  a3 = a3
    d1 = d1  d2 = d2  d3 = d3  v1 = v1  v2 = v2
    NoTask = NoTask
    NoSession = NoSession
    Nodes = {n1, n2, n3}
    Connectors = {c1, c2, c3}
    Acceptors = {a1, a2, a3}
    NodeOf <- MCNodeOf
    Targets <- Mixed
    Designator <- OwnDesignator
    Version <- TwoVersions
    Netlayers = {"datastream", "mock", "onion"}
    MaxDials = 1
INVARIANTS TypeOK ConnectReachesTarget RegisteredBothStarted Inv
\* Connectors stop dialling, and crossed hellos wait forever.
CHECK_DEADLOCK FALSE
