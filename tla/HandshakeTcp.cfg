\* TCP nodes: the designator is the IP address without the port.
SPECIFICATION Spec
CONSTANTS
    n1 = n1  n2 = n2  n3 = n3  c1 = c1  c2 = c2  c3 = c3  a1 = a1  a2 = a2  a3 = a3
    d1 = d1  d2 = d2  d3 = d3  v1 = v1  v2 = v2
    NoTask = NoTask
    NoSession = NoSession
    Nodes = {n1, n2, n3}
    Connectors = {c1}
    Acceptors = {a2, a3}
    NodeOf <- MCNodeOf
    Targets <- Star
    Designator <- IpDesignator
    Version <- OneVersion
    Netlayers = {"datastream"}
    MaxDials = 2
INVARIANT ConnectReachesTarget
\* Connectors stop dialling.
CHECK_DEADLOCK FALSE
