SPECIFICATION FairSpec
CONSTANTS
    n1 = n1
    n2 = n2
    n3 = n3
    o1 = o1
    o2 = o2
    c1 = c1
    c2 = c2
    NoNode = NoNode
    Nodes <- MCNodes
    Owners <- MCOwners
    Conns <- MCConns
INVARIANTS
    TypeOK
    OneNode
    AcceptUnwraps
    NoneStranded
PROPERTY
    ConnectEnds
