SPECIFICATION FairSpec
CONSTANTS
    d1 = d1
    d2 = d2
    d3 = d3
    None = None
    Deliveries <- MCDeliveries
    Positions = {0, 1, 2}
    Generated = {1}
INVARIANTS TypeOK NeverRecvError PanicsByLateDelivery
PROPERTIES IsSettlement SettledEnds
\* All deliveries made and the promise settled, nothing is left to do.
CHECK_DEADLOCK FALSE
