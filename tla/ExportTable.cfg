\* Two exporters against two receivers whose handlers export as well.
SPECIFICATION FairSpec
CONSTANTS
    e1 = e1  e2 = e2  r1 = r1  r2 = r2  s1 = s1  s2 = s2
    o1 = o1  o2 = o2
    Exporters = {e1, e2}
    Receivers = {r1, r2}
    Objects = {o1, o2}
    NoObject = NoObject
    NoKey = NoKey
    KeySpace = 8
    MaxKey = 5
    MaxDeliveries = 2
    Shards = {s1, s2}
    ShardOf <- MCShardOf
    Workers = 2
INVARIANTS TypeOK IssuedResolve AnnouncedUnique ReservationsExclusive Inv
PROPERTIES PositionsStable ExportsComplete
\* Keys and deliveries run out, and a handler that exports may wait forever.
CHECK_DEADLOCK FALSE
