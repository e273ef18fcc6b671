\* Two senders, short messages and long ones, against one receiver.
SPECIFICATION FairSpec
CONSTANTS
    w1 = w1  w2 = w2  short = short  long = long  huge = huge
    NoTask = NoTask
    Torn = Torn
    Junk = Junk
    Writers = {w1, w2}
    Messages = {short, long, huge}
    Menu <- MCMenu
    Length <- MCLength
    BufCap = 3
    WireCap = 4
    MaxSends = 3
INVARIANTS TypeOK Inv
PROPERTIES IsChannel ReceivesComplete
\* Senders stop, and the receiver waits.
CHECK_DEADLOCK FALSE
