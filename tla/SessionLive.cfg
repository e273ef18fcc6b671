\* Every kind of message against recv_event, with an abort from either end.
SPECIFICATION FairSpec
CONSTANTS
    a = a  b = b  c1 = c1  c3 = c3  r1 = r1  r2 = r2  r3 = r3
    NoTask = NoTask
    Peers = {a, b}
    Remote <- MCRemote
    PeerOf <- MCPeerOf
    Callers = {c1, c3}
    Receivers = {r1, r2}
    Menu <- LiveMenu
    Replies = {"drop", "fulfill", "fulfill_and"}
    WritesFail = TRUE
    WireCap = 1
    MaxCalls = 2
PROPERTIES SendsComplete AbortHeard
\* Callers stop calling and receivers wait for messages.
CHECK_DEADLOCK FALSE
