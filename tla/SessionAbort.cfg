\* Aborts racing with sends; two concurrent receivers at b.
SPECIFICATION Spec
CONSTANTS
    a = a  b = b  c1 = c1  c3 = c3  r1 = r1  r2 = r2  r3 = r3
    NoTask = NoTask
    Peers = {a, b}
    Remote <- MCRemote
    PeerOf <- MCPeerOf
    Callers = {c1, c3}
    Receivers = {r1, r2, r3}
    Menu <- AbortMenu
    Replies = {"drop", "fulfill", "fulfill_and"}
    WritesFail = FALSE
    WireCap = 2
    MaxCalls = 3
INVARIANTS TypeOK SilentAfterAbort DeafAfterAbort InOrder Inv
\* Callers stop calling and receivers wait for messages.
CHECK_DEADLOCK FALSE
SYMMETRY Alike
