\* deliver_and and RemoteBootstrap::fetch, where the other end always replies.
SPECIFICATION FairSpec
CONSTANTS
    a = a  b = b  c1 = c1  c3 = c3  r1 = r1  r2 = r2  r3 = r3
    NoTask = NoTask
    Peers = {a, b}
    Remote <- MCRemote
    PeerOf <- MCPeerOf
    Callers = {c1}
    Receivers = {r1, r2}
    Menu <- AskMenu
    Replies = {"fulfill"}
    WritesFail = FALSE
    WireCap = 2
    MaxCalls = 1
PROPERTIES AnswersArrive
\* Callers stop calling and receivers wait for messages.
CHECK_DEADLOCK FALSE
