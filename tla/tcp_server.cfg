SPECIFICATION Spec
CONSTANTS
    Phone = {c1, c2}
    Conns = {c1, c2}
    NoConn = NoConn
    Peer <- MCPeer
    Fds = 2
    TCP_CLIENT_MAX = 1
    LOCAL_SESSION_MAX = 2
    ACCOUNT_MAX = 2
    MaxReplies = 1
INVARIANTS SlotOfTask LiveCap
PROPERTY DownLeaves
CHECK_DEADLOCK FALSE
