\* Send buffer and window of two units; two monitored clients and two of the
\* sketch's on two contexts; three packets for two sockets, the third of which
\* may meet a chain that is too deep.
SPECIFICATION ConnectionsSpec
CONSTANTS
    SndBuf = 2
    Wnd = 2
    Sizes = {1, 3}
    Timeout = 2
    FlushWait = 1
    Guests = {a, b}
    MaxMonitored = 2
    Contexts = {c1, c2}
    Backlogs = {0, 2}
    NoContext = NoContext
    Sockets = {u, v}
    UdpContexts = {x1, x2}
    NoSocket = NoSocket
    MaxDepth = 2
    Shapes <- MCShapes
    MaxPackets = 3
    Unit = 1
    MaxOut = 1
    MaxRefs = 2
INVARIANT PcbIsLive
INVARIANT LossWakesCaller
INVARIANT WindowAccounted
INVARIANT LentOnlyAfterGivingUp
INVARIANT ContextsCounted
INVARIANT RoundRobin
INVARIANT PacketsApart
PROPERTY BytesOnlyWhileOpen
PROPERTY CallsReturn
