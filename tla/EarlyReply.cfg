SPECIFICATION Spec
CONSTANTS
    A = A
    B = B
    P = P
    Q = Q
    x = x
    y = y
    Everyone = Everyone
    None = None
    Devices = {A, B}
    Nodes <- MCNodes
    Names = {x, y}
    Channels = {0, 1}
    Indices = {0}
    Allowed = {A, B, P}
    Policies <- MCPolicies
    Packets <- MCPackets
    BotPackets <- MCBotPackets
    QueueSize = 2
    MaxForgets = 1
INVARIANT NativeReplyTriggers
CHECK_DEADLOCK FALSE
