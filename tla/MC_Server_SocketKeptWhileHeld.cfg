CONSTANTS
    t1 = t1
    t2 = t2
    p1 = p1
    c1 = c1
    c2 = c2
    s1 = s1
    s2 = s2
    None = None
    Tokens <- MCTokens
    Ports <- MCPorts
    Conns <- MCConns
    Sups <- MCSups
    Grace = 1
    MaxCleanups = 1
    MaxServes = 2
    WaitClient = FALSE
SPECIFICATION Spec
PROPERTY SocketKeptWhileHeld
