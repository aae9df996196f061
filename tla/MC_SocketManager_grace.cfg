CONSTANTS
    p1 = p1
    p2 = p2
    h1 = h1
    h2 = h2
    None = None
    Ports <- MCPorts
    Holders <- MCHolders
    Grace = 2
    MaxCleanups = 2
SPECIFICATION Spec
PROPERTY GraceRespected
