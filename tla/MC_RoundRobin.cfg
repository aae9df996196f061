CONSTANTS
    a = a
    b = b
    c = c
    Clients <- MCClients
    MaxPicks = 5
SPECIFICATION Spec
INVARIANT Balanced
