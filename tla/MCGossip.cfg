SPECIFICATION Spec
CONSTANTS
    a = a
    b = b
    c = c
    a2 = a2
    b2 = b2
    c2 = c2
    Nodes = {a, b, c}
    Rows = {a, b, c, a2, b2, c2}
    Seed <- Installed
    Announce <- Announced
INVARIANT IslandsStayApart
