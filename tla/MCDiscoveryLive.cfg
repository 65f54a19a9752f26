\* a dials b, and b dials itself and an address where nobody listens.
CONSTANTS
    a = a
    b = b
    d = d
    Nodes = {a, b}
    Dead = {d}
    NullRow = NullRow
    NoNode = NoNode
    Seed <- ChainSelf
    IpOutcomes = {}
    Backlog = 1
    MaxCrashes = 0

SPECIFICATION RandomSpec

PROPERTIES
    RoundEnds
    ServerReturns
    PullConverges
