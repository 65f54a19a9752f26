CONSTANTS
    a = a
    b = b
    d = d
    Nodes = {a, b}
    Dead = {}
    NullRow = NullRow
    NoNode = NoNode
    Seed <- Mutual
    IpOutcomes = {}
    Backlog = 1
    MaxCrashes = 0

SPECIFICATION RandomSpec

PROPERTY PullMerged
