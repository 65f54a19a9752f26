\* Two processes that dial each other and, once they learn their address, themselves.
CONSTANTS
    a = a
    b = b
    d = d
    Nodes = {a, b}
    Dead = {}
    NullRow = NullRow
    NoNode = NoNode
    Seed <- Mutual
    IpOutcomes = {"found"}
    Backlog = 1
    MaxCrashes = 0

SPECIFICATION Spec

INVARIANTS
    TypeOK
    SingleSource
    NoMissingFile
    EndsAgree
    NobodyWaitsInVain
