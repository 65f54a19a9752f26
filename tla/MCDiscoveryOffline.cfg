\* b is installed with an empty database; the public address is never found,
\* and processes die of it, of SIGPIPE, or are killed.  One connection may wait.
CONSTANTS
    a = a
    b = b
    d = d
    Nodes = {a, b}
    Dead = {d}
    NullRow = NullRow
    NoNode = NoNode
    Seed <- Bare
    IpOutcomes = {"nomatch", "offline"}
    Backlog = 0
    MaxCrashes = 1

SPECIFICATION Spec

INVARIANTS
    SingleSource
    EndsAgree
PROPERTIES
    NeverForgets
    ImplementsGossip
CHECK_DEADLOCK FALSE
