SPECIFICATION Spec
CONSTANTS
    Procs = {p1, p2}
    Txs = {t1, t2}
    Junk = Junk
    BundleMax = 1
    MaxClock = 2
    MaxBlocks = 3
    MaxKills = 0
SYMMETRY Interchangeable
INVARIANTS TypeOK Rooted LateBlocksStayBare
PROPERTY NeverRewritten ImplementsTree
