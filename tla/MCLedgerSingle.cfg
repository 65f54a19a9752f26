SPECIFICATION FairSpec
CONSTANTS
    Procs = {p1}
    Txs = {t1, t2}
    Junk = Junk
    BundleMax = 2
    MaxClock = 3
    MaxBlocks = 4
    MaxKills = 2
INVARIANTS OnlyTiesFork BlocksHoldPoolOnly
PROPERTY PooledIsMined ImplementsLine
