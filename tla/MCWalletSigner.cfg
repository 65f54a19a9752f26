SPECIFICATION Spec
CONSTANTS
    Procs = {p1}
    Pairs = {k1, k2}
    Payments = {y, long}
    Overlong = {long}
    Batch = 1
    MaxPool = 2
    Zero = Zero
    NoHash = NoHash
    Stranger = Stranger
    Unusable = Unusable
    Garbage = Garbage
INVARIANT SignedByOwner
