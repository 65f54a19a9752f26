SPECIFICATION Spec
CONSTANTS
    Procs = {p1, p2}
    Pairs = {k1}
    Payments = {y}
    Overlong = {}
    Batch = 2
    MaxPool = 1
    Zero = Zero
    NoHash = NoHash
    Stranger = Stranger
    Unusable = Unusable
    Garbage = Garbage
SYMMETRY Interchangeable
INVARIANTS TypeOK KeysBelong SaidStored SignaturesFromWallet
PROPERTY KeysAreKept
