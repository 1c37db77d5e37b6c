SPECIFICATION Spec
CONSTANTS
    Paths = {p1, p2}
    Keys = {k1, k2}
    NoKey = NoKey
    Absent = Absent
    MaxTransactions = 2
    MaxFaults = 1
    MaxCrashes = 1
    MaxLosses = 1
SYMMETRY SymmetryWithKeys
INVARIANTS
    IInv
    FilesAreSafe
PROPERTIES
    OwnersAreRespected
