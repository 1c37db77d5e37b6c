SPECIFICATION Spec
CONSTANTS
    Paths = {p1, p2}
    Keys = {k1}
    NoKey = NoKey
    Absent = Absent
    MaxTransactions = 1
    MaxFaults = 1
    MaxCrashes = 1
    MaxLosses = 0
INVARIANT
    CompleteMeansApplied
