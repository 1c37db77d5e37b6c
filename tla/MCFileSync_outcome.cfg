SPECIFICATION FairSpec
CONSTANTS
    Paths = {p1, p2}
    Keys = {}
    NoKey = NoKey
    Absent = Absent
    MaxTransactions = 2
    MaxFaults = 2
    MaxCrashes = 1
    MaxLosses = 0
PROPERTIES
    ImplementsAtomicUpdate
    PreCommitSettles
