SPECIFICATION Spec
\* Each component stops where its bounds are used up.
CHECK_DEADLOCK FALSE
CONSTANTS
  Worlds = {v1, v2}
  NoWorld = NoWorld
  Absent = Absent
  Partial = Partial
  MaxCopies = 3
  MaxFaults = 1
  MaxCrashes = 2
  MaxMeddles = 1
  Artifact = {a1, a2}
  NoArtifact = NoArtifact
  Blocks = 2
  MaxRevision = 2
  MaxRetries = 1
  Projects = {1, 2, 3}
  MainProject = 1
  MainRelease = 2
  FabricApi = 3
  Offered <- MCOffered
  Lists <- MCLists
  Inventories <- MCInventories
  w1 = w1  w2 = w2  w3 = w3  w4 = w4  p1 = p1  p2 = p2
  Workers = {w1, w2, w3, w4}
  Processes = {p1, p2}
  Home <- MCHome
  Leases = {l1, l2, l3}
  SignIns = {1, 2}
  Accounts = {"x"}
  MaxPages = 2
  None = None
INVARIANTS FilesTypeOK LockIsExact WorldsAreKept
PROPERTIES RefusedOnlyWhenHeld ImplementsExclusiveUse RequestedIsReleased InstalledIsRight PlanIsSound SignInIsSafe RequestsEnd
