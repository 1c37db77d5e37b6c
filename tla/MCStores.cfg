SPECIFICATION Spec
\* Each component stops where its bounds are used up.
CHECK_DEADLOCK FALSE
CONSTANTS
  w1 = w1  w2 = w2  w3 = w3  w4 = w4  p1 = p1  p2 = p2
  Workers = {w1, w2, w3, w4}
  Processes = {p1, p2}
  Home <- MCHome
  None = None
  MaxDepth = 4
  Stores = {1, 2}
  Ids = {i1}
  Fields = {f1, f2}
  Values = {v1}
  Missing = Missing
  Configs = {c1, c2, c3}
  Keys = {k1}
  Settings = {x1, x2}
  Unset = Unset
  Account = {a1, a2}
  Refresher = {r1, r2}
  MaxCredential = 2
  NoAccount = NoAccount
  Outputs = 2
  MaxMoves = 2
  MaxMeddling = 1
  Fabrics = {fab1}
  NeoForges = {neo1, neo2}
  Libraries = {lib1}
  Needs <- MCNeeds
  MaxAttempts = 2
  MaxRemovals = 1
  MaxInstalls = 3
  Packs = {k1, k2}
  Unpacked = Unpacked
  PackRuns = 3
  PackFaults = 2
  PackDeaths = 2
  MaxChanges = 1
  MaxObjects = 2
  MaxTasks = 2
  Paths <- MCPaths
  ModFiles <- MCModFiles
  Parent <- MCParent
  Under <- MCUnder
  Histories <- MCHistories
  NoFile = NoFile
  OwnFile = OwnFile
  Unforced = Unforced
  NoRules = NoRules
  MaxSyncMishaps = 2
  Jars = {"a", "b"}
  Publications <- MCPublications
  OwnJar = 9
  MaxJarEvents = 2
  Worlds = {1, 2}
  Folders = {1, 2}
  FolderOf <- MCFolderOf
  MaxKeep = 1
  MaxSaves = 2
  MaxBackups = 2
  UI = UI  Timer = Timer  Wk = Wk
  Threads = {UI, Wk}
  MaxOps = 2
  MaxUpdates = 1
  MaxStops = 1
  Names = {"x", "y", "t"}
  Typed = {"x", "y"}
  Folded <- MCNames
  IdOf <- MCNames
  Offers = {"k"}
  TitleOf <- MCTitles
  Modpacks = {"m"}
  Nil = Nil
  MaxBuilds = 2
  MaxDeletions = 1
  MaxRenames = 1
  LoaderTabs = {"minecraft", "forge"}
  FirstTab = "forge"
  Filtered = {"minecraft"}
  NoOptions = NoOptions
  MaxToggles = 2
  Queries = {"", "a"}
  FirstQuery = ""
  PagesOf <- MCPagesOf
  MaxLoads = 4
  ChoiceLoaders = {"minecraft", "neoforge", "quilt"}
  CompactLoaders = {"quilt"}
  UnstableLoaders = {"neoforge", "quilt"}
  Plain = "minecraft"
  Catalogues <- MCCatalogues
  NoChoice = NoChoice
  MaxQuestions = 3
  NoJava = NoJava
  Canonical = Canonical
  Generations = {1, 2, 3}
  MaxJavaCalls = 2
  MaxJavaDeaths = 1
  MaxDamages = 1
  Locations = {"chosen"}
  GameBuilds = {1}
  MaxEdits = 2
  MaxTroubles = 2
INVARIANTS StoresTypeOK RootIsExclusive SettingsKept PackIsWhole ProgressIsTrue PagesAreCurrent MarkedIsWhole
PROPERTIES RecordsAreTrue CredentialsAreKept MovesAreSafe ComponentsAreReady PageIsCurrent PackIsManaged ModsAreKept BackupsAreKept BuildsAreKept JavaIsReady
