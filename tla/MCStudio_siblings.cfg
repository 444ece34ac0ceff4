CONSTANTS
  Sources = {a, b}
  Projects = {x}
  Papers = {"note"}
  Drawn = {"architecture"}
  Scanned = {"health"}
  Jobs = {j1, j2}
  Trees = {t, u}
  MaxText = 2
  MaxRequests = 2
  MaxChanges = 2
  MaxFaults = 1
  MaxCrashes = 1
  None = None
  m1 = m1
  m2 = m2
  Models = {m1, m2}
  Chains = {chain}
  Tiers <- MCTiers
  Lists <- MCLists
  Found <- MCFound
  Dims = {1, 2}
  MaxHubRequests = 3
  MaxRestarts = 1
  Rules <- MCRules
  CodeRules <- MCCodeRules
  MaxFiles = 5
  MaxDependencies = 5
  MaxServices = 3
  MaxChildren = 1
  MaxEdges = 2
  MaxGraphGroups = 2
  MaxGraphNodes = 2
  MaxGraphEdges = 2
  MaxSourceFiles = 2
  MaxExcerpt = 2
  MaxExcerpts = 3
  MaxSymbols = 2
  MaxHotspots = 2
  MaxFetched = 1
  MaxNesting = 4
  MaxAsked = 2
  MaxAdvisories = 1
  MaxScannedFiles = 1
  MaxFindings = 2
  MaxLines = 5
SPECIFICATION AllSpec
SYMMETRY Symmetry
INVARIANT SiblingsAreLinked
