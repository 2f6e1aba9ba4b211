SPECIFICATION LiveSpec
CONSTANTS
  Files = {f1, f2}
  Texts = {absent, a}
  Absent = absent
  Blank = {}
  Unparsable = {}
  Ignored = {}
  Manifests = {noManifest, m1}
  NoManifest = noManifest
  RepoName <- OneName
  Excludes <- HideFirst
  Indexers = {i1}
  Servers = {}
  InGit = TRUE
  Revisiting = FALSE
  MaxCommits = 2
  MaxFailures = 0
  FullRuns <- Either
  Names = {dir, named}
  DirName = dir
  NoRevision = noRevision
  NoState = noState
  NoGraph = noGraph
  m1 = m1
  m2 = m2
  dir = dir
  named = named
  f1 = f1
INVARIANTS
  IInv
  UpToDateIsExact
  ExcludedStayOut
PROPERTIES
  IndexSettles
