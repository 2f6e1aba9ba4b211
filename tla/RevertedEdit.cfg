SPECIFICATION Spec
CONSTANTS
  Files = {f1}
  Texts = {absent, a, b}
  Absent = absent
  Blank = {}
  Unparsable = {}
  Ignored = {}
  Manifests = {m1}
  NoManifest = noManifest
  RepoName <- OwnName
  Excludes <- HideNone
  Indexers = {i1}
  Servers = {}
  InGit = TRUE
  Revisiting = TRUE
  MaxCommits = 1
  MaxFailures = 0
  FullRuns <- Always
  Names = {dir, named}
  DirName = dir
  NoRevision = noRevision
  NoState = noState
  NoGraph = noGraph
  m1 = m1
  m2 = m2
  dir = dir
  named = named
  f1 = f1
SYMMETRY Symmetry
CHECK_DEADLOCK FALSE
INVARIANTS
  NoStaleRecords
