SPECIFICATION Spec
CONSTANTS
  Files = {f1, f2}
  Texts = {absent, a}
  Absent = absent
  Blank = {}
  Unparsable = {}
  Ignored = {}
  Manifests = {noManifest, m1}
  NoManifest = noManifest
  RepoName <- OneName
  Excludes <- HideFirst
  Indexers = {i1}
  Servers = {}
  InGit = TRUE
  Revisiting = FALSE
  MaxCommits = 1
  MaxFailures = 0
  FullRuns <- Never
  Names = {dir, named}
  DirName = dir
  NoRevision = noRevision
  NoState = noState
  NoGraph = noGraph
  m1 = m1
  m2 = m2
  dir = dir
  named = named
  f1 = f1
SYMMETRY Symmetry
CHECK_DEADLOCK FALSE
INVARIANTS
  QueryHonoursManifest
