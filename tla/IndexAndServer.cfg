SPECIFICATION Spec
CONSTANTS
  Files = {f1}
  Texts = {absent, a, b}
  Absent = absent
  Blank = {}
  Unparsable = {}
  Ignored = {}
  Manifests = {m1}
  NoManifest = noManifest
  RepoName <- OwnName
  Excludes <- HideNone
  Indexers = {i1}
  Servers = {s1}
  InGit = TRUE
  Revisiting = FALSE
  MaxCommits = 2
  MaxFailures = 0
  FullRuns <- Never
  Names = {dir, named}
  DirName = dir
  NoRevision = noRevision
  NoState = noState
  NoGraph = noGraph
  m1 = m1
  m2 = m2
  dir = dir
  named = named
  f1 = f1
SYMMETRY Symmetry
INVARIANTS
  TypeOK
  UpToDateIsExact
  NoStaleRecords
  ServedIsExact
