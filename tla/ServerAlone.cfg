SPECIFICATION LiveSpec
CONSTANTS
  Files = {f1}
  Texts = {absent, a, bad}
  Absent = absent
  Blank = {}
  Unparsable = {bad}
  Ignored = {}
  Manifests = {m1}
  NoManifest = noManifest
  RepoName <- OneName
  Excludes <- HideNone
  Indexers = {}
  Servers = {s1}
  InGit = TRUE
  Revisiting = TRUE
  MaxCommits = 2
  MaxFailures = 1
  FullRuns <- Never
  Names = {dir, named}
  DirName = dir
  NoRevision = noRevision
  NoState = noState
  NoGraph = noGraph
  m1 = m1
  m2 = m2
  dir = dir
  named = named
  f1 = f1
PROPERTIES
  ServerSettles
