SPECIFICATION SessionSpec
CONSTANTS
  Procs = {p1, p2}
  Heads <- MCHeads
  Ignores <- MCIgnores
  MaxStarts = 2
  MaxEdits = 1
  MaxKills = 1
  Keys <- MCKeys
  Digest <- MCDigest
  Values = {"v"}
  Schema = 2
  Revisions = {"r1"}
  Foreign <- MCForeign
  MaxCalls = 3
  Outputs = {"x", "y", "z"}
  Hash <- MCHash
  MaxStores = 3
  Absent = Absent
  Torn = Torn
  Nothing = Nothing
INVARIANTS SessionTypeOK AdoptRepairs IndexRepairs DoctorVouches WorkIsKept HitIsPut SweepIsClean
PROPERTY ExpansionIsTheOutput
SYMMETRY Symmetry
CHECK_DEADLOCK FALSE
