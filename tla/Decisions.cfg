SPECIFICATION Spec
CONSTANTS
  Clients = {p1, p2}
  Categories <- MCCategories
  Subjects = {"s1"}
  Policies <- MCPolicies
  Providers = {"deterministic", "openrouter", "unaudited"}
  Hash <- MCHash
  MaxRetries = 1
  Statuses <- MCStatuses
  Confidences <- MCConfidences
  AuditWrites = 2
  MaxAsks = 2
  NoQuestion = NoQuestion
  NoResult = NoResult
INVARIANTS TypeOK SentIsAudited AuditedOnce
PROPERTY KeepsContract
CHECK_DEADLOCK FALSE
