SPECIFICATION Spec
CONSTANTS
  TRANSITIONS <- PUBLICATION_TRANSITIONS
  STATE_ROLES <- PUBLICATION_ROLES
  FirstState = "QUEUED"
  Docs = {1}
  Workers = {w1, w2}
  Operators = {op}
  None = None
  LEASE_TTL = 1
  MAX_ATTEMPTS = 3
  QUOTA_ATTEMPT_BUDGET = 10000
  BACKOFF_SCHEDULE <- MCBackoff
  QUOTA_BACKOFF = 3
  MaxTime = 4
SYMMETRY WorkerSymmetry
INVARIANTS TypeOK LeaseIffWorking PausedIsResumable BackoffHonoured
PROPERTIES SweepIsExact HolderIsCharged OnlyOperatorsRevive ImplementsLifecycle
CHECK_DEADLOCK FALSE
