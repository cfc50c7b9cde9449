SPECIFICATION Spec
CONSTANTS
  WARMUP_CAP_EARLY = 1
  WARMUP_CAP_LATE = 1
  WARMUP_EARLY_DAYS = 1
  WARMUP_TOTAL_DAYS = 1
  PINS_DAILY_CAP = 1
  CAP_OVERRIDE = 1
  MIN_PIN_INTERVAL = 1
  DAY = 1
  Docs = {1}
  Boards = {1, 2}
  SeoBoards = {2}
  None = None
  MAX_ATTEMPTS = 2
  BACKOFF = 1
  LEASE_TTL = 1
  PINS_PER_ACCOUNT = 2
  RUN_TTL = 0
  Faults <- MCBoardFaults
  Commands = {"pause", "resume", "requeue", "wire"}
INVARIANTS TypeOK PinIsReal StageInputsPresent
PROPERTIES ReconciledBeforeCreate FollowsLifecycle
