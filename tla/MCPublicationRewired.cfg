SPECIFICATION Spec
CONSTANTS
  WARMUP_CAP_EARLY = 1
  WARMUP_CAP_LATE = 2
  WARMUP_EARLY_DAYS = 1
  WARMUP_TOTAL_DAYS = 2
  PINS_DAILY_CAP = 2
  CAP_OVERRIDE = 2
  MIN_PIN_INTERVAL = 1
  DAY = 2
  Docs = {1}
  Boards = {1}
  SeoBoards = {}
  None = None
  MAX_ATTEMPTS = 2
  BACKOFF = 1
  LEASE_TTL = 1
  PINS_PER_ACCOUNT = 2
  RUN_TTL = 1
  Faults = {}
  Commands = {"pause", "resume", "wire"}
INVARIANT RewiredUnpublished
