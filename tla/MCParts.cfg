SPECIFICATION MCSpec
CONSTANTS
  N_KEYS = 3
  RPD_BUDGET = 2
  MAX_CALLS = 4
  Runs = {1, 2}
  MAX_TOKEN = 4
  Contents = {c1, c2}
  SmokeContent = s
  None = None
  POLLS = 2
  Niches = {1}
  Pins = {1, 2}
  Processes = {1, 2}
  MIN_IMPRESSIONS = 2
  TOTAL = 3
  Reports = {1}
  DAYS = 2
  Proposals <- MCProposals
  MAX_NOTES = 3
INVARIANTS TypeOK CountCoversRequests EnrichedWithinBudget PartsTypeOK RefreshTokenIsValid
INVARIANTS NeverCommitsTwice NoDeadLink RefusedByOthers ActsOnEvidence NothingUnrecorded SeedVoiceKept CountedOnce
PROPERTIES SecondGivesUpFairly WorkingKeyIsFound StaysConnected
PROPERTIES WalkCompletes HelloImplementsLifecycle
CHECK_DEADLOCK FALSE
