SPECIFICATION FairSpec
CONSTANTS
  Products = {1, 2}
  Accounts = {1, 2}
  NicheMaps <- MCNicheMaps
  Tainted = {2}
  None = None
  MAX_ATTEMPTS = 2
  FETCH_BUDGET = 1
  MODERATION_BUDGET = 2
INVARIANTS TypeOK QueuedIsVetted LiveWorkHasRaw
PROPERTIES VerdictsAreFinal FollowsLifecycle ApprovedReachesEveryAccount EveryProductSettles
