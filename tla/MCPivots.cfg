SPECIFICATION MCSpec
CONSTANTS
  Niches = {1, 2}
  Pins = {1, 2}
  Processes = {1}
  MIN_IMPRESSIONS = 2
  TOTAL = 6
  Reports = {1}
  DAYS = 2
  Proposals <- MCProposals
  MAX_NOTES = 6
INVARIANTS CarriesLastPivots
CHECK_DEADLOCK FALSE
