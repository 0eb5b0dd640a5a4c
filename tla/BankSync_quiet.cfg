SPECIFICATION Spec
CONSTANTS
  d1 = d1
  d2 = d2
  d3 = d3
  Docs <- MCDocs
  Gen <- OwnGen
  B2Docs <- MCDocs
  Prefixed = FALSE
  Amounts <- MCAmounts
  LastDay = 4
  Today = 3
  DaysBack = 2
  MinDay = 0
  VERIFY_DAYS = 1
  SHIFT_DAYS = 2
  MAX_CANDIDATES = 1
  Callers = {"cron", "backfill"}
  InitLedgers <- MCLedgers
  InitTxs <- MCTxs
  QuietPass = TRUE
  VerifyGlitch = FALSE
  Limit <- QuietLimit
INVARIANTS TypeOK OneRowPerDocument LinesMirrored KvLinked
PROPERTY DeleteOnlyAbsent
CHECK_DEADLOCK FALSE
