SPECIFICATION FairSpec
CONSTANTS
  d1 = d1
  d2 = d2
  d3 = d3
  Docs <- RaceDocs
  Gen <- OwnGen
  B2Docs = {d1}
  Prefixed = TRUE
  Amounts <- MCAmounts
  LastDay = 5
  Today = 4
  DaysBack = 2
  MinDay = 0
  VERIFY_DAYS = 1
  SHIFT_DAYS = 2
  MAX_CANDIDATES = 2
  Callers = {"cron", "backfill", "manual"}
  InitLedgers <- RaceLedgers
  InitTxs <- RaceTxs
  QuietPass = FALSE
  VerifyGlitch = TRUE
  Limit <- RaceLimit
INVARIANTS SyncExclusive OneRowPerDocument
PROPERTIES RowLossRecorded AmendmentRecorded MirrorSettles
CHECK_DEADLOCK FALSE
