SPECIFICATION DeriveFairSpec
CONSTANTS
  d1 = d1
  Docs <- OneDoc
  Gen <- OwnGen
  B2Docs <- OneDoc
  Clients <- OneDoc
  Derivers = {"cron", "button"}
  Prefixed = FALSE
  Amounts <- MCAmounts
  LastDay = 3
  Today = 3
  DaysBack = 2
  MinDay = 0
  VERIFY_DAYS = 1
  SHIFT_DAYS = 2
  MAX_CANDIDATES = 1
  Callers = {"cron"}
  InitLedgers <- OneLedger
  InitTxs <- OneTx
  QuietPass = FALSE
  VerifyGlitch = FALSE
  Limit <- SettleLimit
PROPERTY KvSettles
CHECK_DEADLOCK FALSE
