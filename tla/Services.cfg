SPECIFICATION ServicesSpec
CONSTANTS
  service_names = {"gates", "anthropic", "openai", "responses", "logs", "records", "chats"}
  Walkers = {w1, w2}
  GProber = GProber
  GOperator = GOperator
  GKeeper = GKeeper
  Accounts = {ga1, ga2}
  GModels = {gm1}
  ga1 = ga1
  ga2 = ga2
  MaxTime = 1
  MaxRefusals = 2
  MaxActs = 2
  GateOps = {"walk", "chat", "limit", "country", "probe", "unlock", "flush", "restart"}
  Indexes = {0, 1}
  MaxChunks = 4
  OneWay = {{"native", "late"}, {"text"}}
  AnyWay = {{"native"}, {"text"}, {"native", "text"}}
  Loggers = {"l1", "l2"}
  capacity = 2
  spillBufSize = 1
  spillFlushSize = 2
  Retention = 0
  MaxRecords = 3
  MaxSpillTicks = 1
  MaxSpillFaults = 1
  Ids = {"r1", "r2"}
  RollupMaxWindow = 2
  Skew = 1
  BucketMs = 2
  MaxRecordClock = 3
  MaxRecordCalls = 3
  Chats = {k1, k2}
  k1 = k1
  k2 = k2
  ChatAccounts = {pooled, own}
  PooledAccounts = {pooled}
  Menu <- Replies
  Leavers = {k1}
  Budget = 1
  MaxMoves = 1
CHECK_DEADLOCK FALSE
INVARIANTS   FinishHonest PseudoHidden AnswersAgree LogsKept ChatSettled
PROPERTIES RecordsHold SessionFate
