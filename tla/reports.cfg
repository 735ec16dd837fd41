CONSTANTS
  BDA = {b1}
  BDM = {}
  LeadReq = {q1}
  SeedStreak = {}
  HistoryDays = 3
  MaxDay = 3
  MaxFaults = 0
  LoginReq = {r1}
  MaxLag = 0
  CallReq = {q1}
  RangeDays = {1}
  ChartDays = 2
  FeedLimit = 2
  MaxSeeded = 1
SPECIFICATION ReportsSpec
INVARIANT LedgerExplainsTotals
INVARIANT AcknowledgedIsShown
INVARIANT OverviewIsCoherent
INVARIANT NextLoginIsAsPromised
INVARIANT BestIsLongest
INVARIANT BooksBalance
CHECK_DEADLOCK FALSE
