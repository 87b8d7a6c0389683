CONSTANTS
  CfgAttempts = {0, 1}
  BaseDelay = 1
  MaxDelay = 2
  Second = 1
  Half = 32
  Statuses <- MCStatuses
  PageStatuses <- MCPageStatuses
  Texts <- MCTexts
  ScanLimit = 3
  RetryAfters <- MCRetryAfters
SPECIFICATION FetchLiveSpec
INVARIANTS FetchTypeOK NoBodyLeak ResultIsLast
  TimeoutNamed RateLimitNamed WallNotServed RetriesJustified
PROPERTY FetchReturns
