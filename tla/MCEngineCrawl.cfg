CONSTANTS
  Proc = {p1, p2, p3}
  Host = {reddit, site}
  RedditHost = reddit
  NoHost = NoHost
  MaxConcurrent = 2
  Timeout = 1
  MaxRounds = 1
SPECIFICATION LiveSpec
INVARIANTS TypeOK SlotHeldWhileCrawling PartialThreadKept
PROPERTY CrawlReturns
