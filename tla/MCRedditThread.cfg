CONSTANTS
  a = a
  b = b
  c = c
  ID <- MCID
  Threads <- MCThreads
  Replies <- MCReplies
  Budgets <- MCBudgets
  MaxBatch = 2
  Unset = Unset
  Junk = Junk
  Huge = Huge
  Full = Full
  MaxExpansionRounds = 3
  DefaultRounds = 2
  DefaultLimit = 10
  MaxInt = 1000
  Scenarios <- MCScenarios
  ReplyListings <- MCReplyListings
SPECIFICATION ThreadLiveSpec
INVARIANTS TypeOK NoRerequest WalkExact LiveCommentsKept 
PROPERTIES NothingUnaskedLost CommentsGrowOnce Terminates
