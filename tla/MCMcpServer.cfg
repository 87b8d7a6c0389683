CONSTANTS
  key = key
  Unset = Unset
  Junk = Junk
  Huge = Huge
  Full = Full
  MaxExpansionRounds = 3
  DefaultRounds = 2
  DefaultLimit = 3
  MaxInt = 1000
  Environments <- MCEnvironments
  Messages <- MCMessages
  Request = {r1, r2}
  Posts <- MCPosts
  Hits = {0, 1, 4}
  MaxLines = 2
  Stdio = Stdio
  NoPost = NoPost
  NoMessage = NoMessage
  NoId = NoId
SPECIFICATION LiveSpec
INVARIANTS RepliesInOrder RunsAccounted AuthKept SearchCapped
PROPERTIES StdioEnds RequestsAnswered
