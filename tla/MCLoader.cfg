CONSTANTS
  Req = {r1, r2}
  plain = plain
  fickle = fickle
  private = private
  malformed = malformed
  Url <- MCUrl
  Malformed = {malformed}
  Private = {private}
  Fickle = {fickle}
  BlockPrivate = TRUE
  MaxUrls = 2
  Inputs <- MCInputs
  NoDoc = NoDoc
SPECIFICATION LiveSpec
INVARIANTS AnswerComplete RejectedNotCrawled MetricsExact
PROPERTY Answered
