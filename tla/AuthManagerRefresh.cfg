\* The credential has expired and Google answers.
SPECIFICATION FairSpec
CONSTANTS
  c1 = c1
  c2 = c2
  short = short
  dateless = dateless
  FileToken = FileToken
  None = None
  Unreadable = Unreadable
  Callers = {c1, c2}
  Tokens <- SomeTokens
  ExpiresAt <- Dates
  FileLife = 3
  DatelessLife = 4
  MaxTime = 3
PROPERTIES
  RefreshReturns
