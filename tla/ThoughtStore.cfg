\* Two calls of one tool, two callers; the first file may disagree.
SPECIFICATION FairSpec
CONSTANTS
  c1 = c1
  c2 = c2
  read = read
  s1 = s1
  s2 = s2
  s3 = s3
  g1 = g1
  g2 = g2
  NoTool = NoTool
  Blank = Blank
  None = None
  CallIds <- TwoCalls
  Tools <- OneTool
  Offers <- TwoCallsOffers
  Sigs = {s1, s2, s3}
  Callers <- TwoCallers
  MaxKeys = 3
  TTL = 0
  MaxTime = 2
  FirstFiles <- SomeFiles
INVARIANTS
  NoForeignSignature
  QuiescentMeansSaved
  IInv
PROPERTIES
  DurableFirstWins
  NeverTorn
  ImplementsWriteOnceMap
  EventuallyDurable
