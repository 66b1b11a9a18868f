\* Two handlers, a channel for one line, three calls, one midnight.
SPECIFICATION LoggerFairSpec
CONSTANTS
  h1 = h1
  h2 = h2
  Handlers = {h1, h2}
  Capacity = 1
  MaxCalls = 3
  MaxDay = 2
CHECK_DEADLOCK FALSE
INVARIANTS
  LinesKept
PROPERTIES
  LogReturns
