\* Both endpoints: every order of four parts.
SPECIFICATION Spec
CONSTANTS
  APIs = {"responses", "chat"}
  Reasons <- SomeReasons
  MaxParts = 4
INVARIANTS
  WellFormed
  StreamClosed
  NeverEmpty
  TurnFaithful
  JsonAgrees
\* A stream ends once and nothing follows it.
CHECK_DEADLOCK FALSE
