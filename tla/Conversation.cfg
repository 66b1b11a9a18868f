\* Three requests and room for two responses: the third save pushes one out.
CONSTANTS
  Ids = {r1, r2, r3}
  Capacity = 2
  None = None
  Answers <- MCAnswers
SPECIFICATION Spec
SYMMETRY Symmetry
INVARIANTS
  ListMatchesMap
  RecentIsKept
  TurnsAlternate
  PrefixKept
  ReplayAgrees
  ResultsMatchCalls
