\* A request that names an answer the moment it has it.
CONSTANTS
  Ids = {r1, r2, r3}
  Capacity = 2
  None = None
  Answers <- MCAnswers
SPECIFICATION Spec
SYMMETRY Symmetry
PROPERTY NotFoundMeansGone
