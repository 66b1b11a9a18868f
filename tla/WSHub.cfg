\* Three requests and a page; the list and the page hold two rows.
SPECIFICATION HubSpec
CONSTANTS
  r1 = r1
  r2 = r2
  r3 = r3
  p1 = p1
  Requests = {r1, r2, r3}
  Pages = {p1}
  MaxRecent = 2
SYMMETRY RequestSymmetry
INVARIANTS
  WellFormed
  ListTells
  FollowerSeesEnd
PROPERTIES
  ListNeverGoesBack
