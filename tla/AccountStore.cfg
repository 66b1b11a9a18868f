\* Two users, two accounts, one proxy, one refresh at a time.
SPECIFICATION Spec
CONSTANTS
  u1 = u1
  u2 = u2
  p1 = p1
  w1 = w1
  Users = {u1, u2}
  Proxies = {p1}
  Workers = {w1}
  Unknown = Unknown
  NoToken = NoToken
  NoProxy = NoProxy
  Pointers <- TwoPointers
  Seconds = {1}
  MaxFaults = 1
VIEW View
SYMMETRY Interchangeable
INVARIANTS
  ListInv
  TokensMatch
  RestartAgrees
  DiskConsistent
PROPERTIES
  SentThroughProxy
