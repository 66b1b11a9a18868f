\* Two clients with a process id, and those without; liveness too.
SPECIFICATION FairSessionSpec
CONSTANTS
  p1 = p1
  p2 = p2
  s1 = s1
  s2 = s2
  NoPid = NoPid
  NoId = NoId
  Pids = {p1, p2}
  Sids = {s1, s2}
  FirstFiles <- SomeFiles
INVARIANTS
  SessionInv
PROPERTIES
  ImplementsWriteOnceMap
  EventuallyDurable
