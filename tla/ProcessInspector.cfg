\* Two connections at a time, one after another from one port, two programs.
SPECIFICATION InspectorSpec
CONSTANTS
  c1 = c1
  c2 = c2
  c3 = c3
  port1 = port1
  Conns = {c1, c2, c3}
  Ports = {port1}
  Pids <- TwoPids
  NoConn = NoConn
SYMMETRY Interchangeable
INVARIANTS
  NeverAnotherProgram
  KnownIsExact
