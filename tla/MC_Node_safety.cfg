CONSTANTS
  c1 = c1
  c2 = c2
  b1 = b1
  b2 = b2
  Clients = {c1, c2}
  BootNodes = {b1, b2}
SPECIFICATION Spec
INVARIANT FdsOwned
PROPERTY ShutdownCompletes
