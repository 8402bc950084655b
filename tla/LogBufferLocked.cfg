CONSTANTS
  Threads = {sensor, logger}
  Samples = {s1, s2}
  Empty = Empty
  Nobody = Nobody
  Size = 2
  MaxOut = 2

SPECIFICATION Spec

INVARIANT TypeOK

PROPERTY CallsAreAtomic
