CONSTANTS
  Samples = {s1, s2, s3}
  Empty = Empty
  Size = 3
  MaxOut = 4

SPECIFICATION Spec

INVARIANTS
  TypeOK
  OnlyPushedSamples

PROPERTY ImplementsWindow
