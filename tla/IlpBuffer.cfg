CONSTANTS
  LineSize = 4
  Count = 5
  Lengths = {1, 2, 3, 5}

SPECIFICATION Spec

INVARIANTS
  TypeOK
  StaysInside
  DropsOnlyLastOfFull
