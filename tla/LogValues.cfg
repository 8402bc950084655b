CONSTANTS
  Samples = {1, 2, 3, 4}
  Size = 2
  MaxOut = 2
  ClockSteps = {1}
  Garbage = {0, 3, 9}
  LogToInflux = TRUE
  LogToFile = TRUE
  MaxPushes = 4

SPECIFICATION Spec

INVARIANTS
  TypeOK
  PostsOnlyNewer
  WritesOnce
  NoneSkippedAfterFirst
  PeekedIsWritten
  OnlyOverrunLoses
  FileInBlocks

PROPERTY HeldIsWritten
