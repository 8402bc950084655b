CONSTANTS
  Instances = {i1, i2, i3}
  Nobody = Nobody
  UseTmpfs = TRUE
  Failures = {"open", "flock", "ftruncate", "write", "umount", "mount"}
  MaxMounts = 3

SPECIFICATION Spec

INVARIANTS
  TypeOK
  AtMostOneUnlessFailed
  CheckedServesAlone
  PidFileNamesServing
  KeepsTmpfs
  MountsOnce

PROPERTY RefusedByLiving
