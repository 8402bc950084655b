CONSTANTS
  Instances = {i1, i2, i3}
  Nobody = Nobody
  UseTmpfs = TRUE
  Failures = {"open"}
  MaxMounts = 3

SPECIFICATION Spec

INVARIANT AtMostOneServing
