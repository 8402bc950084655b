CONSTANTS
  Nobody = Nobody
  Commands = {"service"}
  CreateMayFail = {}
  LogEnabled = FALSE
  MdnsEnabled = FALSE
  AvahiUp = TRUE
  AvahiMayDie = FALSE
  SignalTargets = {"main"}
  MaxSignals = 1

SPECIFICATION Spec

PROPERTY GracefulShutdown

CHECK_DEADLOCK FALSE
