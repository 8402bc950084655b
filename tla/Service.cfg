CONSTANTS
  Nobody = Nobody
  Commands = {"service", "client"}
  CreateMayFail = {"log"}
  LogEnabled = TRUE
  MdnsEnabled = TRUE
  AvahiUp = TRUE
  AvahiMayDie = TRUE
  SignalTargets = {"main"}
  MaxSignals = 1

SPECIFICATION Spec

INVARIANTS
  TypeOK
  MutexesOutliveThreads
  NoLockLeaks

PROPERTIES
  ShutdownOnceUp
  ClientScanEnds
