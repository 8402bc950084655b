CONSTANTS
  flux = flux
  web = web
  FluxType = FluxType
  HttpType = HttpType
  Instances <- BothFamilies
  Loopback = Loopback
  Addrs = {addr1, Loopback}
  Ports = {port1}
  DefaultPort = port1
  Configured = {None}
  None = None
  VersionModulus = 3
  BumpsPerCycle = 2
  MaxResolvers = 1
  LogToInflux = TRUE
  InitMayFail = FALSE

SPECIFICATION Spec

PROPERTY ConfigReachesCurl

CHECK_DEADLOCK FALSE
