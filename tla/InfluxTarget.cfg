CONSTANTS
  flux = flux
  web = web
  FluxType = FluxType
  HttpType = HttpType
  Instances <- FluxAndWeb
  Loopback = Loopback
  Addrs = {addr1, Loopback}
  Ports = {port1}
  DefaultPort = port1
  Configured = {None, addr1}
  None = None
  VersionModulus = 3
  BumpsPerCycle = 2
  MaxResolvers = 1
  LogToInflux = TRUE
  InitMayFail = TRUE

SPECIFICATION Spec

INVARIANTS
  TypeOK
  ListNamesUnique
  AddressOfListedService
  CurlMatchesLastChange

PROPERTY FoundIsUsed
