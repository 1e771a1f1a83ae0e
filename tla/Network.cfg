SPECIFICATION Spec
CONSTANTS
  IpRing <- MCIpRing
  Stations <- MCStations
  UdpRing = 1
  TcpRing = 1
  Stages = {"raw", "udp", "tcp"}
  Ids = {1, 2}
  Bounds <- MCBounds
  Sizes = {1}
INVARIANTS RequestsKept ScratchIntact SocketsExact
PROPERTY WaitsEnd
