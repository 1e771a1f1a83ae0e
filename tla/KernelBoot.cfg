CONSTANTS
  Fanout = 4
  Usable <- MCUsable
  Reserved <- MCReserved
  PoolFrames = 6
  LogRanges = 12
  RvText = 12
  RvRodata = 13
  RvData = 14
  RvKernelEnd = 15
  RvUartWindow = 40
  RvUart = 44
  RvDevices = 48
  RvDevicesEnd = 60
  XLive <- MCLive
  XImage = 12
  XImageEnd = 14
  XImageLimit = 8
  XStack = 128
  XStackEnd = 131
  XBootInfo = 132
  XBootInfoEnd = 134
  XOffset = 64
  XLow = 16
  XApicWindow = 136
  XApic = 45
  XDevices = 144
  XDevicesEnd = 156
  XTestPage = 160
  Harts <- MCHarts
  MaxViews = 2
  Grants <- MCGrants
  Cuts <- MCCuts
  Windows <- MCWindows
  Heap = 2
  Chunks = 2
  Code = 12
  Data = 14
  Tables = 13
  DomainPages <- MCDomainPages
  MaxCalls = 4
  RunSlots = 3
  MaxCount = 2
  TopClass = 1
  Files <- MCFiles
  WindowFrame <- MCWindowFrame
  WindowStarts <- MCWindowStarts
  WindowSlots = 2
  CountPages <- MCCountPages
  WORD = 256
  FRAME = 16
  DEVICES = 2
  FUNCTIONS = 2
  DEVICE_BARS = 3
  BRIDGE_BARS = 1
  CAPABILITY_FLOOR = 2
  CAPABILITY_LIMIT = 3
  Buses <- MCBuses
  Messages <- MCMessages
  FirmwareMessage <- MCFirmware
  Ecam = 41
SPECIFICATION Spec
INVARIANTS LeavesCounted KernelAudited TablesPrivate PortsAgree FilesShared BusSound MessagesWhole
PROPERTIES ImplementsView
CHECK_DEADLOCK FALSE
