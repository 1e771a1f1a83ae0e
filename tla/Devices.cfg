SPECIFICATION Spec
CONSTANTS
  ROUNDS = 2
  GENERATIONS = 2
  DEPTH = 2
  IO_ENTRIES = 3
  ADMIN_ENTRIES = 3
  VQ_SIZE = 8
  NETWORK_SIZE = 2
  NetQueues <- MCQueues
  Capacity = 8
  PER_BLOCK = 8
  ACTIVE = 8
  ENDPOINTS = 2
  InputRanges <- MCInput
  DomainRanges <- MCDomains
  PREFERRED_IOVA = 16
  Ports <- MCPorts
  Frames <- MCFrames
  Ops <- MCOps
  Direct <- MCDirect
  MaxRequests <- MCRequests
  MaxUnseen = 2
INVARIANTS DmaConfined RingsExact NoArrivalMissed
PROPERTIES ImplementsQueue AnsweredEventually
