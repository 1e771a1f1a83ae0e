SPECIFICATION Spec
CONSTANTS
  N = 2
  WRAP = 8
  RADIX = 16
  PAGE = 2
  TOP = 63
  ELF_HEADER = 2
  PROGRAM_HEADER = 1
  SEGMENTS = 2
  ARCHITECTURE = "native"
  SLOTS = 2
  FS_HANDLES = 4
  SIZE = 1
  Boots <- MCBoots
  ShellImage <- MCShellImage
  ARENA = 10
  ARENA_END = 40
  SHELL_BASE = 24
  USER_STACK = 2
  USER_HEAP = 2
  Scribbles <- MCScribbles
  BUDGET = 2
INVARIANTS GatewayConfined MemoryConfined HandlesExact
PROPERTY ProgramsEnd
