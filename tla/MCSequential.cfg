SPECIFICATION Spec
CONSTANTS
  W = 2
  HT = 3
  NIBBLE = 4
  VM_CALL_STACK_DEPTH = 1
  TICK_LIMIT = 4
  LINE_STEPS = 8
  TILE_COUNT = 1
  PIPE_BUF_SIZE = 1
  PROC_FREE = 1
  HOME = 1
  PROG_X = 0
  CLEAR = 2
  SYS_GATE_OPEN = 1
  SYS_GATE_CLOSE = 2
  Code <- MCCode
  BRIDGE = TRUE
  Places = {0}
  Ranges <- MCRanges
  Shifts <- MCShifts
  Texts <- MCTexts
  Repeats = {2}
  MaxCommands = 4
  BYTE_MAX = 2
  MARK = 2
  RUN_MAX = 4
  COLS = 2
  PAGES = 2
  H = 2
  WH_CAP = 5
  RG_LIMIT = 5
  RESETS = 8
  MASK_BITS = 2
  PACK_BITS = 1
  FIRST = 8
  MaxChunk = 6
  MaxBytes = 6
  PROT_TILES = 3
  WIDTH = 5
  Pids = {1, 2}
  FREE = 9
  Lanes = {0, 2}
  USER_MAX = 2
  DK = 1
  Perms <- MCPerms
  SIDE = 4
  TILE = 2
  RING_BELOW = 2
  SPIRAL_FROM = 4
  ENERGY_MAX = 3
  DECAY = 1
  Programs <- MCPrograms
  START = 1
  MaxChanges = 2
  ENTRY = 20
  SUPER = 56
  REGION = 28
  BranchEntries <- MCEntries
  Versions = {1, 2}
  MERGE_MAX_DELTAS = 2
  U8 = 4
  MaxDeltas = 3
INVARIANTS UtilityPrints TilesFound   
PROPERTIES RunsEnd DrawingKept 
CHECK_DEADLOCK FALSE
