SPECIFICATION Spec
CONSTANTS
  PROC8_MAX = 2
  FD_MAX_PER_PROC = 5
  DupTargets = {4}
  PIPE_MAX = 2
  PIPE_BUF_SIZE = 2
  Bytes = {0}
  MaxLen = 1
INVARIANTS TypeOK PipesSound
