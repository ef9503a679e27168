SPECIFICATION Spec
CONSTANTS
  PIPE_MAX = 2
  PIPE_BUF_SIZE = 3
  Bytes = {a, b}
  MaxLen = 2
PROPERTY StreamSpec
