SPECIFICATION Spec
CONSTANTS
  Fds = {3, 4}
  Keys <- KeysVal
  NoKey = NoKey
  NoFile = NoFile
  Paths = {f, g}
  LongPaths = {g}
  FILE_REG_MAX = 2
  PAYLOAD = 2
  Bytes = {1}
  FlagArgs = {{"read", "write"}, {"write", "append", "create"}}
  MaxLen = 2
INVARIANTS TypeOK 
PROPERTY BytesKept
