SPECIFICATION Spec
CONSTANTS
  Gates = {g}
  Contents = {c0, c1}
  Paths = {session, backup}
  Session = session
  Backup = backup
  Locks = {v1}
  SKIP = skip
  WH_CAP = 2
  MaxTick = 2
  MaxOps = 5
  Warps = {shell, debug}
  TimelineWarp = shell
  Torn = {2}
  Cells = {10}
  ROOT = 0
  HASH_V1 = v1
  SNAPSHOT_MAX = 1
  BRANCH_MAX = 2
  WRITESET_MAX = 1
  WRITESET_TABLE_MAX = 1

PROPERTIES ResumesPresent
CHECK_DEADLOCK FALSE
