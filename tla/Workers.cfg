SPECIFICATION FairSpec
CONSTANTS
  WORKERS_MAX = 4
  LANE_ID_MAX = 6
  U8 = 6
  PHASES = 2
  ActiveLanes = {0, 1, 3, 4}
  CREATE_FAILS = TRUE
  MAX_TICKS = 3
 
PROPERTIES LockStep CallsReturn
CHECK_DEADLOCK FALSE
