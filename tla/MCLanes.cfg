SPECIFICATION Spec
CONSTANTS
  LANES = 2
  LANE_DELTA_MAX = 1
  U8 = 4
  TileOf <- Tiles3
  TILE_COUNT = 2
  SAMPLING = 2
  WH_CAP = 3
  INJECT_WINDOW = 2
  BH_PERIOD = 2
  BH_IDLE_MIN = 1
  CHARGE = 2
  MAX_TICK = 2
  Loads <- LoadsVal
  Pushes <- PushesVal
INVARIANT TypeOK
PROPERTIES OneStep 
CHECK_DEADLOCK FALSE
