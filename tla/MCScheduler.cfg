SPECIFICATION MCSpec
CONSTANTS
  PROC_MAX = 2
  WH_CAP = 4
  EVENT_STRIDE = 2
  U32 = 6
  TILE_COUNT = 5
  Spaces = {{0, 1}, {2, 3}, {1, 5}}
  Energies = {0, 1, 3}
  Amounts = {1, 5}
  Messages = {"a", "b"}
  MAX_TICK = 3
INVARIANTS TypeOK GatesFollowState
PROPERTIES TickSettles MailSpec
CHECK_DEADLOCK FALSE
