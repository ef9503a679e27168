SPECIFICATION Spec
CONSTANTS
  PROC8_MAX = 3
  TILEGATE_COUNT = 6
  BH_CAP = 4
  INIT_ENERGY = 1
  MAX_ENERGY = 1
  MAX_PID = 2
  SigArgs = {1, 2, 3, 8}
  MaskArgs <- MCMaskArgs
  NoPid = NoPid
INVARIANTS TypeOK TableExact GatesMirrorState EnergySettles
PROPERTIES DeathIsTold PoolSpec
