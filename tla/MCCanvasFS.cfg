SPECIFICATION Spec
CONSTANTS
  p = p
  q = q
  TILE_COUNT = 8
  Reserved = {2}
  FreemapGate = 1
  VolumeGates = {4, 7}
  GuardedGates = {0}
  NumSlots = 2
  Chunks <- ChunksVal
  Tinies = {}
  Smalls = {p}
  Larges <- LargesVal
INVARIANTS TypeOK VolumesSound
PROPERTIES WritesGuarded 
