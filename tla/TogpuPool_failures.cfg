CONSTANTS
  Cpus = {c1, c2}
  Allocators = {c1}
  Skbs = {101, 102}
  NFGPU_MAX_SKBS = 3
  VmapBases = {6, 12}
  VmapMayFail = TRUE
  NativeMayFail = TRUE
SPECIFICATION Spec
INVARIANTS
  TypeOK
  SyncSlotReserved
  RunningOnlyWhenMapped
