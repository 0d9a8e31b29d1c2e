CONSTANTS
  Cpus = {c1, c2}
  Allocators = {c1, c2}
  Skbs = {101, 102}
  NFGPU_MAX_SKBS = 3
  VmapBases = {6}
  VmapMayFail = FALSE
  NativeMayFail = FALSE
SPECIFICATION Spec
INVARIANT
  NoSharedHead
