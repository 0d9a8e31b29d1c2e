CONSTANTS
  Cpus = {c1, c2}
  Allocators = {c1}
  Skbs = {101, 102}
  NFGPU_MAX_SKBS = 3
  VmapBases = {6, 13}
  VmapMayFail = TRUE
  NativeMayFail = FALSE
SPECIFICATION Spec
INVARIANT
  ReleasesOwnBuffer
