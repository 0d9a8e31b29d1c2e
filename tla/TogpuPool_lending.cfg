CONSTANTS
  Cpus = {c1, c2}
  Allocators = {c1}
  Skbs = {101, 102, 103}
  NFGPU_MAX_SKBS = 3
  VmapBases = {6}
  VmapMayFail = FALSE
  NativeMayFail = FALSE
SPECIFICATION FairSpec
INVARIANTS
  NoSharedHead
  ReleasesOwnBuffer
  NoLostSlot
PROPERTIES
  ImplementsSlotLending
  AllocationReturns
