CONSTANTS
  Procs = {p1, p2, p3, p4}
  None = None
  NFGPU_MAX_PAGES = 2
  Sizes = {0, 1, 2}
SPECIFICATION Spec
INVARIANTS
  MappingOfOneProcess
  PagesFit
