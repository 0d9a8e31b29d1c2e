CONSTANTS
  Cpus = {c1, c2}
  Programs <- MCPrograms
  Addr <- MCAddr
  NewAddr <- MCNewAddr
  Word = 256
SPECIFICATION Spec
INVARIANTS
  TypeOK
  HookRunsCopy
  BuffersOfHijacked
  CodeProtected
CHECK_DEADLOCK FALSE
