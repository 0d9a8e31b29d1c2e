SPECIFICATION Spec
CONSTANTS
  Codes <- MCCodes
  Modes = {TRUE, FALSE}
INVARIANTS
  FieldsTile
  CallsCommute
  PrefixesKept
  OpcodeFits
  SizesAsArchitecture
  FixupInside
