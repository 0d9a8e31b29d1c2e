SPECIFICATION Spec
CONSTANTS
  Threads <- MCThreads
  Keys <- MCKeys
  AesKeys <- MCAesKeys
  Rounds <- MCRounds
  EncKey <- MCEncKey
  DecKey <- MCDecKey
  Length <- MCLength
  Text <- MCText
  Ctr <- MCCtr
  Ivs <- MCIvs
INVARIANTS
  KernelsComputeAes
  RoundTrip
  OnlyOwnBlock
CHECK_DEADLOCK FALSE
