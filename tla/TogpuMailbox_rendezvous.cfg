CONSTANTS
  Cpus = {c1, c2}
  LCpus = {c2, c3}
  Indexes = {1, 2}
  Lens = {48}
  Word = 128
  Bases = {1, 2}
  Junk = {0}
  MayDie = TRUE
  MaxLaunches = 2
  Weight = 1
  Clocks = {2}
  MaxPackets = 1
SPECIFICATION FairSpec
INVARIANTS
  TypeOK
  ServedOnce
  AesTakesWaiting
  AverageBelowLongest
PROPERTY
  AnsweredWhileAlive
CHECK_DEADLOCK FALSE
