CONSTANTS
  Cpus = {c1}
  LCpus = {c3}
  Indexes = {1, 2}
  Lens = {48, 64}
  Word = 128
  Bases = {1}
  Junk = {0}
  MayDie = FALSE
  MaxLaunches = 1
  Weight = 2
  Clocks = {}
  MaxPackets = 1
SPECIFICATION Spec
INVARIANT
  PacketCiphered
