------------------------- MODULE TogpuMailboxProofs -------------------------
(***************************************************************************)
(* Proofs about TogpuMailbox, for any number of CPUs, slots, lengths and   *)
(* launches, any word size, any CPUs for the launcher and any use of the   *)
(* pages of a launcher that died.  aes_test works only on a packet that    *)
(* waits for it and takes none twice; a target that was alone at the       *)
(* mailbox and whose launcher lived returns only when its packet was       *)
(* taken.                                                                  *)
(***************************************************************************)
EXTENDS TogpuMailbox, TLAPS

-----------------------------------------------------------------------------
\* An index or a length that fits an u32 is its own low half.
LEMMA HalvesType ==
  \A n \in 0 .. Word - 1 : Low(n) = n /\ High(n) = 0
  BY MailboxAssumption DEF Low, High

\* What the target stores fits an u32.
LEMMA Ranges ==
  /\ \A i \in Indexes \cup {0} : i \in 0 .. Word - 1
  /\ \A n \in Lens \cup {0} : n \in 0 .. Word - 1
<1>1. 0 \in 0 .. Word - 1
  BY MailboxAssumption
<1>2. ASSUME NEW i \in Indexes PROVE i \in 0 .. Word - 1
  <2>1. i \in 1 .. Word - 1
    BY MailboxAssumption
  <2> QED
    BY <2>1
<1>3. ASSUME NEW n \in Lens PROVE n \in 0 .. Word - 1
  BY MailboxAssumption
<1> QED
  BY <1>1, <1>2, <1>3

\* The new average lies between the old one and the time that enters it, or
\* below: the division drops the rest.
LEMMA AveragedType ==
  ASSUME NEW a \in Nat, NEW k \in Nat
  PROVE  Averaged(a, k) \in Nat
<1> DEFINE n == a * Weight + k
<1>1. n \in Nat /\ Weight + 1 \in Nat /\ Weight + 1 > 0
  BY MailboxAssumption
<1>2. \A x \in Nat, y \in Nat : y > 0 => x \div y \in Nat
  OBVIOUS
<1> QED
  BY <1>1, <1>2 DEF Averaged

\* The initial values have their types.
LEMMA InitRendezvous == Init => RendezvousTypeOK
<1> SUFFICES ASSUME Init PROVE RendezvousTypeOK
  OBVIOUS
<1> USE MailboxAssumption DEF Init
<1>1. nfgpu_running \in BOOLEAN /\ mapped \in BOOLEAN
  OBVIOUS
<1>2. /\ nfgpu_kva \in Bases \cup {0}
      /\ word \in [0 .. 3 -> 0 .. Word - 1]
      /\ gidx \in 0 .. Word - 1 /\ glen \in 0 .. Word - 1
      /\ launches \in 0 .. MaxLaunches
  OBVIOUS
<1>3. /\ tpc \in [Cpus -> {"idle", "check", "index", "len", "poll", "done", "average",
                           "packets", "return", "oops"}]
      /\ target \in [Cpus -> Bases \cup {0}]
      /\ tidx \in [Cpus -> Indexes \cup {0}]
      /\ tlen \in [Cpus -> Lens \cup {0}]
      /\ taken \in [Cpus -> 0 .. 2]
      /\ accepted \subseteq Cpus /\ disturbed \subseteq Cpus
      /\ lcpu \in LCpus
  OBVIOUS
<1>4. lpc \in {"off", "opened", "stopping", "stopped", "mapped",
               "poll", "index", "length", "launch", "clear"}
  OBVIOUS
<1> QED
  BY <1>1, <1>2, <1>3, <1>4 DEF RendezvousTypeOK

\* Every step of target, launcher and aes_test keeps the types.
LEMMA StepRendezvous == RendezvousTypeOK /\ [Next]_vars => RendezvousTypeOK'
<1> SUFFICES ASSUME RendezvousTypeOK, [Next]_vars PROVE RendezvousTypeOK'
  OBVIOUS
<1> USE MailboxAssumption DEF RendezvousTypeOK, driverVars, targetVars, aesVars, launcherVars,
        history, DropLocals, DropHistory, OtherVars
<1>1. ASSUME NEW c \in Cpus, NEW i \in Indexes, NEW n \in Lens, Enter(c, i, n)
      PROVE  RendezvousTypeOK'
  BY <1>1 DEF Enter
<1>2. ASSUME NEW c \in Cpus, PostIndex(c) PROVE RendezvousTypeOK'
  <2>0. tidx[c] \in 0 .. Word - 1
    <3>1. tidx[c] \in Indexes \cup {0}
      OBVIOUS
    <3> QED
      BY <3>1, Ranges
  <2>1. Low(tidx[c]) \in 0 .. Word - 1 /\ High(tidx[c]) \in 0 .. Word - 1
    BY <2>0, HalvesType
  <2> QED
    BY <1>2, <2>1 DEF PostIndex
<1>3. ASSUME NEW c \in Cpus, PostLen(c) PROVE RendezvousTypeOK'
  <2>0. tlen[c] \in 0 .. Word - 1
    <3>1. tlen[c] \in Lens \cup {0}
      OBVIOUS
    <3> QED
      BY <3>1, Ranges
  <2>1. Low(tlen[c]) \in 0 .. Word - 1 /\ High(tlen[c]) \in 0 .. Word - 1
    BY <2>0, HalvesType
  <2> QED
    BY <1>3, <2>1 DEF PostLen
<1>4. ASSUME NEW c \in Cpus, PollEnds(c) PROVE RendezvousTypeOK'
  BY <1>4 DEF PollEnds
<1>5. ASSUME NEW c \in Cpus, Return(c) PROVE RendezvousTypeOK'
  BY <1>5 DEF Return
<1>6. ASSUME NEW c \in Cpus, Fault(c) PROVE RendezvousTypeOK'
  BY <1>6 DEF Fault
<1>7. CASE LOpen      BY <1>7 DEF LOpen
<1>8. CASE StopUnmap  BY <1>8 DEF StopUnmap
<1>9. CASE StopClear  BY <1>9 DEF StopClear
<1>10. CASE SetBuffers BY <1>10 DEF SetBuffers
<1>11. CASE Start     BY <1>11 DEF Start
<1>12. CASE Kill      BY <1>12 DEF Kill
<1>13. CASE AesSees   BY <1>13 DEF AesSees
<1>14. CASE AesIndex  BY <1>14 DEF AesIndex
<1>15. CASE AesLength BY <1>15 DEF AesLength
<1>16. CASE AesLaunch BY <1>16 DEF AesLaunch, Waiting
<1>17. CASE AesClear  BY <1>17 DEF AesClear
<1>18. CASE UNCHANGED vars BY <1>18 DEF vars
<1>19. ASSUME NEW c \in Cpus, Fetch(c) PROVE RendezvousTypeOK'
  BY <1>19 DEF Fetch
<1>20. ASSUME NEW c \in Cpus, Skip(c) PROVE RendezvousTypeOK'
  BY <1>20 DEF Skip
<1>21. ASSUME NEW c \in Cpus, LoadAverage(c) PROVE RendezvousTypeOK'
  BY <1>21 DEF LoadAverage
<1>22. ASSUME NEW c \in Cpus, StoreAverage(c) PROVE RendezvousTypeOK'
  BY <1>22 DEF StoreAverage
<1>23. ASSUME NEW c \in Cpus, LoadPackets(c) PROVE RendezvousTypeOK'
  BY <1>23 DEF LoadPackets
<1>24. ASSUME NEW c \in Cpus, StorePackets(c) PROVE RendezvousTypeOK'
  BY <1>24 DEF StorePackets
<1>25. CASE Migrate BY <1>25 DEF Migrate
<1>26. CASE Reuse   BY <1>26 DEF Reuse
<1>27. CASE ResetAverage BY <1>27 DEF ResetAverage
<1>28. CASE ResetPackets BY <1>28 DEF ResetPackets
<1> QED
  BY <1>1, <1>2, <1>3, <1>4, <1>5, <1>6, <1>7, <1>8, <1>9, <1>10, <1>11, <1>12, <1>13, <1>14,
     <1>15, <1>16, <1>17, <1>18, <1>19, <1>20, <1>21, <1>22, <1>23, <1>24, <1>25, <1>26, <1>27,
     <1>28 DEF Next, TargetStep, AesStep, nfgpu_thread

\* Only the profiling code touches its variables.
LEMMA OthersKeepProfiling ==
  [Next]_vars =>
    \/ UNCHANGED profiling
    \/ \E c \in Cpus : LoadAverage(c) \/ StoreAverage(c) \/ LoadPackets(c) \/ StorePackets(c)
    \/ ResetAverage \/ ResetPackets
  BY DEF Next, vars, TargetStep, AesStep, nfgpu_thread, Enter, Fetch, Skip, PostIndex, PostLen,
     PollEnds, Return, Fault, LOpen, StopUnmap, StopClear, SetBuffers, Start, Kill, Migrate,
     Reuse, AesSees, AesIndex, AesLength, AesLaunch, AesClear

\* nfgpu_packets++ stays a natural number.
LEMMA CountType == ASSUME NEW n \in Nat PROVE n + 1 \in Nat
  OBVIOUS

\* The profiling counters have their types, which only the profiling code
\* could spoil.
LEMMA InitProfiling == Init => ProfilingTypeOK
  BY DEF Init, ProfilingTypeOK

LEMMA StepProfiling == ProfilingTypeOK /\ [Next]_vars => ProfilingTypeOK'
<1> SUFFICES ASSUME ProfilingTypeOK, [Next]_vars PROVE ProfilingTypeOK'
  OBVIOUS
<1> USE DEF ProfilingTypeOK, profiling
<1>1. CASE UNCHANGED profiling
  BY <1>1
<1>2. ASSUME NEW c \in Cpus, LoadAverage(c) PROVE ProfilingTypeOK'
  BY <1>2 DEF LoadAverage
<1>3. ASSUME NEW c \in Cpus, StoreAverage(c) PROVE ProfilingTypeOK'
  <2>1. PICK clocks \in Clocks : nfgpu_average' = Averaged(loaded[c], clocks)
    BY <1>3 DEF StoreAverage
  <2>2. loaded[c] \in Nat /\ clocks \in Nat
    BY MailboxAssumption
  <2>3. Averaged(loaded[c], clocks) \in Nat
    BY <2>2, AveragedType
  <2> QED
    BY <1>3, <2>1, <2>3 DEF StoreAverage
<1>4. ASSUME NEW c \in Cpus, LoadPackets(c) PROVE ProfilingTypeOK'
  BY <1>4 DEF LoadPackets
<1>5. ASSUME NEW c \in Cpus, StorePackets(c) PROVE ProfilingTypeOK'
  <2>1. loaded[c] + 1 \in Nat
    <3>1. loaded[c] \in Nat
      OBVIOUS
    <3> QED
      BY <3>1, CountType
  <2>2. nfgpu_packets' \in Nat
    BY <1>5, <2>1 DEF StorePackets
  <2>3. loaded' \in [Cpus -> Nat]
    BY <1>5 DEF StorePackets
  <2> QED
    BY <1>5, <2>2, <2>3 DEF StorePackets
<1>6. CASE ResetAverage BY <1>6 DEF ResetAverage, OtherVars
<1>7. CASE ResetPackets BY <1>7 DEF ResetPackets, OtherVars
<1> QED
  BY <1>1, <1>2, <1>3, <1>4, <1>5, <1>6, <1>7, OthersKeepProfiling

\* Every variable keeps its type: in particular no u32 word of the block ever
\* holds a value out of its range.
THEOREM TypeCorrect == Spec => []TypeOK
<1>1. Init => TypeOK
  BY InitRendezvous, InitProfiling DEF TypeOK
<1>2. TypeOK /\ [Next]_vars => TypeOK'
  BY StepRendezvous, StepProfiling DEF TypeOK
<1> QED
  BY <1>1, <1>2, PTL DEF Spec

-----------------------------------------------------------------------------
(***************************************************************************)
(* The rendezvous.                                                         *)
(***************************************************************************)

\* The packets at the mailbox are in slots of their own.
MailInv ==
  \A c \in Cpus : tpc[c] \in Mailing =>
    /\ tidx[c] \in Indexes
    /\ \A d \in Cpus \ {c} : tpc[d] \in Mailing => tidx[d] # tidx[c]

\* A packet that comes is in none of the slots that others wait in.
LEMMA StepMail == RendezvousTypeOK /\ MailInv /\ [Next]_vars => MailInv'
<1> SUFFICES ASSUME RendezvousTypeOK, MailInv, [Next]_vars PROVE MailInv'
  OBVIOUS
<1> USE DEF RendezvousTypeOK, MailInv, Mailing, driverVars, targetVars, aesVars,
        launcherVars, history, DropLocals, DropHistory, OtherVars
<1>1. ASSUME NEW c \in Cpus, NEW i \in Indexes, NEW n \in Lens, Enter(c, i, n)
      PROVE  MailInv'
  BY <1>1 DEF Enter
<1>2. ASSUME NEW c \in Cpus, Fetch(c) PROVE MailInv'
  BY <1>2 DEF Fetch
<1>3. ASSUME NEW c \in Cpus, Skip(c) PROVE MailInv'
  BY <1>3 DEF Skip
<1>4. ASSUME NEW c \in Cpus, PostIndex(c) PROVE MailInv'
  BY <1>4 DEF PostIndex
<1>5. ASSUME NEW c \in Cpus, PostLen(c) PROVE MailInv'
  BY <1>5 DEF PostLen
<1>6. ASSUME NEW c \in Cpus, PollEnds(c) PROVE MailInv'
  BY <1>6 DEF PollEnds
<1>7. ASSUME NEW c \in Cpus, Return(c) PROVE MailInv'
  BY <1>7 DEF Return
<1>8. ASSUME NEW c \in Cpus, Fault(c) PROVE MailInv'
  BY <1>8 DEF Fault
<1>9. ASSUME NEW c \in Cpus, LoadAverage(c) PROVE MailInv'
  BY <1>9 DEF LoadAverage
<1>10. ASSUME NEW c \in Cpus, StoreAverage(c) PROVE MailInv'
  BY <1>10 DEF StoreAverage
<1>11. ASSUME NEW c \in Cpus, LoadPackets(c) PROVE MailInv'
  BY <1>11 DEF LoadPackets
<1>12. ASSUME NEW c \in Cpus, StorePackets(c) PROVE MailInv'
  BY <1>12 DEF StorePackets
<1>13. CASE LOpen BY <1>13 DEF LOpen
<1>14. CASE StopUnmap BY <1>14 DEF StopUnmap
<1>15. CASE StopClear BY <1>15 DEF StopClear
<1>16. CASE SetBuffers BY <1>16 DEF SetBuffers
<1>17. CASE Start BY <1>17 DEF Start
<1>18. CASE Kill BY <1>18 DEF Kill
<1>19. CASE Migrate BY <1>19 DEF Migrate
<1>20. CASE Reuse BY <1>20 DEF Reuse
<1>21. CASE AesSees BY <1>21 DEF AesSees
<1>22. CASE AesIndex BY <1>22 DEF AesIndex
<1>23. CASE AesLength BY <1>23 DEF AesLength
<1>24. CASE AesLaunch BY <1>24 DEF AesLaunch
<1>25. CASE AesClear BY <1>25 DEF AesClear
<1>26. CASE ResetAverage BY <1>26 DEF ResetAverage
<1>27. CASE ResetPackets BY <1>27 DEF ResetPackets
<1>28. CASE UNCHANGED vars BY <1>28 DEF vars, profiling
<1> QED
  BY <1>1, <1>2, <1>3, <1>4, <1>5, <1>6, <1>7, <1>8, <1>9, <1>10, <1>11, <1>12, <1>13, <1>14,
     <1>15, <1>16, <1>17, <1>18, <1>19, <1>20, <1>21, <1>22, <1>23, <1>24, <1>25, <1>26, <1>27, <1>28
  DEF Next, TargetStep, AesStep, nfgpu_thread

\* What the target of a packet stores is the packet's slot, which is not 0.
LEMMA Posted ==
  ASSUME RendezvousTypeOK, MailInv, NEW c \in Cpus, PostIndex(c)
  PROVE  word'[0] = tidx[c] /\ tidx[c] \in Indexes /\ tidx[c] # 0
<1>1. tidx[c] \in Indexes
  BY DEF PostIndex, MailInv, Mailing
<1>2. tidx[c] \in 1 .. Word - 1
  BY <1>1, MailboxAssumption
<1>3. Low(tidx[c]) = tidx[c]
  BY <1>2, HalvesType, MailboxAssumption
<1> QED
  BY <1>1, <1>2, <1>3 DEF PostIndex, RendezvousTypeOK

\* While there is a launcher to look at the block, a packet in the block is
\* that of a target that can reach the block and waits for it; and so is the
\* packet aes_test works on, even when another one has overwritten it there.
BlockInv ==
  /\ lpc \in AesLoop \cup {"mapped"} => mapped
  /\ lpc \in AesLoop \cup {"mapped"} /\ word[0] # 0 =>
       \E c \in Waiting(word[0]) : target[c] = nfgpu_kva
  /\ lpc \in AesLoop \ {"poll"} => word[0] # 0
  /\ lpc \in {"length", "launch", "clear"} =>
       \E c \in Waiting(gidx) : target[c] = nfgpu_kva

\* A target leaves neither while the mailbox is not clear nor, by a fault, while
\* its block is mapped.
LEMMA StepBlock == RendezvousTypeOK /\ MailInv /\ BlockInv /\ [Next]_vars => BlockInv'
<1> SUFFICES ASSUME RendezvousTypeOK, MailInv, BlockInv, [Next]_vars PROVE BlockInv'
  OBVIOUS
<1> USE DEF RendezvousTypeOK, BlockInv, AesLoop, Waiting, driverVars, targetVars, aesVars,
        launcherVars, history, DropLocals, DropHistory, OtherVars
<1>1. ASSUME NEW c \in Cpus, NEW i \in Indexes, NEW n \in Lens, Enter(c, i, n)
      PROVE  BlockInv'
  BY <1>1 DEF Enter
<1>2. ASSUME NEW c \in Cpus, Fetch(c) PROVE BlockInv'
  BY <1>2 DEF Fetch
<1>3. ASSUME NEW c \in Cpus, Skip(c) PROVE BlockInv'
  BY <1>3 DEF Skip
<1>4. ASSUME NEW c \in Cpus, PostIndex(c) PROVE BlockInv'
  BY <1>4, Posted DEF PostIndex, Reachable
<1>5. ASSUME NEW c \in Cpus, PostLen(c) PROVE BlockInv'
  BY <1>5 DEF PostLen
<1>6. ASSUME NEW c \in Cpus, PollEnds(c) PROVE BlockInv'
  BY <1>6 DEF PollEnds, Reachable
<1>7. ASSUME NEW c \in Cpus, Return(c) PROVE BlockInv'
  BY <1>7 DEF Return
<1>8. ASSUME NEW c \in Cpus, Fault(c) PROVE BlockInv'
  BY <1>8 DEF Fault, Reachable
<1>9. ASSUME NEW c \in Cpus, LoadAverage(c) PROVE BlockInv'
  BY <1>9 DEF LoadAverage
<1>10. ASSUME NEW c \in Cpus, StoreAverage(c) PROVE BlockInv'
  BY <1>10 DEF StoreAverage
<1>11. ASSUME NEW c \in Cpus, LoadPackets(c) PROVE BlockInv'
  BY <1>11 DEF LoadPackets
<1>12. ASSUME NEW c \in Cpus, StorePackets(c) PROVE BlockInv'
  BY <1>12 DEF StorePackets
<1>13. CASE LOpen BY <1>13 DEF LOpen
<1>14. CASE StopUnmap BY <1>14 DEF StopUnmap
<1>15. CASE StopClear BY <1>15 DEF StopClear
<1>16. CASE SetBuffers BY <1>16 DEF SetBuffers
<1>17. CASE Start BY <1>17 DEF Start
<1>18. CASE Kill BY <1>18 DEF Kill
<1>19. CASE Migrate BY <1>19 DEF Migrate
<1>20. CASE Reuse BY <1>20 DEF Reuse
<1>21. CASE AesSees BY <1>21 DEF AesSees
<1>22. CASE AesIndex BY <1>22 DEF AesIndex
<1>23. CASE AesLength BY <1>23 DEF AesLength
<1>24. CASE AesLaunch BY <1>24 DEF AesLaunch
<1>25. CASE AesClear BY <1>25 DEF AesClear
<1>26. CASE ResetAverage BY <1>26 DEF ResetAverage
<1>27. CASE ResetPackets BY <1>27 DEF ResetPackets
<1>28. CASE UNCHANGED vars BY <1>28 DEF vars, profiling
<1> QED
  BY <1>1, <1>2, <1>3, <1>4, <1>5, <1>6, <1>7, <1>8, <1>9, <1>10, <1>11, <1>12, <1>13, <1>14,
     <1>15, <1>16, <1>17, <1>18, <1>19, <1>20, <1>21, <1>22, <1>23, <1>24, <1>25, <1>26, <1>27, <1>28
  DEF Next, TargetStep, AesStep, nfgpu_thread

\* A packet that aes_test may still read the index of was not taken before.
TakeInv ==
  \A c \in Cpus :
    /\ tpc[c] \notin {"len", "poll", "done"} => taken[c] = 0
    /\ lpc \in {"mapped", "poll", "index"} /\ tpc[c] \in {"len", "poll"} /\ tidx[c] = word[0]
         => taken[c] = 0
    /\ taken[c] <= 1

\* aes_test looks again only at a block that was cleared or is new.
LEMMA StepTake == RendezvousTypeOK /\ MailInv /\ TakeInv /\ [Next]_vars => TakeInv'
<1> SUFFICES ASSUME RendezvousTypeOK, MailInv, TakeInv, [Next]_vars PROVE TakeInv'
  OBVIOUS
<1> USE DEF RendezvousTypeOK, TakeInv, driverVars, targetVars, aesVars,
        launcherVars, history, DropLocals, DropHistory, OtherVars
<1>1. ASSUME NEW c \in Cpus, NEW i \in Indexes, NEW n \in Lens, Enter(c, i, n)
      PROVE  TakeInv'
  BY <1>1 DEF Enter
<1>2. ASSUME NEW c \in Cpus, Fetch(c) PROVE TakeInv'
  BY <1>2 DEF Fetch
<1>3. ASSUME NEW c \in Cpus, Skip(c) PROVE TakeInv'
  BY <1>3 DEF Skip
<1>4. ASSUME NEW c \in Cpus, PostIndex(c) PROVE TakeInv'
  BY <1>4, Posted DEF PostIndex, MailInv, Mailing
<1>5. ASSUME NEW c \in Cpus, PostLen(c) PROVE TakeInv'
  BY <1>5 DEF PostLen
<1>6. ASSUME NEW c \in Cpus, PollEnds(c) PROVE TakeInv'
  BY <1>6 DEF PollEnds
<1>7. ASSUME NEW c \in Cpus, Return(c) PROVE TakeInv'
  BY <1>7 DEF Return
<1>8. ASSUME NEW c \in Cpus, Fault(c) PROVE TakeInv'
  BY <1>8 DEF Fault
<1>9. ASSUME NEW c \in Cpus, LoadAverage(c) PROVE TakeInv'
  BY <1>9 DEF LoadAverage
<1>10. ASSUME NEW c \in Cpus, StoreAverage(c) PROVE TakeInv'
  BY <1>10 DEF StoreAverage
<1>11. ASSUME NEW c \in Cpus, LoadPackets(c) PROVE TakeInv'
  BY <1>11 DEF LoadPackets
<1>12. ASSUME NEW c \in Cpus, StorePackets(c) PROVE TakeInv'
  BY <1>12 DEF StorePackets
<1>13. CASE LOpen BY <1>13 DEF LOpen
<1>14. CASE StopUnmap BY <1>14 DEF StopUnmap
<1>15. CASE StopClear BY <1>15 DEF StopClear
<1>16. CASE SetBuffers
  <2>1. \A c \in Cpus : tpc[c] \in {"len", "poll"} => tidx[c] # 0
    BY MailboxAssumption DEF MailInv, Mailing
  <2> QED
    BY <1>16, <2>1 DEF SetBuffers
<1>17. CASE Start BY <1>17 DEF Start
<1>18. CASE Kill BY <1>18 DEF Kill
<1>19. CASE Migrate BY <1>19 DEF Migrate
<1>20. CASE Reuse BY <1>20 DEF Reuse
<1>21. CASE AesSees BY <1>21 DEF AesSees
<1>22. CASE AesIndex BY <1>22 DEF AesIndex, Waiting
<1>23. CASE AesLength BY <1>23 DEF AesLength
<1>24. CASE AesLaunch BY <1>24 DEF AesLaunch
<1>25. CASE AesClear
  <2>1. \A c \in Cpus : tpc[c] \in {"len", "poll"} => tidx[c] # 0
    BY MailboxAssumption DEF MailInv, Mailing
  <2> QED
    BY <1>25, <2>1 DEF AesClear
<1>26. CASE ResetAverage BY <1>26 DEF ResetAverage
<1>27. CASE ResetPackets BY <1>27 DEF ResetPackets
<1>28. CASE UNCHANGED vars BY <1>28 DEF vars, profiling
<1> QED
  BY <1>1, <1>2, <1>3, <1>4, <1>5, <1>6, <1>7, <1>8, <1>9, <1>10, <1>11, <1>12, <1>13, <1>14,
     <1>15, <1>16, <1>17, <1>18, <1>19, <1>20, <1>21, <1>22, <1>23, <1>24, <1>25, <1>26, <1>27, <1>28
  DEF Next, TargetStep, AesStep, nfgpu_thread

\* A target that is alone, with a launcher that lives: its packet is the one in
\* the block, from the post to the clear, and aes_test takes it in between.
SoloInv ==
  \A c \in Cpus \ disturbed :
    /\ tpc[c] \in Mailing =>
         /\ \A d \in Cpus \ {c} : tpc[d] \notin Mailing
         /\ lpc \in AesLoop
    /\ tpc[c] \in {"check", "index"} => word[0] = 0
    /\ tpc[c] \in {"len", "poll"} =>
         /\ word[0] \in {0, tidx[c]}
         /\ word[0] = 0 \/ lpc \in {"length", "launch", "clear"} => taken[c] = 1
    /\ tpc[c] = "done" => taken[c] = 1

\* Nobody but the target and aes_test touch the block, in turns.
LEMMA StepSolo ==
  RendezvousTypeOK /\ MailInv /\ BlockInv /\ TakeInv /\ SoloInv /\ [Next]_vars => SoloInv'
<1> SUFFICES ASSUME RendezvousTypeOK, MailInv, BlockInv, TakeInv, SoloInv, [Next]_vars
             PROVE  SoloInv'
  OBVIOUS
<1> USE DEF RendezvousTypeOK, SoloInv, AesLoop, Mailing, driverVars, targetVars, aesVars,
        launcherVars, history, DropLocals, DropHistory, OtherVars
<1>1. ASSUME NEW c \in Cpus, NEW i \in Indexes, NEW n \in Lens, Enter(c, i, n)
      PROVE  SoloInv'
  BY <1>1 DEF Enter, BlockInv, Waiting
<1>2. ASSUME NEW c \in Cpus, Fetch(c) PROVE SoloInv'
  BY <1>2 DEF Fetch
<1>3. ASSUME NEW c \in Cpus, Skip(c) PROVE SoloInv'
  BY <1>3 DEF Skip
<1>4. ASSUME NEW c \in Cpus, PostIndex(c) PROVE SoloInv'
  <2>1. word'[0] = tidx[c] /\ tidx[c] # 0
    BY <1>4, Posted
  <2>2. c \notin disturbed => lpc = "poll"
    BY <1>4 DEF PostIndex, BlockInv
  <2>3. \A d \in Cpus \ disturbed : d # c => tpc[d] \notin Mailing
    BY <1>4 DEF PostIndex
  <2> QED
    BY <1>4, <2>1, <2>2, <2>3 DEF PostIndex
<1>5. ASSUME NEW c \in Cpus, PostLen(c) PROVE SoloInv'
  BY <1>5 DEF PostLen
<1>6. ASSUME NEW c \in Cpus, PollEnds(c) PROVE SoloInv'
  BY <1>6 DEF PollEnds
<1>7. ASSUME NEW c \in Cpus, Return(c) PROVE SoloInv'
  BY <1>7 DEF Return
<1>8. ASSUME NEW c \in Cpus, Fault(c) PROVE SoloInv'
  BY <1>8 DEF Fault
<1>9. ASSUME NEW c \in Cpus, LoadAverage(c) PROVE SoloInv'
  BY <1>9 DEF LoadAverage
<1>10. ASSUME NEW c \in Cpus, StoreAverage(c) PROVE SoloInv'
  BY <1>10 DEF StoreAverage
<1>11. ASSUME NEW c \in Cpus, LoadPackets(c) PROVE SoloInv'
  BY <1>11 DEF LoadPackets
<1>12. ASSUME NEW c \in Cpus, StorePackets(c) PROVE SoloInv'
  BY <1>12 DEF StorePackets
<1>13. CASE LOpen BY <1>13 DEF LOpen
<1>14. CASE StopUnmap BY <1>14 DEF StopUnmap
<1>15. CASE StopClear BY <1>15 DEF StopClear
<1>16. CASE SetBuffers BY <1>16 DEF SetBuffers
<1>17. CASE Start BY <1>17 DEF Start
<1>18. CASE Kill BY <1>18 DEF Kill
<1>19. CASE Migrate BY <1>19 DEF Migrate
<1>20. CASE Reuse BY <1>20 DEF Reuse
<1>21. CASE AesSees BY <1>21 DEF AesSees
<1>22. CASE AesIndex BY <1>22 DEF AesIndex, BlockInv, TakeInv, Waiting
<1>23. CASE AesLength BY <1>23 DEF AesLength
<1>24. CASE AesLaunch BY <1>24 DEF AesLaunch
<1>25. CASE AesClear BY <1>25 DEF AesClear, BlockInv
<1>26. CASE ResetAverage BY <1>26 DEF ResetAverage
<1>27. CASE ResetPackets BY <1>27 DEF ResetPackets
<1>28. CASE UNCHANGED vars BY <1>28 DEF vars, profiling
<1> QED
  BY <1>1, <1>2, <1>3, <1>4, <1>5, <1>6, <1>7, <1>8, <1>9, <1>10, <1>11, <1>12, <1>13, <1>14,
     <1>15, <1>16, <1>17, <1>18, <1>19, <1>20, <1>21, <1>22, <1>23, <1>24, <1>25, <1>26, <1>27, <1>28
  DEF Next, TargetStep, AesStep, nfgpu_thread

\* Nobody waits before there is a block.
LEMMA InitMailbox == Init => MailInv /\ BlockInv /\ TakeInv /\ SoloInv
  BY DEF Init, MailInv, BlockInv, TakeInv, SoloInv, Mailing, AesLoop

\* What the rendezvous rests on, over any number of CPUs and launches.
MailboxInv == RendezvousTypeOK /\ MailInv /\ BlockInv /\ TakeInv /\ SoloInv

LEMMA MailboxCorrect == Spec => []MailboxInv
<1>1. Init => MailboxInv
  BY InitRendezvous, InitMailbox DEF MailboxInv
<1>2. MailboxInv /\ [Next]_vars => MailboxInv'
  BY StepRendezvous, StepMail, StepBlock, StepTake, StepSolo DEF MailboxInv
<1> QED
  BY <1>1, <1>2, PTL DEF Spec

\* From the reading of the index to the clear, aes_test works on the slot of a
\* packet whose target waits, on any number of CPUs, whoever dies, whatever is
\* then stored in the pages, and however often a launcher starts again.
THEOREM AesOnlyTakesWaiting == Spec => []AesTakesWaiting
<1>1. MailboxInv => AesTakesWaiting
  BY DEF MailboxInv, BlockInv, AesTakesWaiting
<1> QED
  BY <1>1, MailboxCorrect, PTL

\* aes_test takes no packet twice, though targets of several CPUs overwrite each
\* other's; and a target that was alone, with a launcher that lived, stops
\* polling only when its packet was taken.
THEOREM TakenOnce == Spec => []ServedOnce
<1>1. MailboxInv => ServedOnce
  BY DEF MailboxInv, TakeInv, SoloInv, ServedOnce
<1> QED
  BY <1>1, MailboxCorrect, PTL

-----------------------------------------------------------------------------
(***************************************************************************)
(* The profiling counters, any number of CPUs and launches.                *)
(***************************************************************************)

\* The weighted mean of two values is not above a bound of both.
LEMMA AveragedBound ==
  ASSUME NEW average \in Nat, NEW clocks \in Nat, NEW d \in Nat,
         average <= d, clocks <= d
  PROVE  Averaged(average, clocks) <= d
<1> DEFINE W == Weight
           n == average * W + clocks
<1>1. W \in Nat
  BY MailboxAssumption
<1>2. average * W <= d * W
  <2> HIDE DEF W
  <2> QED BY <1>1
<1>3. average * W \in Nat /\ d * W \in Nat
  <2> HIDE DEF W
  <2> QED BY <1>1
<1>4. n \in Nat /\ n <= d * W + d
  BY <1>2, <1>3
<1>5. d * W + d = d * (W + 1)
  <2> HIDE DEF W
  <2> QED BY <1>1
<1>6. ASSUME NEW a \in Nat, NEW m \in Nat \ {0}, a <= d * m
      PROVE  a \div m <= d
  BY <1>6
<1>7. W + 1 \in Nat \ {0}
  <2> HIDE DEF W
  <2> QED BY <1>1
<1>8. n <= d * (W + 1)
  BY <1>4, <1>5
<1>9. n \div (W + 1) <= d
  <2> HIDE DEF n, W
  <2> QED BY <1>4, <1>6, <1>7, <1>8
<1> QED
  BY <1>9 DEF Averaged

\* Two bounds out of Clocks and 0 have a common one.
LEMMA CommonBound ==
  ASSUME NEW a \in Nat, NEW b \in Nat,
         \E d \in Clocks \cup {0} : a <= d,
         \E d \in Clocks \cup {0} : b <= d
  PROVE  \E d \in Clocks \cup {0} : a <= d /\ b <= d
<1>1. PICK d \in Clocks \cup {0} : a <= d
  OBVIOUS
<1>2. PICK e \in Clocks \cup {0} : b <= e
  OBVIOUS
<1>3. d \in Nat /\ e \in Nat
  BY MailboxAssumption
<1> QED
  BY <1>1, <1>2, <1>3

\* Only LoadAverage brings a target to the point where it averages.
LEMMA AverageEntered ==
  ASSUME RendezvousTypeOK, [Next]_vars
  PROVE  \A c \in Cpus : tpc'[c] = "average" => tpc[c] = "average" \/ LoadAverage(c)
<1> DEFINE Entered == \A c \in Cpus : tpc'[c] = "average" => tpc[c] = "average" \/ LoadAverage(c)
<1>0. tpc \in [Cpus -> {"idle", "check", "index", "len", "poll", "done", "average",
                        "packets", "return", "oops"}]
  BY DEF RendezvousTypeOK
<1>1. CASE UNCHANGED tpc
  BY <1>1
<1>2. ASSUME NEW c \in Cpus, NEW i \in Indexes, NEW n \in Lens, Enter(c, i, n) PROVE Entered
  BY <1>0, <1>2 DEF Enter
<1>3. ASSUME NEW c \in Cpus, Fetch(c) \/ Skip(c) \/ PostIndex(c) \/ PostLen(c) PROVE Entered
  BY <1>0, <1>3 DEF Fetch, Skip, PostIndex, PostLen
<1>4. ASSUME NEW c \in Cpus, PollEnds(c) \/ Return(c) \/ Fault(c) PROVE Entered
  BY <1>0, <1>4 DEF PollEnds, Return, Fault
<1>5. ASSUME NEW c \in Cpus, LoadAverage(c) PROVE Entered
  BY <1>0, <1>5 DEF LoadAverage
<1>6. ASSUME NEW c \in Cpus, StoreAverage(c) \/ LoadPackets(c) \/ StorePackets(c) PROVE Entered
  BY <1>0, <1>6 DEF StoreAverage, LoadPackets, StorePackets
<1>7. CASE LOpen \/ StopUnmap \/ StopClear \/ SetBuffers \/ Start \/ Kill \/ Migrate \/ Reuse
  <2> UNCHANGED tpc
    BY <1>7 DEF LOpen, StopUnmap, StopClear, SetBuffers, Start, Kill, Migrate, Reuse, targetVars
  <2> QED BY <1>1
<1>8. CASE AesStep
  <2> UNCHANGED tpc
    BY <1>8 DEF AesStep, AesSees, AesIndex, AesLength, AesLaunch, AesClear, targetVars
  <2> QED BY <1>1
<1>9. CASE nfgpu_thread
  <2> UNCHANGED tpc
    BY <1>9 DEF nfgpu_thread, ResetAverage, ResetPackets, OtherVars, targetVars
  <2> QED BY <1>1
<1>10. CASE UNCHANGED vars
  <2> UNCHANGED tpc
    BY <1>10 DEF vars, targetVars
  <2> QED BY <1>1
<1> QED
  BY <1>2, <1>3, <1>4, <1>5, <1>6, <1>7, <1>8, <1>9, <1>10 DEF Next, TargetStep

\* Whatever CPUs and the thread overwrite of each other's values, each value
\* they store is bounded by a time some target took.
LEMMA StepAverage ==
  ProfilingTypeOK /\ RendezvousTypeOK /\ AverageBelowLongest /\ [Next]_vars
    => AverageBelowLongest'
<1> SUFFICES ASSUME ProfilingTypeOK, RendezvousTypeOK, AverageBelowLongest, [Next]_vars
             PROVE  AverageBelowLongest'
  OBVIOUS
<1> DEFINE Below(n) == \E d \in Clocks \cup {0} : n <= d
           AtAverage(c) == tpc[c] = "average"
<1>0. /\ Below(nfgpu_average)
      /\ \A c \in Cpus : AtAverage(c) => Below(loaded[c])
  BY DEF AverageBelowLongest
<1>1. SUFFICES /\ Below(nfgpu_average')
               /\ \A c \in Cpus : AtAverage(c)' => Below(loaded'[c])
  BY <1>1, StepProfiling, CommonBound DEF AverageBelowLongest, ProfilingTypeOK
<1> HIDE DEF Below
<1>2. Below(0)
  BY DEF Below
<1>3. \A c \in Cpus : AtAverage(c)' => AtAverage(c) \/ LoadAverage(c)
  BY AverageEntered
<1>4. CASE UNCHANGED profiling
  <2>1. \A c \in Cpus : LoadAverage(c) => loaded'[c] = nfgpu_average
    BY DEF LoadAverage, ProfilingTypeOK
  <2> QED
    BY <1>0, <1>3, <1>4, <2>1 DEF profiling
<1>5. ASSUME NEW c \in Cpus, LoadAverage(c)
      PROVE  /\ Below(nfgpu_average')
             /\ \A e \in Cpus : AtAverage(e)' => Below(loaded'[e])
  BY <1>0, <1>5 DEF LoadAverage, RendezvousTypeOK, ProfilingTypeOK
<1>6. ASSUME NEW c \in Cpus, StoreAverage(c)
      PROVE  /\ Below(nfgpu_average')
             /\ \A e \in Cpus : AtAverage(e)' => Below(loaded'[e])
  <2>1. PICK clocks \in Clocks : nfgpu_average' = Averaged(loaded[c], clocks)
    BY <1>6 DEF StoreAverage
  <2>2. loaded[c] \in Nat /\ clocks \in Nat
    BY MailboxAssumption DEF ProfilingTypeOK
  <2>3. Below(loaded[c]) /\ Below(clocks)
    <3>1. Below(clocks)
      BY <2>2 DEF Below
    <3> QED
      BY <1>0, <1>6, <3>1 DEF StoreAverage
  <2>4. PICK d \in Clocks \cup {0} : loaded[c] <= d /\ clocks <= d
    BY <2>2, <2>3, CommonBound DEF Below
  <2>5. Below(nfgpu_average')
    <3>1. d \in Nat
      BY MailboxAssumption
    <3>2. Averaged(loaded[c], clocks) <= d
      BY <2>2, <2>4, <3>1, AveragedBound
    <3> QED
      BY <2>1, <3>2 DEF Below
  <2>6. \A e \in Cpus \ {c} : loaded'[e] = loaded[e]
    BY <1>6 DEF StoreAverage, ProfilingTypeOK
  <2>7. \A e \in Cpus : AtAverage(e)' => AtAverage(e) /\ e # c
    BY <1>6 DEF StoreAverage, RendezvousTypeOK
  <2> QED
    BY <1>0, <2>5, <2>6, <2>7
<1>7. ASSUME NEW c \in Cpus, LoadPackets(c) \/ StorePackets(c)
      PROVE  /\ Below(nfgpu_average')
             /\ \A e \in Cpus : AtAverage(e)' => Below(loaded'[e])
  <2>1. UNCHANGED nfgpu_average
    BY <1>7 DEF LoadPackets, StorePackets
  <2>2. \A e \in Cpus : AtAverage(e)' => AtAverage(e) /\ loaded'[e] = loaded[e]
    BY <1>7 DEF LoadPackets, StorePackets, RendezvousTypeOK, ProfilingTypeOK
  <2> QED
    BY <1>0, <2>1, <2>2
<1>8. CASE ResetAverage \/ ResetPackets
  <2>1. UNCHANGED <<tpc, loaded>>
    BY <1>8 DEF ResetAverage, ResetPackets, OtherVars, targetVars
  <2>2. nfgpu_average' \in {nfgpu_average, 0}
    BY <1>8 DEF ResetAverage, ResetPackets
  <2> QED
    BY <1>0, <1>2, <2>1, <2>2
<1> QED
  BY <1>4, <1>5, <1>6, <1>7, <1>8, OthersKeepProfiling

\* The average never exceeds the longest time a target
\* took, on any number of CPUs without the lock.
THEOREM AverageBounded == Spec => []AverageBelowLongest
<1>1. Init => AverageBelowLongest
  BY DEF Init, AverageBelowLongest
<1> QED
  BY <1>1, InitRendezvous, StepRendezvous, InitProfiling, StepProfiling, StepAverage, PTL
  DEF Spec

=============================================================================
