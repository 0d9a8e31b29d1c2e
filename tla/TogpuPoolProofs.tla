--------------------------- MODULE TogpuPoolProofs ---------------------------
(***************************************************************************)
(* Proofs about TogpuPool, for any number of CPUs, SKBs, slots and         *)
(* mappings.  Three layers, each resting on the one before:                *)
(*   TypeOK and the launcher's invariant hold whatever fails;              *)
(*   with one allocating CPU, disjoint mappings and no vmap() failure no   *)
(*   two SKBs share a buffer;                                              *)
(*   if moreover vmap() always returns the same, naturally aligned address *)
(*   every SKB is released with its own buffer and the pool implements     *)
(*   SlotLending.                                                          *)
(* Violated runs of TogpuPool show what happens without the first and the  *)
(* last of these conditions.                                               *)
(***************************************************************************)
EXTENDS TogpuPool, TLAPS

-----------------------------------------------------------------------------
(***************************************************************************)
(* Types.                                                                  *)
(***************************************************************************)

\* Slots are numbers, and slot 0 is one.
LEMMA SlotsNat == Slots \subseteq Nat /\ 0 \in Slots
  BY PoolAssumption DEF Slots

\* The initial values have their types.
LEMMA InitType == Init => TypeOK
<1> SUFFICES ASSUME Init PROVE TypeOK
  OBVIOUS
<1> USE PoolAssumption, SlotsNat DEF Init
<1>0. nfgpu_running \in BOOLEAN
  OBVIOUS
<1>1. /\ nfgpu_kva \in VmapBases \cup {0}
      /\ nfgpu_skbs \in [Slots -> Skbs \cup {0}]
      /\ nfgpu_next \in Nat \ {0}
      /\ mapped \subseteq VmapBases
      /\ head \in [Skbs -> Nat]
  OBVIOUS
<1>2. /\ apc \in [Cpus -> {"idle", "scan", "wrap", "take", "sethead", "oops"}]
      /\ askb \in [Cpus -> Skbs \cup {0}]
      /\ aidx \in [Cpus -> Nat]
  OBVIOUS
<1>3. /\ rpc \in [Cpus -> {"idle", "lookup", "restore", "free", "native", "oops"}]
      /\ rskb \in [Cpus -> Skbs \cup {0}]
      /\ ridx \in [Cpus -> Slots]
      /\ rnew \in [Cpus -> Skbs \cup {0}]
      /\ lpc \in {"off", "opened", "stopping", "stopped", "failed", "mapped", "started"}
  OBVIOUS
<1> QED
  BY <1>0, <1>1, <1>2, <1>3 DEF TypeOK

\* Every step of the hooks and of the launcher keeps the types.
LEMMA StepType == TypeOK /\ [Next]_vars => TypeOK'
<1> SUFFICES ASSUME TypeOK, [Next]_vars PROVE TypeOK'
  OBVIOUS
<1> USE PoolAssumption, SlotsNat DEF TypeOK
<1>1. ASSUME NEW c \in Allocators, NEW s \in Skbs, AllocNative(c, s) PROVE TypeOK'
  BY <1>1 DEF AllocNative, relVars, driverVars
<1>2. ASSUME NEW c \in Allocators, AllocNull(c) PROVE TypeOK'
  BY <1>2 DEF AllocNull, poolVars, relVars, driverVars
<1>3. ASSUME NEW c \in Allocators, ScanFree(c) PROVE TypeOK'
  BY <1>3 DEF ScanFree, poolVars, relVars, driverVars
<1>4. ASSUME NEW c \in Allocators, ScanBusy(c) PROVE TypeOK'
  BY <1>4 DEF ScanBusy, relVars, driverVars
<1>5. ASSUME NEW c \in Allocators, ScanWrap(c) PROVE TypeOK'
  BY <1>5 DEF ScanWrap, relVars, driverVars
<1>6. ASSUME NEW c \in Allocators, TakeSlot(c) PROVE TypeOK'
  BY <1>6 DEF TakeSlot, relVars, driverVars
<1>7. ASSUME NEW c \in Allocators, SetHead(c) PROVE TypeOK'
  <2>1. PICK i \in NextCopies(c) : head' = [head EXCEPT ![askb[c]] = nfgpu_kva + i]
    BY <1>7 DEF SetHead
  <2>2. nfgpu_kva + i \in Nat
    BY <2>1 DEF NextCopies
  <2>3. head' \in [Skbs -> Nat]
    BY <2>1, <2>2
  <2> QED
    BY <1>7, <2>3 DEF SetHead, relVars, driverVars
<1>8. ASSUME NEW c \in Cpus, NEW s \in Skbs, RelBegin(c, s) PROVE TypeOK'
  BY <1>8 DEF RelBegin, Recognised, poolVars, allocVars, driverVars
<1>14. ASSUME NEW c \in Cpus, RelLookup(c) PROVE TypeOK'
  BY <1>14 DEF RelLookup, poolVars, allocVars, driverVars
<1>9. ASSUME NEW c \in Cpus, RelRestore(c) PROVE TypeOK'
  BY <1>9 DEF RelRestore, allocVars, driverVars
<1>10. ASSUME NEW c \in Cpus, RelFree(c) PROVE TypeOK'
  BY <1>10 DEF RelFree, allocVars, driverVars
<1>11. ASSUME NEW c \in Cpus, RelNative(c) PROVE TypeOK'
  BY <1>11 DEF RelNative, allocVars, driverVars
<1>12. CASE Launcher
  <2> USE DEF hookVars, poolVars, allocVars, relVars
  <2>1. CASE LOpen      BY <2>1 DEF LOpen
  <2>2. CASE StopUnmap  BY <2>2 DEF StopUnmap
  <2>3. CASE StopClear  BY <2>3 DEF StopClear
  <2>4. CASE SetBuffers BY <2>4 DEF SetBuffers
  <2>5. CASE SetBuffersFail BY <2>5 DEF SetBuffersFail
  <2>6. CASE Start      BY <2>6 DEF Start
  <2>7. CASE Kill       BY <2>7 DEF Kill
  <2>8. CASE FailClear  BY <2>8 DEF FailClear
  <2> QED BY <1>12, <2>1, <2>2, <2>3, <2>4, <2>5, <2>6, <2>7, <2>8 DEF Launcher
<1>13. CASE UNCHANGED vars
  BY <1>13 DEF vars, poolVars, allocVars, relVars, driverVars
<1> QED
  BY <1>1, <1>2, <1>3, <1>4, <1>5, <1>6, <1>7, <1>8, <1>9, <1>10, <1>11,
     <1>12, <1>13, <1>14 DEF Next, AllocStep, RelStep

\* Every variable keeps its type, over every interleaving of the two hooks and
\* the ioctls: in particular the index with which skb_release_data_togpu reads
\* and frees a slot is inside nfgpu_skbs.
THEOREM TypeCorrect == Spec => []TypeOK
  BY InitType, StepType, PTL DEF Spec

-----------------------------------------------------------------------------
(***************************************************************************)
(* The launcher.                                                           *)
(***************************************************************************)

\* RunningOnlyWhenMapped needs the phases of main(): nothing runs between its
\* STOP and its START, and what SET_BUFFERS mapped is there until a STOP.
LauncherInv ==
  /\ RunningOnlyWhenMapped
  /\ lpc \in {"stopped", "failed", "mapped"} => ~nfgpu_running
  /\ lpc = "mapped" => nfgpu_kva \in mapped

\* The launcher maps before it starts and unmaps what runs.
LEMMA StepLauncher == TypeOK /\ LauncherInv /\ [Next]_vars => LauncherInv'
<1> SUFFICES ASSUME TypeOK, LauncherInv, [Next]_vars PROVE LauncherInv'
  OBVIOUS
<1> USE DEF LauncherInv, RunningOnlyWhenMapped
<1>1. CASE UNCHANGED driverVars
  BY <1>1 DEF driverVars
<1>2. CASE Launcher
  <2>1. CASE LOpen      BY <2>1 DEF LOpen
  <2>2. CASE StopUnmap  BY <2>2 DEF StopUnmap
  <2>3. CASE StopClear  BY <2>3 DEF StopClear
  <2>4. CASE SetBuffers BY <2>4 DEF SetBuffers
  <2>5. CASE SetBuffersFail BY <2>5 DEF SetBuffersFail
  <2>6. CASE Start      BY <2>6 DEF Start
  <2>7. CASE Kill       BY <2>7 DEF Kill
  <2>8. CASE FailClear  BY <2>8 DEF FailClear
  <2> QED BY <1>2, <2>1, <2>2, <2>3, <2>4, <2>5, <2>6, <2>7, <2>8 DEF Launcher
<1>3. \A c \in Allocators :
        (\E s \in Skbs : AllocNative(c, s)) \/ AllocNull(c) \/ AllocStep(c)
          => UNCHANGED driverVars
  BY DEF AllocNative, AllocNull, AllocStep, ScanFree, ScanBusy, ScanWrap,
         TakeSlot, SetHead
<1>4. \A c \in Cpus :
        (\E s \in Skbs : RelBegin(c, s)) \/ RelStep(c) => UNCHANGED driverVars
  BY DEF RelBegin, RelStep, RelLookup, RelRestore, RelFree, RelNative
<1>5. UNCHANGED vars => UNCHANGED driverVars
  BY DEF vars
<1> QED
  BY <1>1, <1>2, <1>3, <1>4, <1>5 DEF Next

\* The hooks never hand out addresses of an unmapped block, and STOP never
\* unmaps a block twice: whatever fails, and however often launchers are
\* killed and started again.
THEOREM MappedWhileRunning == Spec => []RunningOnlyWhenMapped
<1>1. Init => LauncherInv
  BY DEF Init, LauncherInv, RunningOnlyWhenMapped
<1>2. LauncherInv => RunningOnlyWhenMapped
  BY DEF LauncherInv
<1> QED
  BY <1>1, <1>2, InitType, StepType, StepLauncher, PTL DEF Spec

-----------------------------------------------------------------------------
(***************************************************************************)
(* One allocating CPU, disjoint mappings, no failure of vmap().            *)
(***************************************************************************)
SingleAllocator == \A c, d \in Allocators : c = d

DisjointBases == \A b, d \in VmapBases : b # d => b - d \notin Slots

Active == {"scan", "wrap", "take", "sethead"}

\* A hook is only inside the pool when there is one, and no vmap() failed.
KvaInv ==
  /\ lpc # "failed"
  /\ nfgpu_running \/ lpc = "mapped" => nfgpu_kva # 0
  /\ \A c \in Cpus : apc[c] \in Active => nfgpu_kva # 0
  /\ \A i \in Slots : nfgpu_skbs[i] # 0 => nfgpu_kva # 0

\* nfgpu_next names a slot other than 0, except between increment and wrap.
NextInv ==
  /\ nfgpu_next <= NFGPU_MAX_SKBS
  /\ (\A c \in Cpus : apc[c] # "wrap") => nfgpu_next < NFGPU_MAX_SKBS

\* The slot an allocation found is free until it takes it, then its own.
AllocInv ==
  \A c \in Cpus :
    /\ apc[c] # "idle" => c \in Allocators
    /\ apc[c] \in Active => askb[c] \in Skbs /\ head[askb[c]] = askb[c]
    /\ apc[c] \in {"wrap", "take", "sethead"} => aidx[c] = nfgpu_next
    /\ apc[c] = "take" => nfgpu_skbs[aidx[c]] = 0
    /\ apc[c] = "sethead" => nfgpu_skbs[aidx[c]] = askb[c]

\* The slot a release looked up is its SKB's until the release frees it.
RelInv ==
  \A c \in Cpus :
    /\ rpc[c] # "idle" => rskb[c] \in Skbs /\ head[rskb[c]] # 0
    /\ rpc[c] = "restore" => rnew[c] = rskb[c]
    /\ rpc[c] \in {"lookup", "restore", "free"} =>
         ridx[c] # 0 /\ nfgpu_skbs[ridx[c]] = rskb[c]
    /\ rpc[c] = "free" => head[rskb[c]] = rskb[c]

\* No SKB is in two hooks.
ExclusiveInv ==
  \A c, d \in Cpus :
    /\ rpc[c] # "idle" /\ rpc[d] # "idle" /\ rskb[c] = rskb[d] => c = d
    /\ apc[c] \in Active /\ rpc[d] # "idle" => askb[c] # rskb[d]

\* An SKB has its native buffer, or a slot that the table says is its own.
HeadInv ==
  \A s \in Skbs :
    \/ head[s] \in {0, s}
    \/ \E b \in VmapBases, i \in Slots \ {0} : head[s] = b + i /\ nfgpu_skbs[i] = s

SlotZeroInv == nfgpu_skbs[0] = 0

PoolInv ==
  /\ TypeOK /\ KvaInv /\ NextInv /\ AllocInv /\ RelInv /\ ExclusiveInv
  /\ HeadInv /\ SlotZeroInv

\* No native buffer lies in a mapped block.
LEMMA NativeOutsidePool ==
  \A s \in Skbs, b \in VmapBases, i \in Slots : s # b + i
<1> SUFFICES ASSUME NEW s \in Skbs, NEW b \in VmapBases, NEW i \in Slots, s = b + i
            PROVE FALSE
  OBVIOUS
<1>1. s - b = i
  BY PoolAssumption, SlotsNat
<1> QED
  BY <1>1, PoolAssumption

\* An address in a block determines the block and the slot.
LEMMA AddressUnique ==
  ASSUME DisjointBases
  PROVE  \A b, d \in VmapBases, i, j \in Slots : b + i = d + j => b = d /\ i = j
<1> SUFFICES ASSUME NEW b \in VmapBases, NEW d \in VmapBases,
                    NEW i \in Slots, NEW j \in Slots, b + i = d + j
            PROVE b = d /\ i = j
  OBVIOUS
<1>1. b \in Nat /\ d \in Nat
  BY PoolAssumption
<1>2. b - d = j - i /\ d - b = i - j
  BY <1>1, SlotsNat
<1>3. j - i \in Slots \/ i - j \in Slots
  BY PoolAssumption DEF Slots
<1>4. b = d
  BY <1>2, <1>3 DEF DisjointBases
<1> QED
  BY <1>1, <1>4, SlotsNat

\* Before the first launch no slot is lent.
LEMMA InitPool == Init => PoolInv
<1> SUFFICES ASSUME Init PROVE PoolInv
  OBVIOUS
<1> USE PoolAssumption, SlotsNat DEF Init
<1>1. TypeOK      BY InitType
<1>2. KvaInv      BY DEF KvaInv, Active
<1>3. NextInv     BY DEF NextInv
<1>4. AllocInv    BY DEF AllocInv, Active
<1>5. RelInv      BY DEF RelInv
<1>6. ExclusiveInv BY DEF ExclusiveInv, Active
<1>7. HeadInv     BY DEF HeadInv
<1>8. SlotZeroInv BY DEF SlotZeroInv
<1> QED
  BY <1>1, <1>2, <1>3, <1>4, <1>5, <1>6, <1>7, <1>8 DEF PoolInv

\* Only the one allocator moves nfgpu_next, so outside its wrap step the
\* index is in range.
LEMMA NextInRange ==
  ASSUME SingleAllocator, PoolInv, NEW c \in Cpus, apc[c] \in {"scan", "take", "sethead"}
  PROVE  nfgpu_next \in Slots \ {0}
<1>1. \A d \in Cpus : apc[d] # "wrap"
  BY DEF PoolInv, AllocInv, SingleAllocator
<1>2. nfgpu_next < NFGPU_MAX_SKBS
  BY <1>1 DEF PoolInv, NextInv
<1> QED
  BY <1>2, PoolAssumption DEF PoolInv, TypeOK, Slots

\* Every step of the hooks and of the launcher keeps table and heads together.
LEMMA StepPool ==
  ASSUME SingleAllocator, DisjointBases, VmapMayFail = FALSE
  PROVE  PoolInv /\ [Next]_vars => PoolInv'
<1> SUFFICES ASSUME PoolInv, [Next]_vars PROVE PoolInv'
  OBVIOUS
<1>0. TypeOK'
  BY StepType DEF PoolInv
<1> USE PoolAssumption, SlotsNat DEF PoolInv, TypeOK
<1>1. ASSUME NEW c \in Allocators, NEW s \in Skbs, AllocNative(c, s) PROVE PoolInv'
  <2> USE <1>1 DEF AllocNative, relVars, driverVars
  <2>1. KvaInv' BY DEF KvaInv, Active
  <2>2. NextInv' BY DEF NextInv, AllocInv, Active, SingleAllocator
  <2>3. AllocInv' BY DEF AllocInv, Active, NextInv, SingleAllocator
  <2>4. RelInv' BY NativeOutsidePool, AddressUnique DEF RelInv, AllocInv, HeadInv, ExclusiveInv, Active
  <2>5. ExclusiveInv' BY DEF ExclusiveInv, Active, AllocInv, RelInv
  <2>6. HeadInv' BY NativeOutsidePool, AddressUnique DEF HeadInv, AllocInv, RelInv, ExclusiveInv, NextInv, KvaInv, Active
  <2>7. SlotZeroInv' BY DEF SlotZeroInv, AllocInv, NextInv, RelInv
  <2> QED BY <1>0, <2>1, <2>2, <2>3, <2>4, <2>5, <2>6, <2>7
<1>2. ASSUME NEW c \in Allocators, AllocNull(c) PROVE PoolInv'
  <2> USE <1>2 DEF AllocNull, poolVars, relVars, driverVars
  <2>1. KvaInv' BY DEF KvaInv, Active
  <2>2. NextInv' BY DEF NextInv, AllocInv, Active, SingleAllocator
  <2>3. AllocInv' BY DEF AllocInv, Active, NextInv, SingleAllocator
  <2>4. RelInv' BY NativeOutsidePool, AddressUnique DEF RelInv, AllocInv, HeadInv, ExclusiveInv, Active
  <2>5. ExclusiveInv' BY DEF ExclusiveInv, Active, AllocInv, RelInv
  <2>6. HeadInv' BY NativeOutsidePool, AddressUnique DEF HeadInv, AllocInv, RelInv, ExclusiveInv, NextInv, KvaInv, Active
  <2>7. SlotZeroInv' BY DEF SlotZeroInv, AllocInv, NextInv, RelInv
  <2> QED BY <1>0, <2>1, <2>2, <2>3, <2>4, <2>5, <2>6, <2>7
<1>3. ASSUME NEW c \in Allocators, ScanFree(c) PROVE PoolInv'
  <2> USE <1>3 DEF ScanFree, poolVars, relVars, driverVars
  <2>1. KvaInv' BY DEF KvaInv, Active
  <2>2. NextInv' BY DEF NextInv, AllocInv, Active, SingleAllocator
  <2>3. AllocInv'
    <3>1. nfgpu_next \in Slots
      BY NextInRange
    <3> QED
      BY <3>1 DEF AllocInv, Active, SingleAllocator
  <2>4. RelInv' BY NativeOutsidePool, AddressUnique DEF RelInv, AllocInv, HeadInv, ExclusiveInv, Active
  <2>5. ExclusiveInv' BY DEF ExclusiveInv, Active, AllocInv, RelInv
  <2>6. HeadInv' BY NativeOutsidePool, AddressUnique DEF HeadInv, AllocInv, RelInv, ExclusiveInv, NextInv, KvaInv, Active
  <2>7. SlotZeroInv' BY DEF SlotZeroInv, AllocInv, NextInv, RelInv
  <2> QED BY <1>0, <2>1, <2>2, <2>3, <2>4, <2>5, <2>6, <2>7
<1>4. ASSUME NEW c \in Allocators, ScanBusy(c) PROVE PoolInv'
  <2> USE <1>4 DEF ScanBusy, relVars, driverVars
  <2>1. KvaInv' BY DEF KvaInv, Active
  <2>2. NextInv' BY DEF NextInv, AllocInv, Active, SingleAllocator
  <2>3. AllocInv' BY DEF AllocInv, Active, NextInv, SingleAllocator
  <2>4. RelInv' BY NativeOutsidePool, AddressUnique DEF RelInv, AllocInv, HeadInv, ExclusiveInv, Active
  <2>5. ExclusiveInv' BY DEF ExclusiveInv, Active, AllocInv, RelInv
  <2>6. HeadInv' BY NativeOutsidePool, AddressUnique DEF HeadInv, AllocInv, RelInv, ExclusiveInv, NextInv, KvaInv, Active
  <2>7. SlotZeroInv' BY DEF SlotZeroInv, AllocInv, NextInv, RelInv
  <2> QED BY <1>0, <2>1, <2>2, <2>3, <2>4, <2>5, <2>6, <2>7
<1>5. ASSUME NEW c \in Allocators, ScanWrap(c) PROVE PoolInv'
  <2> USE <1>5 DEF ScanWrap, relVars, driverVars
  <2>1. KvaInv' BY DEF KvaInv, Active
  <2>2. NextInv' BY DEF NextInv, AllocInv, Active, SingleAllocator
  <2>3. AllocInv' BY DEF AllocInv, Active, NextInv, SingleAllocator
  <2>4. RelInv' BY NativeOutsidePool, AddressUnique DEF RelInv, AllocInv, HeadInv, ExclusiveInv, Active
  <2>5. ExclusiveInv' BY DEF ExclusiveInv, Active, AllocInv, RelInv
  <2>6. HeadInv' BY NativeOutsidePool, AddressUnique DEF HeadInv, AllocInv, RelInv, ExclusiveInv, NextInv, KvaInv, Active
  <2>7. SlotZeroInv' BY DEF SlotZeroInv, AllocInv, NextInv, RelInv
  <2> QED BY <1>0, <2>1, <2>2, <2>3, <2>4, <2>5, <2>6, <2>7
<1>6. ASSUME NEW c \in Allocators, TakeSlot(c) PROVE PoolInv'
  <2> USE <1>6 DEF TakeSlot, relVars, driverVars, NextCopies
  <2>1. KvaInv' BY DEF KvaInv, Active
  <2>2. NextInv' BY DEF NextInv, AllocInv, Active, SingleAllocator
  <2>3. AllocInv'
    <3>1. nfgpu_next \in Slots \ {0} /\ aidx[c] = nfgpu_next
      BY NextInRange DEF AllocInv
    <3>2. nfgpu_skbs' = [nfgpu_skbs EXCEPT ![aidx[c]] = askb[c]]
      BY <3>1
    <3> QED
      BY <3>1, <3>2 DEF AllocInv, Active, SingleAllocator
  <2>4. RelInv' BY NativeOutsidePool, AddressUnique DEF RelInv, AllocInv, HeadInv, ExclusiveInv, Active
  <2>5. ExclusiveInv' BY DEF ExclusiveInv, Active, AllocInv, RelInv
  <2>6. HeadInv' BY NativeOutsidePool, AddressUnique DEF HeadInv, AllocInv, RelInv, ExclusiveInv, NextInv, KvaInv, Active
  <2>7. SlotZeroInv' BY DEF SlotZeroInv, AllocInv, NextInv, RelInv
  <2> QED BY <1>0, <2>1, <2>2, <2>3, <2>4, <2>5, <2>6, <2>7
<1>7. ASSUME NEW c \in Allocators, SetHead(c) PROVE PoolInv'
  <2> USE <1>7 DEF SetHead, relVars, driverVars, NextCopies
  <2>1. KvaInv' BY DEF KvaInv, Active
  <2>2. NextInv' BY DEF NextInv, AllocInv, Active, SingleAllocator
  <2>3. AllocInv' BY DEF AllocInv, Active, NextInv, SingleAllocator
  <2>4. RelInv' BY NativeOutsidePool, AddressUnique DEF RelInv, AllocInv, HeadInv, ExclusiveInv, Active
  <2>5. ExclusiveInv' BY DEF ExclusiveInv, Active, AllocInv, RelInv
  <2>6. HeadInv'
    <3>1. nfgpu_next \in Slots \ {0} /\ aidx[c] = nfgpu_next
      BY NextInRange DEF AllocInv
    <3>2. head' = [head EXCEPT ![askb[c]] = nfgpu_kva + nfgpu_next]
      BY <3>1
    <3>3. nfgpu_kva \in VmapBases /\ nfgpu_skbs[nfgpu_next] = askb[c]
      BY <3>1 DEF KvaInv, AllocInv, Active
    <3> QED
      BY <3>1, <3>2, <3>3 DEF HeadInv
  <2>7. SlotZeroInv' BY DEF SlotZeroInv, AllocInv, NextInv, RelInv
  <2> QED BY <1>0, <2>1, <2>2, <2>3, <2>4, <2>5, <2>6, <2>7
<1>8. ASSUME NEW c \in Cpus, NEW s \in Skbs, RelBegin(c, s) PROVE PoolInv'
  <2> USE <1>8 DEF RelBegin, poolVars, allocVars, driverVars, Recognised, Busy
  <2>1. KvaInv' BY DEF KvaInv, Active
  <2>2. NextInv' BY DEF NextInv, AllocInv, Active, SingleAllocator
  <2>3. AllocInv' BY DEF AllocInv, Active, NextInv, SingleAllocator
  <2>4. RelInv'
    <3>1. ASSUME Recognised(head[s])
          PROVE  head[s] - nfgpu_kva # 0 /\ nfgpu_skbs[head[s] - nfgpu_kva] = s
      <4> DEFINE j == head[s] - nfgpu_kva
      <4>1. j \in Slots /\ nfgpu_kva \in VmapBases /\ head[s] = nfgpu_kva + j
        BY <3>1
      <4>2. head[s] # s
        BY <4>1, NativeOutsidePool
      <4>3. PICK b \in VmapBases, i \in Slots \ {0} : head[s] = b + i /\ nfgpu_skbs[i] = s
        BY <4>2 DEF HeadInv
      <4>4. i = j
        BY <4>1, <4>3, AddressUnique
      <4> QED
        BY <4>3, <4>4
    <3> QED
      BY <3>1 DEF RelInv
  <2>5. ExclusiveInv' BY DEF ExclusiveInv, Active, AllocInv, RelInv
  <2>6. HeadInv' BY NativeOutsidePool, AddressUnique DEF HeadInv, AllocInv, RelInv, ExclusiveInv, NextInv, KvaInv, Active
  <2>7. SlotZeroInv' BY DEF SlotZeroInv, AllocInv, NextInv, RelInv
  <2> QED BY <1>0, <2>1, <2>2, <2>3, <2>4, <2>5, <2>6, <2>7
<1>14. ASSUME NEW c \in Cpus, RelLookup(c) PROVE PoolInv'
  <2> USE <1>14 DEF RelLookup, poolVars, allocVars, driverVars
  <2>1. KvaInv' BY DEF KvaInv, Active
  <2>2. NextInv' BY DEF NextInv
  <2>3. AllocInv' BY DEF AllocInv, Active
  <2>4. RelInv' BY DEF RelInv
  <2>5. ExclusiveInv' BY DEF ExclusiveInv, Active
  <2>6. HeadInv' BY DEF HeadInv
  <2>7. SlotZeroInv' BY DEF SlotZeroInv
  <2> QED BY <1>0, <2>1, <2>2, <2>3, <2>4, <2>5, <2>6, <2>7
<1>9. ASSUME NEW c \in Cpus, RelRestore(c) PROVE PoolInv'
  <2> USE <1>9 DEF RelRestore, allocVars, driverVars
  <2>1. KvaInv' BY DEF KvaInv, Active
  <2>2. NextInv' BY DEF NextInv, AllocInv, Active, SingleAllocator
  <2>3. AllocInv'
    <3>1. \A d \in Cpus : apc[d] \in Active => askb[d] # rskb[c]
      BY DEF ExclusiveInv
    <3> QED
      BY <3>1 DEF AllocInv, RelInv, Active
  <2>4. RelInv' BY NativeOutsidePool, AddressUnique DEF RelInv, AllocInv, HeadInv, ExclusiveInv, Active
  <2>5. ExclusiveInv' BY DEF ExclusiveInv, Active, AllocInv, RelInv
  <2>6. HeadInv' BY NativeOutsidePool, AddressUnique DEF HeadInv, AllocInv, RelInv, ExclusiveInv, NextInv, KvaInv, Active
  <2>7. SlotZeroInv' BY DEF SlotZeroInv, AllocInv, NextInv, RelInv
  <2> QED BY <1>0, <2>1, <2>2, <2>3, <2>4, <2>5, <2>6, <2>7
<1>10. ASSUME NEW c \in Cpus, RelFree(c) PROVE PoolInv'
  <2> USE <1>10 DEF RelFree, allocVars, driverVars
  <2>1. KvaInv' BY DEF KvaInv, Active
  <2>2. NextInv' BY DEF NextInv, AllocInv, Active, SingleAllocator
  <2>3. AllocInv'
    <3>1. \A d \in Cpus : apc[d] \in Active => askb[d] # rskb[c]
      BY DEF ExclusiveInv
    <3> QED
      BY <3>1 DEF AllocInv, RelInv, Active
  <2>4. RelInv' BY NativeOutsidePool, AddressUnique DEF RelInv, AllocInv, HeadInv, ExclusiveInv, Active
  <2>5. ExclusiveInv' BY DEF ExclusiveInv, Active, AllocInv, RelInv
  <2>6. HeadInv' BY NativeOutsidePool, AddressUnique DEF HeadInv, AllocInv, RelInv, ExclusiveInv, NextInv, KvaInv, Active
  <2>7. SlotZeroInv' BY DEF SlotZeroInv, AllocInv, NextInv, RelInv
  <2> QED BY <1>0, <2>1, <2>2, <2>3, <2>4, <2>5, <2>6, <2>7
<1>11. ASSUME NEW c \in Cpus, RelNative(c) PROVE PoolInv'
  <2> USE <1>11 DEF RelNative, allocVars, driverVars
  <2>1. KvaInv' BY DEF KvaInv, Active
  <2>2. NextInv' BY DEF NextInv, AllocInv, Active, SingleAllocator
  <2>3. AllocInv'
    <3>1. \A d \in Cpus : apc[d] \in Active => askb[d] # rskb[c]
      BY DEF ExclusiveInv
    <3>2. \A t \in Skbs : t # rskb[c] => head'[t] = head[t]
      OBVIOUS
    <3>3. UNCHANGED <<nfgpu_skbs, nfgpu_next, apc, askb, aidx>>
      OBVIOUS
    <3> HIDE <1>11 DEF RelNative
    <3> QED
      BY <3>1, <3>2, <3>3 DEF AllocInv, Active
  <2>4. RelInv'
    <3>1. \A d \in Cpus : d # c /\ rpc[d] # "idle" => rskb[d] # rskb[c]
      BY DEF ExclusiveInv
    <3>2. CASE head[rskb[c]] = rskb[c]
      <4>1. /\ head' = [head EXCEPT ![rskb[c]] = 0]
            /\ rpc' = [rpc EXCEPT ![c] = "idle"]
            /\ rskb' = [rskb EXCEPT ![c] = 0]
            /\ UNCHANGED <<nfgpu_skbs, ridx, rnew>>
        BY <3>2
      <4> HIDE <1>11 DEF RelNative
      <4> QED
        BY <3>1, <4>1 DEF RelInv
    <3>3. CASE head[rskb[c]] # rskb[c]
      <4>1. /\ rpc' = [rpc EXCEPT ![c] = "oops"] /\ rpc[c] = "native"
            /\ UNCHANGED <<head, rskb, nfgpu_skbs, ridx, rnew>>
        BY <3>3
      <4> HIDE <1>11 DEF RelNative
      <4> QED
        BY <4>1 DEF RelInv
    <3> QED
      BY <3>2, <3>3
  <2>5. ExclusiveInv' BY DEF ExclusiveInv, Active, AllocInv, RelInv
  <2>6. HeadInv' BY NativeOutsidePool, AddressUnique DEF HeadInv, AllocInv, RelInv, ExclusiveInv, NextInv, KvaInv, Active
  <2>7. SlotZeroInv' BY DEF SlotZeroInv, AllocInv, NextInv, RelInv
  <2> QED BY <1>0, <2>1, <2>2, <2>3, <2>4, <2>5, <2>6, <2>7
<1>12. CASE Launcher
  <2>1. UNCHANGED hookVars
    BY <1>12 DEF KvaInv, Launcher, LOpen, StopUnmap, StopClear, SetBuffers, SetBuffersFail, FailClear, Start, Kill
  <2>2. nfgpu_kva' = nfgpu_kva \/ nfgpu_kva' # 0
    BY <1>12 DEF Launcher, LOpen, StopUnmap, StopClear, SetBuffers, SetBuffersFail, FailClear, Start, Kill
  <2>3. (nfgpu_running \/ lpc = "mapped")' => nfgpu_kva' # 0
    BY <1>12, <2>2 DEF KvaInv, Launcher, LOpen, StopUnmap, StopClear, SetBuffers,
         SetBuffersFail, FailClear, Start, Kill
  <2>5. lpc' # "failed"
    BY <1>12 DEF KvaInv, Launcher, LOpen, StopUnmap, StopClear, SetBuffers, SetBuffersFail,
       FailClear, Start, Kill
  <2>4. KvaInv'
    BY <2>1, <2>2, <2>3, <2>5 DEF KvaInv, hookVars, poolVars, allocVars
  <2> QED
    BY <1>0, <2>1, <2>4 DEF hookVars, poolVars, allocVars, relVars, NextInv, AllocInv,
         RelInv, ExclusiveInv, HeadInv, SlotZeroInv
<1>13. CASE UNCHANGED vars
  BY <1>0, <1>13 DEF vars, poolVars, allocVars, relVars, driverVars, KvaInv, NextInv,
     AllocInv, RelInv, ExclusiveInv, HeadInv, SlotZeroInv
<1> QED
  BY <1>1, <1>2, <1>3, <1>4, <1>5, <1>6, <1>7, <1>8, <1>9, <1>10, <1>11,
     <1>12, <1>13, <1>14 DEF Next, AllocStep, RelStep

\* Two SKBs never have the same data buffer, although the search, the store
\* to the table and the change of skb->head are separate unlocked steps and
\* launchers come and go: for any number of releasing CPUs, slots and
\* mappings.
THEOREM NoSharing ==
  ASSUME SingleAllocator, DisjointBases, VmapMayFail = FALSE
  PROVE  Spec => []NoSharedHead
<1>1. PoolInv => NoSharedHead
  <2> SUFFICES ASSUME PoolInv, NEW s \in Skbs, NEW t \in Skbs, s # t,
                      head[s] # 0, head[s] = head[t]
               PROVE FALSE
    BY DEF NoSharedHead
  <2> USE PoolAssumption, NativeOutsidePool DEF PoolInv, HeadInv
  <2>1. head[s] # s
    OBVIOUS
  <2>2. head[t] # t
    OBVIOUS
  <2>3. PICK b \in VmapBases, i \in Slots \ {0} : head[s] = b + i /\ nfgpu_skbs[i] = s
    BY <2>1
  <2>4. PICK d \in VmapBases, j \in Slots \ {0} : head[t] = d + j /\ nfgpu_skbs[j] = t
    BY <2>2
  <2>5. b + i = d + j
    BY <2>3, <2>4
  <2>6. i \in Slots /\ j \in Slots
    BY <2>3, <2>4
  <2>7. i = j
    BY ONLY <2>3, <2>4, <2>5, <2>6, AddressUnique, DisjointBases
  <2> QED
    BY <2>3, <2>4, <2>7
<1> QED
  BY <1>1, InitPool, StepPool, PTL DEF Spec

\* The slot through which the driver and the GPU synchronise is never given
\* to an SKB.
THEOREM SlotZeroReserved ==
  ASSUME SingleAllocator, DisjointBases, VmapMayFail = FALSE
  PROVE  Spec => []SyncSlotReserved
<1>1. PoolInv => SyncSlotReserved
  <2> SUFFICES ASSUME PoolInv, NEW s \in Skbs, head[s] \in VmapBases PROVE FALSE
    BY DEF SyncSlotReserved, PoolInv, SlotZeroInv
  <2>0. head[s] \in Nat \ {0} /\ 0 \in Slots
    BY PoolAssumption, SlotsNat
  <2>1. head[s] = head[s] + 0 /\ head[s] # 0 /\ 0 \in Slots
    BY <2>0
  <2>2. head[s] # s
    BY <2>1, NativeOutsidePool
  <2>3. PICK b \in VmapBases, i \in Slots \ {0} : head[s] = b + i
    BY <2>1, <2>2 DEF PoolInv, HeadInv
  <2> QED
    BY <2>1, <2>3, AddressUnique
<1> QED
  BY <1>1, InitPool, StepPool, PTL DEF Spec

\* What skb_release_data_togpu hands to the native release: the SKB's own
\* native buffer, or, when the mapping moved or the mask cut the block, the
\* slot of some mapping that the table still has under this very SKB.  It never
\* releases the buffer of another SKB, whatever addresses vmap() returns.
OwnBufferOrOwnSlot ==
  \A c \in Cpus : rpc[c] = "native" =>
    \/ head[rskb[c]] = rskb[c]
    \/ \E b \in VmapBases, i \in Slots \ {0} :
         head[rskb[c]] = b + i /\ nfgpu_skbs[i] = rskb[c]

\* A release never frees another SKB's buffer (main.c:312), over mappings at
\* any disjoint addresses, aligned or not, and any number of kills and
\* relaunches.
THEOREM NoForeignBuffer ==
  ASSUME SingleAllocator, DisjointBases, VmapMayFail = FALSE
  PROVE  Spec => []OwnBufferOrOwnSlot
<1>1. PoolInv => OwnBufferOrOwnSlot
  BY DEF PoolInv, RelInv, HeadInv, OwnBufferOrOwnSlot
<1> QED
  BY <1>1, InitPool, StepPool, PTL DEF Spec

-----------------------------------------------------------------------------
(***************************************************************************)
(* One allocating CPU, and vmap() always returns the same address, aligned *)
(* so that the whole mapping passes the test of the mask.                  *)
(***************************************************************************)
SameBase == \A b, d \in VmapBases : b = d

AlignedBases == \A b \in VmapBases, i \in Slots : Window(b + i) = Window(b)

\* One mapping address overlaps with no other.
LEMMA SameDisjoint == SameBase => DisjointBases
  BY DEF SameBase, DisjointBases

LendingInv == NoLostSlot /\ ReleasesOwnBuffer

\* Slots at different indexes have different addresses.
LEMMA AddCancel == \A a, i, j \in Nat : a + i = a + j => i = j
  OBVIOUS

\* An SKB that is not in its slot and that no hook is moving has no slot.
LEMMA NoSlotLeft ==
  ASSUME PoolInv, NoLostSlot, NEW s \in Skbs,
         head[s] \in {0, s},
         \A c \in Cpus : apc[c] = "sethead" => askb[c] # s,
         \A c \in Cpus : rpc[c] = "free" => rskb[c] # s
  PROVE  \A i \in Slots : nfgpu_skbs[i] # s
<1> SUFFICES ASSUME NEW i \in Slots, nfgpu_skbs[i] = s PROVE FALSE
  OBVIOUS
<1> USE PoolAssumption, SlotsNat DEF PoolInv, TypeOK
<1>1. s # 0 /\ nfgpu_kva \in VmapBases
  BY DEF KvaInv
<1>2. head[s] = nfgpu_kva + i
  BY <1>1 DEF NoLostSlot
<1>3. nfgpu_kva + i # 0
  BY <1>1
<1> QED
  BY <1>1, <1>2, <1>3, NativeOutsidePool

\* Every step keeps each lent slot with the SKB that will give it back.
LEMMA StepLending ==
  ASSUME SingleAllocator, SameBase, AlignedBases, VmapMayFail = FALSE
  PROVE  PoolInv /\ PoolInv' /\ LendingInv /\ [Next]_vars => LendingInv'
<1> SUFFICES ASSUME PoolInv, PoolInv', LendingInv, [Next]_vars PROVE LendingInv'
  OBVIOUS
<1> USE PoolAssumption, SlotsNat DEF PoolInv, TypeOK
<1>0. NoLostSlot /\ ReleasesOwnBuffer
  BY DEF LendingInv
<1>1. ASSUME NEW c \in Allocators, NEW s \in Skbs, AllocNative(c, s) PROVE LendingInv'
  <2> USE <1>1 DEF AllocNative, relVars, driverVars
  <2>1. NoLostSlot'
    <3>1. \A i \in Slots : nfgpu_skbs[i] # s
      BY <1>0, NoSlotLeft DEF AllocInv, RelInv, Active
    <3> QED
      BY <1>0, <3>1 DEF NoLostSlot
  <2>2. ReleasesOwnBuffer'
    BY <1>0 DEF ReleasesOwnBuffer, RelInv
  <2> QED BY <2>1, <2>2 DEF LendingInv
<1>2. ASSUME NEW c \in Allocators, AllocNull(c) PROVE LendingInv'
  <2> USE <1>2 DEF AllocNull, poolVars, relVars, driverVars
  <2>1. NoLostSlot'
    BY <1>0 DEF NoLostSlot
  <2>2. ReleasesOwnBuffer'
    BY <1>0 DEF ReleasesOwnBuffer, RelInv
  <2> QED BY <2>1, <2>2 DEF LendingInv
<1>3. ASSUME NEW c \in Allocators, ScanFree(c) PROVE LendingInv'
  <2> USE <1>3 DEF ScanFree, poolVars, relVars, driverVars
  <2>1. NoLostSlot'
    BY <1>0 DEF NoLostSlot
  <2>2. ReleasesOwnBuffer'
    BY <1>0 DEF ReleasesOwnBuffer, RelInv
  <2> QED BY <2>1, <2>2 DEF LendingInv
<1>4. ASSUME NEW c \in Allocators, ScanBusy(c) PROVE LendingInv'
  <2> USE <1>4 DEF ScanBusy, relVars, driverVars
  <2>1. NoLostSlot'
    BY <1>0 DEF NoLostSlot
  <2>2. ReleasesOwnBuffer'
    BY <1>0 DEF ReleasesOwnBuffer, RelInv
  <2> QED BY <2>1, <2>2 DEF LendingInv
<1>5. ASSUME NEW c \in Allocators, ScanWrap(c) PROVE LendingInv'
  <2> USE <1>5 DEF ScanWrap, relVars, driverVars
  <2>1. NoLostSlot'
    BY <1>0 DEF NoLostSlot
  <2>2. ReleasesOwnBuffer'
    BY <1>0 DEF ReleasesOwnBuffer, RelInv
  <2> QED BY <2>1, <2>2 DEF LendingInv
<1>6. ASSUME NEW c \in Allocators, TakeSlot(c) PROVE LendingInv'
  <2> USE <1>6 DEF TakeSlot, relVars, driverVars, NextCopies
  <2>1. NoLostSlot'
    <3>1. nfgpu_next \in Slots \ {0} /\ aidx[c] = nfgpu_next
      BY NextInRange DEF AllocInv
    <3>2. nfgpu_skbs' = [nfgpu_skbs EXCEPT ![aidx[c]] = askb[c]]
      BY <3>1
    <3>3. /\ UNCHANGED <<head, nfgpu_kva, askb, aidx, rpc, ridx, rskb>>
          /\ apc' = [apc EXCEPT ![c] = "sethead"] /\ apc[c] = "take"
      OBVIOUS
    <3> HIDE <1>6 DEF TakeSlot
    <3> SUFFICES ASSUME NEW i \in Slots, nfgpu_skbs'[i] # 0
                 PROVE  \/ head[nfgpu_skbs'[i]] = nfgpu_kva + i
                        \/ \E d \in Cpus :
                             \/ apc'[d] = "sethead" /\ aidx[d] = i /\ askb[d] = nfgpu_skbs'[i]
                             \/ rpc[d] = "free" /\ ridx[d] = i /\ rskb[d] = nfgpu_skbs'[i]
      BY <3>3 DEF NoLostSlot
    <3>4. CASE i = aidx[c]
      BY <3>1, <3>2, <3>3, <3>4
    <3>5. CASE i # aidx[c]
      <4>1. nfgpu_skbs'[i] = nfgpu_skbs[i]
        BY <3>2, <3>5
      <4> QED
        BY <1>0, <3>3, <4>1 DEF NoLostSlot
    <3> QED
      BY <3>4, <3>5
  <2>2. ReleasesOwnBuffer'
    BY <1>0 DEF ReleasesOwnBuffer, RelInv
  <2> QED BY <2>1, <2>2 DEF LendingInv
<1>7. ASSUME NEW c \in Allocators, SetHead(c) PROVE LendingInv'
  <2> USE <1>7 DEF SetHead, relVars, driverVars, NextCopies
  <2>1. NoLostSlot'
    <3>1. nfgpu_next \in Slots \ {0} /\ aidx[c] = nfgpu_next
      BY NextInRange DEF AllocInv
    <3>2. head' = [head EXCEPT ![askb[c]] = nfgpu_kva + aidx[c]]
      BY <3>1
    <3>3. \A i \in Slots : nfgpu_skbs[i] = askb[c] => i = aidx[c]
      <4> SUFFICES ASSUME NEW i \in Slots, nfgpu_skbs[i] = askb[c] PROVE i = aidx[c]
        OBVIOUS
      <4>1. askb[c] # 0 /\ head[askb[c]] = askb[c] /\ nfgpu_kva \in VmapBases
        BY DEF AllocInv, KvaInv, Active
      <4>2. head[askb[c]] # nfgpu_kva + i
        BY <4>1, NativeOutsidePool
      <4>3. \A d \in Cpus : rpc[d] = "free" => rskb[d] # askb[c]
        BY DEF ExclusiveInv, Active
      <4>4. PICK d \in Cpus : apc[d] = "sethead" /\ aidx[d] = i
        BY <1>0, <4>1, <4>2, <4>3 DEF NoLostSlot
      <4> QED
        BY <4>4 DEF AllocInv, SingleAllocator
    <3>4. /\ UNCHANGED <<nfgpu_skbs, nfgpu_kva, rpc, ridx, rskb>>
          /\ apc' = [apc EXCEPT ![c] = "idle"] /\ askb[c] \in Skbs
          /\ \A d \in Cpus : d # c => askb'[d] = askb[d] /\ aidx'[d] = aidx[d]
      BY DEF AllocInv, Active
    <3> HIDE <1>7 DEF SetHead
    <3> SUFFICES ASSUME NEW i \in Slots, nfgpu_skbs[i] # 0
                 PROVE  \/ head'[nfgpu_skbs[i]] = nfgpu_kva + i
                        \/ \E d \in Cpus :
                             \/ apc'[d] = "sethead" /\ aidx'[d] = i /\ askb'[d] = nfgpu_skbs[i]
                             \/ rpc[d] = "free" /\ ridx[d] = i /\ rskb[d] = nfgpu_skbs[i]
      BY <3>4 DEF NoLostSlot
    <3>5. CASE nfgpu_skbs[i] = askb[c]
      BY <3>2, <3>3, <3>4, <3>5
    <3>6. CASE nfgpu_skbs[i] # askb[c]
      <4>1. head'[nfgpu_skbs[i]] = head[nfgpu_skbs[i]]
        BY <3>2, <3>6
      <4> QED
        BY <1>0, <3>4, <3>6, <4>1 DEF NoLostSlot
    <3> QED
      BY <3>5, <3>6
  <2>2. ReleasesOwnBuffer'
    <3>1. \A d \in Cpus : rpc[d] = "native" => rskb[d] # askb[c]
      BY DEF ExclusiveInv, Active
    <3> QED
      BY <1>0, <3>1 DEF ReleasesOwnBuffer, RelInv
  <2> QED BY <2>1, <2>2 DEF LendingInv
<1>8. ASSUME NEW c \in Cpus, NEW s \in Skbs, RelBegin(c, s) PROVE LendingInv'
  <2> USE <1>8 DEF RelBegin, poolVars, allocVars, driverVars
  <2>1. NoLostSlot'
    BY <1>0 DEF NoLostSlot
  <2>2. ReleasesOwnBuffer'
    <3>1. SUFFICES ASSUME rpc'[c] = "native", head[s] # s PROVE FALSE
      BY <1>0 DEF ReleasesOwnBuffer
    <3>2. PICK b \in VmapBases, i \in Slots \ {0} : head[s] = b + i /\ nfgpu_skbs[i] = s
      BY <3>1 DEF HeadInv
    <3>3. nfgpu_kva = b
      BY <3>2 DEF KvaInv, SameBase
    <3>4. Recognised(head[s])
      BY <3>2, <3>3 DEF Recognised, AlignedBases
    <3> QED
      BY <3>1, <3>4
  <2> QED BY <2>1, <2>2 DEF LendingInv
<1>14. ASSUME NEW c \in Cpus, RelLookup(c) PROVE LendingInv'
  <2> USE <1>14 DEF RelLookup, poolVars, allocVars, driverVars
  <2>1. NoLostSlot'
    BY <1>0 DEF NoLostSlot
  <2>2. ReleasesOwnBuffer'
    BY <1>0 DEF ReleasesOwnBuffer, RelInv
  <2> QED BY <2>1, <2>2 DEF LendingInv
<1>9. ASSUME NEW c \in Cpus, RelRestore(c) PROVE LendingInv'
  <2> USE <1>9 DEF RelRestore, allocVars, driverVars
  <2>1. NoLostSlot'
    <3>1. ridx[c] \in Slots /\ nfgpu_skbs[ridx[c]] = rskb[c] /\ rpc[c] = "restore"
      BY DEF RelInv
    <3>2. rskb[c] \in Skbs /\ nfgpu_kva \in VmapBases
      <4>1. rskb[c] \in Skbs
        BY <3>1 DEF RelInv
      <4>2. nfgpu_skbs[ridx[c]] # 0 /\ ridx[c] \in Slots
        BY <3>1, <4>1
      <4>3. nfgpu_kva # 0
        BY <4>2 DEF KvaInv
      <4> QED
        BY <4>1, <4>3
    <3>3. \A d \in Cpus : apc[d] = "sethead" => askb[d] # rskb[c]
      BY <3>1 DEF ExclusiveInv, Active
    <3>4. \A d \in Cpus : rpc[d] = "free" => rskb[d] # rskb[c]
      BY <3>1 DEF ExclusiveInv
    <3>5. ASSUME NEW i \in Slots, nfgpu_skbs[i] = rskb[c]
          PROVE  head[rskb[c]] = nfgpu_kva + i
      BY <1>0, <3>2, <3>3, <3>4, <3>5 DEF NoLostSlot
    <3>6. head[rskb[c]] = nfgpu_kva + ridx[c]
      BY <3>1, <3>5
    <3>7. ASSUME NEW i \in Slots, nfgpu_skbs[i] = rskb[c]
          PROVE  i = ridx[c]
      <4>1. nfgpu_kva + i = nfgpu_kva + ridx[c]
        BY <3>5, <3>6, <3>7
      <4>2. nfgpu_kva \in Nat /\ i \in Nat /\ ridx[c] \in Nat
        BY <3>1, <3>2
      <4> QED
        BY <4>1, <4>2, AddCancel
    <3> QED
      BY <1>0, <3>1, <3>7 DEF NoLostSlot
  <2>2. ReleasesOwnBuffer'
    BY <1>0 DEF ReleasesOwnBuffer, RelInv
  <2> QED BY <2>1, <2>2 DEF LendingInv
<1>10. ASSUME NEW c \in Cpus, RelFree(c) PROVE LendingInv'
  <2> USE <1>10 DEF RelFree, allocVars, driverVars
  <2>1. NoLostSlot'
    <3>1. \A i \in Slots : i # ridx[c] /\ nfgpu_skbs[i] # 0 => nfgpu_skbs[i] = nfgpu_skbs'[i]
      OBVIOUS
    <3> QED
      BY <1>0, <3>1 DEF NoLostSlot, RelInv
  <2>2. ReleasesOwnBuffer'
    BY <1>0 DEF ReleasesOwnBuffer, RelInv
  <2> QED BY <2>1, <2>2 DEF LendingInv
<1>11. ASSUME NEW c \in Cpus, RelNative(c) PROVE LendingInv'
  <2> USE <1>11 DEF RelNative, allocVars, driverVars
  <2>1. NoLostSlot'
    <3>1. head[rskb[c]] = rskb[c] /\ rskb[c] \in Skbs
      BY <1>0 DEF ReleasesOwnBuffer, RelInv
    <3>2. \A i \in Slots : nfgpu_skbs[i] # rskb[c]
      BY <1>0, <3>1, NoSlotLeft DEF ExclusiveInv, Active
    <3>3. /\ UNCHANGED <<nfgpu_skbs, nfgpu_kva, apc, askb, aidx, ridx>>
          /\ head' = [head EXCEPT ![rskb[c]] = 0]
          /\ \A d \in Cpus : rpc[d] = "free" => rpc'[d] = "free" /\ rskb'[d] = rskb[d]
      BY <3>1
    <3> HIDE <1>11 DEF RelNative
    <3>4. \A i \in Slots : nfgpu_skbs[i] # 0 => head'[nfgpu_skbs[i]] = head[nfgpu_skbs[i]]
      BY <3>2, <3>3
    <3> QED
      BY <1>0, <3>3, <3>4 DEF NoLostSlot
  <2>2. ReleasesOwnBuffer'
    <3>1. head[rskb[c]] = rskb[c] /\ rskb[c] \in Skbs
      BY <1>0 DEF ReleasesOwnBuffer, RelInv
    <3>2. /\ head' = [head EXCEPT ![rskb[c]] = 0]
          /\ rpc' = [rpc EXCEPT ![c] = "idle"]
          /\ rskb' = [rskb EXCEPT ![c] = 0]
      BY <3>1
    <3>3. \A d \in Cpus : d # c /\ rpc[d] = "native" => rskb[d] # rskb[c] /\ rskb[d] \in Skbs
      BY DEF ExclusiveInv, RelInv
    <3> HIDE <1>11 DEF RelNative
    <3> QED
      BY <1>0, <3>2, <3>3 DEF ReleasesOwnBuffer
  <2> QED BY <2>1, <2>2 DEF LendingInv
<1>12. CASE Launcher
  <2>1. UNCHANGED hookVars
    BY <1>12 DEF KvaInv, Launcher, LOpen, StopUnmap, StopClear, SetBuffers, SetBuffersFail, FailClear, Start, Kill
  <2>2. nfgpu_kva' = nfgpu_kva \/ nfgpu_kva = 0
    BY <1>12 DEF SameBase, Launcher, LOpen, StopUnmap, StopClear, SetBuffers,
         SetBuffersFail, FailClear, Start, Kill
  <2>3. ReleasesOwnBuffer'
    BY <1>0, <2>1 DEF ReleasesOwnBuffer, hookVars, poolVars, relVars
  <2>4. NoLostSlot'
    BY <1>0, <2>1, <2>2 DEF NoLostSlot, KvaInv, hookVars, poolVars, allocVars, relVars
  <2> QED
    BY <2>3, <2>4 DEF LendingInv
<1>13. CASE UNCHANGED vars
  BY <1>0, <1>13 DEF vars, poolVars, allocVars, relVars, driverVars, LendingInv,
     NoLostSlot, ReleasesOwnBuffer
<1> QED
  BY <1>1, <1>2, <1>3, <1>4, <1>5, <1>6, <1>7, <1>8, <1>9, <1>10, <1>11,
     <1>12, <1>13, <1>14 DEF Next, AllocStep, RelStep

\* Both invariants hold in every state, over all launches.
LEMMA LendingInvariant ==
  ASSUME SingleAllocator, SameBase, AlignedBases, VmapMayFail = FALSE
  PROVE  Spec => [](PoolInv /\ LendingInv)
<1>1. Init => LendingInv
  BY SlotsNat DEF Init, LendingInv, NoLostSlot, ReleasesOwnBuffer
<1>2. PoolInv /\ [Next]_vars => PoolInv'
  BY StepPool, SameDisjoint
<1> QED
  BY <1>1, <1>2, InitPool, StepLending, PTL DEF Spec

\* Every slot marked lent in nfgpu_skbs has a borrower that gives it back.
THEOREM SlotsNeverLost ==
  ASSUME SingleAllocator, SameBase, AlignedBases, VmapMayFail = FALSE
  PROVE  Spec => []NoLostSlot
<1>1. LendingInv => NoLostSlot
  BY DEF LendingInv
<1> QED
  BY <1>1, LendingInvariant, PTL

\* The pool starts as SlotLending does, with nothing lent.
LEMMA InitLending == Init => Lending!Init
  BY DEF Init, Lending!Init

\* Every step of the pool is a Lend, a Return or a stutter of SlotLending.
LEMMA StepImplements ==
  ASSUME SingleAllocator, VmapMayFail = FALSE
  PROVE  PoolInv /\ LendingInv /\ [Next]_vars
           => [Lending!Next]_([i \in Slots \ {0} |-> nfgpu_skbs[i]])
<1> DEFINE table == [i \in Slots \ {0} |-> nfgpu_skbs[i]]
<1> SUFFICES ASSUME PoolInv, LendingInv, [Next]_vars
            PROVE  Lending!Next \/ table' = table
  OBVIOUS
<1> USE PoolAssumption, SlotsNat DEF PoolInv, TypeOK
<1>1. ASSUME nfgpu_skbs' = nfgpu_skbs PROVE table' = table
  BY <1>1
<1> HIDE DEF table
<1>2. ASSUME NEW c \in Allocators, TakeSlot(c) PROVE Lending!Next
  <2>1. apc[c] = "take" /\ nfgpu_next \in Slots \ {0} /\ aidx[c] = nfgpu_next
    BY <1>2, NextInRange DEF AllocInv, TakeSlot
  <2>2. nfgpu_skbs' = [nfgpu_skbs EXCEPT ![aidx[c]] = askb[c]]
    BY <1>2, <2>1 DEF TakeSlot, NextCopies
  <2>3. askb[c] \in Skbs /\ head[askb[c]] = askb[c] /\ nfgpu_skbs[aidx[c]] = 0
    BY <2>1 DEF AllocInv, Active
  <2>4. \A d \in Cpus : apc[d] = "sethead" => askb[d] # askb[c]
    BY <2>1 DEF AllocInv, SingleAllocator
  <2>5. \A d \in Cpus : rpc[d] = "free" => rskb[d] # askb[c]
    BY <2>1 DEF ExclusiveInv, Active
  <2>6. \A i \in Slots : nfgpu_skbs[i] # askb[c]
    BY <2>3, <2>4, <2>5, NoSlotLeft DEF LendingInv
  <2>7. PICK i \in Slots \ {0}, b \in Skbs : i = aidx[c] /\ b = askb[c]
    BY <2>1, <2>3
  <2>8. /\ table[i] = 0
        /\ \A j \in Slots \ {0} : table[j] # b
        /\ table' = [table EXCEPT ![i] = b]
    BY <2>2, <2>3, <2>6, <2>7 DEF table
  <2>9. Lending!Lend(i, b)
    BY <2>8 DEF Lending!Lend, table
  <2> QED
    BY <2>9 DEF Lending!Next
<1>3. ASSUME NEW c \in Cpus, RelFree(c) PROVE Lending!Next
  <2>1. rpc[c] = "free" /\ nfgpu_skbs' = [nfgpu_skbs EXCEPT ![ridx[c]] = 0]
    BY <1>3 DEF RelFree
  <2>2. ridx[c] \in Slots \ {0} /\ nfgpu_skbs[ridx[c]] # 0
    BY <2>1 DEF RelInv
  <2>3. PICK i \in Slots \ {0} : i = ridx[c]
    BY <2>2
  <2>4. table[i] # 0 /\ table' = [table EXCEPT ![i] = 0]
    BY <2>1, <2>2, <2>3 DEF table
  <2>5. Lending!Return(i)
    BY <2>4 DEF Lending!Return, table
  <2> QED
    BY <2>5 DEF Lending!Next
<1>4. ASSUME NEW c \in Allocators, NEW s \in Skbs, AllocNative(c, s)
      PROVE  nfgpu_skbs' = nfgpu_skbs
  BY <1>4 DEF AllocNative
<1>5. ASSUME NEW c \in Allocators,
             AllocNull(c) \/ ScanFree(c) \/ ScanBusy(c) \/ ScanWrap(c) \/ SetHead(c)
      PROVE  nfgpu_skbs' = nfgpu_skbs
  BY <1>5 DEF AllocNull, ScanFree, ScanBusy, ScanWrap, SetHead, poolVars
<1>6. ASSUME NEW c \in Cpus, NEW s \in Skbs, RelBegin(c, s)
      PROVE  nfgpu_skbs' = nfgpu_skbs
  BY <1>6 DEF RelBegin, poolVars
<1>7. ASSUME NEW c \in Cpus, RelLookup(c) \/ RelRestore(c) \/ RelNative(c)
      PROVE  nfgpu_skbs' = nfgpu_skbs
  BY <1>7 DEF poolVars, RelLookup, RelRestore, RelNative
<1>8. ASSUME Launcher PROVE nfgpu_skbs' = nfgpu_skbs
  BY <1>8 DEF KvaInv, Launcher, LOpen, StopUnmap, StopClear, SetBuffers, SetBuffersFail, FailClear,
     Start, Kill, hookVars, poolVars
<1>9. ASSUME UNCHANGED vars PROVE nfgpu_skbs' = nfgpu_skbs
  BY <1>9 DEF vars, poolVars
<1> QED
  BY <1>1, <1>2, <1>3, <1>4, <1>5, <1>6, <1>7, <1>8, <1>9 DEF Next, AllocStep, RelStep

\* The two hooks, the ioctls and the launcher together do nothing to the table
\* of slots but lend a free slot to a buffer that has none and take it back.
THEOREM PoolImplementsLending ==
  ASSUME SingleAllocator, SameBase, AlignedBases, VmapMayFail = FALSE
  PROVE  Spec => ImplementsSlotLending
  BY LendingInvariant, InitLending, StepImplements, PTL
     DEF Spec, ImplementsSlotLending, Lending!Spec

=============================================================================
