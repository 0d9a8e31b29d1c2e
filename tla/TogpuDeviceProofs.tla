-------------------------- MODULE TogpuDeviceProofs --------------------------
(***************************************************************************)
(* Proofs about TogpuDevice, for any set of processes, any size of the     *)
(* array and any sizes of the memory blocks.                               *)
(***************************************************************************)
EXTENDS TogpuDevice, TLAPS

Inside == {"walk", "vmap", "unlock"}

\* The process that holds nfgpu_slock is the one inside nfgpu_set_mempool.
LockInv ==
  /\ \A p \in Procs : pc[p] \in Inside <=> nfgpu_slock = p
  /\ \A p \in Procs : pc[p] \in Inside => nfgpu_uva = p /\ nfgpu_size \in Sizes

\* The pages collected since the lock was taken are its own, and not more than
\* the part of the block it has walked.
CollectInv ==
  \A p \in Procs : pc[p] \in {"walk", "vmap"} =>
    /\ nfgpu_npages + left[p] <= nfgpu_size
    /\ \A k \in 0 .. nfgpu_npages - 1 : k \in DOMAIN nfgpu_pages /\ nfgpu_pages[k] = p

\* Outside the walk the mapping is that of the block described.
MappedInv ==
  (\A p \in Procs : pc[p] \notin {"walk", "vmap"}) =>
    \A k \in DOMAIN nfgpu_kva : nfgpu_kva[k] = nfgpu_uva /\ k < nfgpu_size

DeviceInv == TypeOK /\ LockInv /\ CollectInv /\ MappedInv

\* The driver starts with the device free and nothing mapped.
LEMMA InitDevice == Init => DeviceInv
<1> SUFFICES ASSUME Init PROVE DeviceInv
  OBVIOUS
<1> USE DeviceAssumption DEF Init
<1>1. DOMAIN nfgpu_pages = Pages /\ Pages \subseteq Nat /\ DOMAIN nfgpu_kva = {}
  BY DEF Pages, Unmapped
<1>2. TypeOK
  BY <1>1 DEF TypeOK, Phases, Unmapped
<1>3. LockInv /\ CollectInv
  BY DEF LockInv, CollectInv, Inside
<1>4. MappedInv
  BY <1>1 DEF MappedInv
<1> QED
  BY <1>2, <1>3, <1>4 DEF DeviceInv

\* No step of open, release or nfgpu_set_mempool breaks the discipline of the lock.
LEMMA StepDevice == DeviceInv /\ [Next]_vars => DeviceInv'
<1> SUFFICES ASSUME DeviceInv, [Next]_vars PROVE DeviceInv'
  OBVIOUS
<1> USE DeviceAssumption DEF DeviceInv, TypeOK, LockInv, CollectInv, MappedInv, Inside, Phases
<1>1. ASSUME NEW p \in Procs, OpenDec(p) PROVE DeviceInv'
  BY <1>1 DEF OpenDec, poolVars
<1>2. ASSUME NEW p \in Procs, OpenUndo(p) PROVE DeviceInv'
  BY <1>2 DEF OpenUndo, poolVars
<1>3. ASSUME NEW p \in Procs, Release(p) PROVE DeviceInv'
  BY <1>3 DEF Release, poolVars
<1>4. ASSUME NEW p \in Procs, SetBuffersLock(p) PROVE DeviceInv'
  <2>0. PICK n \in Sizes : nfgpu_size' = n /\ left' = [left EXCEPT ![p] = n]
    BY <1>4 DEF SetBuffersLock
  <2>1. TypeOK'
    BY <1>4, <2>0 DEF SetBuffersLock
  <2>2. LockInv'
    BY <1>4, <2>0 DEF SetBuffersLock
  <2>3. CollectInv'
    BY <1>4, <2>0 DEF SetBuffersLock
  <2>4. MappedInv'
    BY <1>4 DEF SetBuffersLock
  <2> QED
    BY <2>1, <2>2, <2>3, <2>4
<1>5. ASSUME NEW p \in Procs, PteProcess(p) PROVE DeviceInv'
  <2>0. nfgpu_npages + 1 \in Nat /\ left[p] - 1 \in Nat
    BY <1>5 DEF PteProcess
  <2>1. TypeOK'
    <3>1. DOMAIN nfgpu_pages' = DOMAIN nfgpu_pages \cup {nfgpu_npages}
      BY <1>5 DEF PteProcess
    <3>2. nfgpu_pages' \in [DOMAIN nfgpu_pages' -> Procs \cup {None}]
      BY <1>5, <3>1 DEF PteProcess
    <3> QED
      BY <1>5, <2>0, <3>1, <3>2 DEF PteProcess
  <2>2. LockInv'
    BY <1>5 DEF PteProcess
  <2>3. CollectInv'
    <3>1. \A q \in Procs : pc[q] \in Inside => q = p
      BY <1>5 DEF PteProcess
    <3>2. \A k \in 0 .. nfgpu_npages' - 1 : k \in DOMAIN nfgpu_pages' /\ nfgpu_pages'[k] = p
      BY <1>5 DEF PteProcess
    <3>3. nfgpu_npages' + left'[p] <= nfgpu_size'
      BY <1>5 DEF PteProcess
    <3> QED
      BY <1>5, <3>1, <3>2, <3>3 DEF PteProcess
  <2>4. MappedInv'
    BY <1>5 DEF PteProcess
  <2> QED
    BY <2>1, <2>2, <2>3, <2>4
<1>10. ASSUME NEW p \in Procs, PteAbsent(p) PROVE DeviceInv'
  <2>1. TypeOK' /\ LockInv' /\ MappedInv'
    BY <1>10 DEF PteAbsent
  <2>2. CollectInv'
    BY <1>10 DEF PteAbsent
  <2> QED
    BY <2>1, <2>2
<1>6. ASSUME NEW p \in Procs, WalkEnds(p) PROVE DeviceInv'
  BY <1>6 DEF WalkEnds, poolVars
<1>7. ASSUME NEW p \in Procs, Vmap(p) PROVE DeviceInv'
  <2>0. /\ nfgpu_uva = p /\ nfgpu_npages <= nfgpu_size
        /\ \A k \in 0 .. nfgpu_npages - 1 : nfgpu_pages[k] = p
    BY <1>7 DEF Vmap
  <2>1. /\ DOMAIN nfgpu_kva' \subseteq 0 .. nfgpu_npages - 1
        /\ nfgpu_kva' \in [DOMAIN nfgpu_kva' -> Procs \cup {None}]
        /\ \A k \in DOMAIN nfgpu_kva' : nfgpu_kva'[k] = p
    <3>1. CASE nfgpu_kva' = Unmapped
      <4>1. DOMAIN nfgpu_kva' = {} /\ nfgpu_kva' = [k \in {} |-> None]
        BY <3>1 DEF Unmapped
      <4> QED
        BY <4>1
    <3>2. CASE nfgpu_kva' = [k \in 0 .. nfgpu_npages - 1 |-> nfgpu_pages[k]]
      <4>1. nfgpu_kva' = [k \in 0 .. nfgpu_npages - 1 |-> p]
        BY <2>0, <3>2
      <4> QED
        BY <4>1
    <3> QED
      BY <1>7, <3>1, <3>2 DEF Vmap
  <2>2. TypeOK'
    BY <1>7, <2>1 DEF Vmap
  <2>3. LockInv' /\ CollectInv'
    BY <1>7 DEF Vmap
  <2>4. MappedInv'
    BY <1>7, <2>0, <2>1 DEF Vmap
  <2> QED
    BY <2>2, <2>3, <2>4
<1>8. ASSUME NEW p \in Procs, Unlock(p) PROVE DeviceInv'
  BY <1>8 DEF Unlock
<1>9. CASE UNCHANGED vars
  BY <1>9 DEF vars, poolVars
<1> QED
  BY <1>1, <1>2, <1>3, <1>4, <1>5, <1>6, <1>7, <1>8, <1>9, <1>10 DEF Next, Step

\* nfgpu_slock is enough to keep the blocks of different processes apart,
\* although nfgpu_open may let several of them in.
THEOREM OneProcessMapped == Spec => []MappingOfOneProcess
<1>1. DeviceInv => MappingOfOneProcess
  <2> SUFFICES ASSUME DeviceInv, nfgpu_slock = None
               PROVE  \A k \in DOMAIN nfgpu_kva : nfgpu_kva[k] = nfgpu_uva /\ k < nfgpu_size
    BY DEF MappingOfOneProcess
  <2>1. \A p \in Procs : pc[p] \notin Inside
    BY DeviceAssumption DEF DeviceInv, LockInv
  <2> QED
    BY <2>1 DEF DeviceInv, MappedInv, Inside
<1> QED
  BY <1>1, InitDevice, StepDevice, PTL DEF Spec

-----------------------------------------------------------------------------
\* No process gives a block that spans more pages than the array has.
SizesFit == \A n \in Sizes : n <= NFGPU_MAX_PAGES

\* A page is stored at nfgpu_npages only while fewer pages than the block has
\* were collected.
LEMMA StepFit ==
  ASSUME SizesFit
  PROVE  DeviceInv /\ PagesFit /\ [Next]_vars => PagesFit'
<1> SUFFICES ASSUME DeviceInv, PagesFit, [Next]_vars PROVE PagesFit'
  OBVIOUS
<1> USE DEF PagesFit
<1>1. ASSUME NEW p \in Procs, PteProcess(p) PROVE PagesFit'
  <2>1. nfgpu_npages + left[p] <= nfgpu_size /\ nfgpu_size \in Sizes /\ left[p] > 0
    BY <1>1 DEF PteProcess, DeviceInv, LockInv, CollectInv, Inside
  <2>2. nfgpu_npages \in Nat /\ left[p] \in Nat /\ nfgpu_size \in Nat
    BY DEF DeviceInv, TypeOK
  <2>3. nfgpu_npages \in Pages
    BY <2>1, <2>2, DeviceAssumption DEF SizesFit, Pages
  <2> QED
    BY <1>1, <2>3 DEF PteProcess
<1>2. (\A p \in Procs : ~PteProcess(p)) => UNCHANGED nfgpu_pages
  BY DEF Next, Step, vars, poolVars, OpenDec, OpenUndo, Release, SetBuffersLock, PteAbsent,
     WalkEnds, Vmap, Unlock
<1> QED
  BY <1>1, <1>2

\* The walk never stores behind nfgpu_pages, whichever processes set their
\* buffers in whatever order.
THEOREM PagesAlwaysFit ==
  ASSUME SizesFit
  PROVE  Spec => []PagesFit
<1>1. Init => PagesFit
  BY DEF Init, PagesFit
<1> QED
  BY <1>1, InitDevice, StepDevice, StepFit, PTL DEF Spec

=============================================================================
