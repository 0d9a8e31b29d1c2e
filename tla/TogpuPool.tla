------------------------------ MODULE TogpuPool ------------------------------
(***************************************************************************)
(* The packet-buffer pool of xt_TOGPU_main.c.                              *)
(*                                                                         *)
(* The launcher hands the driver a block of GPU memory, which SET_BUFFERS  *)
(* maps at a kernel address nfgpu_kva.  From START to STOP the hook of     *)
(* __netdev_alloc_skb moves the data of every new SKB into a free 4 KB     *)
(* slot of that block and keeps the SKB's native buffer in nfgpu_skbs; the *)
(* hook of skb_release_data gives the SKB its native buffer back and frees *)
(* the slot.  Neither hook takes a lock: they interleave with each other   *)
(* and with the ioctls of a launcher that may be killed and run again.     *)
(*                                                                         *)
(* Addresses are counted in slots of NFGPU_SKB_SIZE bytes (address >> 12). *)
(* An SKB is named by the address of its native data buffer: two SKBs      *)
(* alive together never have the same one.                                 *)
(***************************************************************************)
EXTENDS Integers

CONSTANTS
  Cpus,            \* the CPUs
  Allocators,      \* the CPUs on which a NIC driver allocates SKBs
  Skbs,            \* the SKBs, each the address of its native data buffer
  NFGPU_MAX_SKBS,  \* number of slots of the pool, slot 0 included
  VmapBases,       \* the addresses vmap() may return
  VmapMayFail,     \* may vmap() return NULL?
  NativeMayFail    \* may the native SKB allocator return NULL?

Slots == 0 .. NFGPU_MAX_SKBS - 1

\* vmap() areas and native (slab) buffers never overlap, nor is either at 0.
ASSUME PoolAssumption ==
  /\ NFGPU_MAX_SKBS \in Nat /\ NFGPU_MAX_SKBS >= 2
  /\ Allocators \subseteq Cpus
  /\ VmapBases \subseteq Nat \ {0}
  /\ Skbs \subseteq Nat \ {0}
  /\ \A s \in Skbs, b \in VmapBases : s - b \notin Slots
  /\ VmapMayFail \in BOOLEAN /\ NativeMayFail \in BOOLEAN

VARIABLES
  nfgpu_running,   \* between START and STOP
  nfgpu_kva,       \* address of the mapping, 0 before the first one
  nfgpu_skbs,      \* slot -> the native buffer it replaces, 0 if it is free
  nfgpu_next,      \* where the next search for a free slot starts
  mapped,          \* the mappings made by vmap() and not yet unmapped
  head,            \* skb->head, 0 for an SKB that does not exist
  apc, askb, aidx, \* the allocation hook on each CPU: step, SKB, register
  rpc, rskb, ridx, rnew,
                   \* the release hook: step, SKB, index and newhead
  lpc              \* the launcher

poolVars   == <<nfgpu_skbs, nfgpu_next, head>>
allocVars  == <<apc, askb, aidx>>
relVars    == <<rpc, rskb, ridx, rnew>>
driverVars == <<nfgpu_running, nfgpu_kva, mapped, lpc>>
vars       == <<poolVars, allocVars, relVars, driverVars>>

TypeOK ==
  /\ nfgpu_running \in BOOLEAN
  /\ nfgpu_kva \in VmapBases \cup {0}
  /\ nfgpu_skbs \in [Slots -> Skbs \cup {0}]
  /\ nfgpu_next \in Nat \ {0}
  /\ mapped \subseteq VmapBases
  /\ head \in [Skbs -> Nat]
  /\ apc \in [Cpus -> {"idle", "scan", "wrap", "take", "sethead", "oops"}]
  /\ askb \in [Cpus -> Skbs \cup {0}]
  /\ aidx \in [Cpus -> Nat]
  /\ rpc \in [Cpus -> {"idle", "lookup", "restore", "free", "native", "oops"}]
  /\ rskb \in [Cpus -> Skbs \cup {0}]
  /\ ridx \in [Cpus -> Slots]
  /\ rnew \in [Cpus -> Skbs \cup {0}]
  /\ lpc \in {"off", "opened", "stopping", "stopped", "failed", "mapped", "started"}

(***************************************************************************)
(* nfgpu_internal_init.                                                    *)
(***************************************************************************)
Init ==
  /\ nfgpu_running = FALSE
  /\ nfgpu_kva = 0
  /\ nfgpu_skbs = [i \in Slots |-> 0]
  /\ nfgpu_next = 1
  /\ mapped = {}
  /\ head = [s \in Skbs |-> 0]
  /\ apc = [c \in Cpus |-> "idle"]
  /\ askb = [c \in Cpus |-> 0]
  /\ aidx = [c \in Cpus |-> 0]
  /\ rpc = [c \in Cpus |-> "idle"]
  /\ rskb = [c \in Cpus |-> 0]
  /\ ridx = [c \in Cpus |-> 0]
  /\ rnew = [c \in Cpus |-> 0]
  /\ lpc = "off"

-----------------------------------------------------------------------------
(***************************************************************************)
(* A definition whose name has the form Action_Mistake is a wrong version  *)
(* of the one that follows it, kept to show that a property below would    *)
(* catch that mistake; no specification uses it.                           *)
(***************************************************************************)

(***************************************************************************)
(* __netdev_alloc_skb_togpu on CPU c.  The hook does not yield its CPU: no *)
(* release takes a step there until it returns.  A hook that returns       *)
(* forgets its locals.                                                     *)
(***************************************************************************)

\* The native allocation, the test of nfgpu_running and that of fragments and
\* size (fits): an SKB that fails either keeps its native buffer.
AllocNative(c, s) ==
  /\ apc[c] = "idle"
  /\ head[s] = 0
  /\ head' = [head EXCEPT ![s] = s]
  /\ \E fits \in BOOLEAN :
       IF nfgpu_running /\ fits
       THEN /\ apc' = [apc EXCEPT ![c] = "scan"]
            /\ askb' = [askb EXCEPT ![c] = s]
       ELSE UNCHANGED <<apc, askb>>
  /\ UNCHANGED <<nfgpu_skbs, nfgpu_next, aidx, relVars, driverVars>>

\* The native allocator returns NULL.  While TOGPU runs the hook dereferences
\* it; otherwise NULL goes to the caller and nothing changes.
AllocNull(c) ==
  /\ NativeMayFail
  /\ apc[c] = "idle"
  /\ nfgpu_running
  /\ apc' = [apc EXCEPT ![c] = "oops"]
  /\ UNCHANGED <<poolVars, askb, aidx, relVars, driverVars>>

ScanFree_NoTest(c) ==
  /\ apc[c] = "scan"
  /\ aidx' = [aidx EXCEPT ![c] = nfgpu_next]
  /\ apc' = [apc EXCEPT ![c] = "take"]
  /\ UNCHANGED <<poolVars, askb, relVars, driverVars>>

\* One test of the search loop.  nfgpu_next is past the end only between the
\* increment and the wrap of another CPU; what is read there is any value.
ScanFree(c) ==
  /\ apc[c] = "scan"
  /\ nfgpu_next \in Slots => nfgpu_skbs[nfgpu_next] = 0
  /\ aidx' = [aidx EXCEPT ![c] = nfgpu_next]
  /\ apc' = [apc EXCEPT ![c] = "take"]
  /\ UNCHANGED <<poolVars, askb, relVars, driverVars>>

ScanBusy(c) ==
  /\ apc[c] = "scan"
  /\ nfgpu_next \in Slots => nfgpu_skbs[nfgpu_next] # 0
  /\ nfgpu_next' = nfgpu_next + 1
  /\ aidx' = [aidx EXCEPT ![c] = nfgpu_next + 1]
  /\ apc' = [apc EXCEPT ![c] = "wrap"]
  /\ UNCHANGED <<nfgpu_skbs, head, askb, relVars, driverVars>>

ScanWrap_ToSyncSlot(c) ==
  /\ apc[c] = "wrap"
  /\ nfgpu_next' = IF aidx[c] >= NFGPU_MAX_SKBS THEN 0 ELSE nfgpu_next
  /\ aidx' = [aidx EXCEPT ![c] = 0]
  /\ apc' = [apc EXCEPT ![c] = "scan"]
  /\ UNCHANGED <<nfgpu_skbs, head, askb, relVars, driverVars>>

\* Slot 0 is reserved for the synchronisation with the GPU: wrap to 1.
ScanWrap(c) ==
  /\ apc[c] = "wrap"
  /\ nfgpu_next' = IF aidx[c] >= NFGPU_MAX_SKBS THEN 1 ELSE nfgpu_next
  /\ aidx' = [aidx EXCEPT ![c] = 0]
  /\ apc' = [apc EXCEPT ![c] = "scan"]
  /\ UNCHANGED <<nfgpu_skbs, head, askb, relVars, driverVars>>

\* nfgpu_next is neither locked nor volatile: after the loop the build may
\* reload it or use the copy left in a register.
NextCopies(c) == {aidx[c], nfgpu_next}

TakeSlot(c) ==
  /\ apc[c] = "take"
  /\ \E i \in NextCopies(c) : nfgpu_skbs' = [nfgpu_skbs EXCEPT ![i] = askb[c]]
  /\ apc' = [apc EXCEPT ![c] = "sethead"]
  /\ UNCHANGED <<nfgpu_next, head, askb, aidx, relVars, driverVars>>

SetHead(c) ==
  /\ apc[c] = "sethead"
  /\ \E i \in NextCopies(c) : head' = [head EXCEPT ![askb[c]] = nfgpu_kva + i]
  /\ apc' = [apc EXCEPT ![c] = "idle"]
  /\ askb' = [askb EXCEPT ![c] = 0]
  /\ aidx' = [aidx EXCEPT ![c] = 0]
  /\ UNCHANGED <<nfgpu_skbs, nfgpu_next, relVars, driverVars>>

AllocStep(c) ==
  ScanFree(c) \/ ScanBusy(c) \/ ScanWrap(c) \/ TakeSlot(c) \/ SetHead(c)

-----------------------------------------------------------------------------
(***************************************************************************)
(* skb_release_data_togpu on CPU c.                                        *)
(***************************************************************************)

\* An SKB some other hook is still working on cannot be released.
Busy(s) ==
  \E c \in Cpus : \/ apc[c] # "idle" /\ askb[c] = s
                  \/ rpc[c] # "idle" /\ rskb[c] = s

\* address & NFGPU_MEMORY_MASK: the naturally aligned, pool-sized window of
\* the address space that holds it.
Window(a) == a \div NFGPU_MAX_SKBS

Recognised_WhenRunning(a) ==
  /\ nfgpu_running
  /\ Window(a) = Window(nfgpu_kva)
  /\ a - nfgpu_kva \in Slots

\* The tests of the mask and of the index.  The index is unsigned: a head
\* below nfgpu_kva has a huge one.
Recognised(a) ==
  /\ nfgpu_kva # 0
  /\ Window(a) = Window(nfgpu_kva)
  /\ a - nfgpu_kva \in Slots

\* Both tests.  nfgpu_kva is read once for all of them: nothing in between
\* makes the build read it again.
RelBegin(c, s) ==
  /\ rpc[c] = "idle" /\ apc[c] = "idle"
  /\ head[s] # 0 /\ ~Busy(s)
  /\ rskb' = [rskb EXCEPT ![c] = s]
  /\ IF Recognised(head[s])
     THEN /\ ridx' = [ridx EXCEPT ![c] = head[s] - nfgpu_kva]
          /\ rpc' = [rpc EXCEPT ![c] = "lookup"]
     ELSE /\ rpc' = [rpc EXCEPT ![c] = "native"]
          /\ UNCHANGED ridx
  /\ UNCHANGED <<rnew, poolVars, allocVars, driverVars>>

\* The native buffer of the slot, if it has one.
RelLookup(c) ==
  /\ rpc[c] = "lookup" /\ apc[c] = "idle"
  /\ IF nfgpu_skbs[ridx[c]] # 0
     THEN /\ rnew' = [rnew EXCEPT ![c] = nfgpu_skbs[ridx[c]]]
          /\ rpc' = [rpc EXCEPT ![c] = "restore"]
          /\ UNCHANGED ridx
     ELSE /\ rpc' = [rpc EXCEPT ![c] = "native"]
          /\ ridx' = [ridx EXCEPT ![c] = 0]
          /\ UNCHANGED rnew
  /\ UNCHANGED <<rskb, poolVars, allocVars, driverVars>>

RelRestore(c) ==
  /\ rpc[c] = "restore" /\ apc[c] = "idle"
  /\ head' = [head EXCEPT ![rskb[c]] = rnew[c]]
  /\ rpc' = [rpc EXCEPT ![c] = "free"]
  /\ UNCHANGED <<nfgpu_skbs, nfgpu_next, rskb, ridx, rnew, allocVars, driverVars>>

RelFree_KeepsSlot(c) ==
  /\ rpc[c] = "free" /\ apc[c] = "idle"
  /\ rpc' = [rpc EXCEPT ![c] = "native"]
  /\ ridx' = [ridx EXCEPT ![c] = 0]
  /\ rnew' = [rnew EXCEPT ![c] = 0]
  /\ UNCHANGED <<poolVars, rskb, allocVars, driverVars>>

RelFree(c) ==
  /\ rpc[c] = "free" /\ apc[c] = "idle"
  /\ nfgpu_skbs' = [nfgpu_skbs EXCEPT ![ridx[c]] = 0]
  /\ rpc' = [rpc EXCEPT ![c] = "native"]
  /\ ridx' = [ridx EXCEPT ![c] = 0]
  /\ rnew' = [rnew EXCEPT ![c] = 0]
  /\ UNCHANGED <<nfgpu_next, head, rskb, allocVars, driverVars>>

\* The native skb_release_data frees skb->head.  Freeing an address that the
\* slab allocator did not hand out is a kernel BUG.
RelNative(c) ==
  /\ rpc[c] = "native" /\ apc[c] = "idle"
  /\ IF head[rskb[c]] = rskb[c]
     THEN /\ head' = [head EXCEPT ![rskb[c]] = 0]
          /\ rpc' = [rpc EXCEPT ![c] = "idle"]
          /\ rskb' = [rskb EXCEPT ![c] = 0]
     ELSE /\ rpc' = [rpc EXCEPT ![c] = "oops"]
          /\ UNCHANGED <<head, rskb>>
  /\ UNCHANGED <<nfgpu_skbs, nfgpu_next, ridx, rnew, allocVars, driverVars>>

RelStep(c) == RelLookup(c) \/ RelRestore(c) \/ RelFree(c) \/ RelNative(c)

-----------------------------------------------------------------------------
(***************************************************************************)
(* The launcher's main() and the ioctls it makes.  It can be killed between *)
(* two of them; inside an ioctl it cannot.  One launcher at a time: what    *)
(* nfgpu_open makes of several is the subject of TogpuDevice.               *)
(***************************************************************************)
hookVars == <<poolVars, allocVars, relVars>>

LOpen ==
  /\ lpc = "off"
  /\ lpc' = "opened"
  /\ UNCHANGED <<hookVars, nfgpu_running, nfgpu_kva, mapped>>

\* TOGPU_IOCTL_STOP: unmap, then clear nfgpu_running.
StopUnmap ==
  /\ lpc = "opened"
  /\ mapped' = IF nfgpu_running /\ nfgpu_kva # 0 THEN mapped \ {nfgpu_kva} ELSE mapped
  /\ lpc' = "stopping"
  /\ UNCHANGED <<hookVars, nfgpu_running, nfgpu_kva>>

StopClear_KeepsRunning ==
  /\ lpc = "stopping"
  /\ lpc' = "stopped"
  /\ UNCHANGED <<hookVars, nfgpu_running, nfgpu_kva, mapped>>

StopClear ==
  /\ lpc = "stopping"
  /\ nfgpu_running' = FALSE
  /\ lpc' = "stopped"
  /\ UNCHANGED <<hookVars, nfgpu_kva, mapped>>

\* vmap() maps at an address clear of the mappings that are left.
Clear(b) == \A m \in mapped : b - m \notin Slots /\ m - b \notin Slots

SetBuffers_ClearsTable ==
  /\ lpc = "stopped"
  /\ \E b \in VmapBases : /\ Clear(b)
                          /\ nfgpu_kva' = b
                          /\ mapped' = mapped \cup {b}
  /\ nfgpu_skbs' = [i \in Slots |-> 0]
  /\ lpc' = "mapped"
  /\ UNCHANGED <<nfgpu_next, head, allocVars, relVars, nfgpu_running>>

\* TOGPU_IOCTL_SET_BUFFERS: nfgpu_skbs is left as it is, so that SKBs lent
\* under an earlier launch can still be recognised.
SetBuffers ==
  /\ lpc = "stopped"
  /\ \E b \in VmapBases : /\ Clear(b)
                          /\ nfgpu_kva' = b
                          /\ mapped' = mapped \cup {b}
  /\ lpc' = "mapped"
  /\ UNCHANGED <<hookVars, nfgpu_running>>

\* vmap() failed: nfgpu_kva is 0, then every slot is marked free and the
\* launcher gives up.
SetBuffersFail ==
  /\ lpc = "stopped" /\ VmapMayFail
  /\ nfgpu_kva' = 0
  /\ lpc' = "failed"
  /\ UNCHANGED <<hookVars, nfgpu_running, mapped>>

FailClear ==
  /\ lpc = "failed"
  /\ nfgpu_skbs' = [i \in Slots |-> 0]
  /\ lpc' = "off"
  /\ UNCHANGED <<nfgpu_next, head, allocVars, relVars, nfgpu_running, nfgpu_kva, mapped>>

\* TOGPU_IOCTL_START.
Start ==
  /\ lpc = "mapped"
  /\ nfgpu_running' = TRUE
  /\ lpc' = "started"
  /\ UNCHANGED <<hookVars, nfgpu_kva, mapped>>

\* The launcher ends outside an ioctl: it is killed (the loop of aes_test has
\* no exit) or it found no GPU memory.  nfgpu_release changes nothing here.
Kill ==
  /\ lpc \in {"opened", "stopped", "mapped", "started"}
  /\ lpc' = "off"
  /\ UNCHANGED <<hookVars, nfgpu_running, nfgpu_kva, mapped>>

Launcher ==
  LOpen \/ StopUnmap \/ StopClear \/ SetBuffers \/ SetBuffersFail \/ FailClear \/ Start \/ Kill

-----------------------------------------------------------------------------
Next ==
  \/ \E c \in Allocators :
       \/ \E s \in Skbs : AllocNative(c, s)
       \/ AllocNull(c)
       \/ AllocStep(c)
  \/ \E c \in Cpus : (\E s \in Skbs : RelBegin(c, s)) \/ RelStep(c)
  \/ Launcher

Spec == Init /\ [][Next]_vars

\* A CPU inside a hook keeps executing it, and packets that were delivered are
\* consumed in the end.  Nothing is assumed of the launcher or of the NICs.
Fairness ==
  /\ \A c \in Allocators : WF_vars(AllocStep(c))
  /\ \A c \in Cpus : WF_vars((\E s \in Skbs : RelBegin(c, s)) \/ RelStep(c))

FairSpec == Spec /\ Fairness

-----------------------------------------------------------------------------
(***************************************************************************)
(* Properties.                                                             *)
(***************************************************************************)

\* Two SKBs never have the same data buffer: the hook lends a slot to nobody
\* while an SKB's head still points into it, whatever releases, relaunches
\* and new mappings happen in between (main.c:255 "Find a free slot").
NoSharedHead ==
  \A s, t \in Skbs : s # t /\ head[s] # 0 => head[s] # head[t]

\* When skb_release_data_togpu calls the native release, the SKB has its own
\* native buffer again, not a slot and not the buffer of another SKB
\* (main.c:312 "Continue releasing SKB with original data pointer").
ReleasesOwnBuffer ==
  \A c \in Cpus : rpc[c] = "native" => head[rskb[c]] = rskb[c]

\* Slot 0, through which the driver and the GPU synchronise, is never handed
\* to an SKB, neither in the table nor in an skb->head (main.c:259 "0 is
\* reserved for sync with GPU").
SyncSlotReserved ==
  /\ nfgpu_skbs[0] = 0
  /\ \A s \in Skbs : head[s] \notin VmapBases

\* A slot marked lent is one whose borrower exists and will give it back: it
\* is in use by an SKB, being given to one, or being given back.  Otherwise
\* the slot is lost and the search of main.c:256 has one slot less for ever.
NoLostSlot ==
  \A i \in Slots : nfgpu_skbs[i] # 0 =>
    \/ head[nfgpu_skbs[i]] = nfgpu_kva + i
    \/ \E c \in Cpus :
         \/ apc[c] = "sethead" /\ aidx[c] = i /\ askb[c] = nfgpu_skbs[i]
         \/ rpc[c] = "free" /\ ridx[c] = i /\ rskb[c] = nfgpu_skbs[i]

\* While nfgpu_running is set outside a STOP, nfgpu_kva is a live mapping:
\* hooks never hand out addresses of an unmapped block, and a STOP never
\* unmaps a block twice, over any sequence of launches and kills.
RunningOnlyWhenMapped ==
  nfgpu_running /\ lpc # "stopping" => nfgpu_kva \in mapped

\* The pool implements SlotLending: the stores to nfgpu_skbs in the two hooks
\* are its Lend and Return steps and nothing else changes a lent slot.
Lending == INSTANCE SlotLending WITH
  Slots   <- Slots \ {0},
  Buffers <- Skbs,
  None    <- 0,
  lent    <- [i \in Slots \ {0} |-> nfgpu_skbs[i]]

ImplementsSlotLending == Lending!Spec

\* The search for a slot ends, even when it started with the pool exhausted,
\* as soon as other CPUs keep releasing SKBs (main.c:258 "Wait forever till
\* memory is available").
AllocationReturns ==
  \A c \in Allocators :
    apc[c] \in {"scan", "wrap", "take", "sethead"} ~> apc[c] = "idle"

=============================================================================
