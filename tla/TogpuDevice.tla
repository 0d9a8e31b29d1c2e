----------------------------- MODULE TogpuDevice -----------------------------
(***************************************************************************)
(* The device /dev/togpu: who may hold it (nfgpu_open, nfgpu_release) and  *)
(* the exchange of a memory block (nfgpu_set_mempool), for processes that  *)
(* open, map and close it at any time.                                     *)
(*                                                                         *)
(* nfgpu_open counts on the atomic nfgpu_av being 1 when the device is     *)
(* free; it decrements, and puts back what it took when it gets no 0.      *)
(* nfgpu_release stores 1.  SET_BUFFERS collects the pages of the caller's *)
(* block in the global array nfgpu_pages and maps them, under nfgpu_slock. *)
(* A name of the form Action_Mistake is a wrong version of the action that *)
(* follows, to show that a property catches the mistake.                   *)
(***************************************************************************)
EXTENDS Integers

CONSTANTS
  Procs,           \* the processes
  None,            \* no process
  NFGPU_MAX_PAGES, \* the size of the array nfgpu_pages
  Sizes            \* the pages the block of a process may span

ASSUME DeviceAssumption ==
  /\ None \notin Procs
  /\ NFGPU_MAX_PAGES \in Nat \ {0}
  /\ Sizes \subseteq Nat

Pages == 0 .. NFGPU_MAX_PAGES - 1

VARIABLES
  nfgpu_av,       \* 1 when the device is free
  nfgpu_slock,    \* the process inside nfgpu_set_mempool, or None
  nfgpu_uva,      \* the process whose block is to be mapped, or None
  nfgpu_size,     \* the pages of that block
  nfgpu_npages,   \* pages collected so far
  nfgpu_pages,    \* page -> the process it belongs to; what a store past the
                  \* array hits is in its domain too
  nfgpu_kva,      \* the mapping: page -> the process it belongs to
  left,           \* the pages of its block a process has still to walk
  pc

poolVars == <<nfgpu_slock, nfgpu_uva, nfgpu_size, nfgpu_npages, nfgpu_pages, nfgpu_kva, left>>
vars == <<nfgpu_av, poolVars, pc>>

Unmapped == [k \in {} |-> None]  \* nfgpu_kva = 0

Phases == {"closed", "undo", "open", "walk", "vmap", "unlock"}

TypeOK ==
  /\ nfgpu_av \in Int
  /\ nfgpu_slock \in Procs \cup {None}
  /\ nfgpu_uva \in Procs \cup {None}
  /\ nfgpu_size \in Nat
  /\ nfgpu_npages \in Nat
  /\ DOMAIN nfgpu_pages \subseteq Nat
  /\ nfgpu_pages \in [DOMAIN nfgpu_pages -> Procs \cup {None}]
  /\ DOMAIN nfgpu_kva \subseteq Nat
  /\ nfgpu_kva \in [DOMAIN nfgpu_kva -> Procs \cup {None}]
  /\ left \in [Procs -> Nat]
  /\ pc \in [Procs -> Phases]

Init ==
  /\ nfgpu_av = 1
  /\ nfgpu_slock = None /\ nfgpu_uva = None
  /\ nfgpu_size = 0 /\ nfgpu_npages = 0
  /\ nfgpu_pages = [k \in Pages |-> None]
  /\ nfgpu_kva = Unmapped
  /\ left = [p \in Procs |-> 0]
  /\ pc = [p \in Procs |-> "closed"]

\* nfgpu_open: atomic_dec_and_test, and atomic_inc if that gave no 0.
OpenDec(p) ==
  /\ pc[p] = "closed"
  /\ nfgpu_av' = nfgpu_av - 1
  /\ pc' = [pc EXCEPT ![p] = IF nfgpu_av - 1 = 0 THEN "open" ELSE "undo"]
  /\ UNCHANGED poolVars

OpenUndo(p) ==
  /\ pc[p] = "undo"
  /\ nfgpu_av' = nfgpu_av + 1
  /\ pc' = [pc EXCEPT ![p] = "closed"]
  /\ UNCHANGED poolVars

\* nfgpu_release, on close and on the death of the process.
Release(p) ==
  /\ pc[p] = "open"
  /\ nfgpu_av' = 1
  /\ pc' = [pc EXCEPT ![p] = "closed"]
  /\ UNCHANGED poolVars

SetBuffersLock_Missing(p) ==
  /\ pc[p] = "open"
  /\ nfgpu_slock' = p
  /\ nfgpu_uva' = p
  /\ \E n \in Sizes : nfgpu_size' = n /\ left' = [left EXCEPT ![p] = n]
  /\ nfgpu_npages' = 0
  /\ pc' = [pc EXCEPT ![p] = "walk"]
  /\ UNCHANGED <<nfgpu_av, nfgpu_pages, nfgpu_kva>>

SetBuffersLock_KeepsCount(p) ==
  /\ pc[p] = "open"
  /\ nfgpu_slock = None
  /\ nfgpu_slock' = p
  /\ nfgpu_uva' = p
  /\ \E n \in Sizes : nfgpu_size' = n /\ left' = [left EXCEPT ![p] = n]
  /\ pc' = [pc EXCEPT ![p] = "walk"]
  /\ UNCHANGED <<nfgpu_av, nfgpu_npages, nfgpu_pages, nfgpu_kva>>

\* nfgpu_set_mempool up to the walk of the pages: the spin lock, then the
\* description of the block.  Its size is what the caller says.
SetBuffersLock(p) ==
  /\ pc[p] = "open"
  /\ nfgpu_slock = None
  /\ nfgpu_slock' = p
  /\ nfgpu_uva' = p
  /\ \E n \in Sizes : nfgpu_size' = n /\ left' = [left EXCEPT ![p] = n]
  /\ nfgpu_npages' = 0
  /\ pc' = [pc EXCEPT ![p] = "walk"]
  /\ UNCHANGED <<nfgpu_av, nfgpu_pages, nfgpu_kva>>

\* nfgpu_skb_pte_process for the next page of the caller's block: a page that is
\* present is stored at nfgpu_npages, wherever that is.
PteProcess(p) ==
  /\ pc[p] = "walk" /\ left[p] > 0
  /\ nfgpu_pages' = [k \in DOMAIN nfgpu_pages \cup {nfgpu_npages} |->
                       IF k = nfgpu_npages THEN p ELSE nfgpu_pages[k]]
  /\ nfgpu_npages' = nfgpu_npages + 1
  /\ left' = [left EXCEPT ![p] = left[p] - 1]
  /\ UNCHANGED <<nfgpu_av, nfgpu_slock, nfgpu_uva, nfgpu_size, nfgpu_kva, pc>>

\* A page that is swapped out or not there is passed over.
PteAbsent(p) ==
  /\ pc[p] = "walk" /\ left[p] > 0
  /\ left' = [left EXCEPT ![p] = left[p] - 1]
  /\ UNCHANGED <<nfgpu_av, nfgpu_slock, nfgpu_uva, nfgpu_size, nfgpu_npages, nfgpu_pages,
                 nfgpu_kva, pc>>

WalkEnds(p) ==
  /\ pc[p] = "walk" /\ left[p] = 0
  /\ pc' = [pc EXCEPT ![p] = "vmap"]
  /\ UNCHANGED <<nfgpu_av, poolVars>>

\* vmap() of the pages collected, or its failure.  Of no pages it fails.
Vmap(p) ==
  /\ pc[p] = "vmap"
  /\ nfgpu_kva' \in {[k \in 0 .. nfgpu_npages - 1 |-> nfgpu_pages[k]], Unmapped}
  /\ pc' = [pc EXCEPT ![p] = "unlock"]
  /\ UNCHANGED <<nfgpu_av, nfgpu_slock, nfgpu_uva, nfgpu_size, nfgpu_npages, nfgpu_pages, left>>

Unlock(p) ==
  /\ pc[p] = "unlock"
  /\ nfgpu_slock' = None
  /\ pc' = [pc EXCEPT ![p] = "open"]
  /\ UNCHANGED <<nfgpu_av, nfgpu_uva, nfgpu_size, nfgpu_npages, nfgpu_pages, nfgpu_kva, left>>

Step(p) ==
  \/ OpenDec(p) \/ OpenUndo(p) \/ Release(p)
  \/ SetBuffersLock(p) \/ PteProcess(p) \/ PteAbsent(p) \/ WalkEnds(p) \/ Vmap(p) \/ Unlock(p)

Next == \E p \in Procs : Step(p)

Spec == Init /\ [][Next]_vars

\* The kernel mapping is made of the pages of one process only, that of the
\* block nfgpu_uva and nfgpu_size describe, and of no more pages than that
\* block has, even when processes that got the device together set their
\* buffers at the same time (main.c:384 "Avoid reentrances").
MappingOfOneProcess ==
  nfgpu_slock = None =>
    \A k \in DOMAIN nfgpu_kva : nfgpu_kva[k] = nfgpu_uva /\ k < nfgpu_size

\* nfgpu_skb_pte_process, which checks no bound, stores nothing behind the
\* array nfgpu_pages (main.c:352), over any sequence of buffers set by any
\* processes, as long as no block spans more pages than the array has: the
\* launcher's has exactly as many (launcher.c:109 NFGPU_MAX_MEMORY).
PagesFit == DOMAIN nfgpu_pages = Pages

=============================================================================
