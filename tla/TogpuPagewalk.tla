---------------------------- MODULE TogpuPagewalk ----------------------------
(***************************************************************************)
(* walk_page of xt_TOGPU_pagewalk.c as nfgpu_set_mempool calls it, with    *)
(* pte_entry = nfgpu_skb_pte_process for its only callback: it collects    *)
(* the pages of the launcher's block from a page table of four levels.     *)
(*                                                                         *)
(* Addresses are page numbers: the block, from cudaHostAlloc, begins and   *)
(* ends at a page.  Level 3 is the PGD, 2 a PUD, 1 a PMD, 0 a page of PTEs; *)
(* a table has Fan entries, so that an entry of level l spans Fan^l pages. *)
(* The caller waits in the ioctl and its pages are pinned: only the walk    *)
(* itself changes the tables, when it splits a huge page.                  *)
(* A name of the form Action_Mistake is a wrong version of the definition  *)
(* that follows, to show that a property catches the mistake.              *)
(***************************************************************************)
EXTENDS Integers, Sequences

CONSTANTS
  Fan,          \* entries of a table
  Blocks,       \* the blocks a launcher may hand over: <<addr, end>>
  Holes,        \* level -> the entries of that level that may be empty
  Huge,         \* the PMD entries that may be huge pages
  Absent        \* the pages that may be swapped out or never touched

ASSUME PagewalkAssumption ==
  /\ Fan \in Nat \ {0}
  /\ \A b \in Blocks : b \in Nat \X Nat
  /\ Holes \in [1 .. 3 -> SUBSET Nat] /\ Huge \subseteq Nat /\ Absent \subseteq Nat

VARIABLES
  block, none, absent,  \* the block; its empty entries and absent pages (fixed)
  huge,                 \* the PMD entries that are huge pages
  pc, lvl,              \* the step, and the level of the function running
  addr, end,            \* level -> its addr, and the end it was called with
  nfgpu_pages           \* the pages collected

vars == <<block, none, absent, huge, pc, lvl, addr, end, nfgpu_pages>>
table == <<block, none, absent>>

TypeOK ==
  /\ block \in Blocks
  /\ none \in [1 .. 3 -> SUBSET Nat]
  /\ absent \subseteq Absent /\ huge \subseteq Huge
  /\ pc \in {"call", "entry", "check", "pte", "return", "done"}
  /\ lvl \in 0 .. 3
  /\ addr \in [0 .. 3 -> Nat] /\ end \in [0 .. 3 -> Nat]
  /\ \A l \in 0 .. 3 : addr[l] <= end[l]
  /\ nfgpu_pages \in Seq(Nat)

Init ==
  /\ block \in Blocks
  /\ none \in [1 .. 3 -> SUBSET UNION {Holes[l] : l \in 1 .. 3}]
  /\ \A l \in 1 .. 3 : none[l] \subseteq Holes[l]
  /\ huge \in SUBSET Huge /\ absent \in SUBSET Absent
  /\ pc = "call" /\ lvl = 3
  /\ addr = [l \in 0 .. 3 |-> 0] /\ end = [l \in 0 .. 3 |-> 0]
  /\ nfgpu_pages = <<>>

-----------------------------------------------------------------------------
Span(l) == <<Fan, Fan * Fan, Fan * Fan * Fan>>[l]

\* The number of the entry of level l that covers page x.  The levels with
\* tables below them are 1 to 3.
Entry(l, x) == x \div Span(l)

AddrEnd_NoLimit(l, x, limit) == (Entry(l, x) + 1) * Span(l)

\* pgd_addr_end, pud_addr_end, pmd_addr_end: where the entry ends, or the walk.
AddrEnd(l, x, limit) ==
  IF (Entry(l, x) + 1) * Span(l) < limit THEN (Entry(l, x) + 1) * Span(l) ELSE limit

NextAddr(l) == AddrEnd(l, addr[l], end[l])

Empty(l) == Entry(l, addr[l]) \in none[l]

\* The test at the end of each do-loop, addr = next: it goes on or returns.
Continue(l, next) ==
  /\ addr' = [addr EXCEPT ![l] = next]
  /\ lvl' = l
  /\ pc' = IF next = end[l] THEN "return" ELSE "entry"

\* A call of the function of level l.
Down(l, from, to) ==
  /\ addr' = [addr EXCEPT ![l] = from]
  /\ end' = [end EXCEPT ![l] = to]
  /\ lvl' = l

\* walk_page: an empty range is no work.
WalkPage ==
  /\ pc = "call"
  /\ IF block[1] >= block[2]
     THEN pc' = "done" /\ UNCHANGED <<addr, end, lvl>>
     ELSE pc' = "entry" /\ Down(3, block[1], block[2])
  /\ UNCHANGED <<table, huge, nfgpu_pages>>

\* An empty entry, at any level, is skipped: there is no pte_hole.
WalkHole ==
  /\ pc = "entry" /\ Empty(lvl)
  /\ Continue(lvl, NextAddr(lvl))
  /\ UNCHANGED <<table, huge, end, nfgpu_pages>>

\* walk_page and walk_pud_range, an entry that is not empty.
WalkTable ==
  /\ pc = "entry" /\ lvl \in {2, 3} /\ ~Empty(lvl)
  /\ Down(lvl - 1, addr[lvl], NextAddr(lvl))
  /\ UNCHANGED <<table, huge, pc, nfgpu_pages>>

SplitHuge_Missing ==
  /\ pc = "entry" /\ lvl = 1 /\ ~Empty(1)
  /\ pc' = "check"
  /\ UNCHANGED <<table, huge, lvl, addr, end, nfgpu_pages>>

\* walk_pmd_range: split_huge_page_pmd.
SplitHuge ==
  /\ pc = "entry" /\ lvl = 1 /\ ~Empty(1)
  /\ huge' = huge \ {Entry(1, addr[1])}
  /\ pc' = "check"
  /\ UNCHANGED <<table, lvl, addr, end, nfgpu_pages>>

\* pmd_none_or_trans_huge_or_clear_bad: "goto again", or down to the PTEs.
CheckHuge ==
  /\ pc = "check"
  /\ IF Entry(1, addr[1]) \in huge
     THEN pc' = "entry" /\ UNCHANGED <<addr, end, lvl>>
     ELSE pc' = "pte" /\ Down(0, addr[1], NextAddr(1))
  /\ UNCHANGED <<table, huge, nfgpu_pages>>

WalkPte_AnyPte ==
  /\ pc = "pte"
  /\ nfgpu_pages' = Append(nfgpu_pages, addr[0])
  /\ addr' = [addr EXCEPT ![0] = @ + 1]
  /\ pc' = IF addr[0] + 1 = end[0] THEN "return" ELSE "pte"
  /\ UNCHANGED <<table, huge, lvl, end>>

\* walk_pte_range: nfgpu_skb_pte_process, and on to the next PTE.
WalkPte ==
  /\ pc = "pte"
  /\ nfgpu_pages' = IF addr[0] \in absent THEN nfgpu_pages
                    ELSE Append(nfgpu_pages, addr[0])
  /\ addr' = [addr EXCEPT ![0] = @ + 1]
  /\ pc' = IF addr[0] + 1 = end[0] THEN "return" ELSE "pte"
  /\ UNCHANGED <<table, huge, lvl, end>>

\* A function returns to the loop of the level above.
WalkReturn ==
  /\ pc = "return"
  /\ IF lvl = 3 THEN pc' = "done" /\ UNCHANGED <<addr, lvl>>
     ELSE Continue(lvl + 1, end[lvl])
  /\ UNCHANGED <<table, huge, end, nfgpu_pages>>

WalkStep ==
  WalkPage \/ WalkHole \/ WalkTable \/ SplitHuge \/ CheckHuge \/ WalkPte \/ WalkReturn

Next == WalkStep

\* The ioctl keeps running.
Spec == Init /\ [][Next]_vars /\ WF_vars(WalkStep)

-----------------------------------------------------------------------------
(***************************************************************************)
(* Properties.                                                             *)
(***************************************************************************)

\* A page the launcher can reach without a fault.
Mapped(x) == x \notin absent /\ \A l \in 1 .. 3 : Entry(l, x) \notin none[l]

\* How far the walk has come: where the level that runs is.
Cursor == IF pc = "call" THEN block[1]
          ELSE IF pc = "done" THEN block[2] ELSE addr[lvl]

\* At every moment the pages collected are those of the block before the
\* cursor that are mapped, each once and in order: holes, huge pages and the
\* boundaries of tables at any level lose, add or repeat none (pagewalk.c:194
\* "Callbacks are called in-order").  So in a block that is all mapped, as
\* pinned memory is, page i of the kernel's mapping is page i of the block,
\* where the GPU looks for slot i (kernel.cu:1758).
CollectsMappedPages ==
  /\ {nfgpu_pages[i] : i \in DOMAIN nfgpu_pages} = {x \in block[1] .. Cursor - 1 : Mapped(x)}
  /\ \A i, j \in DOMAIN nfgpu_pages : i < j => nfgpu_pages[i] < nfgpu_pages[j]

\* The walk ends, huge pages or not (pagewalk.c:61 "again").
WalkTerminates == <>(pc = "done")

=============================================================================
