------------------------- MODULE TogpuPagewalkProofs -------------------------
(***************************************************************************)
(* The page walk collects the mapped pages of the block, in order, for     *)
(* tables of any size, any block, any holes and any huge pages.            *)
(***************************************************************************)
EXTENDS TogpuPagewalk, TLAPS

\* The functions that have been called and not returned are those of the
\* levels from lvl on.  Each but the one that runs waits at an entry that is
\* not empty, and the one below it walks the part of the block in that entry.
Nested ==
  pc \in {"entry", "check", "pte", "return"} =>
    /\ block[1] <= addr[3] /\ end[3] = block[2]
    /\ \A l \in 0 .. 2 : lvl <= l =>
         /\ addr[l + 1] < end[l + 1] /\ ~Empty(l + 1)
         /\ end[l] = NextAddr(l + 1)
         /\ addr[l + 1] <= addr[l]

\* What the step in hand has found out about the entry it is at.
AtStep ==
  /\ pc = "call"   => lvl = 3 /\ nfgpu_pages = <<>>
  /\ pc = "entry"  => lvl # 0 /\ addr[lvl] < end[lvl]
  /\ pc = "check"  => lvl = 1 /\ addr[1] < end[1] /\ ~Empty(1)
  /\ pc = "pte"    => lvl = 0 /\ addr[0] < end[0]
  /\ pc = "return" => addr[lvl] = end[lvl]

WalkInv == TypeOK /\ Nested /\ AtStep

PagesInv == WalkInv /\ CollectsMappedPages

-----------------------------------------------------------------------------
\* An entry of any level spans at least one page.
LEMMA SpanType == \A l \in 1 .. 3 : Span(l) \in Nat \ {0}
<1>1. Fan * Fan \in Nat \ {0} /\ Fan * Fan * Fan \in Nat \ {0}
  BY PagewalkAssumption
<1> QED
  BY <1>1, PagewalkAssumption DEF Span

\* pgd_addr_end and its like give a page after addr and not after the end of
\* the range: the do-loops advance, and stop exactly at their end.
LEMMA AddrEndAhead ==
  ASSUME NEW l \in 1 .. 3, NEW x \in Nat, NEW limit \in Nat, x < limit
  PROVE  AddrEnd(l, x, limit) \in Nat /\ x < AddrEnd(l, x, limit) /\ AddrEnd(l, x, limit) <= limit
<1> DEFINE S == Span(l)
           e == (x \div S + 1) * S
<1>1. S \in Nat \ {0}
  BY SpanType
<1> HIDE DEF S
<1>2. e \in Nat /\ x < e
  BY <1>1
<1>3. AddrEnd(l, x, limit) = IF e < limit THEN e ELSE limit
  BY DEF AddrEnd, Entry, S
<1> HIDE DEF e
<1> QED
  BY <1>2, <1>3

\* The same of a function that is at addr[l] of its range.
LEMMA NextAddrAhead ==
  ASSUME TypeOK, NEW l \in 1 .. 3, addr[l] < end[l]
  PROVE  NextAddr(l) \in Nat /\ addr[l] < NextAddr(l) /\ NextAddr(l) <= end[l]
<1>1. addr[l] \in Nat /\ end[l] \in Nat
  BY DEF TypeOK
<1> QED
  BY <1>1, AddrEndAhead DEF NextAddr

\* The pages from addr to there are all in the entry of addr.
LEMMA SameEntry ==
  ASSUME NEW l \in 1 .. 3, NEW x \in Nat, NEW limit \in Nat, NEW y \in Nat,
         x <= y, y < AddrEnd(l, x, limit)
  PROVE  Entry(l, y) = Entry(l, x)
<1> DEFINE S == Span(l)
           e == (x \div S + 1) * S
<1>1. S \in Nat \ {0}
  BY SpanType
<1>2. AddrEnd(l, x, limit) = IF e < limit THEN e ELSE limit
  BY DEF AddrEnd, Entry
<1> HIDE DEF S
<1>3. e \in Nat
  BY <1>1
<1> HIDE DEF e
<1>4. y < e
  BY <1>2, <1>3
<1> USE DEF e
<1>5. y \div S = x \div S
  BY <1>1, <1>4
<1> QED
  BY <1>5 DEF Entry, S

-----------------------------------------------------------------------------
\* The ioctl starts the walk at the PGD with nothing collected.
LEMMA InitWalk == Init => PagesInv
<1> SUFFICES ASSUME Init PROVE PagesInv
  OBVIOUS
<1>1. none \in [1 .. 3 -> SUBSET Nat]
  BY PagewalkAssumption DEF Init
<1>2. WalkInv
  BY <1>1, PagewalkAssumption DEF Init, WalkInv, TypeOK, Nested, AtStep
<1>3. block[1] \in Nat /\ block[2] \in Nat
  BY PagewalkAssumption DEF Init
<1>4. CollectsMappedPages
  BY <1>3 DEF Init, CollectsMappedPages, Cursor
<1> QED
  BY <1>2, <1>4 DEF PagesInv

\* No step loses the thread of the nested loops.
LEMMA StepWalk == WalkInv /\ [Next]_vars => WalkInv'
<1> SUFFICES ASSUME WalkInv, [Next]_vars PROVE WalkInv'
  OBVIOUS
<1> USE DEF WalkInv
<1>0. block[1] \in Nat /\ block[2] \in Nat
  BY PagewalkAssumption DEF TypeOK
<1>1. CASE WalkPage
  <2>1. TypeOK'
    <3>1. /\ addr' \in [0 .. 3 -> Nat] /\ end' \in [0 .. 3 -> Nat]
          /\ \A l \in 0 .. 3 : addr'[l] <= end'[l]
      BY <1>0, <1>1, SMTT(30) DEF WalkPage, Down, TypeOK
    <3>2. pc' \in {"entry", "done"} /\ lvl' \in 0 .. 3
      BY <1>1 DEF WalkPage, Down, TypeOK
    <3>3. UNCHANGED <<block, none, absent, huge, nfgpu_pages>>
      BY <1>1 DEF WalkPage, table
    <3> QED
      BY <3>1, <3>2, <3>3 DEF TypeOK
  <2>2. Nested'
    <3>1. pc' = "entry" => lvl' = 3 /\ addr'[3] = block[1] /\ end'[3] = block[2]
      BY <1>1 DEF WalkPage, Down, TypeOK
    <3>2. pc' \in {"entry", "done"} /\ block' = block
      BY <1>1 DEF WalkPage, table
    <3> QED
      BY <3>1, <3>2, <1>0 DEF Nested
  <2>3. AtStep'
    BY <1>0, <1>1, SMTT(30) DEF WalkPage, Down, TypeOK, AtStep
  <2> QED
    BY <2>1, <2>2, <2>3
<1>2. CASE WalkHole
  <2>0. lvl \in 1 .. 3 /\ pc = "entry" /\ addr[lvl] < end[lvl]
    BY <1>2 DEF WalkHole, TypeOK, AtStep
  <2> DEFINE n == NextAddr(lvl)
  <2>b. n \in Nat /\ addr[lvl] < n /\ n <= end[lvl]
    BY <2>0, NextAddrAhead
  <2>1. /\ addr' = [addr EXCEPT ![lvl] = n] /\ lvl' = lvl
        /\ pc' = (IF n = end[lvl] THEN "return" ELSE "entry")
        /\ UNCHANGED <<block, none, absent, huge, end, nfgpu_pages>>
    BY <1>2 DEF WalkHole, Continue, table
  <2> HIDE DEF n
  <2>2. TypeOK'
    BY <2>0, <2>b, <2>1 DEF TypeOK
  <2>3. Nested'
    <3>1. block[1] <= addr'[3] /\ end'[3] = block[2]
      BY <2>0, <2>b, <2>1, <1>0 DEF Nested, TypeOK
    <3> SUFFICES ASSUME NEW l \in 0 .. 2, lvl <= l
                 PROVE  /\ addr'[l + 1] < end'[l + 1] /\ ~Empty(l + 1)'
                        /\ end'[l] = NextAddr(l + 1)'
                        /\ addr'[l + 1] <= addr'[l]
      BY <3>1, <2>1 DEF Nested
    <3>2. NextAddr(l + 1)' = NextAddr(l + 1) /\ Empty(l + 1)' = Empty(l + 1)
      BY <2>0, <2>1 DEF NextAddr, Empty, TypeOK
    <3> QED
      BY <3>2, <2>0, <2>b, <2>1 DEF Nested, TypeOK
  <2>4. AtStep'
    <3>1. addr'[lvl'] = n /\ end'[lvl'] = end[lvl] /\ lvl' # 0
      BY <2>0, <2>1 DEF TypeOK
    <3>2. pc' = "entry" => addr'[lvl'] < end'[lvl']
      BY <2>0, <2>b, <2>1, <3>1 DEF TypeOK
    <3> QED
      BY <2>1, <3>1, <3>2 DEF AtStep
  <2> QED
    BY <2>2, <2>3, <2>4
<1>3. CASE WalkTable
  <2>0. lvl \in 2 .. 3 /\ pc = "entry" /\ addr[lvl] < end[lvl] /\ ~Empty(lvl)
    BY <1>3 DEF WalkTable, TypeOK, AtStep
  <2> DEFINE n == NextAddr(lvl)
  <2>b. n \in Nat /\ addr[lvl] < n /\ n <= end[lvl]
    BY <2>0, NextAddrAhead
  <2>1. /\ addr' = [addr EXCEPT ![lvl - 1] = addr[lvl]]
        /\ end' = [end EXCEPT ![lvl - 1] = n] /\ lvl' = lvl - 1
        /\ UNCHANGED <<block, none, absent, huge, pc, nfgpu_pages>>
    BY <1>3 DEF WalkTable, Down, table
  <2>n. n = NextAddr(lvl)
    OBVIOUS
  <2> HIDE DEF n
  <2>2. TypeOK'
    <3>1. /\ addr' \in [0 .. 3 -> Nat] /\ end' \in [0 .. 3 -> Nat]
          /\ \A l \in 0 .. 3 : addr'[l] <= end'[l]
      BY <2>0, <2>b, <2>1, SMTT(30) DEF TypeOK
    <3> QED
      BY <2>0, <2>1, <3>1, SMTT(30) DEF TypeOK
  <2>3. Nested'
    <3>1. block[1] <= addr'[3] /\ end'[3] = block[2]
      BY <2>0, <2>1 DEF Nested, TypeOK
    <3> SUFFICES ASSUME NEW l \in 0 .. 2, lvl - 1 <= l
                 PROVE  /\ addr'[l + 1] < end'[l + 1] /\ ~Empty(l + 1)'
                        /\ end'[l] = NextAddr(l + 1)'
                        /\ addr'[l + 1] <= addr'[l]
      BY <3>1, <2>1 DEF Nested
    <3>2. NextAddr(l + 1)' = NextAddr(l + 1) /\ Empty(l + 1)' = Empty(l + 1)
      BY <2>0, <2>1 DEF NextAddr, Empty, TypeOK
    <3> QED
      BY <3>2, <2>0, <2>b, <2>n, <2>1, SMTT(30) DEF Nested, TypeOK
  <2>4. AtStep'
    BY <2>0, <2>b, <2>1 DEF AtStep, TypeOK
  <2> QED
    BY <2>2, <2>3, <2>4
<1>4. CASE SplitHuge
  BY <1>4 DEF SplitHuge, table, Empty, NextAddr, TypeOK, Nested, AtStep
<1>5. CASE CheckHuge
  <2>0. lvl = 1 /\ pc = "check" /\ addr[1] < end[1] /\ ~Empty(1)
    BY <1>5 DEF CheckHuge, AtStep
  <2>1. CASE Entry(1, addr[1]) \in huge
    BY <1>5, <2>0, <2>1 DEF CheckHuge, table, Empty, NextAddr, TypeOK, Nested, AtStep
  <2>2. CASE Entry(1, addr[1]) \notin huge
    <3> DEFINE n == NextAddr(1)
    <3>b. n \in Nat /\ addr[1] < n /\ n <= end[1]
      BY <2>0, NextAddrAhead
    <3>1. /\ addr' = [addr EXCEPT ![0] = addr[1]]
          /\ end' = [end EXCEPT ![0] = n] /\ lvl' = 0 /\ pc' = "pte"
          /\ UNCHANGED <<block, none, absent, huge, nfgpu_pages>>
      BY <1>5, <2>2 DEF CheckHuge, Down, table
    <3>n. n = NextAddr(1)
      OBVIOUS
    <3> HIDE DEF n
    <3>2. TypeOK'
      <4>1. /\ addr' \in [0 .. 3 -> Nat] /\ end' \in [0 .. 3 -> Nat]
            /\ \A l \in 0 .. 3 : addr'[l] <= end'[l]
        BY <2>0, <3>b, <3>1 DEF TypeOK
      <4> QED
        BY <3>1, <4>1 DEF TypeOK
    <3>3. Nested'
      <4>1. block[1] <= addr'[3] /\ end'[3] = block[2]
        BY <2>0, <3>1 DEF Nested, TypeOK
      <4> SUFFICES ASSUME NEW l \in 0 .. 2
                   PROVE  /\ addr'[l + 1] < end'[l + 1] /\ ~Empty(l + 1)'
                          /\ end'[l] = NextAddr(l + 1)'
                          /\ addr'[l + 1] <= addr'[l]
        BY <4>1, <3>1 DEF Nested
      <4>2. NextAddr(l + 1)' = NextAddr(l + 1) /\ Empty(l + 1)' = Empty(l + 1)
        BY <3>1 DEF NextAddr, Empty, TypeOK
      <4> QED
        BY <4>2, <2>0, <3>b, <3>n, <3>1 DEF Nested, TypeOK
    <3>4. AtStep'
      BY <2>0, <3>b, <3>1 DEF AtStep, TypeOK
    <3> QED
      BY <3>2, <3>3, <3>4
  <2> QED
    BY <2>1, <2>2
<1>6. CASE WalkPte
  BY <1>6, SMTT(30) DEF WalkPte, NextAddr, table, Empty, TypeOK, Nested, AtStep
<1>7. CASE WalkReturn
  <2>0. pc = "return" /\ addr[lvl] = end[lvl] /\ lvl \in 0 .. 3
    BY <1>7 DEF WalkReturn, TypeOK, AtStep
  <2>1. CASE lvl = 3
    BY <1>7, <2>0, <2>1 DEF WalkReturn, table, TypeOK, Nested, AtStep
  <2>2. CASE lvl # 3
    <3>0. /\ addr[lvl + 1] < end[lvl + 1] /\ end[lvl] = NextAddr(lvl + 1)
          /\ end[lvl] \in Nat /\ lvl + 1 \in 1 .. 3
      BY <2>0, <2>2 DEF Nested, TypeOK
    <3> DEFINE n == end[lvl]
    <3>b. n \in Nat /\ addr[lvl + 1] < n /\ n <= end[lvl + 1]
      BY <3>0, NextAddrAhead
    <3>1. /\ addr' = [addr EXCEPT ![lvl + 1] = n] /\ lvl' = lvl + 1
          /\ pc' = (IF n = end[lvl + 1] THEN "return" ELSE "entry")
          /\ UNCHANGED <<block, none, absent, huge, end, nfgpu_pages>>
      BY <1>7, <2>2 DEF WalkReturn, Continue, table
    <3> HIDE DEF n
    <3>2. TypeOK'
      <4>1. addr' \in [0 .. 3 -> Nat] /\ \A l \in 0 .. 3 : addr'[l] <= end'[l]
        BY <2>0, <3>0, <3>b, <3>1 DEF TypeOK
      <4> QED
        BY <3>0, <3>1, <4>1, SMTT(30) DEF TypeOK
    <3>3. Nested'
      <4>1. block[1] <= addr'[3] /\ end'[3] = block[2]
        BY <2>0, <2>2, <3>b, <3>1, <1>0 DEF Nested, TypeOK
      <4> SUFFICES ASSUME NEW l \in 0 .. 2, lvl + 1 <= l
                   PROVE  /\ addr'[l + 1] < end'[l + 1] /\ ~Empty(l + 1)'
                          /\ end'[l] = NextAddr(l + 1)'
                          /\ addr'[l + 1] <= addr'[l]
        BY <4>1, <3>1 DEF Nested
      <4>2. NextAddr(l + 1)' = NextAddr(l + 1) /\ Empty(l + 1)' = Empty(l + 1)
        BY <2>0, <3>1 DEF NextAddr, Empty, TypeOK
      <4> QED
        BY <4>2, <2>0, <3>b, <3>1, SMTT(30) DEF Nested, TypeOK
    <3>4. AtStep'
      <4>1. addr'[lvl'] = n /\ end'[lvl'] = end[lvl + 1] /\ lvl' # 0
        BY <2>0, <3>0, <3>1 DEF TypeOK
      <4>2. pc' = "entry" => addr'[lvl'] < end'[lvl']
        BY <3>0, <3>b, <3>1, <4>1 DEF TypeOK
      <4> QED
        BY <3>1, <4>1, <4>2 DEF AtStep
    <3> QED
      BY <3>2, <3>3, <3>4
  <2> QED
    BY <2>1, <2>2
<1>8. CASE UNCHANGED vars
  BY <1>8 DEF vars, NextAddr, Empty, TypeOK, Nested, AtStep
<1> QED
  BY <1>1, <1>2, <1>3, <1>4, <1>5, <1>6, <1>7, <1>8 DEF Next, WalkStep

-----------------------------------------------------------------------------
\* What the pages collected say does not change while the cursor moves over
\* pages that are not mapped.
LEMMA NothingCollected ==
  ASSUME PagesInv, UNCHANGED <<block, none, absent, nfgpu_pages>>,
         block[1] \in Nat, Cursor \in Nat, Cursor' \in Nat,
         block[1] <= Cursor, Cursor <= Cursor',
         \A x \in Cursor .. Cursor' - 1 : ~Mapped(x)
  PROVE  CollectsMappedPages'
<1> DEFINE b == block[1]
           c == Cursor
           d == Cursor'
           M(x) == Mapped(x)
<1>1. \A x : Mapped(x)' <=> M(x)
  BY DEF Mapped, Entry
<1>2. /\ b \in Nat /\ c \in Nat /\ d \in Nat /\ b <= c /\ c <= d
      /\ \A x \in c .. d - 1 : ~M(x)
  OBVIOUS
<1> HIDE DEF M, b, c, d
<1>5. {x \in b .. d - 1 : M(x)} = {x \in b .. c - 1 : M(x)}
  <2>1. \A x \in Int : (x \in b .. d - 1 /\ M(x)) <=> (x \in b .. c - 1 /\ M(x))
    BY <1>2
  <2> QED
    BY <1>2, <2>1
<1> USE DEF M, b, c, d
<1>3. {x \in b .. d - 1 : M(x)} = {x \in block'[1] .. d - 1 : Mapped(x)'}
  BY <1>1
<1> QED
  BY <1>5, <1>3 DEF PagesInv, CollectsMappedPages

\* Where the walk is lies in the block.
LEMMA CursorInBlock ==
  ASSUME WalkInv, pc \in {"entry", "check", "pte", "return"}
  PROVE  /\ block[1] \in Nat /\ block[2] \in Nat
         /\ Cursor = addr[lvl] /\ Cursor \in Nat /\ block[1] <= Cursor
<1>1. block[1] \in Nat /\ block[2] \in Nat
  BY PagewalkAssumption DEF WalkInv, TypeOK
<1>2. Cursor = addr[lvl] /\ addr[lvl] \in Nat
  BY DEF Cursor, WalkInv, TypeOK
<1>3. block[1] <= addr[lvl]
  <2>1. block[1] <= addr[3] /\ addr[3] \in Nat /\ addr[2] \in Nat /\ addr[1] \in Nat /\ addr[0] \in Nat
    BY DEF WalkInv, Nested, TypeOK
  <2>2. /\ lvl <= 2 => addr[3] <= addr[2]
        /\ lvl <= 1 => addr[2] <= addr[1]
        /\ lvl <= 0 => addr[1] <= addr[0]
    BY DEF WalkInv, Nested
  <2>3. lvl \in 0 .. 3
    BY DEF WalkInv, TypeOK
  <2> QED
    BY <1>1, <2>1, <2>2, <2>3
<1> QED
  BY <1>1, <1>2, <1>3

\* The PTE the walk is at belongs to entries of the upper levels that are not
\* empty: the page is mapped unless the PTE itself says otherwise.
LEMMA PteReached ==
  ASSUME WalkInv, pc = "pte"
  PROVE  \A l \in 1 .. 3 : Entry(l, addr[0]) \notin none[l]
<1>1. lvl = 0 /\ addr[0] < end[0] /\ addr \in [0 .. 3 -> Nat] /\ end \in [0 .. 3 -> Nat]
  BY DEF WalkInv, AtStep, TypeOK
<1>2. \A l \in 1 .. 3 : /\ addr[l] < end[l] /\ ~Empty(l)
                        /\ end[l - 1] = NextAddr(l) /\ addr[l] <= addr[l - 1]
  <2> SUFFICES ASSUME NEW l \in 1 .. 3
               PROVE  /\ addr[l] < end[l] /\ ~Empty(l)
                      /\ end[l - 1] = NextAddr(l) /\ addr[l] <= addr[l - 1]
    OBVIOUS
  <2>1. l - 1 \in 0 .. 2 /\ l - 1 + 1 = l /\ lvl <= l - 1
    BY <1>1
  <2> QED
    BY <2>1 DEF WalkInv, Nested
<1>3. \A l \in 1 .. 3 : NextAddr(l) <= end[l]
  BY <1>2, NextAddrAhead DEF WalkInv
<1>4. \A l \in 1 .. 3 : addr[l] <= addr[0] /\ addr[0] < NextAddr(l)
  BY <1>1, <1>2, <1>3
<1>5. ASSUME NEW l \in 1 .. 3 PROVE Entry(l, addr[0]) = Entry(l, addr[l])
  <2>1. addr[0] \in Nat /\ addr[l] \in Nat /\ end[l] \in Nat
    BY <1>1
  <2> QED
    BY <1>4, <2>1, SameEntry DEF NextAddr
<1> QED
  BY <1>2, <1>5 DEF Empty

\* Every step keeps CollectsMappedPages.
LEMMA StepPages == PagesInv /\ [Next]_vars => PagesInv'
<1> SUFFICES ASSUME PagesInv, [Next]_vars PROVE PagesInv'
  OBVIOUS
<1>0. WalkInv /\ WalkInv'
  BY StepWalk DEF PagesInv
<1> SUFFICES CollectsMappedPages'
  BY <1>0 DEF PagesInv
<1>9. block[1] \in Nat /\ block[2] \in Nat
  BY <1>0, PagewalkAssumption DEF WalkInv, TypeOK
<1>1. CASE WalkPage
  <2>1. /\ nfgpu_pages = <<>> /\ nfgpu_pages' = <<>> /\ block' = block
    BY <1>0, <1>1 DEF WalkPage, WalkInv, AtStep, table
  <2>2. Cursor' \in Nat /\ Cursor' <= block[1]
    <3>1. block' = block /\ addr \in [0 .. 3 -> Nat]
      BY <1>0, <1>1 DEF WalkPage, table, WalkInv, TypeOK
    <3>2. CASE block[1] >= block[2]
      BY <1>1, <1>9, <3>1, <3>2 DEF WalkPage, Cursor
    <3>3. CASE ~(block[1] >= block[2])
      BY <1>1, <1>9, <3>1, <3>3 DEF WalkPage, Down, Cursor
    <3> QED
      BY <3>2, <3>3
  <2>3. block[1] .. Cursor' - 1 = {} /\ (block[1] <= Cursor' => Cursor' = block[1])
    BY <1>9, <2>2
  <2> QED
    BY <2>1, <2>3, <1>9 DEF CollectsMappedPages
<1>2. CASE WalkHole
  <2>0. lvl \in 0 .. 3 /\ addr \in [0 .. 3 -> Nat] /\ end \in [0 .. 3 -> Nat]
    BY <1>0 DEF WalkInv, TypeOK
  <2>1. lvl \in 1 .. 3 /\ addr[lvl] < end[lvl] /\ pc = "entry" /\ addr[lvl] \in Nat /\ end[lvl] \in Nat
    BY <1>0, <1>2, <2>0 DEF WalkHole, WalkInv, AtStep
  <2>2. Cursor = addr[lvl] /\ block[1] <= Cursor
    BY <1>0, <2>1, CursorInBlock
  <2>3. NextAddr(lvl) \in Nat /\ addr[lvl] < NextAddr(lvl)
    BY <1>0, <2>1, NextAddrAhead DEF WalkInv
  <2>4. Cursor' = NextAddr(lvl)
    BY <1>0, <1>2, <2>1 DEF WalkHole, Continue, Cursor, WalkInv, TypeOK
  <2>5. ASSUME NEW x \in Cursor .. Cursor' - 1 PROVE ~Mapped(x)
    <3>1. x \in Nat /\ addr[lvl] <= x /\ x < AddrEnd(lvl, addr[lvl], end[lvl])
      BY <2>1, <2>2, <2>3, <2>4 DEF NextAddr
    <3>2. Entry(lvl, x) = Entry(lvl, addr[lvl])
      BY <2>1, <3>1, SameEntry
    <3> QED
      BY <1>2, <2>1, <3>2 DEF WalkHole, Empty, Mapped
  <2>6. UNCHANGED <<block, none, absent, nfgpu_pages>>
    BY <1>2 DEF WalkHole, table
  <2> QED
    BY <1>9, <2>1, <2>2, <2>3, <2>4, <2>5, <2>6, NothingCollected
<1>3. CASE WalkTable \/ SplitHuge \/ CheckHuge \/ WalkReturn
  <2>1. pc \in {"entry", "check", "return"}
    BY <1>3 DEF WalkTable, SplitHuge, CheckHuge, WalkReturn
  <2>2. Cursor = addr[lvl] /\ Cursor \in Nat /\ block[1] <= Cursor
    BY <1>0, <2>1, CursorInBlock
  <2>3. Cursor' = Cursor
    <3>1. CASE WalkTable
      BY <1>0, <2>2, <3>1 DEF WalkTable, Down, Cursor, WalkInv, TypeOK, AtStep
    <3>2. CASE SplitHuge
      BY <1>0, <2>2, <3>2 DEF SplitHuge, Cursor
    <3>3. CASE CheckHuge
      BY <1>0, <2>2, <3>3 DEF CheckHuge, Down, Cursor, WalkInv, TypeOK, AtStep
    <3>4. CASE WalkReturn
      <4>1. addr[lvl] = end[lvl] /\ (lvl = 3 => end[lvl] = block[2]) /\ lvl \in 0 .. 3
        BY <1>0, <3>4 DEF WalkReturn, WalkInv, AtStep, Nested, TypeOK
      <4>2. CASE lvl = 3
        BY <2>2, <3>4, <4>1, <4>2 DEF WalkReturn, Cursor, table
      <4>3. CASE lvl # 3
        BY <1>0, <2>2, <3>4, <4>1, <4>3 DEF WalkReturn, Continue, Cursor, WalkInv, TypeOK
      <4> QED
        BY <4>2, <4>3
    <3> QED
      BY <1>3, <3>1, <3>2, <3>3, <3>4
  <2>4. UNCHANGED <<block, none, absent, nfgpu_pages>>
    BY <1>3 DEF WalkTable, SplitHuge, CheckHuge, WalkReturn, table
  <2> QED
    BY <1>9, <2>2, <2>3, <2>4, NothingCollected
<1>4. CASE WalkPte
  <2>1. /\ lvl = 0 /\ addr[0] < end[0] /\ addr[0] \in Nat /\ nfgpu_pages \in Seq(Nat)
        /\ pc = "pte" /\ UNCHANGED <<block, none, absent>>
    BY <1>0, <1>4 DEF WalkPte, WalkInv, AtStep, TypeOK, table
  <2>2. Cursor = addr[0] /\ block[1] <= addr[0]
    BY <1>0, <2>1, CursorInBlock
  <2>3. Cursor' = addr[0] + 1
    BY <1>0, <1>4, <2>1 DEF WalkPte, Cursor, WalkInv, TypeOK
  <2>4. CASE addr[0] \in absent
    <3>1. ASSUME NEW x \in Cursor .. Cursor' - 1 PROVE ~Mapped(x)
      BY <2>1, <2>2, <2>3, <2>4 DEF Mapped
    <3>2. nfgpu_pages' = nfgpu_pages
      BY <1>4, <2>4 DEF WalkPte
    <3> QED
      BY <1>9, <2>1, <2>2, <2>3, <3>1, <3>2, NothingCollected
  <2>5. CASE addr[0] \notin absent
    <3> DEFINE b == block[1]
               a == addr[0]
               s == nfgpu_pages
               t == nfgpu_pages'
               M(x) == Mapped(x)
    <3>1. M(a)
      BY <1>0, <2>1, <2>5, PteReached DEF Mapped
    <3>2. t = Append(s, a) /\ s \in Seq(Nat) /\ a \in Nat /\ b \in Nat /\ b <= a
      BY <1>4, <1>9, <2>1, <2>2, <2>5 DEF WalkPte
    <3>3. \A x : Mapped(x)' <=> M(x)
      BY <2>1 DEF Mapped, Entry
    <3>4. /\ {s[i] : i \in DOMAIN s} = {x \in b .. a - 1 : M(x)}
          /\ \A i, j \in DOMAIN s : i < j => s[i] < s[j]
      BY <2>2 DEF PagesInv, CollectsMappedPages
    <3>6. CollectsMappedPages' <=>
            /\ {t[i] : i \in DOMAIN t} = {x \in b .. (a + 1) - 1 : M(x)}
            /\ \A i, j \in DOMAIN t : i < j => t[i] < t[j]
      BY <2>1, <2>3, <3>3 DEF CollectsMappedPages
    <3> HIDE DEF b, a, s, t, M
    <3>8. /\ DOMAIN s = 1 .. Len(s) /\ DOMAIN t = 1 .. Len(s) + 1 /\ Len(s) \in Nat
          /\ Len(t) = Len(s) + 1
          /\ t[Len(s) + 1] = a /\ \A i \in 1 .. Len(s) : t[i] = s[i] /\ s[i] \in Nat
      BY <3>2
    <3>9. \A i \in 1 .. Len(s) : s[i] \in b .. a - 1 /\ M(s[i])
      BY <3>4, <3>8
    <3>10. \A x \in b .. (a + 1) - 1 : M(x) => \E i \in DOMAIN t : t[i] = x
      <4> SUFFICES ASSUME NEW x \in b .. (a + 1) - 1, M(x) PROVE \E i \in DOMAIN t : t[i] = x
        OBVIOUS
      <4>1. CASE x = a
        BY <3>8, <4>1
      <4>2. CASE x # a
        <5>1. x \in b .. a - 1
          BY <3>2, <4>2
        <5>2. \E i \in DOMAIN s : s[i] = x
          BY <3>4, <5>1
        <5> QED
          BY <3>8, <5>2
      <4> QED
        BY <4>1, <4>2
    <3>11. \A i \in DOMAIN t : t[i] \in b .. (a + 1) - 1 /\ M(t[i])
      BY <3>1, <3>2, <3>8, <3>9
    <3>12. \A i, j \in DOMAIN t : i < j => t[i] < t[j]
      BY <3>2, <3>4, <3>8, <3>9
    <3> QED
      BY <3>6, <3>10, <3>11, <3>12
  <2> QED
    BY <2>4, <2>5
<1>5. CASE UNCHANGED vars
  <2>1. /\ Cursor' = Cursor /\ \A x : Mapped(x)' <=> Mapped(x)
    BY <1>5 DEF vars, Cursor, Mapped, Entry
  <2> QED
    BY <1>5, <2>1 DEF PagesInv, CollectsMappedPages, vars
<1> QED
  BY <1>1, <1>2, <1>3, <1>4, <1>5 DEF Next, WalkStep

-----------------------------------------------------------------------------
\* The invariant of the walk, of which the theorems below are parts.
LEMMA PagesInvariant == Spec => []PagesInv
  BY InitWalk, StepPages, PTL DEF Spec

\* The walk keeps its levels, addresses and pages in their ranges: no function
\* is entered with addr after end, from where its do-loop would never stop.
THEOREM WalkTypeOK == Spec => []TypeOK
<1>1. PagesInv => TypeOK
  BY DEF PagesInv, WalkInv
<1> QED
  BY <1>1, PagesInvariant, PTL

\* Whatever the tables look like, nfgpu_skb_pte_process is called for the
\* mapped pages of the block, for each once and in order.
THEOREM WalkCollectsMappedPages == Spec => []CollectsMappedPages
<1>1. PagesInv => CollectsMappedPages
  BY DEF PagesInv
<1> QED
  BY <1>1, PagesInvariant, PTL

=============================================================================

