----------------------------- MODULE SlotLending -----------------------------
(***************************************************************************)
(* What the TOGPU buffer pool promises the rest of the kernel, with none   *)
(* of its machinery: a fixed set of GPU-visible slots is lent out, a free  *)
(* slot to one packet buffer at a time, a buffer being the borrower of at  *)
(* most one slot, until the borrower gives its slot back.                  *)
(***************************************************************************)
CONSTANTS
  Slots,      \* the slots that may be lent
  Buffers,    \* the native packet buffers that may stand in for a slot
  None        \* the value of a slot that is not lent

VARIABLE lent \* lent[i]: the buffer that slot i replaces, or None

Init == lent = [i \in Slots |-> None]

Lend(i, b) ==
  /\ lent[i] = None
  /\ \A j \in Slots : lent[j] # b
  /\ lent' = [lent EXCEPT ![i] = b]

Return(i) ==
  /\ lent[i] # None
  /\ lent' = [lent EXCEPT ![i] = None]

Next ==
  \/ \E i \in Slots, b \in Buffers : Lend(i, b)
  \/ \E i \in Slots : Return(i)

Spec == Init /\ [][Next]_lent

=============================================================================
