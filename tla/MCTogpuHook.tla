----------------------------- MODULE MCTogpuHook -----------------------------
(***************************************************************************)
(* Values for TogpuHook: functions at 40 and 80, their copies at 10 and    *)
(* 120, one on each side, and words of 8 bits.                             *)
(***************************************************************************)
EXTENDS TogpuHook

MCAddr    == [s \in Syms |-> IF s = "skb_release_data" THEN 80 ELSE 40]
MCNewAddr == [s \in Syms |-> IF s = "skb_release_data" THEN 120 ELSE 10]

Insn(at, len, kind, off) == [at |-> at, len |-> len, kind |-> kind, off |-> off]

\* A CALL out of the function, a RIP-relative load from before it, a loop and
\* a JMP to its start; followed by padding.
Ordinary == [insns |-> {Insn(0, 5, "rel32", 60), Insn(5, 7, "rip", Word - 30),
                        Insn(12, 2, "branch", Word - 4), Insn(14, 5, "rel32", Word - 19)},
             size |-> 22, end |-> 19, ro |-> TRUE, jmp |-> FALSE]
\* A function on a writable page whose last instruction ends in zero bytes.
Writable == [insns |-> {Insn(0, 3, "plain", 0), Insn(3, 5, "rel32", 20)},
             size |-> 8, end |-> 5, ro |-> FALSE, jmp |-> FALSE]
\* Functions symbol_hook refuses.
Short    == [insns |-> {Insn(0, 3, "plain", 0)}, size |-> 3, end |-> 3, ro |-> TRUE, jmp |-> FALSE]
Zeros    == [insns |-> {}, size |-> 8, end |-> 0, ro |-> TRUE, jmp |-> FALSE]
Unknown  == [insns |-> {Insn(0, 4, "plain", 0), Insn(4, 4, "bad", 0)},
             size |-> 8, end |-> 8, ro |-> TRUE, jmp |-> FALSE]
Hijacked == [insns |-> {Insn(0, 5, "rel32", 20)}, size |-> 8, end |-> 5, ro |-> TRUE, jmp |-> TRUE]

MCPrograms == {Ordinary, Writable, Short, Zeros, Unknown, Hijacked}

=============================================================================
