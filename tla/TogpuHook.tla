------------------------------ MODULE TogpuHook ------------------------------
(***************************************************************************)
(* How the driver puts itself in the way of two kernel functions           *)
(* (xt_TOGPU_hook.c, xt_TOGPU_symbols.c, and init and exit in              *)
(* xt_TOGPU_main.c).  symbol_hook copies the function instruction by       *)
(* instruction to a buffer, where the hook can go on calling it, corrects  *)
(* the relative operands of the copy, and overwrites the first five bytes  *)
(* of the function with a JMP to the hook.  Other CPUs call the functions  *)
(* all the while.  The driver ignores every error of this, and does not    *)
(* undo it when it is removed.  It can be loaded only once: its device     *)
(* class outlives it, and class_create refuses a name that is taken.       *)
(*                                                                         *)
(* A name of the form Action_Mistake is a wrong version of the action that *)
(* follows, to show that a property catches the mistake.                   *)
(***************************************************************************)
EXTENDS Integers

CONSTANTS
  Cpus,
  Programs,   \* the machine code a hooked function may have
  Addr,       \* Syms -> address of the function
  NewAddr,    \* Syms -> address of the buffer for its copy
  Word        \* number of values of an u32

Syms == {"__netdev_alloc_skb", "skb_release_data"}
Helpers == {"module_alloc", "module_free"}

OP_JMP_SIZE == 5

\* The kinds of instruction symbol_hook tells apart: CALL and JMP with a 32-bit
\* offset, operands relative to RIP, other branches (short or conditional,
\* their offset is never touched), the rest, and one it cannot decode.
Kinds == {"rel32", "rip", "branch", "plain", "bad"}

\* (s64)(s32): the offset as a signed number.
Signed(off) == IF 2 * off < Word THEN off ELSE off - Word

Offset_Wide(d) == d

\* (u32) of a difference of addresses.
Offset(d) == d % Word

\* CODE_ADDR_FROM_OFFSET: the address instruction i refers to, in code at base.
Target(base, i) == base + i.at + i.len + Signed(i.off)

Insns == [at : Nat, len : Nat \ {0}, kind : Kinds, off : 0 .. Word - 1]

Inside(s, p, a) == Addr[s] <= a /\ a < Addr[s] + p.size

\* How far instruction i of the copy is from what instruction i refers to.
Distance(s, i) == Target(Addr[s], i) - (NewAddr[s] + i.at + i.len)

\* A program is a set of instructions one after the other; `end` is its size
\* without the zero bytes at the end, `ro` whether its page is read-only, `jmp`
\* whether it begins with a JMP, say, of another module that hooked it.
\* The compiler emits no conditional jump out of a function, and module_alloc
\* returns memory whence 32 bits reach all the kernel.
ASSUME HookAssumption ==
  /\ Word \in Nat \ {0}
  /\ Addr \in [Syms -> Nat] /\ NewAddr \in [Syms -> Nat]
  /\ \A p \in Programs :
       /\ p.size \in Nat /\ p.end \in 0 .. p.size /\ p.ro \in BOOLEAN /\ p.jmp \in BOOLEAN
       /\ p.insns \subseteq Insns
       /\ \A i \in p.insns : i.at < p.end
       /\ \A i, j \in p.insns : i = j \/ i.at + i.len <= j.at \/ j.at + j.len <= i.at
       /\ p.end > 0 => \E i \in p.insns : i.at = 0
       /\ \A i \in p.insns : i.at + i.len < p.end =>
            \E j \in p.insns : j.at = i.at + i.len
  /\ \A s \in Syms : \A p \in Programs : \A i \in p.insns :
       /\ i.kind = "branch" => Inside(s, p, Target(Addr[s], i))
       /\ 2 * Distance(s, i) < Word /\ -Word <= 2 * Distance(s, i)

VARIABLES
  kallsyms,  \* the symbols of the kernel (never changes)
  program,   \* Syms -> its machine code (never changes)
  text,      \* what the function starts with: native code, JMP, or half a JMP
  writable,  \* is the function's page writable?
  run, hijacked, buf, copy,
             \* the driver's two struct kernsym
  mpc, sym, orig, pte_ro,
             \* init: step, and symbol_hook's symbol, loop offset and flag
  class,     \* is the device class registered?
  cpc, csym  \* each CPU: step, and the function it called

kernel  == <<kallsyms, program>>
symVars == <<run, hijacked, buf, copy>>
code    == <<text, writable>>
initLoc == <<sym, orig, pte_ro>>
cpuVars == <<cpc, csym>>
vars == <<kernel, code, symVars, mpc, initLoc, class, cpuVars>>

Hooking == {"find", "size", "copy", "opcode", "offset", "protect"}

TypeOK ==
  /\ kallsyms \subseteq Syms \cup Helpers
  /\ program \in [Syms -> Programs]
  /\ text \in [Syms -> {"native", "half", "jmp"}]
  /\ writable \in [Syms -> BOOLEAN]
  /\ run \in [Syms -> {"null", "native", "copy"}]
  /\ hijacked \in [Syms -> BOOLEAN]
  /\ buf \in [Syms -> {"none", "live", "freed"}]
  /\ copy \in [Syms -> SUBSET Insns]
  /\ mpc \in {"off", "register", "loaded", "oops"} \cup Hooking
  /\ sym \in Syms
  /\ orig \in Nat
  /\ pte_ro \in BOOLEAN
  /\ class \in BOOLEAN
  /\ cpc \in [Cpus -> {"idle", "entry", "native", "hook", "copy", "oops"}]
  /\ csym \in [Cpus -> Syms]

First == "__netdev_alloc_skb"

Init ==
  /\ kallsyms \in SUBSET (Syms \cup Helpers)
  /\ program \in [Syms -> Programs]
  /\ text = [s \in Syms |-> "native"]
  /\ writable = [s \in Syms |-> ~program[s].ro]
  /\ run = [s \in Syms |-> "null"]
  /\ hijacked = [s \in Syms |-> FALSE]
  /\ buf = [s \in Syms |-> "none"]
  /\ copy = [s \in Syms |-> {}]
  /\ mpc = "off" /\ sym = First /\ orig = 0 /\ pte_ro = FALSE
  /\ class = FALSE
  /\ cpc = [c \in Cpus |-> "idle"]
  /\ csym = [c \in Cpus |-> First]

-----------------------------------------------------------------------------
(***************************************************************************)
(* Loading the driver: nfgpu_internal_init.                                *)
(***************************************************************************)

\* When class_create fails nothing else happens, and nothing changes.  The
\* errors of the other calls for the device are not looked at.
Insmod ==
  /\ mpc = "off" /\ ~class
  /\ class' = TRUE
  /\ mpc' = "find"
  /\ UNCHANGED <<kernel, code, symVars, initLoc, cpuVars>>

\* hook_init gives up at the first symbol it cannot find; what it did not find
\* is NULL, and malloc and malloc_free call it all the same.
Resolved == IF "module_alloc" \in kallsyms THEN kallsyms \cap Helpers ELSE {}

\* symbol_hook has returned, whatever it returned: on to the next symbol.
HookReturns ==
  /\ mpc' = IF sym = First THEN "find" ELSE "register"
  /\ sym' = IF sym = First THEN "skb_release_data" ELSE First
  /\ orig' = 0
  /\ pte_ro' = FALSE

\* find_symbol_address: the symbol is in the table, and not at its end, for the
\* next one gives its size.
Found(s) == s \in kallsyms

StartsWithJmp(s) == text[s] # "native" \/ program[s].jmp

\* find_symbol_address fails, or the function already starts with a JMP.
HookRefused ==
  /\ mpc = "find"
  /\ \/ ~Found(sym) /\ UNCHANGED run
     \/ /\ Found(sym) /\ StartsWithJmp(sym)
        /\ run' = [run EXCEPT ![sym] = "native"]
  /\ HookReturns
  /\ UNCHANGED <<kernel, code, hijacked, buf, copy, class, cpuVars>>

\* The buffer for the copy.
HookAlloc ==
  /\ mpc = "find" /\ Found(sym) /\ ~StartsWithJmp(sym)
  /\ run' = [run EXCEPT ![sym] = "native"]
  /\ \/ /\ "module_alloc" \notin Resolved
        /\ mpc' = "oops"
        /\ UNCHANGED <<buf, initLoc>>
     \/ /\ "module_alloc" \in Resolved
        /\ buf' = [buf EXCEPT ![sym] = "live"]
        /\ mpc' = "size"
        /\ UNCHANGED initLoc
     \/ /\ "module_alloc" \in Resolved  \* no memory
        /\ HookReturns
        /\ UNCHANGED buf
  /\ UNCHANGED <<kernel, code, hijacked, copy, class, cpuVars>>

HookError_KeepsBuffer ==
  /\ HookReturns
  /\ UNCHANGED buf

\* out_error: the buffer is freed.
HookError ==
  IF "module_free" \in Resolved
  THEN buf' = [buf EXCEPT ![sym] = "freed"] /\ HookReturns
  ELSE mpc' = "oops" /\ UNCHANGED <<buf, initLoc>>

\* A function shorter than a JMP or all zeros is refused.
HookSize ==
  /\ mpc = "size"
  /\ IF program[sym].size < OP_JMP_SIZE \/ program[sym].end = 0
     THEN HookError
     ELSE mpc' = "copy" /\ orig' = 0 /\ UNCHANGED <<buf, sym, pte_ro>>
  /\ UNCHANGED <<kernel, code, run, hijacked, copy, class, cpuVars>>

FixUp_AlwaysMoves(s, p, i) ==
  [i EXCEPT !.off = IF i.kind \in {"rel32", "rip"}
                    THEN Offset(Distance(s, i))
                    ELSE i.off]

\* copy_and_fixup_insn: the copy of instruction i.
FixUp(s, p, i) ==
  [i EXCEPT !.off = IF i.kind \in {"rel32", "rip"} /\ ~Inside(s, p, Target(Addr[s], i))
                    THEN Offset(Distance(s, i))
                    ELSE i.off]

\* One turn of the loop over the instructions.
CopyInsn ==
  /\ mpc = "copy" /\ orig < program[sym].end
  /\ \E i \in program[sym].insns :
       /\ i.at = orig
       /\ IF i.kind = "bad"
          THEN HookError /\ UNCHANGED copy
          ELSE /\ copy' = [copy EXCEPT ![sym] = @ \cup {FixUp(sym, program[sym], i)}]
               /\ orig' = orig + i.len
               /\ UNCHANGED <<buf, mpc, sym, pte_ro>>
  /\ UNCHANGED <<kernel, code, run, hijacked, class, cpuVars>>

\* The copy is complete: run, set_addr_rw, and the bytes to be overwritten are saved.
Prepare ==
  /\ mpc = "copy" /\ orig >= program[sym].end
  /\ run' = [run EXCEPT ![sym] = "copy"]
  /\ pte_ro' = ~writable[sym]
  /\ writable' = [writable EXCEPT ![sym] = TRUE]
  /\ mpc' = "opcode"
  /\ UNCHANGED <<kernel, text, hijacked, buf, copy, sym, orig, class, cpuVars>>

\* The JMP is written in two stores, its opcode first.
PatchOpcode ==
  /\ mpc = "opcode"
  /\ text' = [text EXCEPT ![sym] = "half"]
  /\ mpc' = "offset"
  /\ UNCHANGED <<kernel, writable, symVars, initLoc, class, cpuVars>>

PatchOffset ==
  /\ mpc = "offset"
  /\ text' = [text EXCEPT ![sym] = "jmp"]
  /\ mpc' = "protect"
  /\ UNCHANGED <<kernel, writable, symVars, initLoc, class, cpuVars>>

Protect_Always ==
  /\ mpc = "protect"
  /\ writable' = [writable EXCEPT ![sym] = FALSE]
  /\ hijacked' = [hijacked EXCEPT ![sym] = TRUE]
  /\ HookReturns
  /\ UNCHANGED <<kernel, text, run, buf, copy, class, cpuVars>>

\* set_addr_ro: "only set back to readonly if it was readonly before".
Protect ==
  /\ mpc = "protect"
  /\ writable' = [writable EXCEPT ![sym] = ~pte_ro]
  /\ hijacked' = [hijacked EXCEPT ![sym] = TRUE]
  /\ HookReturns
  /\ UNCHANGED <<kernel, text, run, buf, copy, class, cpuVars>>

\* The thread is started and the target registered.  When the latter fails the
\* kernel removes the driver, hooks or no hooks; when kthread_create fails it
\* returns an error code, which passes the test for NULL.
Register ==
  /\ mpc = "register"
  /\ mpc' \in {"loaded", "off", "oops"}
  /\ UNCHANGED <<kernel, code, symVars, initLoc, class, cpuVars>>

\* nfgpu_exit: the thread and the target are gone, the JMPs stay.
Rmmod ==
  /\ mpc = "loaded"
  /\ mpc' = "off"
  /\ UNCHANGED <<kernel, code, symVars, initLoc, class, cpuVars>>

Module ==
  \/ Insmod \/ HookRefused \/ HookAlloc \/ HookSize \/ CopyInsn \/ Prepare
  \/ PatchOpcode \/ PatchOffset \/ Protect \/ Register \/ Rmmod

-----------------------------------------------------------------------------
(***************************************************************************)
(* CPU c calls the functions.                                              *)
(***************************************************************************)
cpuRest == <<kernel, code, symVars, mpc, initLoc, class>>

\* The driver is in memory.
Present == mpc # "off"

Goes(c, step) == cpc' = [cpc EXCEPT ![c] = step]

\* The first bytes are fetched: the native ones, the JMP to a hook, or a JMP
\* with an offset that is still native code, which leads anywhere.
Call(c, s) ==
  /\ cpc[c] = "idle" /\ s \in kallsyms
  /\ csym' = [csym EXCEPT ![c] = s]
  /\ Goes(c, CASE text[s] = "native" -> "entry"
               [] text[s] = "jmp" /\ Present -> "hook"
               [] OTHER -> "oops")
  /\ UNCHANGED cpuRest

\* A CPU amid the first five bytes goes on with what is there now.
PassEntry(c) ==
  /\ cpc[c] = "entry"
  /\ Goes(c, IF text[csym[c]] = "native" THEN "native" ELSE "oops")
  /\ UNCHANGED <<cpuRest, csym>>

NativeReturns(c) ==
  /\ cpc[c] = "native"
  /\ Goes(c, "idle")
  /\ UNCHANGED <<cpuRest, csym>>

\* The hook calls sym.run.  Were that the function itself, its JMP would lead
\* back to the hook.
HookRuns(c) ==
  /\ cpc[c] = "hook"
  /\ Goes(c, IF ~Present \/ run[csym[c]] = "null" THEN "oops"
             ELSE IF run[csym[c]] = "native" THEN "hook" ELSE "copy")
  /\ UNCHANGED <<cpuRest, csym>>

\* The copy returns to the hook, and the hook to its caller.
CopyReturns(c) ==
  /\ cpc[c] = "copy"
  /\ Goes(c, IF Present THEN "idle" ELSE "oops")
  /\ UNCHANGED <<cpuRest, csym>>

CpuStep(c) == PassEntry(c) \/ NativeReturns(c) \/ HookRuns(c) \/ CopyReturns(c)

Next ==
  \/ Module
  \/ \E c \in Cpus : (\E s \in Syms : Call(c, s)) \/ CpuStep(c)

Spec == Init /\ [][Next]_vars

-----------------------------------------------------------------------------
(***************************************************************************)
(* Properties.                                                             *)
(***************************************************************************)

\* j, in the copy of function s, does what i does in the function: it is in the
\* same place and refers to the same address, or, where that is in the
\* function itself, to the same place of the copy.
Alike(s, i, j) ==
  /\ j.at = i.at /\ j.kind = i.kind /\ j.len = i.len
  /\ j.kind \in {"rel32", "rip", "branch"} =>
       Target(NewAddr[s], j) =
         Target(Addr[s], i)
           + IF Inside(s, program[s], Target(Addr[s], i)) THEN NewAddr[s] - Addr[s] ELSE 0

\* Every instruction of the function is in the copy.
Faithful(s) == \A i \in program[s].insns : \E j \in copy[s] : Alike(s, i, j)

\* A CPU in a hook of the driver can go on to the native function: run leads
\* to a faithful copy in memory that was not freed, whichever way the loading
\* of the driver and of this symbol went (hook.c:266, before the JMP of 272).
HookRunsCopy ==
  \A c \in Cpus : cpc[c] = "hook" /\ Present =>
    /\ run[csym[c]] = "copy" /\ buf[csym[c]] = "live"
    /\ Faithful(csym[c])

\* Once symbol_hook is through with both symbols, the driver has a buffer
\* exactly for those it hijacked: a failure half-way frees it, and nothing
\* frees that of a hijacked one (hook.c:283 "out_error").
BuffersOfHijacked ==
  mpc \in {"register", "loaded"} =>
    \A s \in Syms : hijacked[s] <=> buf[s] = "live"

\* Except while symbol_hook writes the JMP, the page of a function is as
\* writable as the kernel left it, over failures and removals
\* (hook.c:179 "only set back to readonly if it was readonly before").
CodeProtected ==
  \A s \in Syms :
    ~(s = sym /\ mpc \in {"opcode", "offset", "protect"}) => writable[s] = ~program[s].ro

=============================================================================
