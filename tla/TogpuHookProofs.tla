--------------------------- MODULE TogpuHookProofs ---------------------------
(***************************************************************************)
(* Proofs about TogpuHook, for any code of the two functions that is laid  *)
(* out as HookAssumption says, any number of CPUs, and any word            *)
(* size: a hook can always go on to a faithful copy of its function, no    *)
(* buffer is leaked by a failure, and code pages get their protection back. *)
(***************************************************************************)
EXTENDS TogpuHook, TLAPS

-----------------------------------------------------------------------------
(***************************************************************************)
(* Offsets.                                                                *)
(***************************************************************************)
\* An offset fits an u32.
LEMMA OffsetType ==
  ASSUME NEW d \in Int
  PROVE  Offset(d) \in 0 .. Word - 1
  BY HookAssumption DEF Offset

\* The sign extension of CODE_ADDR_FROM_OFFSET undoes the cast of
\* CODE_OFFSET_FROM_ADDR for distances that 32 bits reach.
LEMMA SignedOfOffset ==
  ASSUME NEW d \in Int, 2 * d < Word, -Word <= 2 * d
  PROVE  Signed(Offset(d)) = d
<1>1. CASE d >= 0
  <2>1. d % Word = d
    BY <1>1, HookAssumption
  <2> QED
    BY <1>1, <2>1, HookAssumption DEF Offset, Signed
<1>2. CASE d < 0
  <2>1. d % Word = d + Word
    BY <1>2, HookAssumption
  <2> QED
    BY <1>2, <2>1, HookAssumption DEF Offset, Signed
<1> QED
  BY <1>1, <1>2

\* The address an instruction refers to is a number.
LEMMA TargetType ==
  ASSUME NEW b \in Nat, NEW i \in Insns
  PROVE  Target(b, i) \in Int
  BY HookAssumption DEF Insns, Target, Signed

\* copy_and_fixup_insn returns an instruction, and one that does what the
\* instruction it copies does.
LEMMA FixUpAlike ==
  ASSUME NEW s \in Syms, program[s] \in Programs,
         NEW i \in program[s].insns, i.kind # "bad"
  PROVE  /\ FixUp(s, program[s], i) \in Insns
         /\ Alike(s, i, FixUp(s, program[s], i))
<1> DEFINE p == program[s]
           j == FixUp(s, p, i)
           moved == i.kind \in {"rel32", "rip"} /\ ~Inside(s, p, Target(Addr[s], i))
<1>1. /\ i \in Insns
      /\ Addr[s] \in Nat /\ NewAddr[s] \in Nat
      /\ 2 * Distance(s, i) < Word /\ -Word <= 2 * Distance(s, i)
      /\ i.kind = "branch" => Inside(s, p, Target(Addr[s], i))
      /\ Word \in Nat \ {0}
  BY HookAssumption
<1>2. /\ i.at \in Nat /\ i.len \in Nat /\ i.off \in 0 .. Word - 1 /\ i.kind \in Kinds
  BY <1>1 DEF Insns
<1>3. Target(Addr[s], i) \in Int /\ Distance(s, i) \in Int
  BY <1>1, <1>2, TargetType DEF Distance
<1>4. j = [i EXCEPT !.off = IF moved THEN Offset(Distance(s, i)) ELSE i.off]
  BY DEF FixUp
<1>5. j \in Insns
  BY <1>1, <1>2, <1>3, <1>4, OffsetType DEF Insns
<1>6. /\ j.at = i.at /\ j.len = i.len /\ j.kind = i.kind
      /\ j.off = IF moved THEN Offset(Distance(s, i)) ELSE i.off
  BY <1>1, <1>4 DEF Insns
<1>7. CASE moved
  <2>1. Signed(j.off) = Distance(s, i)
    BY <1>1, <1>3, <1>6, <1>7, SignedOfOffset
  <2>2. Target(NewAddr[s], j) = Target(Addr[s], i)
    BY <1>1, <1>2, <1>3, <1>6, <2>1 DEF Target, Distance
  <2> QED
    BY <1>3, <1>5, <1>6, <1>7, <2>2 DEF Alike
<1>8. CASE ~moved
  <2>1. Target(NewAddr[s], j) = Target(Addr[s], i) + NewAddr[s] - Addr[s]
    <3>1. Signed(i.off) \in Int
      BY <1>1, <1>2 DEF Signed
    <3> QED
      BY <1>1, <1>2, <1>6, <1>8, <3>1 DEF Target
  <2>2. j.kind \in {"rel32", "rip", "branch"} => Inside(s, p, Target(Addr[s], i))
    BY <1>1, <1>6, <1>8
  <2> QED
    BY <1>1, <1>3, <1>5, <1>6, <2>1, <2>2 DEF Alike
<1> QED
  BY <1>7, <1>8, <1>5

-----------------------------------------------------------------------------
(***************************************************************************)
(* Types.                                                                  *)
(***************************************************************************)

\* symbol_hook returns to init, which goes on to its next step.
LEMMA ReturnTypes ==
  ASSUME HookReturns
  PROVE  /\ mpc' \in {"oops", "register"} \cup Hooking
         /\ sym' \in Syms /\ orig' \in Nat /\ pte_ro' \in BOOLEAN
  BY DEF HookReturns, Hooking, Syms, First

\* Every variable keeps its type: what init, the hooks and the callers do.
THEOREM TypeCorrect == Spec => []TypeOK
<1>1. Init => TypeOK
  <2> SUFFICES ASSUME Init PROVE TypeOK
    OBVIOUS
  <2>1. First \in Syms
    BY DEF First, Syms
  <2>2. writable \in [Syms -> BOOLEAN]
    <3>1. \A s \in Syms : (~program[s].ro) \in BOOLEAN
      OBVIOUS
    <3> QED
      BY <3>1 DEF Init
  <2>3. /\ kallsyms \subseteq Syms \cup Helpers
        /\ program \in [Syms -> Programs]
        /\ text \in [Syms -> {"native", "half", "jmp"}]
        /\ run \in [Syms -> {"null", "native", "copy"}]
        /\ hijacked \in [Syms -> BOOLEAN]
        /\ buf \in [Syms -> {"none", "live", "freed"}]
        /\ copy \in [Syms -> SUBSET Insns]
    BY <2>1 DEF Init
  <2>4. /\ mpc = "off" /\ sym \in Syms /\ orig \in Nat /\ pte_ro \in BOOLEAN
        /\ class \in BOOLEAN
        /\ cpc \in [Cpus -> {"idle", "entry", "native", "hook", "copy", "oops"}]
        /\ csym \in [Cpus -> Syms]
    BY <2>1 DEF Init
  <2> QED
    BY <2>2, <2>3, <2>4 DEF TypeOK
<1>2. TypeOK /\ [Next]_vars => TypeOK'
  <2> SUFFICES ASSUME TypeOK, [Next]_vars PROVE TypeOK'
    OBVIOUS
  <2> USE DEF TypeOK, kernel, code, symVars, initLoc, cpuVars
  <2> First \in Syms /\ "skb_release_data" \in Syms
    BY DEF First, Syms
  <2>1. CASE Insmod
    BY <2>1 DEF Insmod, Hooking
  <2>2. CASE HookRefused
    BY <2>2 DEF HookRefused, HookReturns, Hooking
  <2>3. CASE HookAlloc
    <3>1. /\ run' \in [Syms -> {"null", "native", "copy"}]
          /\ buf' \in [Syms -> {"none", "live", "freed"}]
      BY <2>3 DEF HookAlloc
    <3>2. /\ mpc' \in {"oops", "register"} \cup Hooking
          /\ sym' \in Syms /\ orig' \in Nat /\ pte_ro' \in BOOLEAN
      BY <2>3, ReturnTypes DEF HookAlloc, Hooking
    <3> QED
      BY <2>3, <3>1, <3>2 DEF HookAlloc
  <2> HookError => /\ buf' \in [Syms -> {"none", "live", "freed"}]
                   /\ mpc' \in {"oops", "register"} \cup Hooking
                   /\ sym' \in Syms /\ orig' \in Nat /\ pte_ro' \in BOOLEAN
    BY ReturnTypes DEF HookError
  <2>4. CASE HookSize
    BY <2>4 DEF HookSize, Hooking
  <2>5. CASE CopyInsn
    <3>1. PICK i \in program[sym].insns :
            /\ i.at = orig
            /\ IF i.kind = "bad"
               THEN HookError /\ UNCHANGED copy
               ELSE /\ copy' = [copy EXCEPT ![sym] = @ \cup {FixUp(sym, program[sym], i)}]
                    /\ orig' = orig + i.len
                    /\ UNCHANGED <<buf, mpc, sym, pte_ro>>
      BY <2>5 DEF CopyInsn
    <3>2. i \in Insns /\ i.len \in Nat
      BY HookAssumption DEF Insns
    <3>3. CASE i.kind = "bad"
      BY <2>5, <3>1, <3>3 DEF CopyInsn
    <3>4. CASE i.kind # "bad"
      <4>1. FixUp(sym, program[sym], i) \in Insns
        BY <3>4, FixUpAlike
      <4>2. copy' \in [Syms -> SUBSET Insns] /\ orig' \in Nat
        BY <3>1, <3>2, <3>4, <4>1
      <4> QED
        BY <2>5, <3>1, <3>4, <4>2 DEF CopyInsn
    <3> QED
      BY <3>3, <3>4
  <2>6. CASE Prepare
    BY <2>6 DEF Prepare, Hooking
  <2>7. CASE PatchOpcode \/ PatchOffset
    BY <2>7 DEF PatchOpcode, PatchOffset, Hooking
  <2>8. CASE Protect
    BY <2>8 DEF Protect, HookReturns, Hooking
  <2>9. CASE Register \/ Rmmod
    BY <2>9 DEF Register, Rmmod
  <2>10. ASSUME NEW c \in Cpus, (\E s \in Syms : Call(c, s)) \/ CpuStep(c)
         PROVE  TypeOK'
    BY <2>10 DEF Call, CpuStep, PassEntry, NativeReturns, HookRuns, CopyReturns, Goes, cpuRest
  <2>11. CASE UNCHANGED vars
    BY <2>11 DEF vars
  <2> QED
    BY <2>1, <2>2, <2>3, <2>4, <2>5, <2>6, <2>7, <2>8, <2>9, <2>10, <2>11 DEF Next, Module
<1> QED
  BY <1>1, <1>2, PTL DEF Spec

-----------------------------------------------------------------------------
(***************************************************************************)
(* Protection of the code pages.                                           *)
(***************************************************************************)
Patching == mpc \in {"opcode", "offset", "protect"}

\* While the JMP is written, pte_ro remembers what the kernel had chosen.
ProtectInv == CodeProtected /\ (Patching => pte_ro = program[sym].ro)

\* set_addr_ro gives every page the protection set_addr_rw took from it.
THEOREM PagesProtected == Spec => []CodeProtected
<1>1. Init => ProtectInv
  BY DEF Init, ProtectInv, CodeProtected, Patching
<1>2. TypeOK /\ ProtectInv /\ [Next]_vars => ProtectInv'
  <2> SUFFICES ASSUME TypeOK, ProtectInv, [Next]_vars PROVE ProtectInv'
    OBVIOUS
  <2> \A s \in Syms : program[s].ro \in BOOLEAN
    BY HookAssumption DEF TypeOK
  <2> writable \in [Syms -> BOOLEAN] /\ sym \in Syms /\ pte_ro \in BOOLEAN
    BY DEF TypeOK
  <2> USE DEF ProtectInv, CodeProtected, Patching, kernel, code, initLoc
  <2>1. CASE Insmod \/ HookRefused \/ HookAlloc
    BY <2>1 DEF Insmod, HookRefused, HookAlloc, HookReturns
  <2>2. CASE HookSize
    BY <2>2 DEF HookSize, HookError, HookReturns
  <2>3. CASE CopyInsn
    BY <2>3 DEF CopyInsn, HookError, HookReturns
  <2>4. CASE Prepare
    BY <2>4 DEF Prepare
  <2>5. CASE PatchOpcode \/ PatchOffset
    BY <2>5 DEF PatchOpcode, PatchOffset
  <2>6. CASE Protect
    BY <2>6 DEF Protect, HookReturns
  <2>7. CASE Register \/ Rmmod
    BY <2>7 DEF Register, Rmmod
  <2>8. ASSUME NEW c \in Cpus, (\E s \in Syms : Call(c, s)) \/ CpuStep(c)
        PROVE  ProtectInv'
    BY <2>8 DEF Call, CpuStep, PassEntry, NativeReturns, HookRuns, CopyReturns, cpuRest
  <2>9. CASE UNCHANGED vars
    BY <2>9 DEF vars
  <2> QED
    BY <2>1, <2>2, <2>3, <2>4, <2>5, <2>6, <2>7, <2>8, <2>9 DEF Next, Module
<1>3. ProtectInv => CodeProtected
  BY DEF ProtectInv
<1> QED
  BY <1>1, <1>2, <1>3, TypeCorrect, PTL DEF Spec

-----------------------------------------------------------------------------
(***************************************************************************)
(* The buffers.                                                            *)
(***************************************************************************)
Last == "skb_release_data"

\* symbol_hook has still to begin with symbol s, or is at work on it.
Untouched(s) == \/ mpc = "find" /\ s = sym
                \/ mpc \in Hooking /\ sym = First /\ s = Last
AtWork(s) == mpc \in Hooking \ {"find"} /\ s = sym

\* The buffer of a symbol before, during and after its turn.
BufferInv ==
  \A s \in Syms :
    /\ ~class => mpc = "off" /\ buf[s] = "none" /\ ~hijacked[s]
    /\ Untouched(s) => buf[s] = "none" /\ ~hijacked[s]
    /\ AtWork(s) => buf[s] = "live" /\ ~hijacked[s]
    /\ mpc \in Hooking \cup {"register", "loaded"} /\ ~Untouched(s) /\ ~AtWork(s) =>
         (hijacked[s] <=> buf[s] = "live")

\* However the hooking of the symbols went, the buffers left are those of the
\* hijacked ones.
THEOREM NoBufferLeaked == Spec => []BuffersOfHijacked
<1> USE DEF BufferInv, Untouched, AtWork, Hooking, Last, First, Syms
<1>1. Init => BufferInv
  BY DEF Init
<1>2. TypeOK /\ BufferInv /\ [Next]_vars => BufferInv'
  <2> SUFFICES ASSUME TypeOK, BufferInv, [Next]_vars PROVE BufferInv'
    OBVIOUS
  <2> /\ buf \in [Syms -> {"none", "live", "freed"}]
      /\ hijacked \in [Syms -> BOOLEAN]
      /\ sym \in Syms /\ class \in BOOLEAN
    BY DEF TypeOK
  <2> USE DEF symVars, initLoc
  <2>1. CASE Insmod
    BY <2>1 DEF Insmod
  <2>2. CASE HookRefused
    BY <2>2 DEF HookRefused, HookReturns
  <2>3. CASE HookAlloc
    BY <2>3 DEF HookAlloc, HookReturns
  <2>4. CASE HookSize
    BY <2>4 DEF HookSize, HookError, HookReturns
  <2>5. CASE CopyInsn
    BY <2>5 DEF CopyInsn, HookError, HookReturns
  <2>6. CASE Prepare \/ PatchOpcode \/ PatchOffset
    BY <2>6 DEF Prepare, PatchOpcode, PatchOffset
  <2>7. CASE Protect
    BY <2>7 DEF Protect, HookReturns
  <2>8. CASE Register \/ Rmmod
    BY <2>8 DEF Register, Rmmod
  <2>9. ASSUME NEW c \in Cpus, (\E s \in Syms : Call(c, s)) \/ CpuStep(c)
        PROVE  BufferInv'
    BY <2>9 DEF Call, CpuStep, PassEntry, NativeReturns, HookRuns, CopyReturns, cpuRest
  <2>10. CASE UNCHANGED vars
    BY <2>10 DEF vars
  <2> QED
    BY <2>1, <2>2, <2>3, <2>4, <2>5, <2>6, <2>7, <2>8, <2>9, <2>10 DEF Next, Module
<1>3. BufferInv => BuffersOfHijacked
  BY DEF BuffersOfHijacked
<1> QED
  BY <1>1, <1>2, <1>3, TypeCorrect, PTL DEF Spec

-----------------------------------------------------------------------------
(***************************************************************************)
(* The hook and the copy.                                                  *)
(***************************************************************************)
Usable(s) == run[s] = "copy" /\ buf[s] = "live" /\ Faithful(s)

\* symbol_hook has not yet written the JMP of s.
NotYet(s) == \/ mpc \in Hooking \ {"protect"} /\ s = sym
             \/ mpc \in Hooking /\ sym = First /\ s = Last

TextInv == \A s \in Syms : /\ ~class => mpc = "off" /\ text[s] # "jmp"
                           /\ NotYet(s) => text[s] # "jmp"

\* A JMP is there only after run, and with a complete copy.
CopyInv ==
  /\ \A s \in Syms : text[s] = "jmp" => Usable(s)
  /\ mpc \in {"size", "copy"} => buf[sym] = "live"
  /\ Patching => Usable(sym)
  /\ mpc = "copy" => \A i \in program[sym].insns :
                       i.at < orig => \E j \in copy[sym] : Alike(sym, i, j)

InHookInv ==
  \A c \in Cpus : cpc[c] = "hook" => text[csym[c]] = "jmp"

HookInv == TextInv /\ CopyInv /\ InHookInv

\* Before the driver is loaded there is no JMP and no copy.
LEMMA HookInvInit == Init => HookInv
<1> SUFFICES ASSUME Init PROVE HookInv
  OBVIOUS
<1>1. TextInv
  BY DEF Init, TextInv, NotYet, Hooking
<1>2. CopyInv
  BY DEF Init, CopyInv, Patching
<1>3. InHookInv
  BY DEF Init, InHookInv
<1> QED
  BY <1>1, <1>2, <1>3 DEF HookInv

\* The JMP of a symbol is written in its turn only.
LEMMA TextStep ==
  ASSUME TypeOK, TextInv, [Next]_vars
  PROVE  TextInv'
<1> /\ text \in [Syms -> {"native", "half", "jmp"}] /\ class \in BOOLEAN /\ sym \in Syms
  BY DEF TypeOK
<1> USE DEF TextInv, NotYet, Hooking, Last, First, Syms, kernel, code, symVars, initLoc, cpuVars
<1>1. CASE Insmod
  BY <1>1 DEF Insmod
<1>2. CASE HookRefused
  BY <1>2 DEF HookRefused, HookReturns
<1>3. CASE HookAlloc
  BY <1>3 DEF HookAlloc, HookReturns
<1>4. CASE HookSize
  BY <1>4 DEF HookSize, HookError, HookReturns
<1>5. CASE CopyInsn
  BY <1>5 DEF CopyInsn, HookError, HookReturns
<1>6. CASE Prepare
  BY <1>6 DEF Prepare
<1>7. CASE PatchOpcode
  BY <1>7 DEF PatchOpcode
<1>8. CASE PatchOffset
  BY <1>8 DEF PatchOffset
<1>9. CASE Protect
  BY <1>9 DEF Protect, HookReturns
<1>10. CASE Register \/ Rmmod
  BY <1>10 DEF Register, Rmmod
<1>11. ASSUME NEW c \in Cpus, (\E s \in Syms : Call(c, s)) \/ CpuStep(c)
      PROVE  TextInv'
  BY <1>11 DEF Call, CpuStep, PassEntry, NativeReturns, HookRuns, CopyReturns, Goes, cpuRest
<1>12. CASE UNCHANGED vars
  BY <1>12 DEF vars
<1> QED
  BY <1>1, <1>2, <1>3, <1>4, <1>5, <1>6, <1>7, <1>8, <1>9, <1>10, <1>11, <1>12 DEF Next, Module

\* A CPU is in a hook only after it met the JMP, which no one removes.
LEMMA InHookStep ==
  ASSUME TypeOK, TextInv, InHookInv, [Next]_vars
  PROVE  InHookInv'
<1> /\ text \in [Syms -> {"native", "half", "jmp"}]
    /\ sym \in Syms /\ csym \in [Cpus -> Syms]
    /\ cpc \in [Cpus -> {"idle", "entry", "native", "hook", "copy", "oops"}]
    /\ mpc \in {"opcode", "offset"} => text[sym] # "jmp"
  BY DEF TypeOK, TextInv, NotYet, Hooking
<1> USE DEF InHookInv, kernel, code, symVars, initLoc, cpuVars
<1>1. CASE Insmod
  BY <1>1 DEF Insmod
<1>2. CASE HookRefused
  BY <1>2 DEF HookRefused, HookReturns
<1>3. CASE HookAlloc
  BY <1>3 DEF HookAlloc, HookReturns
<1>4. CASE HookSize
  BY <1>4 DEF HookSize, HookError, HookReturns
<1>5. CASE CopyInsn
  BY <1>5 DEF CopyInsn, HookError, HookReturns
<1>6. CASE Prepare
  BY <1>6 DEF Prepare
<1>7. CASE PatchOpcode
  BY <1>7 DEF PatchOpcode
<1>8. CASE PatchOffset
  BY <1>8 DEF PatchOffset
<1>9. CASE Protect
  BY <1>9 DEF Protect, HookReturns
<1>10. CASE Register \/ Rmmod
  BY <1>10 DEF Register, Rmmod
<1>11. ASSUME NEW c \in Cpus, (\E s \in Syms : Call(c, s)) \/ CpuStep(c)
      PROVE  InHookInv'
  <2>1. ASSUME NEW s \in Syms, Call(c, s) PROVE InHookInv'
    BY <2>1 DEF Call, Goes, cpuRest, Present
  <2>2. CASE CpuStep(c)
    BY <2>2 DEF CpuStep, PassEntry, NativeReturns, HookRuns, CopyReturns, Goes, cpuRest, Present
  <2> QED
    BY <1>11, <2>1, <2>2
<1>12. CASE UNCHANGED vars
  BY <1>12 DEF vars
<1> QED
  BY <1>1, <1>2, <1>3, <1>4, <1>5, <1>6, <1>7, <1>8, <1>9, <1>10, <1>11, <1>12 DEF Next, Module

\* Neither depends on more than the program and the copy.
LEMMA FaithfulKept ==
  ASSUME UNCHANGED program
  PROVE  /\ \A s, i, j : Alike(s, i, j)' <=> Alike(s, i, j)
         /\ \A s : copy'[s] = copy[s] => (Faithful(s)' <=> Faithful(s))
<1>1. \A s, i, j : Alike(s, i, j)' <=> Alike(s, i, j)
  BY DEF Alike
<1>2. ASSUME NEW s, copy'[s] = copy[s] PROVE Faithful(s)' <=> Faithful(s)
  BY <1>1, <1>2 DEF Faithful
<1> QED
  BY <1>1, <1>2

\* One more instruction is copied: all that lie before the new offset are.
LEMMA CopyInsnStep ==
  ASSUME TypeOK, CopyInv, CopyInsn, NEW i \in program[sym].insns,
         i.at = orig, i.kind # "bad",
         copy' = [copy EXCEPT ![sym] = @ \cup {FixUp(sym, program[sym], i)}],
         orig' = orig + i.len, UNCHANGED <<sym, mpc>>
  PROVE  \A k \in program'[sym'].insns :
            k.at < orig' => \E j \in copy'[sym'] : Alike(sym, k, j)'
<1> SUFFICES ASSUME NEW k \in program[sym].insns, k.at < orig + i.len
             PROVE  \E j \in copy'[sym] : Alike(sym, k, j)
  BY FaithfulKept DEF CopyInsn, kernel
<1>1. /\ sym \in Syms /\ program[sym] \in Programs /\ copy \in [Syms -> SUBSET Insns]
      /\ orig \in Nat
  BY DEF TypeOK
<1>2. /\ i \in Insns /\ k \in Insns
      /\ i = k \/ i.at + i.len <= k.at \/ k.at + k.len <= i.at
  BY <1>1, HookAssumption
<1>3. /\ i.at \in Nat /\ i.len \in Nat \ {0} /\ k.at \in Nat /\ k.len \in Nat \ {0}
  BY <1>2 DEF Insns
<1>4. CASE k.at < orig
  <2>1. PICK j \in copy[sym] : Alike(sym, k, j)
    BY <1>4 DEF CopyInv, CopyInsn
  <2> QED
    BY <1>1, <2>1
<1>5. CASE ~(k.at < orig)
  <2>1. k = i
    BY <1>1, <1>2, <1>3, <1>5
  <2>2. Alike(sym, i, FixUp(sym, program[sym], i))
    BY <1>1, FixUpAlike
  <2> QED
    BY <1>1, <2>1, <2>2
<1> QED
  BY <1>4, <1>5

\* The JMP is written only after the copy is complete.
LEMMA CopyStep ==
  ASSUME TypeOK, TextInv, CopyInv, [Next]_vars
  PROVE  CopyInv'
<1> /\ sym \in Syms /\ orig \in Nat
    /\ text \in [Syms -> {"native", "half", "jmp"}]
    /\ run \in [Syms -> {"null", "native", "copy"}]
    /\ buf \in [Syms -> {"none", "live", "freed"}]
    /\ copy \in [Syms -> SUBSET Insns]
    /\ program \in [Syms -> Programs]
  BY HookAssumption DEF TypeOK
<1>a. mpc \in Hooking \ {"protect"} => text[sym] # "jmp"
  BY DEF TextInv, NotYet
<1>b. UNCHANGED program =>
        /\ \A s, i, j : Alike(s, i, j)' <=> Alike(s, i, j)
        /\ \A s \in Syms : copy'[s] = copy[s] => (Faithful(s)' <=> Faithful(s))
  BY FaithfulKept
<1>c. \A s \in Syms : \A i \in program[s].insns : i \in Insns /\ i.at \in Nat
  BY HookAssumption DEF Insns
<1> USE DEF CopyInv, Usable, Patching, kernel, code, symVars, initLoc, Hooking
<1>1. CASE Insmod
  BY <1>1, <1>b DEF Insmod
<1>2. CASE HookRefused
  BY <1>2, <1>a, <1>b DEF HookRefused, HookReturns
<1>3. CASE HookAlloc
  BY <1>3, <1>a, <1>b DEF HookAlloc, HookReturns
<1>4. CASE HookSize
  BY <1>4, <1>a, <1>b, <1>c DEF HookSize, HookError, HookReturns
<1>5. CASE CopyInsn
  <2>1. PICK i \in program[sym].insns :
          /\ i.at = orig
          /\ IF i.kind = "bad"
             THEN HookError /\ UNCHANGED copy
             ELSE /\ copy' = [copy EXCEPT ![sym] = @ \cup {FixUp(sym, program[sym], i)}]
                  /\ orig' = orig + i.len
                  /\ UNCHANGED <<buf, mpc, sym, pte_ro>>
    BY <1>5 DEF CopyInsn
  <2>2. CASE i.kind = "bad"
    BY <1>5, <1>a, <1>b, <2>1, <2>2 DEF CopyInsn, HookError, HookReturns
  <2>3. CASE i.kind # "bad"
    <3>1. \A k \in program'[sym'].insns :
            k.at < orig' => \E j \in copy'[sym'] : Alike(sym, k, j)'
      BY <1>5, <2>1, <2>3, CopyInsnStep
    <3>2. \A s \in Syms : text'[s] = "jmp" => Usable(s)'
      BY <1>5, <1>a, <1>b, <2>1, <2>3 DEF CopyInsn
    <3> QED
      BY <1>5, <2>1, <2>3, <3>1, <3>2 DEF CopyInsn
  <2> QED
    BY <2>2, <2>3
<1>6. CASE Prepare
  <2>1. Faithful(sym)
    <3>1. \A i \in program[sym].insns : i.at < program[sym].end /\ program[sym].end \in Nat
      BY HookAssumption
    <3>2. \A i \in program[sym].insns : i.at < orig
      BY <1>6, <1>c, <3>1 DEF Prepare
    <3> QED
      BY <1>6, <3>2 DEF Prepare, Faithful
  <2> QED
    BY <1>6, <1>b, <2>1 DEF Prepare
<1>7. CASE PatchOpcode
  BY <1>7, <1>b DEF PatchOpcode
<1>8. CASE PatchOffset
  BY <1>8, <1>b DEF PatchOffset
<1>9. CASE Protect
  BY <1>9, <1>b DEF Protect, HookReturns
<1>10. CASE Register \/ Rmmod
  BY <1>10, <1>b DEF Register, Rmmod
<1>11. ASSUME NEW c \in Cpus, (\E s \in Syms : Call(c, s)) \/ CpuStep(c)
       PROVE  CopyInv'
  BY <1>11, <1>b DEF Call, CpuStep, PassEntry, NativeReturns, HookRuns, CopyReturns, cpuRest
<1>12. CASE UNCHANGED vars
  BY <1>12, <1>b DEF vars
<1> QED
  BY <1>1, <1>2, <1>3, <1>4, <1>5, <1>6, <1>7, <1>8, <1>9, <1>10, <1>11, <1>12 DEF Next, Module

\* A CPU in a hook of the loaded driver always finds in run a faithful copy of
\* the function, in memory that is not freed.
THEOREM HookHasCopy == Spec => []HookRunsCopy
<1>1. TypeOK /\ HookInv /\ [Next]_vars => HookInv'
  BY TextStep, CopyStep, InHookStep DEF HookInv
<1>2. TypeOK /\ HookInv => HookRunsCopy
  <2> SUFFICES ASSUME TypeOK, HookInv, NEW c \in Cpus, cpc[c] = "hook"
               PROVE  Usable(csym[c])
    BY DEF HookRunsCopy, Usable
  <2> QED
    BY DEF TypeOK, HookInv, InHookInv, CopyInv
<1> QED
  BY HookInvInit, <1>1, <1>2, TypeCorrect, PTL DEF Spec

=============================================================================
