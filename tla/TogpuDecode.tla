---------------------------- MODULE TogpuDecode ----------------------------
(***************************************************************************)
(* The instruction decoder.  A struct insn is initialised for some code    *)
(* and its fields are then asked for one by one, in any order and any      *)
(* number of times; each accessor first collects what comes before its     *)
(* field.  Of displacements and immediates only the place and the size     *)
(* are kept: `at' is the offset where the value was read.                  *)
(* A name of the form Definition_Mistake is a wrong version of the         *)
(* definition that follows, to show that a property catches the mistake.   *)
(***************************************************************************)
EXTENDS InatTables, X86Reference, FiniteSets, SequencesExt

CONSTANTS
  Codes,   \* the instructions, each the sequence of its first bytes
  Modes    \* x86_64: TRUE for a 64-bit kernel

\* No x86 instruction is longer than 15 bytes.
ASSUME DecodeAssumption ==
  /\ \A c \in Codes : c \in Seq(Opcode) /\ Len(c) <= 15
  /\ Modes \subseteq BOOLEAN

VARIABLES code, insn
vars == <<code, insn>>

\* The byte n places after the start; what follows the given ones is data.
ByteAt(n) == IF n < Len(code) THEN code[n + 1] ELSE 0

-----------------------------------------------------------------------------
(***************************************************************************)
(* Bit fields and attributes.                                              *)
(***************************************************************************)
X86_MODRM_MOD(m) == m \div 64
X86_MODRM_REG(m) == (m \div 8) % 8
X86_MODRM_RM(m)  == m % 8
X86_SIB_BASE(s)  == s % 8
X86_REX_W(r)     == (r \div 8) % 2 = 1
X86_VEX_W(v)     == v >= 128
X86_VEX3_M(v)    == v % 32
X86_VEX_P(v)     == v % 4

inat_is_legacy_prefix(attr) == attr.pfx \notin {"none", "REX", "VEX2", "VEX3"}

inat_last_prefix_id(attr) ==
  CASE attr.pfx = "OPNDSZ" -> 1 [] attr.pfx = "REPE" -> 2 [] attr.pfx = "REPNE" -> 3
    [] OTHER -> 0

inat_get_opcode_attribute(op) == inat_primary_table[op]

\* The variant of a map that the last prefix selects; 0 is no prefix.
LastPrefixId(pfx) ==
  IF pfx = 0 THEN 0 ELSE inat_last_prefix_id(inat_get_opcode_attribute(pfx))

Variant(tables, k, last_pfx) ==
  IF "VARIANT" \in tables[1][k].flags
  THEN tables[LastPrefixId(last_pfx) + 1][k] ELSE tables[1][k]

inat_get_escape_attribute_OneMap(op, last_pfx, esc_attr) ==
  Variant(inat_escape_tables[1], op, last_pfx)

\* There is no map for an attribute that is not an escape.
inat_get_escape_attribute(op, last_pfx, esc_attr) ==
  IF esc_attr.esc = 0 THEN NoAttribute
  ELSE Variant(inat_escape_tables[esc_attr.esc], op, last_pfx)

\* The attribute of the group member, with what the opcode says of them all.
inat_get_group_attribute(modrm, last_pfx, grp_attr) ==
  LET member == Variant(inat_group_tables[grp_attr.grp], X86_MODRM_REG(modrm), last_pfx)
  IN  [grp_attr EXCEPT !.grp = 0,
                       !.imm = IF @ = "none" THEN member.imm ELSE @,
                       !.flags = @ \cup member.flags]

inat_get_avx_attribute(op, m, p) ==
  IF m \in 1 .. 3 THEN inat_avx_tables[m][p + 1][op] ELSE NoAttribute

-----------------------------------------------------------------------------
(***************************************************************************)
(* struct insn.  An accessor is an operator from one to the next.          *)
(***************************************************************************)
Absent == [nbytes |-> 0, got |-> FALSE, at |-> 0]
Empty  == [nbytes |-> 0, got |-> FALSE, value |-> 0]

insn_init(x86_64) ==
  [prefixes     |-> [nbytes |-> 0, got |-> FALSE, bytes |-> <<0, 0, 0, 0>>],
   rex_prefix   |-> Empty,
   vex_prefix   |-> [nbytes |-> 0, got |-> FALSE, bytes |-> <<0, 0, 0>>],
   opcode       |-> [nbytes |-> 0, got |-> FALSE, bytes |-> <<>>],
   modrm        |-> Empty,
   sib          |-> Empty,
   displacement |-> Absent,
   immediate1   |-> Absent,   \* immediate and moffset1, too
   immediate2   |-> Absent,   \* moffset2, too
   attr         |-> NoAttribute,
   opnd_bytes   |-> 4,
   addr_bytes   |-> IF x86_64 THEN 8 ELSE 4,
   length       |-> 0,
   x86_64       |-> x86_64,
   next_byte    |-> 0]

Init ==
  /\ code \in Codes
  /\ \E x86_64 \in Modes : insn = insn_init(x86_64)

\* n bytes are read into field f.
GetNext(i, f, n) ==
  [i EXCEPT ![f].nbytes = n, ![f].at = i.next_byte, !.next_byte = @ + n]

\* The different ones of the first n bytes, in their order.
Different[n \in 0 .. Len(code)] ==
  IF n = 0 THEN <<>>
  ELSE LET before == Different[n - 1]
       IN  IF Contains(before, ByteAt(n - 1)) THEN before ELSE Append(before, ByteAt(n - 1))

\* The loop over the legacy prefixes ends at another byte, or at a fifth
\* different prefix.
StopsAt(n) ==
  \/ ~inat_is_legacy_prefix(inat_get_opcode_attribute(ByteAt(n)))
  \/ Len(Different[n]) = 4 /\ ~Contains(Different[n], ByteAt(n))

PrefixesEnd ==
  CHOOSE n \in 0 .. Len(code) : StopsAt(n) /\ \A k \in 0 .. n - 1 : ~StopsAt(k)

WithLastPrefix_Overwritten(bytes, lb) == IF lb = 0 THEN bytes ELSE [bytes EXCEPT ![4] = lb]

\* bytes[3] becomes the last prefix, by a swap if it holds another one.
WithLastPrefix(bytes, lb) ==
  IF lb = 0 \/ lb = bytes[4] THEN bytes
  ELSE [k \in 1 .. 4 |-> CASE k = 4 -> lb
                           [] k < 4 /\ bytes[4] # 0 /\ bytes[k] = lb -> bytes[4]
                           [] OTHER -> bytes[k]]

LegacyPrefixes(i) ==
  LET n    == PrefixesEnd
      kept == Different[n]
      lb   == IF n = 0 THEN 0 ELSE ByteAt(n - 1)
  IN  [i EXCEPT
         !.prefixes = [nbytes |-> n, got |-> TRUE,
                       bytes  |-> WithLastPrefix(
                                    [k \in 1 .. 4 |-> IF k <= Len(kept) THEN kept[k] ELSE 0], lb)],
         !.addr_bytes = IF ~Contains(kept, \h67) THEN @ ELSE IF i.x86_64 THEN 4 ELSE 2,
         !.opnd_bytes = IF Contains(kept, \h66) THEN 2 ELSE @,
         !.next_byte = n]

RexPrefix(i) ==
  LET b == ByteAt(i.next_byte)
      present == i.x86_64 /\ inat_get_opcode_attribute(b).pfx = "REX"
  IN  [i EXCEPT
         !.rex_prefix = [nbytes |-> IF present THEN 1 ELSE 0, got |-> TRUE,
                         value  |-> IF present THEN b ELSE 0],
         !.opnd_bytes = IF present /\ X86_REX_W(b) THEN 8 ELSE @,
         !.next_byte = IF present THEN @ + 1 ELSE @]

\* In 32-bit mode, C4 and C5 are LES and LDS unless the mod bits are 11.
VexPrefix(i) ==
  LET b(k) == ByteAt(i.next_byte + k)
      pfx  == inat_get_opcode_attribute(b(0)).pfx
      n    == IF ~i.x86_64 /\ X86_MODRM_MOD(b(1)) # 3 THEN 0
              ELSE CASE pfx = "VEX2" -> 2 [] pfx = "VEX3" -> 3 [] OTHER -> 0
  IN  [i EXCEPT
         !.vex_prefix = [nbytes |-> n, got |-> TRUE,
                         bytes  |-> [k \in 1 .. 3 |-> IF k <= n THEN b(k - 1) ELSE 0]],
         !.opnd_bytes = IF n = 3 /\ i.x86_64 /\ X86_VEX_W(b(2)) THEN 8 ELSE @,
         !.next_byte = @ + n]

insn_last_prefix(i) == i.prefixes.bytes[4]
insn_is_avx(i)      == i.vex_prefix.nbytes # 0
insn_vex_m_bits(i)  == IF i.vex_prefix.nbytes = 2 THEN 1 ELSE X86_VEX3_M(i.vex_prefix.bytes[2])
insn_vex_p_bits(i)  == X86_VEX_P(i.vex_prefix.bytes[i.vex_prefix.nbytes])

\* With a VEX prefix there is one opcode byte; without, escapes lead from
\* one opcode map to another, followed here up to the last byte that
\* opcode.bytes has room for.
OpcodeBytes(i) ==
  LET b(k) == ByteAt(i.next_byte + k - 1)
      escaped(k, a) == inat_get_escape_attribute(b(k), insn_last_prefix(i), a)
      a1   == inat_get_opcode_attribute(b(1))
      a2   == escaped(2, a1)
      a3   == escaped(3, a2)
      attr == <<a1, a2, a3, escaped(4, a3)>>
      avx  == inat_get_avx_attribute(b(1), insn_vex_m_bits(i), insn_vex_p_bits(i))
      n    == IF insn_is_avx(i) \/ a1.esc = 0 THEN 1
              ELSE IF a2.esc = 0 THEN 2 ELSE IF a3.esc = 0 THEN 3 ELSE 4
  IN  [i EXCEPT
         !.opcode = [nbytes |-> n, got |-> TRUE, bytes |-> [k \in 1 .. n |-> b(k)]],
         !.attr = IF insn_is_avx(i)
                  THEN IF "VEXOK" \in avx.flags THEN avx ELSE NoAttribute
                  ELSE IF "VEXONLY" \in attr[n].flags THEN NoAttribute ELSE attr[n],
         !.next_byte = @ + n]

ModRM_NoForce64(i) ==
  LET present == "MODRM" \in i.attr.flags
      mod     == ByteAt(i.next_byte)
      attr    == IF present /\ i.attr.grp # 0
                 THEN inat_get_group_attribute(mod, insn_last_prefix(i), i.attr) ELSE i.attr
  IN  [i EXCEPT
         !.modrm = [nbytes |-> IF present THEN 1 ELSE 0, got |-> TRUE,
                    value  |-> IF present THEN mod ELSE 0],
         !.attr = attr,
         !.next_byte = IF present THEN @ + 1 ELSE @]

ModRM(i) ==
  LET present == "MODRM" \in i.attr.flags
      mod     == ByteAt(i.next_byte)
      attr    == IF present /\ i.attr.grp # 0
                 THEN inat_get_group_attribute(mod, insn_last_prefix(i), i.attr) ELSE i.attr
  IN  [i EXCEPT
         !.modrm = [nbytes |-> IF present THEN 1 ELSE 0, got |-> TRUE,
                    value  |-> IF present THEN mod ELSE 0],
         !.attr = attr,
         !.opnd_bytes = IF i.x86_64 /\ "FORCE64" \in attr.flags THEN 8 ELSE @,
         !.next_byte = IF present THEN @ + 1 ELSE @]

Sib_NotCounted(i) ==
  LET present == /\ i.modrm.nbytes # 0
                 /\ i.addr_bytes # 2
                 /\ X86_MODRM_MOD(i.modrm.value) # 3
                 /\ X86_MODRM_RM(i.modrm.value) = 4
  IN  [i EXCEPT
         !.sib = [@ EXCEPT !.got = TRUE, !.value = IF present THEN ByteAt(i.next_byte) ELSE 0],
         !.next_byte = IF present THEN @ + 1 ELSE @]

Sib(i) ==
  LET present == /\ i.modrm.nbytes # 0
                 /\ i.addr_bytes # 2
                 /\ X86_MODRM_MOD(i.modrm.value) # 3
                 /\ X86_MODRM_RM(i.modrm.value) = 4
  IN  [i EXCEPT
         !.sib = [nbytes |-> IF present THEN 1 ELSE 0, got |-> TRUE,
                  value  |-> IF present THEN ByteAt(i.next_byte) ELSE 0],
         !.next_byte = IF present THEN @ + 1 ELSE @]

DisplacementBytes_NoSibBase(i) ==
  LET mod == X86_MODRM_MOD(i.modrm.value)
      rm  == X86_MODRM_RM(i.modrm.value)
  IN  IF i.modrm.nbytes = 0 \/ mod = 3 THEN 0
      ELSE IF mod = 1 THEN 1
      ELSE IF i.addr_bytes = 2
      THEN IF (mod = 0 /\ rm = 6) \/ mod = 2 THEN 2 ELSE 0
      ELSE IF (mod = 0 /\ rm = 5) \/ mod = 2 THEN 4 ELSE 0

DisplacementBytes(i) ==
  LET mod  == X86_MODRM_MOD(i.modrm.value)
      rm   == X86_MODRM_RM(i.modrm.value)
      base == X86_SIB_BASE(i.sib.value)
  IN  IF i.modrm.nbytes = 0 \/ mod = 3 THEN 0
      ELSE IF mod = 1 THEN 1
      ELSE IF i.addr_bytes = 2
      THEN IF (mod = 0 /\ rm = 6) \/ mod = 2 THEN 2 ELSE 0
      ELSE IF (mod = 0 /\ rm = 5) \/ mod = 2 \/ (mod = 0 /\ base = 5) THEN 4 ELSE 0

Displacement(i) ==
  LET n == DisplacementBytes(i)
  IN  [(IF n = 0 THEN i ELSE GetNext(i, "displacement", n)) EXCEPT !.displacement.got = TRUE]

\* The bytes of the two immediates.
moffset_bytes(addr_bytes) == IF addr_bytes = 8 THEN <<4, 4>> ELSE <<addr_bytes, 0>>
immv32_bytes(opnd_bytes)  == IF opnd_bytes = 2 THEN <<2, 0>> ELSE <<4, 0>>
immv_bytes(opnd_bytes)    == IF opnd_bytes = 8 THEN <<4, 4>> ELSE <<opnd_bytes, 0>>
immptr_bytes(opnd_bytes)  == IF opnd_bytes = 8 THEN <<0, 0>> ELSE <<opnd_bytes, 2>>

ImmediateBytes(i) ==
  IF "MOFFSET" \in i.attr.flags THEN moffset_bytes(i.addr_bytes)
  ELSE CASE i.attr.imm = "none"    -> <<0, 0>>
         [] i.attr.imm = "BYTE"    -> <<1, 0>>
         [] i.attr.imm = "WORD"    -> <<2, 0>>
         [] i.attr.imm = "DWORD"   -> <<4, 0>>
         [] i.attr.imm = "QWORD"   -> <<4, 4>>
         [] i.attr.imm = "PTR"     -> immptr_bytes(i.opnd_bytes)
         [] i.attr.imm = "VWORD32" -> immv32_bytes(i.opnd_bytes)
         [] i.attr.imm = "VWORD"   -> immv_bytes(i.opnd_bytes)

\* got of the second immediate is set where it belongs to the first, but not
\* for QWORD nor for the second immediate of ENTER.
Immediate(i) ==
  LET n      == ImmediateBytes(i)
      first  == IF n[1] = 0 THEN i ELSE GetNext(i, "immediate1", n[1])
      second == IF n[2] = 0 THEN first ELSE GetNext(first, "immediate2", n[2])
      third  == IF "SCNDIMM" \in i.attr.flags THEN GetNext(second, "immediate2", 1) ELSE second
  IN  [third EXCEPT !.immediate1.got = TRUE,
                    !.immediate2.got = \/ "MOFFSET" \in i.attr.flags
                                       \/ i.attr.imm = "VWORD"
                                       \/ i.attr.imm = "PTR" /\ i.opnd_bytes # 8]

-----------------------------------------------------------------------------
(***************************************************************************)
(* The accessors.  Each set holds the one struct insn that a call leaves.  *)
(***************************************************************************)
AfterPrefixes(i) ==
  IF i.prefixes.got THEN {i}
  ELSE {VexPrefix(k) : k \in {RexPrefix(j) : j \in {LegacyPrefixes(i)}}}

AfterOpcode(i) ==
  IF i.opcode.got THEN {i} ELSE {OpcodeBytes(j) : j \in AfterPrefixes(i)}

AfterModRM(i) ==
  IF i.modrm.got THEN {i} ELSE {ModRM(j) : j \in AfterOpcode(i)}

AfterSib_Again(i) == {Sib(j) : j \in AfterModRM(i)}

AfterSib(i) ==
  IF i.sib.got THEN {i} ELSE {Sib(j) : j \in AfterModRM(i)}

AfterDisplacement(i) ==
  IF i.displacement.got THEN {i} ELSE {Displacement(j) : j \in AfterSib(i)}

AfterImmediate(i) ==
  IF i.immediate1.got THEN {i} ELSE {Immediate(j) : j \in AfterDisplacement(i)}

AfterLength(i) ==
  IF i.length # 0 THEN {i}
  ELSE {[j EXCEPT !.length = j.next_byte % 256] : j \in AfterImmediate(i)}

insn_get_prefixes     == insn' \in AfterPrefixes(insn) /\ UNCHANGED code
insn_get_opcode       == insn' \in AfterOpcode(insn) /\ UNCHANGED code
insn_get_modrm        == insn' \in AfterModRM(insn) /\ UNCHANGED code
insn_get_sib          == insn' \in AfterSib(insn) /\ UNCHANGED code
insn_get_displacement == insn' \in AfterDisplacement(insn) /\ UNCHANGED code
insn_get_immediate    == insn' \in AfterImmediate(insn) /\ UNCHANGED code
insn_get_length       == insn' \in AfterLength(insn) /\ UNCHANGED code

Next ==
  \/ insn_get_prefixes \/ insn_get_opcode \/ insn_get_modrm \/ insn_get_sib
  \/ insn_get_displacement \/ insn_get_immediate \/ insn_get_length

Spec == Init /\ [][Next]_vars

-----------------------------------------------------------------------------
\* The offset of each field, and whether the ModRM byte addresses memory
\* relative to the next instruction.
insn_offset_rex_prefix(i)   == i.prefixes.nbytes
insn_offset_vex_prefix(i)   == insn_offset_rex_prefix(i) + i.rex_prefix.nbytes
insn_offset_opcode(i)       == insn_offset_vex_prefix(i) + i.vex_prefix.nbytes
insn_offset_modrm(i)        == insn_offset_opcode(i) + i.opcode.nbytes
insn_offset_sib(i)          == insn_offset_modrm(i) + i.modrm.nbytes
insn_offset_displacement(i) == insn_offset_sib(i) + i.sib.nbytes
insn_offset_immediate(i)    == insn_offset_displacement(i) + i.displacement.nbytes

insn_rip_relative(i) ==
  i.x86_64 /\ i.modrm.nbytes # 0 /\ X86_MODRM_MOD(i.modrm.value) = 0
  /\ X86_MODRM_RM(i.modrm.value) = 5

-----------------------------------------------------------------------------
(***************************************************************************)
(* Properties.                                                             *)
(***************************************************************************)

\* The bytes read so far are those of the fields, back to back: whatever was
\* asked for, the offsets insn.h computes from the sizes (insn.h:154
\* "Offset of each field from kaddr") are where displacement and immediate
\* were read, and all of it is the length.
FieldsTile ==
  /\ insn.next_byte = insn_offset_immediate(insn) + insn.immediate1.nbytes + insn.immediate2.nbytes
  /\ insn.displacement.nbytes # 0 => insn.displacement.at = insn_offset_displacement(insn)
  /\ insn.immediate1.nbytes # 0 => insn.immediate1.at = insn_offset_immediate(insn)
  /\ insn.length # 0 => insn.length = insn.next_byte

\* Whatever accessors were called before, in whatever order and how often,
\* insn_get_length finds the instruction it finds when called at once
\* (insn.c:59 "No effect if @insn->prefixes.got is already set").
CallsCommute ==
  insn.length # 0 => AfterLength(insn_init(insn.x86_64)) = {insn}

\* All the prefixes, up to four different ones, are kept, and the last one is
\* in bytes[3], where insn_last_prefix looks for it (insn.h:39
\* "prefixes.bytes[3]: last prefix"), in spite of repetitions.
PrefixesKept ==
  insn.prefixes.got =>
    LET n == insn.prefixes.nbytes
        bytes == insn.prefixes.bytes
    IN  /\ {bytes[k] : k \in 1 .. 4} \ {0} = {ByteAt(k) : k \in 0 .. n - 1}
        /\ n > 0 => insn_last_prefix(insn) = ByteAt(n - 1)

\* Any chain of escapes fits in the four bytes of struct insn_field that
\* insn_get_opcode fills without looking (insn.c:204), and in the three that
\* insn.h:44-46 names.
OpcodeFits == insn.opcode.nbytes <= 3

\* The opcode map that the bytes at the given place lead to.
MapAt(at) ==
  IF ByteAt(at) # \h0f THEN 1
  ELSE CASE ByteAt(at + 1) = \h38 -> 3 [] ByteAt(at + 1) = \h3a -> 4 [] OTHER -> 2

\* Which instructions of the architecture the decoder measures wrongly, because
\* of its tables.
KnownMiscount(map, op, mod, pfx, vex, opnd66) ==
  \* 66 68, PUSH of 16 bits in 64 bits: FORCE64 (inat-tables.h:97)
  \/ map = 1 /\ op = \h68 /\ opnd66
  \* VEX shifts by an immediate, VLDMXCSR and VSTMXCSR: VEXOK is only with the
  \* members of the group, not the opcode (inat-tables.h:285, 342), so ModRM and
  \* immediate are lost
  \/ vex /\ map = 2 /\ op \in \h71 .. \h73 \cup {\hae}
  \* MOVBE of 16 bits: a variant (inat-tables.h:671) that the table for 66 does
  \* not have, so ModRM is lost
  \/ ~vex /\ map = 3 /\ op \in {\hf0, \hf1} /\ pfx = \h66
  \* MOV of control and debug registers, where the mod field is ignored
  \/ ~vex /\ map = 2 /\ op \in \h20 .. \h23 /\ mod # 3

\* Opcode, ModRM, SIB, displacement and immediate have the sizes that the
\* architecture (X86Reference) gives them, with the prefixes decoded many calls
\* earlier (insn.c:315 "Interpreting the modrm byte", insn.c:379 "Decode imm
\* v32(Iz)"): for bytes that are an instruction and not one of the known
\* miscounts.  Where the prefix selects the instruction, it has to be the last
\* one, the only one the decoder looks at.
SizesAsArchitecture ==
  insn.length # 0 =>
    LET pfxs    == {ByteAt(k) : k \in 0 .. insn.prefixes.nbytes - 1}
        last    == IF pfxs = {} THEN 0 ELSE ByteAt(insn.prefixes.nbytes - 1)
        vex     == insn_is_avx(insn)
        reps    == pfxs \cap {\hf2, \hf3}
        pfx     == CASE vex -> <<0, \h66, \hf3, \hf2>>[insn_vex_p_bits(insn) + 1]
                     [] ~vex /\ reps # {} -> IF last \in reps THEN last ELSE CHOOSE b \in reps : TRUE
                     [] ~vex /\ reps = {} -> IF \h66 \in pfxs THEN \h66 ELSE 0
        at      == insn_offset_opcode(insn)
        map     == IF vex THEN insn_vex_m_bits(insn) + 1 ELSE MapAt(at)
        opcode  == IF vex THEN 1 ELSE <<1, 2, 3, 3>>[map]
        op      == ByteAt(at + opcode - 1)
        mod     == ByteAt(at + opcode)
        sib     == ByteAt(at + opcode + 1)
        opnd66  == \h66 \in pfxs /\ ~X86_REX_W(insn.rex_prefix.value)
        operand == IF insn.x86_64 /\ (X86_REX_W(insn.rex_prefix.value) \/ NearBranch(map, op))
                   THEN 8 ELSE IF opnd66 THEN 2 ELSE 4
        address == CASE insn.x86_64 /\ \h67 \notin pfxs -> 8
                     [] ~insn.x86_64 /\ \h67 \in pfxs -> 2
                     [] OTHER -> 4
        claimed == /\ IF vex
                      THEN /\ DefinedVex(map, op, X86_MODRM_REG(mod), pfx)
                           /\ pfxs \cap {\h66, \hf0, \hf2, \hf3} = {}
                           /\ insn.rex_prefix.nbytes = 0
                      ELSE /\ map = 1 \/ pfx \in {0, last}
                           /\ Defined(map, op, X86_MODRM_REG(mod), pfx, insn.x86_64)
                   /\ ~KnownMiscount(map, op, X86_MODRM_MOD(mod), pfx, vex,
                                     insn.x86_64 /\ opnd66)
        addressing == HasModRM(map, op) /\ ~RegisterOnly(map, op)
        hasSib  == mod \div 64 # 3 /\ mod % 8 = 4 /\ address # 2
    IN  claimed =>
          /\ insn.opcode.nbytes = opcode
          /\ insn.modrm.nbytes = IF HasModRM(map, op) THEN 1 ELSE 0
          /\ insn.sib.nbytes = IF addressing /\ hasSib THEN 1 ELSE 0
          /\ insn.displacement.nbytes = IF addressing THEN DispBytes(mod, sib, address) ELSE 0
          /\ insn.immediate1.nbytes + insn.immediate2.nbytes
               = ImmBytes(Imm(map, op, X86_MODRM_REG(mod)), operand, address)

\* In the 64-bit kernel, the 32-bit offset that copy_and_fixup_insn adjusts
\* (hook.c:74, hook.c:94) is one the instruction has: the immediate of a CALL
\* or JMP (E8, E9) and the displacement of a RIP-relative operand have four
\* bytes and lie inside the copy.  Instructions with a VEX prefix are
\* excepted: E8 or E9 may be the opcode byte of another map there.
FixupInside ==
  (insn.length # 0 /\ insn.x86_64 /\ ~insn_is_avx(insn)) =>
    /\ insn.opcode.bytes[1] \in {\he8, \he9} =>
         /\ insn.immediate1.nbytes = 4 /\ insn.immediate2.nbytes = 0
         /\ insn_offset_immediate(insn) + 4 = insn.length
    /\ insn_rip_relative(insn) =>
         /\ insn.displacement.nbytes = 4
         /\ insn_offset_displacement(insn) + 4 <= insn.length

=============================================================================
