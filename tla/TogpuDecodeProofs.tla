------------------------- MODULE TogpuDecodeProofs -------------------------
(***************************************************************************)
(* Proofs about the instruction decoder, for any code of up to 15 bytes.   *)
(***************************************************************************)
EXTENDS TogpuDecode, WellFoundedInduction, TLAPS

(***************************************************************************)
(* The attribute tables.                                                   *)
(***************************************************************************)

\* An entry is one whose set holds the opcode; there is none if no set does.
LEMMA EntryFound ==
  ASSUME NEW sets, NEW op, NEW none
  PROVE  \/ Entry(sets, op, none) \in DOMAIN sets /\ op \in sets[Entry(sets, op, none)]
         \/ Entry(sets, op, none) = none /\ \A k \in DOMAIN sets : op \notin sets[k]
<1>1. CASE \E k \in DOMAIN sets : op \in sets[k]
  <2> DEFINE e == CHOOSE k \in DOMAIN sets : op \in sets[k]
  <2>1. e \in DOMAIN sets /\ op \in sets[e]
    BY <1>1, Zenon
  <2>2. Entry(sets, op, none) = e
    BY <1>1, Zenon DEF Entry
  <2> QED
    BY <2>1, <2>2, Zenon
<1>2. CASE ~ \E k \in DOMAIN sets : op \in sets[k]
  BY <1>2, Zenon DEF Entry
<1> QED
  BY <1>1, <1>2, Zenon

\* An attribute takes its parts from the sets it is made of.
LEMMA AttributeParts ==
  ASSUME NEW pfx, NEW esc, NEW grp, NEW imm, NEW flags, NEW op
  PROVE  LET a == Attribute(pfx, esc, grp, imm, flags, op)
         IN  /\ a.pfx = Entry(pfx, op, "none")
             /\ a.esc = Entry(esc, op, 0)
             /\ a.grp = Entry(grp, op, 0)
             /\ a.imm = Entry(imm, op, "none")
             /\ a.flags = {f \in DOMAIN flags : op \in flags[f]}
             /\ DOMAIN a = {"pfx", "esc", "grp", "imm", "flags"}
BY DEF Attribute

\* What the decoder relies on in an attribute: the immediate is of a known
\* kind, only ENTER has a second immediate, and a memory offset excludes it.
Decodable(a) ==
  /\ a.imm \in {"none", "BYTE", "WORD", "PTR", "VWORD32", "VWORD"}
  /\ "SCNDIMM" \in a.flags => a.imm = "WORD" /\ "MOFFSET" \notin a.flags
  /\ a.grp \in 0 .. 21
  /\ DOMAIN a = {"pfx", "esc", "grp", "imm", "flags"}

\* The same of an attribute that is not of the primary map.
Plain(a) ==
  /\ a.imm \in {"none", "BYTE", "VWORD32"}
  /\ {"SCNDIMM", "MOFFSET"} \cap a.flags = {}
  /\ a.grp \in 0 .. 21
  /\ a.esc \in 0 .. 3
  /\ DOMAIN a = {"pfx", "esc", "grp", "imm", "flags"}

LEMMA PlainAttribute ==
  ASSUME NEW pfx, NEW esc, NEW grp, NEW imm, NEW flags, NEW op,
         DOMAIN imm \subseteq {"BYTE", "VWORD32"},
         "SCNDIMM" \notin DOMAIN flags, "MOFFSET" \notin DOMAIN flags,
         DOMAIN grp \subseteq 1 .. 21, DOMAIN esc \subseteq 1 .. 3
  PROVE  Plain(Attribute(pfx, esc, grp, imm, flags, op))
<1> DEFINE a == Attribute(pfx, esc, grp, imm, flags, op)
<1>1. a.imm \in {"none", "BYTE", "VWORD32"}
  <2>1. a.imm = Entry(imm, op, "none")
    BY AttributeParts
  <2>2. Entry(imm, op, "none") \in DOMAIN imm \cup {"none"}
    BY EntryFound
  <2> QED
    BY <2>1, <2>2
<1>2. {"SCNDIMM", "MOFFSET"} \cap a.flags = {}
  <2>1. a.flags = {f \in DOMAIN flags : op \in flags[f]}
    BY AttributeParts
  <2> QED
    BY <2>1
<1>3. a.grp \in 0 .. 21
  <2>1. a.grp = Entry(grp, op, 0)
    BY AttributeParts
  <2>2. Entry(grp, op, 0) \in DOMAIN grp \cup {0}
    BY EntryFound
  <2> QED
    BY <2>1, <2>2
<1>4. a.esc \in 0 .. 3
  <2>1. a.esc = Entry(esc, op, 0)
    BY AttributeParts
  <2>2. Entry(esc, op, 0) \in DOMAIN esc \cup {0}
    BY EntryFound
  <2> QED
    BY <2>1, <2>2
<1>5. DOMAIN a = {"pfx", "esc", "grp", "imm", "flags"}
  BY AttributeParts
<1> QED
  BY <1>1, <1>2, <1>3, <1>4, <1>5 DEF Plain

\* So the attribute 0, which has no part, is plain.
LEMMA NoAttributeParts ==
  /\ Plain(NoAttribute)
  /\ NoAttribute.pfx = "none" /\ NoAttribute.esc = 0 /\ NoAttribute.flags = {}
<1>1. Plain(NoAttribute)
  BY PlainAttribute DEF NoAttribute, NoPrefix, NoImm
<1>2. NoAttribute.pfx = "none"
  <2>1. NoAttribute.pfx = Entry(NoPrefix, 0, "none")
    BY AttributeParts DEF NoAttribute
  <2> QED
    BY <2>1, EntryFound DEF NoPrefix
<1>3. NoAttribute.esc = 0
  <2>1. NoAttribute.esc = Entry(<<>>, 0, 0)
    BY AttributeParts DEF NoAttribute
  <2>2. \/ Entry(<<>>, 0, 0) \in DOMAIN << >>
        \/ Entry(<<>>, 0, 0) = 0
    BY EntryFound
  <2> QED
    BY <2>1, <2>2
<1>4. NoAttribute.flags = {}
  <2>1. NoAttribute.flags = {f \in DOMAIN [MODRM |-> {}] : 0 \in [MODRM |-> {}][f]}
    BY AttributeParts DEF NoAttribute
  <2> QED
    BY <2>1
<1> QED
  BY <1>1, <1>2, <1>3, <1>4

\* No escape leads from maps 2 and 3 to another one, nor from map 1 to
\* itself.
Leads(a, e) == a.esc # 0 => e = 1 /\ a.esc \in {2, 3}

PlainMap(t, e) == \A op \in Opcode : Plain(t[op]) /\ Leads(t[op], e)

LEMMA MapWithoutEscape ==
  ASSUME NEW t, NEW imm, NEW flags, NEW e,
         t = [op \in Opcode |-> Attribute(NoPrefix, <<>>, <<>>, imm, flags, op)],
         DOMAIN imm \subseteq {"BYTE", "VWORD32"},
         "SCNDIMM" \notin DOMAIN flags, "MOFFSET" \notin DOMAIN flags
  PROVE  PlainMap(t, e)
<1> SUFFICES ASSUME NEW op \in Opcode
             PROVE  Plain(t[op]) /\ t[op].esc = 0
  BY DEF PlainMap, Leads
<1>1. t[op] = Attribute(NoPrefix, <<>>, <<>>, imm, flags, op)
  OBVIOUS
<1>2. Plain(Attribute(NoPrefix, <<>>, <<>>, imm, flags, op))
  BY PlainAttribute
<1>3. t[op].esc = Entry(<<>>, op, 0)
  BY <1>1, AttributeParts
<1>4. \/ Entry(<<>>, op, 0) \in DOMAIN << >>
      \/ Entry(<<>>, op, 0) = 0
  BY EntryFound
<1> QED
  BY <1>1, <1>2, <1>3, <1>4

LEMMA Map1 == PlainMap(inat_escape_table_1, 1)
<1> SUFFICES ASSUME NEW op \in Opcode
             PROVE  Plain(inat_escape_table_1[op]) /\ inat_escape_table_1[op].esc \in {0, 2, 3}
  BY DEF PlainMap, Leads
<1>1. Plain(inat_escape_table_1[op])
  BY PlainAttribute DEF inat_escape_table_1
<1>2. inat_escape_table_1[op].esc = Entry(<<{}, {\h38}, {\h3a}>>, op, 0)
  BY AttributeParts DEF inat_escape_table_1
<1>3. \/ /\ Entry(<<{}, {\h38}, {\h3a}>>, op, 0) \in DOMAIN <<{}, {\h38}, {\h3a}>>
         /\ op \in <<{}, {\h38}, {\h3a}>>[Entry(<<{}, {\h38}, {\h3a}>>, op, 0)]
      \/ Entry(<<{}, {\h38}, {\h3a}>>, op, 0) = 0
  BY EntryFound
<1> QED
  BY <1>1, <1>2, <1>3

LEMMA Map1_1 == PlainMap(inat_escape_table_1_1, 1)
BY MapWithoutEscape DEF inat_escape_table_1_1

LEMMA Map1_2 == PlainMap(inat_escape_table_1_2, 1)
BY MapWithoutEscape DEF inat_escape_table_1_2

LEMMA Map1_3 == PlainMap(inat_escape_table_1_3, 1)
BY MapWithoutEscape DEF inat_escape_table_1_3

LEMMA Map2 == PlainMap(inat_escape_table_2, 2)
BY MapWithoutEscape DEF inat_escape_table_2, NoImm

LEMMA Map2_1 == PlainMap(inat_escape_table_2_1, 2)
BY MapWithoutEscape DEF inat_escape_table_2_1, NoImm

LEMMA Map2_3 == PlainMap(inat_escape_table_2_3, 2)
BY MapWithoutEscape DEF inat_escape_table_2_3, NoImm

LEMMA Map3 == PlainMap(inat_escape_table_3, 3)
BY MapWithoutEscape DEF inat_escape_table_3

LEMMA Map3_1 == PlainMap(inat_escape_table_3_1, 3)
BY MapWithoutEscape DEF inat_escape_table_3_1

LEMMA EmptyMap == ASSUME NEW e PROVE PlainMap(NoTable, e)
BY NoAttributeParts DEF NoTable, PlainMap, Leads

LEMMA EscapeMaps ==
  ASSUME NEW e \in 1 .. 3, NEW p \in 1 .. 4
  PROVE  PlainMap(inat_escape_tables[e][p], e)
<1>1. CASE e = 1
  BY <1>1, Map1, Map1_1, Map1_2, Map1_3 DEF inat_escape_tables
<1>2. CASE e = 2
  BY <1>2, Map2, Map2_1, Map2_3, EmptyMap DEF inat_escape_tables
<1>3. CASE e = 3
  BY <1>3, Map3, Map3_1, EmptyMap DEF inat_escape_tables
<1> QED
  BY <1>1, <1>2, <1>3

\* The attributes of the one-byte opcodes.
LEMMA PrimaryParts ==
  ASSUME NEW op \in Opcode
  PROVE  LET a == inat_primary_table[op]
         IN  /\ a.pfx = Entry(PrimaryPrefixes, op, "none")
             /\ a.esc = Entry(<<{\h0f}>>, op, 0)
             /\ a.grp \in 0 .. 8
             /\ a.imm = Entry(PrimaryImms, op, "none")
             /\ a.flags = {f \in DOMAIN PrimaryFlags : op \in PrimaryFlags[f]}
             /\ DOMAIN a = {"pfx", "esc", "grp", "imm", "flags"}
<1> DEFINE groups == <<\h80 .. \h83, {\h8f}, \hc0 .. \hc1 \cup \hd0 .. \hd3, \hc6 .. \hc7,
                       {\hf6}, {\hf7}, {\hfe}, {\hff}>>
<1>1. inat_primary_table[op] =
        Attribute(PrimaryPrefixes, <<{\h0f}>>, groups, PrimaryImms, PrimaryFlags, op)
  BY DEF inat_primary_table
<1>2. DOMAIN groups = 1 .. 8
  OBVIOUS
<1> HIDE DEF groups
<1>3. Entry(groups, op, 0) \in 0 .. 8
  BY <1>2, EntryFound
<1> QED
  BY <1>1, <1>3, AttributeParts

LEMMA PrimaryMap ==
  ASSUME NEW op \in Opcode
  PROVE  /\ Decodable(inat_primary_table[op])
         /\ inat_primary_table[op].esc \in {0, 1}
         /\ inat_primary_table[op].esc = 1 => op = \h0f
<1> DEFINE a == inat_primary_table[op]
<1>1. a.imm = "none" \/ (a.imm \in DOMAIN PrimaryImms /\ op \in PrimaryImms[a.imm])
  BY PrimaryParts, EntryFound
<1>2. a.imm \in {"none", "BYTE", "WORD", "PTR", "VWORD32", "VWORD"}
  BY <1>1 DEF PrimaryImms
<1>3. "SCNDIMM" \in a.flags => a.imm = "WORD" /\ "MOFFSET" \notin a.flags
  <2> SUFFICES ASSUME "SCNDIMM" \in a.flags
               PROVE  a.imm = "WORD" /\ "MOFFSET" \notin a.flags
    OBVIOUS
  <2>1. op = \hc8
    BY PrimaryParts DEF PrimaryFlags
  <2>2. "MOFFSET" \notin a.flags
    BY <2>1, PrimaryParts DEF PrimaryFlags
  <2>3. op \in PrimaryImms["WORD"] /\ "WORD" \in DOMAIN PrimaryImms
    BY <2>1 DEF PrimaryImms
  <2>4. a.imm # "none"
    BY <2>3, PrimaryParts, EntryFound DEF PrimaryImms
  <2>5. \A k \in DOMAIN PrimaryImms : op \in PrimaryImms[k] => k = "WORD"
    BY <2>1 DEF PrimaryImms
  <2> QED
    BY <1>1, <2>2, <2>4, <2>5
<1>4. a.esc = Entry(<<{\h0f}>>, op, 0)
  BY PrimaryParts
<1>5. \/ Entry(<<{\h0f}>>, op, 0) = 1 /\ op = \h0f
      \/ Entry(<<{\h0f}>>, op, 0) = 0
  BY EntryFound
<1> QED
  BY <1>2, <1>3, <1>4, <1>5, PrimaryParts DEF Decodable

\* A byte of zero, which is what follows the code, is no prefix.
LEMMA ZeroNoPrefix == ~inat_is_legacy_prefix(inat_get_opcode_attribute(0))
<1>0. 0 \in Opcode
  BY DEF Opcode
<1>1. inat_primary_table[0].pfx = Entry(PrimaryPrefixes, 0, "none")
  BY <1>0, PrimaryParts
<1>2. \A k \in DOMAIN PrimaryPrefixes : 0 \notin PrimaryPrefixes[k]
  BY DEF PrimaryPrefixes
<1>3. Entry(PrimaryPrefixes, 0, "none") = "none"
  BY <1>2, EntryFound, Zenon
<1> QED
  BY <1>1, <1>3 DEF inat_is_legacy_prefix, inat_get_opcode_attribute

\* CALL and JMP have a relative offset and nothing else.
LEMMA CallAndJmp ==
  ASSUME NEW op \in {\he8, \he9}
  PROVE  LET a == inat_primary_table[op]
         IN  /\ a.imm = "VWORD32" /\ a.esc = 0 /\ "FORCE64" \in a.flags
             /\ {"MODRM", "MOFFSET", "SCNDIMM", "VEXONLY"} \cap a.flags = {}
<1> DEFINE a == inat_primary_table[op]
<1>0. op \in Opcode /\ op # \h0f
  BY DEF Opcode
<1>1. a.imm = "none" \/ (a.imm \in DOMAIN PrimaryImms /\ op \in PrimaryImms[a.imm])
  BY <1>0, PrimaryParts, EntryFound
<1>2. op \in PrimaryImms["VWORD32"] /\ "VWORD32" \in DOMAIN PrimaryImms
  BY DEF PrimaryImms
<1>3. a.imm # "none"
  BY <1>0, <1>2, PrimaryParts, EntryFound DEF PrimaryImms
<1>4. \A k \in DOMAIN PrimaryImms : op \in PrimaryImms[k] => k = "VWORD32"
  BY DEF PrimaryImms
<1>5. a.esc = 0
  BY <1>0, PrimaryMap
<1>6. "FORCE64" \in a.flags /\ {"MODRM", "MOFFSET", "SCNDIMM", "VEXONLY"} \cap a.flags = {}
  BY <1>0, PrimaryParts DEF PrimaryFlags
<1> QED
  BY <1>1, <1>3, <1>4, <1>5, <1>6

\* The members of the groups.
LEMMA MembersPlain ==
  ASSUME NEW imm, NEW flags, NEW reg \in Reg,
         DOMAIN imm \subseteq {"BYTE", "VWORD32"},
         "SCNDIMM" \notin DOMAIN flags, "MOFFSET" \notin DOMAIN flags
  PROVE  Plain(ByReg(imm, flags)[reg])
<1>1. Plain(Attribute(NoPrefix, <<>>, <<>>, imm, flags, reg))
  BY PlainAttribute
<1> QED
  BY <1>1 DEF ByReg

LEMMA GroupMaps ==
  ASSUME NEW n \in 1 .. 21, NEW p \in 1 .. 4, NEW reg \in Reg
  PROVE  Plain(inat_group_tables[n][p][reg])
<1>1. Plain(NoGroup[reg])
  BY NoAttributeParts DEF NoGroup
<1>2. \A plain : Plain(plain[reg]) => Plain(Group(plain)[p][reg])
  BY <1>1 DEF Group
<1>3. /\ Plain(ShiftGroup[reg]) /\ Plain(ShiftGroup_66[reg])
      /\ Plain(ByteGroup[reg])  /\ Plain(ByteGroup_66[reg])
  BY MembersPlain DEF ShiftGroup, ShiftGroup_66, ByteGroup, ByteGroup_66
<1> DEFINE g5  == ByReg([BYTE |-> {0}],    [MODRM |-> Reg \ {1}])
           g6  == ByReg([VWORD32 |-> {0}], [MODRM |-> Reg \ {1}])
           g7  == ByReg(NoImm, [MODRM |-> 0 .. 1])
           g8  == ByReg(NoImm, [MODRM |-> 0 .. 6, FORCE64 |-> {2, 4, 6}])
           g9  == ByReg(NoImm, [MODRM |-> 0 .. 5])
           g10 == ByReg(NoImm, [MODRM |-> Reg \ {5}])
           g12 == ByReg(NoImm, [MODRM |-> 0 .. 3])
           g18 == ByReg(NoImm, [VEXOK |-> {2, 3}])
           g21 == ByReg(NoImm, [MODRM |-> {1, 6, 7}, VARIANT |-> {6}])
           m21 == ByReg(NoImm, [MODRM |-> {6}])
<1>4. /\ Plain(g5[reg]) /\ Plain(g6[reg]) /\ Plain(g7[reg]) /\ Plain(g8[reg])
      /\ Plain(g9[reg]) /\ Plain(g10[reg]) /\ Plain(g12[reg])
      /\ Plain(g18[reg]) /\ Plain(g21[reg]) /\ Plain(m21[reg])
  BY MembersPlain DEF NoImm
<1>5. inat_group_tables[n] =
        CASE n = 5  -> Group(g5)
          [] n = 6  -> Group(g6)
          [] n = 7  -> Group(g7)
          [] n = 8  -> Group(g8)
          [] n = 9  -> Group(g9)
          [] n = 10 -> Group(g10)
          [] n = 12 -> Group(g12)
          [] n \in {13, 14} -> <<ShiftGroup, ShiftGroup_66, NoGroup, NoGroup>>
          [] n = 15 -> <<ByteGroup, ByteGroup_66, NoGroup, NoGroup>>
          [] n = 18 -> Group(g18)
          [] n = 21 -> <<g21, m21, m21, NoGroup>>
          [] OTHER  -> Group(NoGroup)
  BY Zenon DEF inat_group_tables
<1> HIDE DEF g5, g6, g7, g8, g9, g10, g12, g18, g21, m21
<1>6. CASE n \in {5, 6, 7, 8, 9, 10, 12, 18}
  BY <1>2, <1>4, <1>5, <1>6
<1>7. CASE n \in {13, 14, 15, 21}
  BY <1>1, <1>3, <1>4, <1>5, <1>7
<1>8. CASE n \in {1, 2, 3, 4, 11, 16, 17, 19, 20}
  BY <1>1, <1>2, <1>5, <1>8
<1> QED
  BY <1>6, <1>7, <1>8

\* What the lookups return.
LEMMA LastPrefixIdType == ASSUME NEW pfx PROVE LastPrefixId(pfx) \in 0 .. 3
BY DEF LastPrefixId, inat_last_prefix_id

LEMMA VariantFound ==
  ASSUME NEW tables, NEW k, NEW last_pfx
  PROVE  \E p \in 1 .. 4 : Variant(tables, k, last_pfx) = tables[p][k]
BY LastPrefixIdType DEF Variant

LEMMA EscapeLookup ==
  ASSUME NEW op \in Opcode, NEW last_pfx, NEW a, a.esc \in 0 .. 3
  PROVE  LET b == inat_get_escape_attribute(op, last_pfx, a)
         IN  Plain(b) /\ (b.esc # 0 => a.esc = 1 /\ b.esc \in {2, 3})
<1>1. CASE a.esc = 0
  BY <1>1, NoAttributeParts DEF inat_get_escape_attribute
<1>2. CASE a.esc \in 1 .. 3
  <2>1. PICK p \in 1 .. 4 : inat_get_escape_attribute(op, last_pfx, a)
                              = inat_escape_tables[a.esc][p][op]
    BY <1>2, VariantFound DEF inat_get_escape_attribute
  <2> QED
    BY <1>2, <2>1, EscapeMaps DEF PlainMap, Leads
<1> QED
  BY <1>1, <1>2

LEMMA AvxLookup ==
  ASSUME NEW op \in Opcode, NEW m \in Nat, NEW p \in 0 .. 3
  PROVE  Plain(inat_get_avx_attribute(op, m, p))
<1>1. CASE m \in 1 .. 3
  BY <1>1, EscapeMaps DEF inat_get_avx_attribute, inat_avx_tables, PlainMap
<1>2. CASE m \notin 1 .. 3
  BY <1>2, NoAttributeParts DEF inat_get_avx_attribute
<1> QED
  BY <1>1, <1>2

LEMMA PlainDecodable == ASSUME NEW a, Plain(a) PROVE Decodable(a)
BY DEF Plain, Decodable

LEMMA GroupLookup ==
  ASSUME NEW modrm \in Opcode, NEW last_pfx, NEW a, Decodable(a), a.grp # 0
  PROVE  LET b == inat_get_group_attribute(modrm, last_pfx, a)
         IN  Decodable(b) /\ a.flags \subseteq b.flags
<1>1. X86_MODRM_REG(modrm) \in Reg
  BY DEF X86_MODRM_REG, Reg, Opcode
<1>2. PICK p \in 1 .. 4 : Variant(inat_group_tables[a.grp], X86_MODRM_REG(modrm), last_pfx)
                            = inat_group_tables[a.grp][p][X86_MODRM_REG(modrm)]
  BY VariantFound
<1> DEFINE member == Variant(inat_group_tables[a.grp], X86_MODRM_REG(modrm), last_pfx)
           b == inat_get_group_attribute(modrm, last_pfx, a)
<1>3. Plain(member)
  BY <1>1, <1>2, GroupMaps DEF Decodable
<1> HIDE DEF member
<1>4. b = [a EXCEPT !.grp = 0, !.imm = IF a.imm = "none" THEN member.imm ELSE a.imm,
                    !.flags = a.flags \cup member.flags]
  BY DEF inat_get_group_attribute, member
<1> HIDE DEF b
<1>5. DOMAIN a = {"pfx", "esc", "grp", "imm", "flags"}
  BY DEF Decodable
<1>6. /\ DOMAIN b = {"pfx", "esc", "grp", "imm", "flags"}
      /\ b.grp = 0
      /\ b.imm = IF a.imm = "none" THEN member.imm ELSE a.imm
      /\ b.flags = a.flags \cup member.flags
  BY <1>4, <1>5
<1>7. b.imm \in {"none", "BYTE", "WORD", "PTR", "VWORD32", "VWORD"}
  BY <1>3, <1>6 DEF Plain, Decodable
<1>8. "SCNDIMM" \in b.flags => b.imm = "WORD" /\ "MOFFSET" \notin b.flags
  BY <1>3, <1>6 DEF Plain, Decodable
<1>9. Decodable(b) /\ a.flags \subseteq b.flags
  BY <1>6, <1>7, <1>8 DEF Decodable
<1> QED
  BY <1>9 DEF b

-----------------------------------------------------------------------------
(***************************************************************************)
(* The loop over the legacy prefixes.  Induction is by the least           *)
(* counterexample.                                                         *)
(***************************************************************************)
LEMMA LeastNat ==
  ASSUME NEW T, T \subseteq Nat, T # {}
  PROVE  \E x \in T : \A y \in T : x <= y
<1> DEFINE R == OpToRel(<, Nat)
<1>1. IsWellFoundedOn(R, Nat)
  BY NatLessThanWellFounded
<1> HIDE DEF R
<1>2. PICK x \in T : \A y \in T : ~(<<y, x>> \in R)
  BY <1>1, WFMin
<1>3. \A y \in T : ~(y < x)
  BY <1>2 DEF OpToRel, R
<1> QED
  BY <1>3

LEMMA ByteType ==
  ASSUME code \in Seq(Opcode), NEW n \in Nat
  PROVE  ByteAt(n) \in Opcode
<1>1. CASE n < Len(code)
  BY <1>1 DEF ByteAt
<1>2. CASE ~(n < Len(code))
  BY <1>2 DEF ByteAt, Opcode
<1> QED
  BY <1>1, <1>2

\* The sequence with one more byte, if it is a new one.
Add(kept, b) == IF Contains(kept, b) THEN kept ELSE Append(kept, b)

\* The recursive definition of Different defines a function.
LEMMA DifferentDefined ==
  ASSUME code \in Seq(Opcode)
  PROVE  /\ DOMAIN Different = 0 .. Len(code)
         /\ Different[0] = <<>>
         /\ \A n \in 1 .. Len(code) : Different[n] = Add(Different[n - 1], ByteAt(n - 1))
<1> DEFINE Body(N, g) ==
             [n \in 0 .. N |-> IF n = 0 THEN <<>> ELSE Add(g[n - 1], ByteAt(n - 1))]
           Bad == {N \in 0 .. Len(code) : ~ \E g : g = Body(N, g)}
<1>0. Len(code) \in Nat
  OBVIOUS
<1>1. Bad = {}
  <2> SUFFICES ASSUME Bad # {} PROVE FALSE
    OBVIOUS
  <2>1. PICK x \in Bad : \A y \in Bad : x <= y
    <3>1. Bad \subseteq Nat
      BY <1>0
    <3> HIDE DEF Bad
    <3> QED
      BY <3>1, LeastNat
  <2>2. x \in 0 .. Len(code) /\ ~ \E g : g = Body(x, g)
    OBVIOUS
  <2>3. x # 0
    <3> DEFINE g == [n \in 0 .. 0 |-> <<>>]
    <3>1. g = Body(0, g)
      OBVIOUS
    <3> QED
      BY <2>2, <3>1
  <2>4. PICK g : g = Body(x - 1, g)
    <3>1. x \in Int /\ ~(x <= x - 1) /\ x - 1 \in 0 .. Len(code)
      BY <1>0, <2>2, <2>3
    <3>2. x - 1 \notin Bad
      BY <2>1, <3>1, Zenon
    <3> QED
      BY <3>1, <3>2, Zenon
  <2> DEFINE h == [n \in 0 .. x |-> IF n = x THEN Add(g[x - 1], ByteAt(x - 1)) ELSE g[n]]
  <2>5. \A n \in 0 .. x : h[n] = IF n = 0 THEN <<>> ELSE Add(h[n - 1], ByteAt(n - 1))
    <3> SUFFICES ASSUME NEW n \in 0 .. x
                 PROVE  h[n] = IF n = 0 THEN <<>> ELSE Add(h[n - 1], ByteAt(n - 1))
      OBVIOUS
    <3>1. CASE n = x
      <4>1. h[n - 1] = g[x - 1]
        BY <1>0, <2>2, <2>3, <3>1
      <4> QED
        BY <2>3, <3>1, <4>1
    <3>2. CASE n # x
      <4>1. n \in 0 .. x - 1 /\ h[n] = g[n]
        BY <1>0, <2>2, <3>2
      <4>2. g[n] = IF n = 0 THEN <<>> ELSE Add(g[n - 1], ByteAt(n - 1))
        BY <2>4, <4>1, Zenon
      <4>3. n # 0 => h[n - 1] = g[n - 1]
        BY <1>0, <2>2, <3>2
      <4> QED
        BY <4>1, <4>2, <4>3, Zenon
    <3> QED
      BY <3>1, <3>2
  <2>6. h = Body(x, h)
    BY <2>5, Zenon
  <2> QED
    BY <2>2, <2>6
<1>2. \E g : g = Body(Len(code), g)
  BY <1>0, <1>1
<1>3. Different = Body(Len(code), Different)
  <2>1. Different = CHOOSE g : g = Body(Len(code), g)
    BY Zenon DEF Different, Add
  <2> QED
    BY <1>2, <2>1, Zenon
<1> HIDE DEF Bad
<1>4. DOMAIN Different = 0 .. Len(code)
  BY <1>3, Zenon
<1>5. ASSUME NEW n \in 0 .. Len(code)
      PROVE  Different[n] = IF n = 0 THEN <<>> ELSE Add(Different[n - 1], ByteAt(n - 1))
  BY <1>3, Zenon
<1>6. 0 \in 0 .. Len(code) /\ \A n \in 1 .. Len(code) : n \in 0 .. Len(code) /\ n # 0
  BY <1>0
<1> QED
  BY <1>4, <1>5, <1>6, Zenon

\* The different bytes are bytes, and the ones that were seen.
Collected(n) ==
  /\ Different[n] \in Seq(Opcode)
  /\ \A b : Contains(Different[n], b) <=> \E k \in 0 .. n - 1 : ByteAt(k) = b

LEMMA AddType ==
  ASSUME NEW s \in Seq(Opcode), NEW b \in Opcode
  PROVE  /\ Add(s, b) \in Seq(Opcode)
         /\ Len(Add(s, b)) \in {Len(s), Len(s) + 1}
         /\ Contains(s, b) => Len(Add(s, b)) = Len(s)
         /\ \A c : Contains(Add(s, b), c) <=> Contains(s, c) \/ c = b
<1>1. CASE Contains(s, b)
  BY <1>1 DEF Add, Contains
<1>2. CASE ~Contains(s, b)
  <2>1. Add(s, b) = Append(s, b)
    BY <1>2 DEF Add
  <2>2. /\ Append(s, b) \in Seq(Opcode)
        /\ Len(Append(s, b)) = Len(s) + 1
        /\ \A i \in 1 .. Len(s) : Append(s, b)[i] = s[i]
        /\ Append(s, b)[Len(s) + 1] = b
    OBVIOUS
  <2>3. \A c : Contains(Append(s, b), c) <=> Contains(s, c) \/ c = b
    <3> SUFFICES ASSUME NEW c
                 PROVE  Contains(Append(s, b), c) <=> Contains(s, c) \/ c = b
      OBVIOUS
    <3> DEFINE t == Append(s, b)
    <3>1. Len(s) \in Nat
      OBVIOUS
    <3> HIDE DEF t
    <3>2. ASSUME NEW i \in 1 .. Len(t), t[i] = c
          PROVE  Contains(s, c) \/ c = b
      BY <2>2, <3>1, <3>2 DEF t, Contains
    <3>3. ASSUME NEW i \in 1 .. Len(s), s[i] = c
          PROVE  Contains(t, c)
      BY <2>2, <3>1, <3>3 DEF t, Contains
    <3>4. Contains(t, b)
      BY <2>2, <3>1 DEF t, Contains
    <3> QED
      BY <3>2, <3>3, <3>4 DEF t, Contains
  <2> QED
    BY <1>2, <2>1, <2>2, <2>3
<1> QED
  BY <1>1, <1>2

LEMMA AllCollected ==
  ASSUME code \in Seq(Opcode), NEW m \in 0 .. Len(code)
  PROVE  Collected(m)
<1> DEFINE Bad == {n \in 0 .. Len(code) : ~Collected(n)}
<1>0. Len(code) \in Nat
  OBVIOUS
<1> SUFFICES ASSUME Bad # {} PROVE FALSE
  OBVIOUS
<1>1. PICK x \in Bad : \A y \in Bad : x <= y
  <2>1. Bad \subseteq Nat
    BY <1>0
  <2> HIDE DEF Bad
  <2> QED
    BY <2>1, LeastNat
<1>2. x \in 0 .. Len(code) /\ ~Collected(x)
  BY <1>1
<1>3. CASE x = 0
  <2>1. Different[0] = <<>>
    BY DifferentDefined
  <2>2. \A b : ~Contains(<<>>, b)
    BY DEF Contains
  <2> QED
    BY <1>2, <1>3, <2>1, <2>2 DEF Collected
<1>4. CASE x # 0
  <2>1. x \in Int /\ ~(x <= x - 1) /\ x - 1 \in 0 .. Len(code) /\ x \in 1 .. Len(code)
    BY <1>0, <1>2, <1>4
  <2>2. Collected(x - 1)
    BY <1>1, <2>1, Zenon
  <2>3. Different[x] = Add(Different[x - 1], ByteAt(x - 1))
    BY <2>1, DifferentDefined
  <2>4. ByteAt(x - 1) \in Opcode
    BY <2>1, <1>0, ByteType
  <2>5. Different[x] \in Seq(Opcode)
    BY <2>2, <2>3, <2>4, AddType DEF Collected
  <2>6. \A b : Contains(Different[x], b) <=> Contains(Different[x - 1], b) \/ b = ByteAt(x - 1)
    <3>1. Different[x - 1] \in Seq(Opcode)
      BY <2>2 DEF Collected
    <3>2. \A b : Contains(Add(Different[x - 1], ByteAt(x - 1)), b)
                   <=> Contains(Different[x - 1], b) \/ b = ByteAt(x - 1)
      BY <2>4, <3>1, AddType
    <3> QED
      BY <2>3, <3>2, Zenon
  <2>7. \A b : Contains(Different[x - 1], b) <=> \E k \in 0 .. (x - 1) - 1 : ByteAt(k) = b
    BY <2>2 DEF Collected
  <2>8. \A b : (\E k \in 0 .. x - 1 : ByteAt(k) = b)
                 <=> (\E k \in 0 .. (x - 1) - 1 : ByteAt(k) = b) \/ b = ByteAt(x - 1)
    <3>1. \A k : k \in 0 .. x - 1 <=> k \in 0 .. (x - 1) - 1 \/ k = x - 1
      BY <2>1
    <3> QED
      BY <3>1, Zenon
  <2>9. \A b : Contains(Different[x], b) <=> \E k \in 0 .. x - 1 : ByteAt(k) = b
    BY <2>6, <2>7, <2>8, Zenon
  <2> QED
    BY <1>2, <2>5, <2>9 DEF Collected
<1> QED
  BY <1>3, <1>4

\* The loop ends, inside the code.
LEMMA EndOfPrefixes ==
  ASSUME code \in Seq(Opcode)
  PROVE  /\ PrefixesEnd \in 0 .. Len(code)
         /\ StopsAt(PrefixesEnd)
         /\ \A k \in 0 .. PrefixesEnd - 1 : ~StopsAt(k)
<1>0. Len(code) \in Nat
  OBVIOUS
<1> DEFINE T == {n \in 0 .. Len(code) : StopsAt(n)}
<1>1. Len(code) \in T
  <2>1. ByteAt(Len(code)) = 0
    BY <1>0 DEF ByteAt
  <2>2. StopsAt(Len(code))
    BY <2>1, ZeroNoPrefix DEF StopsAt
  <2> QED
    BY <1>0, <2>2
<1>2. T \subseteq Nat
  BY <1>0
<1>3. PICK x \in T : \A y \in T : x <= y
  <2> HIDE DEF T
  <2> QED
    BY <1>1, <1>2, LeastNat
<1>4. x \in 0 .. Len(code) /\ StopsAt(x)
  BY <1>3
<1>5. \A k \in 0 .. x - 1 : ~StopsAt(k)
  <2> SUFFICES ASSUME NEW k \in 0 .. x - 1, StopsAt(k) PROVE FALSE
    OBVIOUS
  <2>1. k \in 0 .. Len(code) /\ ~(x <= k)
    BY <1>0, <1>4
  <2> QED
    BY <1>3, <2>1, Zenon
<1> QED
  BY <1>4, <1>5, Zenon DEF PrefixesEnd

\* At its end the loop has found prefixes only, none of them 0, and at most
\* four different ones.
LEMMA PrefixesFound ==
  ASSUME code \in Seq(Opcode)
  PROVE  LET n == PrefixesEnd
         IN  /\ n \in Nat /\ n <= Len(code)
             /\ Different[n] \in Seq(Opcode) /\ Len(Different[n]) <= 4
             /\ \A b : Contains(Different[n], b) <=> \E k \in 0 .. n - 1 : ByteAt(k) = b
             /\ \A k \in 0 .. n - 1 : ByteAt(k) \in Opcode \ {0}
<1> DEFINE n == PrefixesEnd
           Bad == {k \in 0 .. n : ~(Len(Different[k]) <= 4)}
<1>0. n \in 0 .. Len(code) /\ Len(code) \in Nat /\ n \in Nat
      /\ \A k \in 0 .. n - 1 : ~StopsAt(k)
  BY EndOfPrefixes
<1> HIDE DEF n
<1>1. Bad = {}
  <2> SUFFICES ASSUME Bad # {} PROVE FALSE
    OBVIOUS
  <2>1. PICK x \in Bad : \A y \in Bad : x <= y
    <3>1. Bad \subseteq Nat
      BY <1>0
    <3> HIDE DEF Bad
    <3> QED
      BY <3>1, LeastNat
  <2>2. x \in 0 .. n /\ ~(Len(Different[x]) <= 4)
    BY <2>1
  <2>3. x # 0
    BY <2>2, DifferentDefined
  <2>4. x \in Int /\ ~(x <= x - 1) /\ x - 1 \in 0 .. n /\ x - 1 \in 0 .. n - 1
        /\ x \in 1 .. Len(code) /\ x - 1 \in 0 .. Len(code)
    BY <1>0, <2>2, <2>3
  <2>5. Len(Different[x - 1]) <= 4
    BY <2>1, <2>4, Zenon
  <2>6. ~StopsAt(x - 1)
    BY <1>0, <2>4, Zenon
  <2>7. Different[x] = Add(Different[x - 1], ByteAt(x - 1))
    BY <2>4, DifferentDefined
  <2>8. Different[x - 1] \in Seq(Opcode)
    BY <2>4, AllCollected DEF Collected
  <2>9. ByteAt(x - 1) \in Opcode
    BY <2>4, <1>0, ByteType
  <2>10. /\ Len(Different[x]) \in {Len(Different[x - 1]), Len(Different[x - 1]) + 1}
         /\ Contains(Different[x - 1], ByteAt(x - 1)) => Len(Different[x]) = Len(Different[x - 1])
    <3> DEFINE s == Different[x - 1]
               b == ByteAt(x - 1)
    <3>1. s \in Seq(Opcode) /\ b \in Opcode
      BY <2>8, <2>9
    <3> HIDE DEF s, b
    <3>2. /\ Len(Add(s, b)) \in {Len(s), Len(s) + 1}
          /\ Contains(s, b) => Len(Add(s, b)) = Len(s)
      BY <3>1, AddType
    <3> QED
      BY <2>7, <3>2, Zenon DEF s, b
  <2>11. Len(Different[x - 1]) = 4 => Contains(Different[x - 1], ByteAt(x - 1))
    BY <2>6, Zenon DEF StopsAt
  <2>12. Len(Different[x - 1]) \in Nat
    BY <2>8
  <2>13. Len(Different[x - 1]) = 4 => Len(Different[x]) = 4
    BY <2>10, <2>11, Zenon
  <2> DEFINE p == Len(Different[x - 1])
             q == Len(Different[x])
  <2>14. /\ p \in Nat /\ p <= 4 /\ q \in {p, p + 1} /\ (p = 4 => q = 4)
         /\ ~(q <= 4)
    BY <2>2, <2>5, <2>10, <2>12, <2>13, Zenon
  <2> HIDE DEF p, q
  <2> QED
    BY <2>14
<1>2. n \in 0 .. n
  BY <1>0
<1>3. Len(Different[n]) <= 4
  BY <1>1, <1>2
<1>4. Collected(n)
  BY <1>0, AllCollected
<1>5. ASSUME NEW k \in 0 .. n - 1
      PROVE  ByteAt(k) \in Opcode \ {0}
  <2>1. k \in Nat
    BY <1>0
  <2>2. ByteAt(k) \in Opcode
    BY <2>1, ByteType
  <2>3. ~StopsAt(k)
    BY <1>0
  <2>4. ByteAt(k) # 0
    BY <2>3, ZeroNoPrefix, Zenon DEF StopsAt
  <2> QED
    BY <2>2, <2>4
<1>6. n <= Len(code)
  BY <1>0
<1> QED
  BY <1>0, <1>3, <1>4, <1>5, <1>6, Zenon DEF n, Collected

\* The last prefix gets its place and none is lost.
LEMMA LastPrefixPlaced ==
  ASSUME NEW bytes \in [1 .. 4 -> Opcode], NEW lb \in Opcode,
         lb # 0 => \E k \in 1 .. 4 : bytes[k] = lb
  PROVE  LET w == WithLastPrefix(bytes, lb)
         IN  /\ w \in [1 .. 4 -> Opcode]
             /\ \A b : (b # 0 /\ \E k \in 1 .. 4 : w[k] = b)
                         <=> (b # 0 /\ \E k \in 1 .. 4 : bytes[k] = b)
             /\ lb # 0 => w[4] = lb
<1> DEFINE w == WithLastPrefix(bytes, lb)
<1>1. CASE lb = 0 \/ lb = bytes[4]
  BY <1>1 DEF WithLastPrefix
<1>2. CASE ~(lb = 0 \/ lb = bytes[4])
  <2>1. w = [k \in 1 .. 4 |-> CASE k = 4 -> lb
                                [] k < 4 /\ bytes[4] # 0 /\ bytes[k] = lb -> bytes[4]
                                [] OTHER -> bytes[k]]
    BY <1>2, Zenon DEF WithLastPrefix
  <2>2. \A k \in 1 .. 3 : w[k] = IF bytes[4] # 0 /\ bytes[k] = lb THEN bytes[4] ELSE bytes[k]
    BY <2>1
  <2>3. w[4] = lb /\ DOMAIN w = 1 .. 4
    BY <2>1
  <2>4. w \in [1 .. 4 -> Opcode]
    BY <2>1
  <2> HIDE DEF w
  <2>5. PICK h \in 1 .. 3 : bytes[h] = lb
    BY <1>2
  <2>6. ASSUME NEW b, b # 0, NEW k \in 1 .. 4, w[k] = b
        PROVE  \E j \in 1 .. 4 : bytes[j] = b
    BY <2>2, <2>3, <2>5, <2>6
  <2>7. ASSUME NEW b, b # 0, NEW k \in 1 .. 4, bytes[k] = b
        PROVE  \E j \in 1 .. 4 : w[j] = b
    <3>1. CASE k = 4
      <4>1. w[h] = b
        BY <2>2, <2>5, <2>7, <3>1
      <4> QED
        BY <4>1
    <3>2. CASE k \in 1 .. 3 /\ b = lb
      BY <2>3, <3>2
    <3>3. CASE k \in 1 .. 3 /\ b # lb
      <4>1. w[k] = b
        BY <2>2, <2>7, <3>3
      <4> QED
        BY <4>1
    <3> QED
      BY <3>1, <3>2, <3>3
  <2>8. \A b : (b # 0 /\ \E k \in 1 .. 4 : w[k] = b)
                 <=> (b # 0 /\ \E k \in 1 .. 4 : bytes[k] = b)
    BY <2>6, <2>7
  <2> QED
    BY <2>3, <2>4, <2>8 DEF w
<1> QED
  BY <1>1, <1>2

-----------------------------------------------------------------------------
(***************************************************************************)
(* The fields that the parts of the decoder set, and those they leave      *)
(* alone.                                                                  *)
(***************************************************************************)
Fields ==
  {"prefixes", "rex_prefix", "vex_prefix", "opcode", "modrm", "sib", "displacement",
   "immediate1", "immediate2", "attr", "opnd_bytes", "addr_bytes", "length", "x86_64",
   "next_byte"}

\* j differs from i in the fields fs only.
SetsOnly(i, j, fs) == DOMAIN j = Fields /\ \A f \in Fields \ fs : j[f] = i[f]

LEMMA InitFields ==
  ASSUME NEW m \in BOOLEAN
  PROVE  LET i == insn_init(m)
         IN  /\ DOMAIN i = Fields
             /\ i.prefixes.got = FALSE /\ i.prefixes.nbytes = 0
             /\ i.rex_prefix = Empty /\ i.vex_prefix.nbytes = 0
             /\ i.opcode.got = FALSE /\ i.opcode.nbytes = 0
             /\ i.modrm = Empty /\ i.sib = Empty
             /\ i.displacement = Absent /\ i.immediate1 = Absent /\ i.immediate2 = Absent
             /\ i.opnd_bytes = 4 /\ i.addr_bytes = (IF m THEN 8 ELSE 4)
             /\ i.length = 0 /\ i.x86_64 = m /\ i.next_byte = 0
BY DEF insn_init, Fields

LEMMA LegacyPrefixesFields ==
  ASSUME NEW i, DOMAIN i = Fields
  PROVE  LET j == LegacyPrefixes(i)
             n == PrefixesEnd
             kept == Different[n]
         IN  /\ SetsOnly(i, j, {"prefixes", "addr_bytes", "opnd_bytes", "next_byte"})
             /\ j.prefixes.got = TRUE /\ j.prefixes.nbytes = n
             /\ j.prefixes.bytes =
                  WithLastPrefix([k \in 1 .. 4 |-> IF k <= Len(kept) THEN kept[k] ELSE 0],
                                 IF n = 0 THEN 0 ELSE ByteAt(n - 1))
             /\ j.addr_bytes = IF ~Contains(kept, \h67) THEN i.addr_bytes
                               ELSE IF i.x86_64 THEN 4 ELSE 2
             /\ j.opnd_bytes = IF Contains(kept, \h66) THEN 2 ELSE i.opnd_bytes
             /\ j.next_byte = n
BY DEF LegacyPrefixes, SetsOnly, Fields

LEMMA RexPrefixFields ==
  ASSUME NEW i, DOMAIN i = Fields
  PROVE  LET j == RexPrefix(i)
             b == ByteAt(i.next_byte)
             present == i.x86_64 /\ inat_get_opcode_attribute(b).pfx = "REX"
         IN  /\ SetsOnly(i, j, {"rex_prefix", "opnd_bytes", "next_byte"})
             /\ j.rex_prefix = [nbytes |-> IF present THEN 1 ELSE 0, got |-> TRUE,
                                value  |-> IF present THEN b ELSE 0]
             /\ j.opnd_bytes = IF present /\ X86_REX_W(b) THEN 8 ELSE i.opnd_bytes
             /\ j.next_byte = IF present THEN i.next_byte + 1 ELSE i.next_byte
BY DEF RexPrefix, SetsOnly, Fields

LEMMA VexPrefixFields ==
  ASSUME NEW i, DOMAIN i = Fields
  PROVE  LET j == VexPrefix(i)
             b(k) == ByteAt(i.next_byte + k)
             n == j.vex_prefix.nbytes
         IN  /\ SetsOnly(i, j, {"vex_prefix", "opnd_bytes", "next_byte"})
             /\ n \in {0, 2, 3}
             /\ j.vex_prefix.bytes = [k \in 1 .. 3 |-> IF k <= n THEN b(k - 1) ELSE 0]
             /\ j.opnd_bytes = IF n = 3 /\ i.x86_64 /\ X86_VEX_W(b(2)) THEN 8 ELSE i.opnd_bytes
             /\ j.next_byte = i.next_byte + n
<1> DEFINE b(k) == ByteAt(i.next_byte + k)
           pfx == inat_get_opcode_attribute(b(0)).pfx
           n   == IF ~i.x86_64 /\ X86_MODRM_MOD(b(1)) # 3 THEN 0
                  ELSE CASE pfx = "VEX2" -> 2 [] pfx = "VEX3" -> 3 [] OTHER -> 0
           j   == VexPrefix(i)
<1>1. n \in {0, 2, 3}
  OBVIOUS
<1>2. j = [i EXCEPT
             !.vex_prefix = [nbytes |-> n, got |-> TRUE,
                             bytes  |-> [k \in 1 .. 3 |-> IF k <= n THEN b(k - 1) ELSE 0]],
             !.opnd_bytes = IF n = 3 /\ i.x86_64 /\ X86_VEX_W(b(2)) THEN 8 ELSE @,
             !.next_byte = @ + n]
  BY Zenon DEF VexPrefix
<1> HIDE DEF n, b, j
<1>3. SetsOnly(i, j, {"vex_prefix", "opnd_bytes", "next_byte"})
  BY <1>2 DEF SetsOnly, Fields
<1>4. /\ j.vex_prefix.nbytes = n
      /\ j.vex_prefix.bytes = [k \in 1 .. 3 |-> IF k <= n THEN b(k - 1) ELSE 0]
  BY <1>2 DEF Fields
<1>5. /\ j.opnd_bytes = IF n = 3 /\ i.x86_64 /\ X86_VEX_W(b(2)) THEN 8 ELSE i.opnd_bytes
      /\ j.next_byte = i.next_byte + n
  BY <1>2 DEF Fields
<1> QED
  BY <1>1, <1>3, <1>4, <1>5, Zenon DEF j, b

LEMMA OpcodeFields ==
  ASSUME code \in Seq(Opcode), NEW i, DOMAIN i = Fields, i.next_byte \in Nat,
         i.vex_prefix.nbytes \in {0, 2, 3}, i.vex_prefix.bytes \in [1 .. 3 -> Opcode]
  PROVE  LET j == OpcodeBytes(i)
         IN  /\ SetsOnly(i, j, {"opcode", "attr", "next_byte"})
             /\ j.opcode.got = TRUE /\ j.opcode.nbytes \in 1 .. 3
             /\ j.next_byte = i.next_byte + j.opcode.nbytes
             /\ Decodable(j.attr)
             /\ (~insn_is_avx(i) /\ j.opcode.bytes[1] \in {\he8, \he9})
                  => j.attr = inat_primary_table[j.opcode.bytes[1]]
<1> DEFINE b(k) == ByteAt(i.next_byte + k - 1)
           escaped(k, a) == inat_get_escape_attribute(b(k), insn_last_prefix(i), a)
           a1   == inat_get_opcode_attribute(b(1))
           a2   == escaped(2, a1)
           a3   == escaped(3, a2)
           a4   == escaped(4, a3)
           attr == <<a1, a2, a3, a4>>
           avx  == inat_get_avx_attribute(b(1), insn_vex_m_bits(i), insn_vex_p_bits(i))
           n    == IF insn_is_avx(i) \/ a1.esc = 0 THEN 1
                   ELSE IF a2.esc = 0 THEN 2 ELSE IF a3.esc = 0 THEN 3 ELSE 4
           new  == IF insn_is_avx(i)
                   THEN IF "VEXOK" \in avx.flags THEN avx ELSE NoAttribute
                   ELSE IF "VEXONLY" \in attr[n].flags THEN NoAttribute ELSE attr[n]
           j    == OpcodeBytes(i)
<1>1. \A k \in 1 .. 4 : b(k) \in Opcode
  <2> SUFFICES ASSUME NEW k \in 1 .. 4 PROVE b(k) \in Opcode
    OBVIOUS
  <2>1. i.next_byte + k - 1 \in Nat
    OBVIOUS
  <2> QED
    BY <2>1, ByteType
<1>2. j = [i EXCEPT !.opcode = [nbytes |-> n, got |-> TRUE, bytes |-> [k \in 1 .. n |-> b(k)]],
                    !.attr = new, !.next_byte = @ + n]
  BY Zenon DEF OpcodeBytes
<1> HIDE DEF b, j
<1>3. Decodable(a1) /\ a1.esc \in {0, 1}
  BY <1>1, PrimaryMap DEF inat_get_opcode_attribute
<1> HIDE DEF a1
<1>4. Plain(a2) /\ a2.esc \in {0, 2, 3}
  BY <1>1, <1>3, EscapeLookup DEF Plain
<1> HIDE DEF a2
<1>5. Plain(a3) /\ a3.esc = 0
  BY <1>1, <1>4, EscapeLookup DEF Plain
<1> HIDE DEF a3
<1>6. insn_is_avx(i) => Plain(avx)
  <2> SUFFICES ASSUME insn_is_avx(i) PROVE Plain(avx)
    OBVIOUS
  <2>1. i.vex_prefix.nbytes \in {2, 3}
    BY DEF insn_is_avx
  <2>2. \A v \in Opcode : v % 32 \in Nat /\ v % 4 \in 0 .. 3
    BY DEF Opcode
  <2>3. \A k \in {2, 3} : i.vex_prefix.bytes[k] \in Opcode
    OBVIOUS
  <2>4. insn_vex_m_bits(i) \in Nat
    BY <2>2, <2>3, Zenon DEF insn_vex_m_bits, X86_VEX3_M
  <2>5. insn_vex_p_bits(i) \in 0 .. 3
    BY <2>1, <2>2, <2>3, Zenon DEF insn_vex_p_bits, X86_VEX_P
  <2> QED
    BY <1>1, <2>4, <2>5, AvxLookup
<1> HIDE DEF avx
<1>7. n \in 1 .. 3
  BY <1>5
<1>8. Decodable(new)
  <2>1. Decodable(attr[n])
    BY <1>3, <1>4, <1>5, PlainDecodable
  <2> QED
    BY <1>6, <2>1, PlainDecodable, NoAttributeParts, Zenon
<1>9. ~insn_is_avx(i) /\ b(1) \in {\he8, \he9} => new = inat_primary_table[b(1)]
  <2> SUFFICES ASSUME ~insn_is_avx(i), b(1) \in {\he8, \he9}
               PROVE  new = inat_primary_table[b(1)]
    BY Zenon
  <2>1. a1 = inat_primary_table[b(1)]
    BY Zenon DEF a1, inat_get_opcode_attribute
  <2>2. a1.esc = 0 /\ "VEXONLY" \notin a1.flags
    BY <2>1, CallAndJmp
  <2>3. n = 1 /\ attr[1] = a1
    BY <2>2
  <2> QED
    BY <2>1, <2>2, <2>3, Zenon
<1> HIDE DEF n, new
<1>10. /\ SetsOnly(i, j, {"opcode", "attr", "next_byte"})
       /\ j.opcode.got = TRUE /\ j.opcode.nbytes = n
       /\ j.opcode.bytes = [k \in 1 .. n |-> b(k)]
       /\ j.attr = new /\ j.next_byte = i.next_byte + n
  BY <1>2 DEF SetsOnly, Fields
<1>11. j.opcode.bytes[1] = b(1)
  BY <1>7, <1>10
<1> QED
  BY <1>7, <1>8, <1>9, <1>10, <1>11, ZenonT(60) DEF j

LEMMA ModRMFields ==
  ASSUME code \in Seq(Opcode), NEW i, DOMAIN i = Fields, i.next_byte \in Nat,
         Decodable(i.attr)
  PROVE  LET j == ModRM(i)
         IN  /\ SetsOnly(i, j, {"modrm", "attr", "opnd_bytes", "next_byte"})
             /\ j.modrm.got = TRUE
             /\ j.modrm.nbytes = IF "MODRM" \in j.attr.flags THEN 1 ELSE 0
             /\ j.modrm.value \in Opcode
             /\ j.opnd_bytes = IF i.x86_64 /\ "FORCE64" \in j.attr.flags THEN 8 ELSE i.opnd_bytes
             /\ j.next_byte = i.next_byte + j.modrm.nbytes
             /\ Decodable(j.attr)
             /\ "MODRM" \notin i.attr.flags => j.attr = i.attr
<1> DEFINE present == "MODRM" \in i.attr.flags
           mod     == ByteAt(i.next_byte)
           attr    == IF present /\ i.attr.grp # 0
                      THEN inat_get_group_attribute(mod, insn_last_prefix(i), i.attr)
                      ELSE i.attr
           j       == ModRM(i)
<1>1. j = [i EXCEPT
             !.modrm = [nbytes |-> IF present THEN 1 ELSE 0, got |-> TRUE,
                        value  |-> IF present THEN mod ELSE 0],
             !.attr = attr,
             !.opnd_bytes = IF i.x86_64 /\ "FORCE64" \in attr.flags THEN 8 ELSE @,
             !.next_byte = IF present THEN @ + 1 ELSE @]
  BY Zenon DEF ModRM
<1>2. mod \in Opcode /\ 0 \in Opcode
  <2>1. mod \in Opcode
    BY ByteType
  <2> QED
    BY <2>1 DEF Opcode
<1> HIDE DEF mod, j
<1>3. Decodable(attr) /\ i.attr.flags \subseteq attr.flags
  BY <1>2, GroupLookup
<1>4. "MODRM" \in attr.flags <=> present
  BY <1>3
<1>5. ~present => attr = i.attr
  OBVIOUS
<1> HIDE DEF attr
<1>6. /\ SetsOnly(i, j, {"modrm", "attr", "opnd_bytes", "next_byte"})
      /\ j.modrm.got = TRUE /\ j.modrm.nbytes = IF present THEN 1 ELSE 0
      /\ j.modrm.value = IF present THEN mod ELSE 0
      /\ j.attr = attr
      /\ j.opnd_bytes = IF i.x86_64 /\ "FORCE64" \in attr.flags THEN 8 ELSE i.opnd_bytes
      /\ j.next_byte = IF present THEN i.next_byte + 1 ELSE i.next_byte
  BY <1>1 DEF SetsOnly, Fields
<1>7. j.modrm.value \in Opcode
  BY <1>2, <1>6
<1>8. j.modrm.nbytes = IF "MODRM" \in j.attr.flags THEN 1 ELSE 0
  BY <1>4, <1>6
<1>9. j.next_byte = i.next_byte + j.modrm.nbytes
  BY <1>6
<1>10. "MODRM" \notin i.attr.flags => j.attr = i.attr
  BY <1>5, <1>6
<1> QED
  BY <1>3, <1>6, <1>7, <1>8, <1>9, <1>10, Zenon DEF j

\* Whether there is a SIB byte.
HasSib(i) ==
  /\ i.modrm.nbytes # 0
  /\ i.addr_bytes # 2
  /\ X86_MODRM_MOD(i.modrm.value) # 3
  /\ X86_MODRM_RM(i.modrm.value) = 4

LEMMA SibFields ==
  ASSUME code \in Seq(Opcode), NEW i, DOMAIN i = Fields, i.next_byte \in Nat
  PROVE  LET j == Sib(i)
         IN  /\ SetsOnly(i, j, {"sib", "next_byte"})
             /\ j.sib.got = TRUE
             /\ j.sib.nbytes = IF HasSib(i) THEN 1 ELSE 0
             /\ j.sib.value \in Opcode
             /\ ~HasSib(i) => j.sib.value = 0
             /\ j.next_byte = i.next_byte + j.sib.nbytes
<1> DEFINE j == Sib(i)
           b == ByteAt(i.next_byte)
<1>1. j = [i EXCEPT
             !.sib = [nbytes |-> IF HasSib(i) THEN 1 ELSE 0, got |-> TRUE,
                      value  |-> IF HasSib(i) THEN b ELSE 0],
             !.next_byte = IF HasSib(i) THEN @ + 1 ELSE @]
  BY Zenon DEF Sib, HasSib
<1>2. b \in Opcode
  BY ByteType
<1>3. 0 \in Opcode
  BY DEF Opcode
<1> HIDE DEF j, b
<1>4. /\ SetsOnly(i, j, {"sib", "next_byte"})
      /\ j.sib.got = TRUE
      /\ j.sib.nbytes = IF HasSib(i) THEN 1 ELSE 0
      /\ j.sib.value = IF HasSib(i) THEN b ELSE 0
      /\ j.next_byte = IF HasSib(i) THEN i.next_byte + 1 ELSE i.next_byte
  BY <1>1 DEF SetsOnly, Fields
<1>5. j.next_byte = i.next_byte + j.sib.nbytes
  BY <1>4
<1> QED
  BY <1>2, <1>3, <1>4, <1>5, Zenon DEF j

\* Reading n bytes into a field that is still absent.
LEMMA GetDisplacement ==
  ASSUME NEW i, DOMAIN i = Fields, NEW n, i.displacement = Absent
  PROVE  LET j == GetNext(i, "displacement", n)
         IN  /\ SetsOnly(i, j, {"displacement", "next_byte"})
             /\ j.displacement.nbytes = n /\ j.displacement.at = i.next_byte
             /\ DOMAIN j.displacement = {"nbytes", "got", "at"}
             /\ j.next_byte = i.next_byte + n
<1> DEFINE j == GetNext(i, "displacement", n)
           v == [[i.displacement EXCEPT !.nbytes = n] EXCEPT !.at = i.next_byte]
<1>1. j = [i EXCEPT !.displacement = v, !.next_byte = @ + n]
  BY DEF GetNext, Fields
<1>2. v.nbytes = n /\ v.at = i.next_byte /\ DOMAIN v = {"nbytes", "got", "at"}
  BY DEF Absent
<1> HIDE DEF v, j
<1>3. /\ SetsOnly(i, j, {"displacement", "next_byte"})
      /\ j.displacement = v /\ j.next_byte = i.next_byte + n
  BY <1>1 DEF SetsOnly, Fields
<1> QED
  BY <1>2, <1>3, Zenon DEF j

LEMMA GetImmediate1 ==
  ASSUME NEW i, DOMAIN i = Fields, NEW n, i.immediate1 = Absent
  PROVE  LET j == GetNext(i, "immediate1", n)
         IN  /\ SetsOnly(i, j, {"immediate1", "next_byte"})
             /\ j.immediate1.nbytes = n /\ j.immediate1.at = i.next_byte
             /\ DOMAIN j.immediate1 = {"nbytes", "got", "at"}
             /\ j.next_byte = i.next_byte + n
<1> DEFINE j == GetNext(i, "immediate1", n)
           v == [[i.immediate1 EXCEPT !.nbytes = n] EXCEPT !.at = i.next_byte]
<1>1. j = [i EXCEPT !.immediate1 = v, !.next_byte = @ + n]
  BY DEF GetNext, Fields
<1>2. v.nbytes = n /\ v.at = i.next_byte /\ DOMAIN v = {"nbytes", "got", "at"}
  BY DEF Absent
<1> HIDE DEF v, j
<1>3. /\ SetsOnly(i, j, {"immediate1", "next_byte"})
      /\ j.immediate1 = v /\ j.next_byte = i.next_byte + n
  BY <1>1 DEF SetsOnly, Fields
<1> QED
  BY <1>2, <1>3, Zenon DEF j

LEMMA GetImmediate2 ==
  ASSUME NEW i, DOMAIN i = Fields, NEW n, i.immediate2 = Absent
  PROVE  LET j == GetNext(i, "immediate2", n)
         IN  /\ SetsOnly(i, j, {"immediate2", "next_byte"})
             /\ j.immediate2.nbytes = n /\ j.immediate2.at = i.next_byte
             /\ DOMAIN j.immediate2 = {"nbytes", "got", "at"}
             /\ j.next_byte = i.next_byte + n
<1> DEFINE j == GetNext(i, "immediate2", n)
           v == [[i.immediate2 EXCEPT !.nbytes = n] EXCEPT !.at = i.next_byte]
<1>1. j = [i EXCEPT !.immediate2 = v, !.next_byte = @ + n]
  BY DEF GetNext, Fields
<1>2. v.nbytes = n /\ v.at = i.next_byte /\ DOMAIN v = {"nbytes", "got", "at"}
  BY DEF Absent
<1> HIDE DEF v, j
<1>3. /\ SetsOnly(i, j, {"immediate2", "next_byte"})
      /\ j.immediate2 = v /\ j.next_byte = i.next_byte + n
  BY <1>1 DEF SetsOnly, Fields
<1> QED
  BY <1>2, <1>3, Zenon DEF j

LEMMA DisplacementBytesType ==
  ASSUME NEW i
  PROVE  DisplacementBytes(i) \in {0, 1, 2, 4}
BY DEF DisplacementBytes

LEMMA DisplacementFields ==
  ASSUME NEW i, DOMAIN i = Fields, i.next_byte \in Nat, i.displacement = Absent
  PROVE  LET j == Displacement(i)
             n == DisplacementBytes(i)
         IN  /\ SetsOnly(i, j, {"displacement", "next_byte"})
             /\ j.displacement.got = TRUE /\ j.displacement.nbytes = n
             /\ n # 0 => j.displacement.at = i.next_byte
             /\ j.next_byte = i.next_byte + n
<1> DEFINE n == DisplacementBytes(i)
           h == IF n = 0 THEN i ELSE GetNext(i, "displacement", n)
           j == Displacement(i)
<1>1. n \in Nat
  BY DisplacementBytesType
<1>2. j = [h EXCEPT !.displacement.got = TRUE]
  BY Zenon DEF Displacement
<1> HIDE DEF n, j
<1>3. /\ SetsOnly(i, h, {"displacement", "next_byte"})
      /\ h.displacement.nbytes = n
      /\ n # 0 => h.displacement.at = i.next_byte
      /\ DOMAIN h.displacement = {"nbytes", "got", "at"}
      /\ h.next_byte = i.next_byte + n
  <2>1. CASE n = 0
    BY <2>1 DEF SetsOnly, Absent
  <2>2. CASE n # 0
    <3>1. h = GetNext(i, "displacement", n)
      BY <2>2
    <3> HIDE DEF h
    <3> QED
      BY <3>1, GetDisplacement, Zenon
  <2> QED
    BY <2>1, <2>2
<1> HIDE DEF h
<1>4. DOMAIN h = Fields
  BY <1>3 DEF SetsOnly
<1>5. /\ SetsOnly(h, j, {"displacement"})
      /\ j.displacement.got = TRUE
      /\ j.displacement.nbytes = h.displacement.nbytes
      /\ j.displacement.at = h.displacement.at
  BY <1>2, <1>3, <1>4 DEF SetsOnly, Fields
<1>6. SetsOnly(i, j, {"displacement", "next_byte"})
  BY <1>3, <1>5 DEF SetsOnly, Fields
<1>7. j.next_byte = h.next_byte
  BY <1>5 DEF SetsOnly, Fields
<1> QED
  BY <1>3, <1>5, <1>6, <1>7, Zenon DEF j, n

\* The sizes of the immediates: the second is one of its own for ENTER only.
ImmediateSizes(i) ==
  <<ImmediateBytes(i)[1], IF "SCNDIMM" \in i.attr.flags THEN 1 ELSE ImmediateBytes(i)[2]>>

LEMMA ImmediateBytesType ==
  ASSUME NEW i, Decodable(i.attr), i.opnd_bytes \in {2, 4, 8}, i.addr_bytes \in {2, 4, 8}
  PROVE  /\ ImmediateBytes(i)[1] \in {0, 1, 2, 4} /\ ImmediateBytes(i)[2] \in {0, 2, 4}
         /\ "SCNDIMM" \in i.attr.flags => ImmediateBytes(i)[2] = 0
<1>1. CASE "MOFFSET" \in i.attr.flags
  BY <1>1 DEF ImmediateBytes, moffset_bytes, Decodable
<1>2. CASE "MOFFSET" \notin i.attr.flags
  BY <1>2 DEF ImmediateBytes, immv32_bytes, immv_bytes, immptr_bytes, Decodable
<1> QED
  BY <1>1, <1>2

LEMMA ImmediateFields ==
  ASSUME NEW i, DOMAIN i = Fields, i.next_byte \in Nat, Decodable(i.attr),
         i.opnd_bytes \in {2, 4, 8}, i.addr_bytes \in {2, 4, 8},
         i.immediate1 = Absent, i.immediate2 = Absent
  PROVE  LET j == Immediate(i)
             n == ImmediateSizes(i)
         IN  /\ SetsOnly(i, j, {"immediate1", "immediate2", "next_byte"})
             /\ j.immediate1.got = TRUE
             /\ j.immediate1.nbytes = n[1] /\ j.immediate2.nbytes = n[2]
             /\ n[1] \in {0, 1, 2, 4} /\ n[2] \in {0, 1, 2, 4}
             /\ n[1] # 0 => j.immediate1.at = i.next_byte
             /\ j.next_byte = i.next_byte + n[1] + n[2]
<1> DEFINE n      == ImmediateBytes(i)
           n1     == n[1]
           n2     == n[2]
           scnd   == "SCNDIMM" \in i.attr.flags
           first  == IF n1 = 0 THEN i ELSE GetNext(i, "immediate1", n1)
           second == IF n2 = 0 THEN first ELSE GetNext(first, "immediate2", n2)
           third  == IF scnd THEN GetNext(second, "immediate2", 1) ELSE second
           both   == \/ "MOFFSET" \in i.attr.flags
                     \/ i.attr.imm = "VWORD"
                     \/ i.attr.imm = "PTR" /\ i.opnd_bytes # 8
           j      == Immediate(i)
<1>1. j = [third EXCEPT !.immediate1.got = TRUE, !.immediate2.got = both]
  BY Zenon DEF Immediate
<1>2. n1 \in {0, 1, 2, 4} /\ n2 \in {0, 2, 4} /\ (scnd => n2 = 0)
  BY ImmediateBytesType
<1>3. ImmediateSizes(i) = <<n1, IF scnd THEN 1 ELSE n2>>
  BY Zenon DEF ImmediateSizes
<1> HIDE DEF n, n1, n2, j, both
<1>4. /\ SetsOnly(i, first, {"immediate1", "next_byte"})
      /\ first.immediate1.nbytes = n1 /\ (n1 # 0 => first.immediate1.at = i.next_byte)
      /\ DOMAIN first.immediate1 = {"nbytes", "got", "at"}
      /\ first.next_byte = i.next_byte + n1
  <2>1. CASE n1 = 0
    BY <2>1 DEF SetsOnly, Absent
  <2>2. CASE n1 # 0
    <3>1. first = GetNext(i, "immediate1", n1)
      BY <2>2
    <3> HIDE DEF first
    <3> QED
      BY <3>1, GetImmediate1, ZenonT(60)
  <2> QED
    BY <2>1, <2>2
<1>5. DOMAIN first = Fields /\ first.immediate2 = Absent
  BY <1>4 DEF SetsOnly, Fields
<1> HIDE DEF first
<1>6. /\ SetsOnly(first, second, {"immediate2", "next_byte"})
      /\ second.immediate2.nbytes = n2
      /\ DOMAIN second.immediate2 = {"nbytes", "got", "at"}
      /\ second.next_byte = first.next_byte + n2
      /\ n2 = 0 => second.immediate2 = Absent
  <2>1. CASE n2 = 0
    BY <1>2, <1>4, <1>5, <2>1 DEF SetsOnly, Absent
  <2>2. CASE n2 # 0
    <3>1. second = GetNext(first, "immediate2", n2)
      BY <2>2
    <3> HIDE DEF second
    <3> QED
      BY <1>5, <2>2, <3>1, GetImmediate2, ZenonT(60)
  <2> QED
    BY <2>1, <2>2
<1>7. DOMAIN second = Fields
  BY <1>6 DEF SetsOnly
<1>8. second.next_byte \in Nat
  BY <1>2, <1>4, <1>6
<1> HIDE DEF second
<1> DEFINE m2 == IF scnd THEN 1 ELSE n2
<1>9. /\ SetsOnly(first, third, {"immediate2", "next_byte"})
      /\ third.immediate2.nbytes = m2
      /\ DOMAIN third.immediate2 = {"nbytes", "got", "at"}
      /\ third.next_byte = first.next_byte + m2
  <2>1. CASE ~scnd
    BY <1>6, <2>1
  <2>2. CASE scnd
    <3>1. third = GetNext(second, "immediate2", 1)
      BY <2>2
    <3>0. second.immediate2 = Absent
      BY <1>2, <1>6, <2>2
    <3> HIDE DEF third
    <3>2. /\ SetsOnly(second, third, {"immediate2", "next_byte"})
          /\ third.immediate2.nbytes = 1
          /\ DOMAIN third.immediate2 = {"nbytes", "got", "at"}
          /\ third.next_byte = second.next_byte + 1
      BY <1>7, <3>0, <3>1, GetImmediate2, ZenonT(60)
    <3>3. SetsOnly(first, third, {"immediate2", "next_byte"})
      BY <1>6, <3>2 DEF SetsOnly
    <3>4. second.next_byte = first.next_byte /\ m2 = 1
      BY <1>2, <1>4, <1>6, <2>2
    <3> QED
      BY <3>2, <3>3, <3>4, Zenon
  <2> QED
    BY <2>1, <2>2
<1> HIDE DEF third
<1>10. DOMAIN third = Fields /\ third.immediate1 = first.immediate1
  BY <1>9 DEF SetsOnly, Fields
<1>11. /\ SetsOnly(third, j, {"immediate1", "immediate2"})
       /\ j.immediate1.got = TRUE /\ j.immediate1.nbytes = third.immediate1.nbytes
       /\ j.immediate1.at = third.immediate1.at
       /\ j.immediate2.nbytes = third.immediate2.nbytes
  BY <1>1, <1>4, <1>9, <1>10 DEF SetsOnly, Fields
<1>12. SetsOnly(i, j, {"immediate1", "immediate2", "next_byte"})
  BY <1>4, <1>9, <1>11 DEF SetsOnly, Fields
<1>13. j.next_byte = i.next_byte + n1 + m2 /\ m2 \in {0, 1, 2, 4}
  BY <1>2, <1>4, <1>9, <1>11 DEF SetsOnly, Fields
<1>14. j.immediate1.nbytes = n1 /\ j.immediate2.nbytes = m2
       /\ (n1 # 0 => j.immediate1.at = i.next_byte)
  BY <1>4, <1>9, <1>10, <1>11
<1>15. ImmediateSizes(i)[1] = n1 /\ ImmediateSizes(i)[2] = m2
  BY <1>3
<1> QED
  BY <1>2, <1>11, <1>12, <1>13, <1>14, <1>15, Zenon DEF j

-----------------------------------------------------------------------------
(***************************************************************************)
(* What is known of a struct insn once each part is decoded.               *)
(***************************************************************************)
PrefixSet(i) == {ByteAt(k) : k \in 0 .. i.prefixes.nbytes - 1}

KeepsPrefixes(i) ==
  LET n == i.prefixes.nbytes
      bytes == i.prefixes.bytes
  IN  /\ {bytes[k] : k \in 1 .. 4} \ {0} = {ByteAt(k) : k \in 0 .. n - 1}
      /\ n > 0 => bytes[4] = ByteAt(n - 1)

\* The sizes of addresses and operands that the prefixes give, and those of
\* operands with what the opcode adds.
Address(i) ==
  CASE i.x86_64 /\ \h67 \notin PrefixSet(i) -> 8
    [] ~i.x86_64 /\ \h67 \in PrefixSet(i) -> 2
    [] OTHER -> 4

WidePrefix(i) ==
  i.x86_64 /\ (X86_REX_W(i.rex_prefix.value) \/ X86_VEX_W(i.vex_prefix.bytes[3]))

PrefixOperand(i) == IF WidePrefix(i) THEN 8 ELSE IF \h66 \in PrefixSet(i) THEN 2 ELSE 4

Operand(i) ==
  IF /\ i.x86_64
     /\ \/ X86_REX_W(i.rex_prefix.value) \/ X86_VEX_W(i.vex_prefix.bytes[3])
        \/ "FORCE64" \in i.attr.flags
  THEN 8 ELSE IF \h66 \in PrefixSet(i) THEN 2 ELSE 4

PrefixFacts(i) ==
  /\ i.x86_64 \in BOOLEAN
  /\ i.prefixes.got = TRUE /\ i.prefixes.nbytes \in 0 .. 15
  /\ i.rex_prefix.nbytes \in 0 .. 1 /\ i.rex_prefix.value \in Opcode
  /\ i.vex_prefix.nbytes \in {0, 2, 3} /\ i.vex_prefix.bytes \in [1 .. 3 -> Opcode]
  /\ KeepsPrefixes(i)
  /\ i.addr_bytes = Address(i)

OpcodeFacts(i) ==
  /\ i.opcode.got = TRUE /\ i.opcode.nbytes \in 1 .. 3
  /\ Decodable(i.attr)
  /\ (~insn_is_avx(i) /\ i.opcode.bytes[1] \in {\he8, \he9})
       => /\ i.attr.imm = "VWORD32" /\ "FORCE64" \in i.attr.flags
          /\ {"MODRM", "MOFFSET", "SCNDIMM"} \cap i.attr.flags = {}

ModRMFacts(i) ==
  /\ i.modrm.got = TRUE
  /\ i.modrm.nbytes = IF "MODRM" \in i.attr.flags THEN 1 ELSE 0
  /\ i.modrm.value \in Opcode
  /\ i.opnd_bytes = Operand(i)

SibFacts(i) ==
  /\ i.sib.got = TRUE
  /\ i.sib.nbytes = IF HasSib(i) THEN 1 ELSE 0
  /\ i.sib.value \in Opcode
  /\ ~HasSib(i) => i.sib.value = 0

DisplacementFacts(i) ==
  /\ i.displacement.got = TRUE
  /\ i.displacement.nbytes = DisplacementBytes(i)
  /\ i.displacement.nbytes # 0 => i.displacement.at = insn_offset_displacement(i)

ImmediateFacts(i) ==
  /\ i.immediate1.got = TRUE
  /\ i.immediate1.nbytes = ImmediateSizes(i)[1] /\ i.immediate2.nbytes = ImmediateSizes(i)[2]
  /\ ImmediateSizes(i)[1] \in {0, 1, 2, 4} /\ ImmediateSizes(i)[2] \in {0, 1, 2, 4}
  /\ i.immediate1.nbytes # 0 => i.immediate1.at = insn_offset_immediate(i)

\* What is still as insn_init left it.
NoLength(i)       == i.length = 0
NoImmediate(i)    == NoLength(i) /\ i.immediate1 = Absent /\ i.immediate2 = Absent
NoDisplacement(i) == NoImmediate(i) /\ i.displacement = Absent
NoSib(i)          == NoDisplacement(i) /\ i.sib = Empty
NoModRM(i)        == NoSib(i) /\ i.modrm = Empty
NoOpcode(i)       == NoModRM(i) /\ i.opcode.got = FALSE /\ i.opcode.nbytes = 0

\* The states of a struct insn between the parts.
Stage1(i) ==
  /\ DOMAIN i = Fields /\ NoOpcode(i)
  /\ PrefixFacts(i) /\ i.opnd_bytes = PrefixOperand(i)
  /\ i.next_byte = insn_offset_opcode(i)
Stage2(i) ==
  /\ DOMAIN i = Fields /\ NoModRM(i)
  /\ PrefixFacts(i) /\ i.opnd_bytes = PrefixOperand(i) /\ OpcodeFacts(i)
  /\ i.next_byte = insn_offset_modrm(i)
Stage3(i) ==
  /\ DOMAIN i = Fields /\ NoSib(i)
  /\ PrefixFacts(i) /\ OpcodeFacts(i) /\ ModRMFacts(i)
  /\ i.next_byte = insn_offset_sib(i)
Stage4(i) ==
  /\ DOMAIN i = Fields /\ NoDisplacement(i)
  /\ PrefixFacts(i) /\ OpcodeFacts(i) /\ ModRMFacts(i) /\ SibFacts(i)
  /\ i.next_byte = insn_offset_displacement(i)
Stage5(i) ==
  /\ DOMAIN i = Fields /\ NoImmediate(i)
  /\ PrefixFacts(i) /\ OpcodeFacts(i) /\ ModRMFacts(i) /\ SibFacts(i) /\ DisplacementFacts(i)
  /\ i.next_byte = insn_offset_immediate(i)
Complete(i) ==
  /\ DOMAIN i = Fields
  /\ PrefixFacts(i) /\ OpcodeFacts(i) /\ ModRMFacts(i) /\ SibFacts(i) /\ DisplacementFacts(i)
  /\ ImmediateFacts(i)
  /\ i.next_byte = insn_offset_immediate(i) + i.immediate1.nbytes + i.immediate2.nbytes
Stage6(i) == Complete(i) /\ NoLength(i)
Stage7(i) == Complete(i) /\ i.length = i.next_byte

\* The facts stay true while other fields are set.
LEMMA SamePrefixes ==
  ASSUME NEW i, NEW j, PrefixFacts(i),
         j.prefixes = i.prefixes, j.rex_prefix = i.rex_prefix, j.vex_prefix = i.vex_prefix,
         j.addr_bytes = i.addr_bytes, j.x86_64 = i.x86_64
  PROVE  PrefixFacts(j) /\ PrefixOperand(j) = PrefixOperand(i)
<1>1. PrefixSet(j) = PrefixSet(i)
  BY Zenon DEF PrefixSet
<1>2. Address(j) = Address(i)
  BY <1>1, Zenon DEF Address
<1>3. PrefixOperand(j) = PrefixOperand(i)
  BY <1>1, Zenon DEF PrefixOperand, WidePrefix
<1>4. KeepsPrefixes(j)
  <2>1. KeepsPrefixes(i)
    BY DEF PrefixFacts
  <2> QED
    BY <2>1 DEF KeepsPrefixes
<1> QED
  BY <1>2, <1>3, <1>4, Zenon DEF PrefixFacts

LEMMA SameOpcode ==
  ASSUME NEW i, NEW j, OpcodeFacts(i),
         j.opcode = i.opcode, j.attr = i.attr, j.vex_prefix = i.vex_prefix
  PROVE  OpcodeFacts(j)
BY Zenon DEF OpcodeFacts, insn_is_avx

LEMMA SameModRM ==
  ASSUME NEW i, NEW j, PrefixFacts(i), ModRMFacts(i),
         j.prefixes = i.prefixes, j.rex_prefix = i.rex_prefix, j.vex_prefix = i.vex_prefix,
         j.modrm = i.modrm, j.attr = i.attr, j.opnd_bytes = i.opnd_bytes, j.x86_64 = i.x86_64
  PROVE  ModRMFacts(j)
BY Zenon DEF ModRMFacts, Operand, PrefixOperand, WidePrefix, PrefixSet

LEMMA SameSib ==
  ASSUME NEW i, NEW j, SibFacts(i),
         j.sib = i.sib, j.modrm = i.modrm, j.addr_bytes = i.addr_bytes
  PROVE  SibFacts(j)
BY Zenon DEF SibFacts, HasSib

LEMMA SameDisplacement ==
  ASSUME NEW i, NEW j, DisplacementFacts(i),
         j.displacement = i.displacement, j.sib = i.sib, j.modrm = i.modrm,
         j.addr_bytes = i.addr_bytes,
         insn_offset_displacement(j) = insn_offset_displacement(i)
  PROVE  DisplacementFacts(j)
BY Zenon DEF DisplacementFacts, DisplacementBytes

LEMMA SameImmediate ==
  ASSUME NEW i, NEW j, Decodable(i.attr),
         j.attr = i.attr, j.opnd_bytes = i.opnd_bytes, j.addr_bytes = i.addr_bytes
  PROVE  ImmediateSizes(j) = ImmediateSizes(i)
<1>1. ImmediateBytes(j) = ImmediateBytes(i)
  <2>1. CASE "MOFFSET" \in i.attr.flags
    BY <2>1 DEF ImmediateBytes
  <2>2. CASE "MOFFSET" \notin i.attr.flags
    BY <2>2 DEF ImmediateBytes, Decodable
  <2> QED
    BY <2>1, <2>2
<1> QED
  BY <1>1, Zenon DEF ImmediateSizes

-----------------------------------------------------------------------------
(***************************************************************************)
(* From stage to stage.                                                    *)
(***************************************************************************)
AfterAllPrefixes(i) == VexPrefix(RexPrefix(LegacyPrefixes(i)))

LEMMA ToStage1 ==
  ASSUME code \in Seq(Opcode), Len(code) <= 15, NEW m \in BOOLEAN
  PROVE  Stage1(AfterAllPrefixes(insn_init(m))) /\ AfterAllPrefixes(insn_init(m)).x86_64 = m
<1> DEFINE i == insn_init(m)
           l == LegacyPrefixes(i)
           r == RexPrefix(l)
           v == VexPrefix(r)
           n == PrefixesEnd
           kept == Different[n]
           slots == [k \in 1 .. 4 |-> IF k <= Len(kept) THEN kept[k] ELSE 0]
           lb == IF n = 0 THEN 0 ELSE ByteAt(n - 1)
<1>1. /\ n \in Nat /\ n <= 15
      /\ kept \in Seq(Opcode) /\ Len(kept) <= 4
      /\ \A b : Contains(kept, b) <=> \E k \in 0 .. n - 1 : ByteAt(k) = b
      /\ \A k \in 0 .. n - 1 : ByteAt(k) \in Opcode \ {0}
  <2>1. n \in Nat /\ n <= Len(code) /\ Len(code) \in Nat
    BY PrefixesFound
  <2>2. n <= 15
    BY <2>1
  <2> QED
    BY <2>1, <2>2, PrefixesFound, Zenon
<1>2. /\ DOMAIN i = Fields /\ NoOpcode(i)
      /\ i.opnd_bytes = 4 /\ i.addr_bytes = (IF m THEN 8 ELSE 4) /\ i.x86_64 = m
  BY InitFields DEF NoOpcode, NoModRM, NoSib, NoDisplacement, NoImmediate, NoLength
<1> HIDE DEF i
<1>3. /\ SetsOnly(i, l, {"prefixes", "addr_bytes", "opnd_bytes", "next_byte"})
      /\ l.prefixes.got = TRUE /\ l.prefixes.nbytes = n
      /\ l.prefixes.bytes = WithLastPrefix(slots, lb)
      /\ l.addr_bytes = IF ~Contains(kept, \h67) THEN i.addr_bytes
                        ELSE IF i.x86_64 THEN 4 ELSE 2
      /\ l.opnd_bytes = IF Contains(kept, \h66) THEN 2 ELSE i.opnd_bytes
      /\ l.next_byte = n
  BY <1>2, LegacyPrefixesFields, Zenon
<1> HIDE DEF l
<1>4. DOMAIN l = Fields /\ l.x86_64 = m /\ l.next_byte \in Nat
  BY <1>1, <1>2, <1>3 DEF SetsOnly, Fields
<1> DEFINE b == ByteAt(l.next_byte)
           present == l.x86_64 /\ inat_get_opcode_attribute(b).pfx = "REX"
<1>5. /\ SetsOnly(l, r, {"rex_prefix", "opnd_bytes", "next_byte"})
      /\ r.rex_prefix = [nbytes |-> IF present THEN 1 ELSE 0, got |-> TRUE,
                         value  |-> IF present THEN b ELSE 0]
      /\ r.opnd_bytes = IF present /\ X86_REX_W(b) THEN 8 ELSE l.opnd_bytes
      /\ r.next_byte = IF present THEN l.next_byte + 1 ELSE l.next_byte
  BY <1>4, RexPrefixFields, Zenon
<1>6. b \in Opcode /\ 0 \in Opcode
  <2>1. b \in Opcode
    BY <1>4, ByteType
  <2> QED
    BY <2>1 DEF Opcode
<1> HIDE DEF r, present, b
<1>7. /\ r.rex_prefix.nbytes \in 0 .. 1 /\ r.rex_prefix.value \in Opcode
      /\ r.opnd_bytes = IF X86_REX_W(r.rex_prefix.value) THEN 8 ELSE l.opnd_bytes
      /\ r.next_byte = n + r.rex_prefix.nbytes
      /\ X86_REX_W(r.rex_prefix.value) => m
  <2>1. ~X86_REX_W(0)
    BY DEF X86_REX_W
  <2>2. CASE present
    <3>1. m
      BY <1>4, <2>2, Zenon DEF present
    <3> QED
      BY <1>3, <1>5, <1>6, <2>2, <3>1
  <2>3. CASE ~present
    BY <1>1, <1>3, <1>5, <1>6, <2>1, <2>3
  <2> QED
    BY <2>2, <2>3
<1>8. DOMAIN r = Fields /\ r.x86_64 = m /\ r.next_byte \in Nat
  BY <1>1, <1>4, <1>5, <1>7 DEF SetsOnly, Fields
<1> DEFINE c(k) == ByteAt(r.next_byte + k)
           s == v.vex_prefix.nbytes
<1>9. /\ SetsOnly(r, v, {"vex_prefix", "opnd_bytes", "next_byte"})
      /\ s \in {0, 2, 3}
      /\ v.vex_prefix.bytes = [k \in 1 .. 3 |-> IF k <= s THEN c(k - 1) ELSE 0]
      /\ v.opnd_bytes = IF s = 3 /\ m /\ X86_VEX_W(c(2)) THEN 8 ELSE r.opnd_bytes
      /\ v.next_byte = r.next_byte + s
  BY <1>8, VexPrefixFields, Zenon
<1>10. \A k \in 0 .. 2 : c(k) \in Opcode
  BY <1>8, ByteType
<1> HIDE DEF v, c
<1>11. v.vex_prefix.bytes \in [1 .. 3 -> Opcode]
  BY <1>6, <1>9, <1>10
<1>12. v.vex_prefix.bytes[3] = IF s = 3 THEN c(2) ELSE 0
  BY <1>9
<1>13. v.opnd_bytes = IF m /\ X86_VEX_W(v.vex_prefix.bytes[3]) THEN 8 ELSE r.opnd_bytes
  <2>1. ~X86_VEX_W(0)
    BY DEF X86_VEX_W
  <2> QED
    BY <1>9, <1>12, <2>1
<1>14. /\ DOMAIN v = Fields
       /\ v.prefixes = l.prefixes /\ v.rex_prefix = r.rex_prefix
       /\ v.addr_bytes = l.addr_bytes /\ v.x86_64 = m
       /\ v.opcode = i.opcode /\ v.modrm = i.modrm /\ v.sib = i.sib
       /\ v.displacement = i.displacement
       /\ v.immediate1 = i.immediate1 /\ v.immediate2 = i.immediate2 /\ v.length = i.length
  BY <1>3, <1>4, <1>5, <1>8, <1>9 DEF SetsOnly, Fields
<1>15. NoOpcode(v)
  BY <1>2, <1>14, Zenon DEF NoOpcode, NoModRM, NoSib, NoDisplacement, NoImmediate, NoLength
<1>16. \A x : Contains(kept, x) <=> x \in PrefixSet(v)
  <2>1. PrefixSet(v) = {ByteAt(k) : k \in 0 .. n - 1}
    BY <1>3, <1>14 DEF PrefixSet
  <2> QED
    BY <1>1, <2>1, Zenon
<1>17. v.addr_bytes = Address(v)
  BY <1>2, <1>3, <1>14, <1>16 DEF Address
<1>18. v.opnd_bytes = PrefixOperand(v)
  BY <1>2, <1>3, <1>7, <1>13, <1>14, <1>16 DEF PrefixOperand, WidePrefix
<1>19. KeepsPrefixes(v)
  <2>1. slots \in [1 .. 4 -> Opcode]
    BY <1>1, <1>6
  <2>2. \A x : (x # 0 /\ \E k \in 1 .. 4 : slots[k] = x) <=> Contains(kept, x)
    <3>1. ASSUME NEW x, Contains(kept, x)
          PROVE  x # 0 /\ \E k \in 1 .. 4 : slots[k] = x
      <4>1. x # 0
        BY <1>1, <3>1
      <4>2. PICK k \in 1 .. Len(kept) : kept[k] = x
        BY <3>1 DEF Contains
      <4>3. k \in 1 .. 4 /\ slots[k] = x
        BY <1>1, <4>2
      <4> QED
        BY <4>1, <4>3
    <3>2. ASSUME NEW x, x # 0, NEW k \in 1 .. 4, slots[k] = x
          PROVE  Contains(kept, x)
      BY <1>1, <3>2 DEF Contains
    <3> QED
      BY <3>1, <3>2
  <2>3. lb \in Opcode
    BY <1>1, <1>6
  <2>4. n # 0 => lb # 0 /\ lb = ByteAt(n - 1) /\ Contains(kept, lb)
    <3> SUFFICES ASSUME n # 0 PROVE lb # 0 /\ lb = ByteAt(n - 1) /\ Contains(kept, lb)
      OBVIOUS
    <3>1. n - 1 \in 0 .. n - 1 /\ lb = ByteAt(n - 1)
      BY <1>1
    <3> HIDE DEF lb
    <3> QED
      BY <1>1, <3>1, Zenon
  <2>5. n = 0 => lb = 0
    OBVIOUS
  <2> HIDE DEF slots, lb
  <2>6. lb # 0 => \E k \in 1 .. 4 : slots[k] = lb
    BY <2>2, <2>4, <2>5, Zenon
  <2> DEFINE w == WithLastPrefix(slots, lb)
  <2>7. /\ w \in [1 .. 4 -> Opcode]
        /\ \A x : (x # 0 /\ \E k \in 1 .. 4 : w[k] = x)
                    <=> (x # 0 /\ \E k \in 1 .. 4 : slots[k] = x)
        /\ lb # 0 => w[4] = lb
    BY <2>1, <2>3, <2>6, LastPrefixPlaced, Zenon
  <2> HIDE DEF w
  <2>8. \A x : x \in {w[k] : k \in 1 .. 4} \ {0} <=> x \in {ByteAt(k) : k \in 0 .. n - 1}
    BY <1>1, <2>2, <2>7, Zenon
  <2>9. {w[k] : k \in 1 .. 4} \ {0} = {ByteAt(k) : k \in 0 .. n - 1}
    BY <2>8, Zenon
  <2>10. n > 0 => w[4] = ByteAt(n - 1)
    BY <1>1, <2>4, <2>7
  <2>11. v.prefixes.nbytes = n /\ v.prefixes.bytes = w
    BY <1>3, <1>14, ZenonT(60) DEF w
  <2> QED
    BY <2>9, <2>10, <2>11 DEF KeepsPrefixes
<1>20. v.prefixes.got = TRUE /\ v.prefixes.nbytes \in 0 .. 15
  <2>1. n \in 0 .. 15
    BY <1>1
  <2>2. v.prefixes = l.prefixes /\ l.prefixes.got = TRUE /\ l.prefixes.nbytes = n
    BY <1>3, <1>14
  <2> HIDE DEF n
  <2> QED
    BY <2>1, <2>2
<1>21. PrefixFacts(v)
  BY <1>7, <1>9, <1>11, <1>14, <1>17, <1>19, <1>20, Zenon DEF PrefixFacts
<1>22. v.next_byte = insn_offset_opcode(v)
  BY <1>1, <1>3, <1>7, <1>9, <1>14
     DEF insn_offset_opcode, insn_offset_vex_prefix, insn_offset_rex_prefix
<1>23. Stage1(v) /\ v.x86_64 = m
  BY <1>14, <1>15, <1>18, <1>21, <1>22, Zenon DEF Stage1
<1> QED
  BY <1>23, Zenon DEF v, r, l, i, AfterAllPrefixes

\* The bytes of the prefixes are numbers, and so is where they end.
LEMMA OffsetOpcodeType ==
  ASSUME NEW i, PrefixFacts(i)
  PROVE  insn_offset_opcode(i) \in 0 .. 19
BY DEF PrefixFacts, insn_offset_opcode, insn_offset_vex_prefix, insn_offset_rex_prefix

LEMMA ToStage2 ==
  ASSUME code \in Seq(Opcode), NEW i, Stage1(i)
  PROVE  Stage2(OpcodeBytes(i)) /\ OpcodeBytes(i).x86_64 = i.x86_64
<1> DEFINE j == OpcodeBytes(i)
<1>1. DOMAIN i = Fields /\ NoOpcode(i) /\ PrefixFacts(i)
      /\ i.opnd_bytes = PrefixOperand(i) /\ i.next_byte = insn_offset_opcode(i)
  BY Zenon DEF Stage1
<1>2. i.vex_prefix.nbytes \in {0, 2, 3} /\ i.vex_prefix.bytes \in [1 .. 3 -> Opcode]
  BY <1>1 DEF PrefixFacts
<1>3. i.next_byte \in Nat
  BY <1>1, OffsetOpcodeType
<1>4. /\ SetsOnly(i, j, {"opcode", "attr", "next_byte"})
      /\ j.opcode.got = TRUE /\ j.opcode.nbytes \in 1 .. 3
      /\ j.next_byte = i.next_byte + j.opcode.nbytes
      /\ Decodable(j.attr)
      /\ (~insn_is_avx(i) /\ j.opcode.bytes[1] \in {\he8, \he9})
           => j.attr = inat_primary_table[j.opcode.bytes[1]]
  BY <1>1, <1>2, <1>3, OpcodeFields, Zenon
<1> HIDE DEF j
<1>5. /\ DOMAIN j = Fields
      /\ j.prefixes = i.prefixes /\ j.rex_prefix = i.rex_prefix /\ j.vex_prefix = i.vex_prefix
      /\ j.addr_bytes = i.addr_bytes /\ j.opnd_bytes = i.opnd_bytes /\ j.x86_64 = i.x86_64
      /\ j.modrm = i.modrm /\ j.sib = i.sib /\ j.displacement = i.displacement
      /\ j.immediate1 = i.immediate1 /\ j.immediate2 = i.immediate2 /\ j.length = i.length
  BY <1>1, <1>4 DEF SetsOnly, Fields
<1>6. PrefixFacts(j) /\ j.opnd_bytes = PrefixOperand(j)
  BY <1>1, <1>5, SamePrefixes, Zenon
<1>7. NoModRM(j)
  BY <1>1, <1>5, Zenon DEF NoOpcode, NoModRM, NoSib, NoDisplacement, NoImmediate, NoLength
<1>8. ASSUME ~insn_is_avx(j), j.opcode.bytes[1] \in {\he8, \he9}
      PROVE  /\ j.attr.imm = "VWORD32" /\ "FORCE64" \in j.attr.flags
             /\ {"MODRM", "MOFFSET", "SCNDIMM"} \cap j.attr.flags = {}
  <2>1. ~insn_is_avx(i)
    BY <1>5, <1>8, Zenon DEF insn_is_avx
  <2>2. j.attr = inat_primary_table[j.opcode.bytes[1]]
    BY <1>4, <1>8, <2>1, Zenon
  <2> DEFINE op == j.opcode.bytes[1]
  <2> HIDE DEF op
  <2>3. /\ inat_primary_table[op].imm = "VWORD32"
        /\ "FORCE64" \in inat_primary_table[op].flags
        /\ {"MODRM", "MOFFSET", "SCNDIMM", "VEXONLY"} \cap inat_primary_table[op].flags = {}
    <3>1. op \in {\he8, \he9}
      BY <1>8 DEF op
    <3> QED
      BY <3>1, CallAndJmp
  <2> QED
    BY <2>2, <2>3 DEF op
<1>9. OpcodeFacts(j)
  BY <1>4, <1>8, Zenon DEF OpcodeFacts
<1>10. insn_offset_opcode(j) = insn_offset_opcode(i)
  BY <1>5, Zenon DEF insn_offset_opcode, insn_offset_vex_prefix, insn_offset_rex_prefix
<1>11. j.next_byte = insn_offset_modrm(j)
  BY <1>1, <1>4, <1>10, Zenon DEF insn_offset_modrm
<1>12. Stage2(j) /\ j.x86_64 = i.x86_64
  BY <1>5, <1>6, <1>7, <1>9, <1>11, Zenon DEF Stage2
<1> QED
  BY <1>12 DEF j

LEMMA OffsetModRMType ==
  ASSUME NEW i, PrefixFacts(i), OpcodeFacts(i)
  PROVE  insn_offset_modrm(i) \in 1 .. 22
<1>1. insn_offset_opcode(i) \in 0 .. 19
  BY OffsetOpcodeType
<1>2. i.opcode.nbytes \in 1 .. 3
  BY DEF OpcodeFacts
<1> QED
  BY <1>1, <1>2 DEF insn_offset_modrm

LEMMA ToStage3 ==
  ASSUME code \in Seq(Opcode), NEW i, Stage2(i)
  PROVE  Stage3(ModRM(i)) /\ ModRM(i).x86_64 = i.x86_64
<1> DEFINE j == ModRM(i)
<1>1. DOMAIN i = Fields /\ NoModRM(i) /\ PrefixFacts(i) /\ OpcodeFacts(i)
      /\ i.opnd_bytes = PrefixOperand(i) /\ i.next_byte = insn_offset_modrm(i)
  BY Zenon DEF Stage2
<1>2. Decodable(i.attr)
  BY <1>1 DEF OpcodeFacts
<1>3. i.next_byte \in Nat
  BY <1>1, OffsetModRMType, SMTT(30)
<1>4. /\ SetsOnly(i, j, {"modrm", "attr", "opnd_bytes", "next_byte"})
      /\ j.modrm.got = TRUE
      /\ j.modrm.nbytes = IF "MODRM" \in j.attr.flags THEN 1 ELSE 0
      /\ j.modrm.value \in Opcode
      /\ j.opnd_bytes = IF i.x86_64 /\ "FORCE64" \in j.attr.flags THEN 8 ELSE i.opnd_bytes
      /\ j.next_byte = i.next_byte + j.modrm.nbytes
      /\ Decodable(j.attr)
      /\ "MODRM" \notin i.attr.flags => j.attr = i.attr
  BY <1>1, <1>2, <1>3, ModRMFields, Zenon
<1> HIDE DEF j
<1>5. /\ DOMAIN j = Fields
      /\ j.prefixes = i.prefixes /\ j.rex_prefix = i.rex_prefix /\ j.vex_prefix = i.vex_prefix
      /\ j.addr_bytes = i.addr_bytes /\ j.x86_64 = i.x86_64 /\ j.opcode = i.opcode
      /\ j.sib = i.sib /\ j.displacement = i.displacement
      /\ j.immediate1 = i.immediate1 /\ j.immediate2 = i.immediate2 /\ j.length = i.length
  BY <1>1, <1>4 DEF SetsOnly, Fields
<1>6. PrefixFacts(j) /\ PrefixOperand(j) = PrefixOperand(i)
  BY <1>1, <1>5, SamePrefixes, Zenon
<1>7. NoSib(j)
  BY <1>1, <1>5, Zenon DEF NoModRM, NoSib, NoDisplacement, NoImmediate, NoLength
<1>8. ModRMFacts(j)
  <2>1. j.opnd_bytes = Operand(j)
    <3>1. j.opnd_bytes = IF j.x86_64 /\ "FORCE64" \in j.attr.flags THEN 8 ELSE PrefixOperand(j)
      BY <1>1, <1>4, <1>5, <1>6, Zenon
    <3>2. CASE j.x86_64 /\ "FORCE64" \in j.attr.flags
      BY <3>1, <3>2, Zenon DEF Operand
    <3>3. CASE ~(j.x86_64 /\ "FORCE64" \in j.attr.flags)
      <4>1. CASE WidePrefix(j)
        BY <3>1, <3>3, <4>1, Zenon DEF Operand, PrefixOperand, WidePrefix
      <4>2. CASE ~WidePrefix(j)
        BY <3>1, <3>3, <4>2, Zenon DEF Operand, PrefixOperand, WidePrefix
      <4> QED
        BY <4>1, <4>2
    <3> QED
      BY <3>2, <3>3
  <2> QED
    BY <1>4, <2>1, Zenon DEF ModRMFacts
<1>9. OpcodeFacts(j)
  <2>1. ASSUME ~insn_is_avx(j), j.opcode.bytes[1] \in {\he8, \he9}
        PROVE  /\ i.attr.imm = "VWORD32" /\ "FORCE64" \in i.attr.flags
               /\ {"MODRM", "MOFFSET", "SCNDIMM"} \cap i.attr.flags = {}
    <3>1. ~insn_is_avx(i)
      BY <1>5, <2>1, Zenon DEF insn_is_avx
    <3> QED
      BY <1>1, <1>5, <2>1, <3>1, Zenon DEF OpcodeFacts
  <2>2. ASSUME ~insn_is_avx(j), j.opcode.bytes[1] \in {\he8, \he9}
        PROVE  j.attr = i.attr
    <3>1. "MODRM" \notin i.attr.flags
      BY <2>1, <2>2
    <3> QED
      BY <1>4, <3>1, Zenon
  <2>3. i.opcode.got = TRUE /\ i.opcode.nbytes \in 1 .. 3
    BY <1>1, Zenon DEF OpcodeFacts
  <2> QED
    BY <1>4, <1>5, <2>1, <2>2, <2>3, Zenon DEF OpcodeFacts
<1>10. insn_offset_modrm(j) = insn_offset_modrm(i)
  BY <1>5, Zenon
     DEF insn_offset_modrm, insn_offset_opcode, insn_offset_vex_prefix, insn_offset_rex_prefix
<1>11. j.next_byte = insn_offset_sib(j)
  BY <1>1, <1>4, <1>10, Zenon DEF insn_offset_sib
<1>12. Stage3(j) /\ j.x86_64 = i.x86_64
  BY <1>5, <1>6, <1>7, <1>8, <1>9, <1>11, Zenon DEF Stage3
<1> QED
  BY <1>12 DEF j

LEMMA OffsetSibType ==
  ASSUME NEW i, PrefixFacts(i), OpcodeFacts(i), ModRMFacts(i)
  PROVE  insn_offset_sib(i) \in 1 .. 23
<1>1. insn_offset_modrm(i) \in 1 .. 22
  BY OffsetModRMType
<1>2. i.modrm.nbytes \in 0 .. 1
  BY DEF ModRMFacts
<1> QED
  BY <1>1, <1>2 DEF insn_offset_sib

LEMMA ToStage4 ==
  ASSUME code \in Seq(Opcode), NEW i, Stage3(i)
  PROVE  Stage4(Sib(i)) /\ Sib(i).x86_64 = i.x86_64
<1> DEFINE j == Sib(i)
<1>1. /\ DOMAIN i = Fields /\ NoSib(i)
      /\ PrefixFacts(i) /\ OpcodeFacts(i) /\ ModRMFacts(i)
      /\ i.next_byte = insn_offset_sib(i)
  BY Zenon DEF Stage3
<1>2. i.next_byte \in Nat
  BY <1>1, OffsetSibType, SMTT(30)
<1>3. /\ SetsOnly(i, j, {"sib", "next_byte"})
      /\ j.sib.got = TRUE
      /\ j.sib.nbytes = IF HasSib(i) THEN 1 ELSE 0
      /\ j.sib.value \in Opcode
      /\ ~HasSib(i) => j.sib.value = 0
      /\ j.next_byte = i.next_byte + j.sib.nbytes
  BY <1>1, <1>2, SibFields, Zenon
<1> HIDE DEF j
<1>4. /\ DOMAIN j = Fields
      /\ j.prefixes = i.prefixes /\ j.rex_prefix = i.rex_prefix /\ j.vex_prefix = i.vex_prefix
      /\ j.addr_bytes = i.addr_bytes /\ j.opnd_bytes = i.opnd_bytes /\ j.x86_64 = i.x86_64
      /\ j.opcode = i.opcode /\ j.attr = i.attr /\ j.modrm = i.modrm
      /\ j.displacement = i.displacement
      /\ j.immediate1 = i.immediate1 /\ j.immediate2 = i.immediate2 /\ j.length = i.length
  BY <1>1, <1>3 DEF SetsOnly, Fields
<1>5. PrefixFacts(j)
  BY <1>1, <1>4, SamePrefixes, Zenon
<1>6. OpcodeFacts(j)
  BY <1>1, <1>4, SameOpcode, Zenon
<1>7. ModRMFacts(j)
  BY <1>1, <1>4, SameModRM, Zenon
<1>8. SibFacts(j)
  <2>1. HasSib(j) <=> HasSib(i)
    BY <1>4, Zenon DEF HasSib
  <2> QED
    BY <1>3, <2>1, Zenon DEF SibFacts
<1>9. NoDisplacement(j)
  BY <1>1, <1>4, Zenon DEF NoSib, NoDisplacement, NoImmediate, NoLength
<1>10. insn_offset_sib(j) = insn_offset_sib(i)
  BY <1>4, Zenon DEF insn_offset_sib, insn_offset_modrm, insn_offset_opcode,
                     insn_offset_vex_prefix, insn_offset_rex_prefix
<1>11. j.next_byte = insn_offset_displacement(j)
  BY <1>1, <1>3, <1>10, Zenon DEF insn_offset_displacement
<1>12. Stage4(j) /\ j.x86_64 = i.x86_64
  BY <1>4, <1>5, <1>6, <1>7, <1>8, <1>9, <1>11, Zenon DEF Stage4
<1> QED
  BY <1>12 DEF j

LEMMA OffsetDisplacementType ==
  ASSUME NEW i, PrefixFacts(i), OpcodeFacts(i), ModRMFacts(i), SibFacts(i)
  PROVE  insn_offset_displacement(i) \in 1 .. 24
<1>1. insn_offset_sib(i) \in 1 .. 23
  BY OffsetSibType
<1>2. i.sib.nbytes \in 0 .. 1
  BY DEF SibFacts
<1> QED
  BY <1>1, <1>2 DEF insn_offset_displacement

LEMMA ToStage5 ==
  ASSUME NEW i, Stage4(i)
  PROVE  Stage5(Displacement(i)) /\ Displacement(i).x86_64 = i.x86_64
<1> DEFINE j == Displacement(i)
<1>1. /\ DOMAIN i = Fields /\ NoDisplacement(i)
      /\ PrefixFacts(i) /\ OpcodeFacts(i) /\ ModRMFacts(i) /\ SibFacts(i)
      /\ i.next_byte = insn_offset_displacement(i)
  BY Zenon DEF Stage4
<1>2. i.next_byte \in Nat /\ i.displacement = Absent
  BY <1>1, OffsetDisplacementType DEF NoDisplacement
<1>3. /\ SetsOnly(i, j, {"displacement", "next_byte"})
      /\ j.displacement.got = TRUE /\ j.displacement.nbytes = DisplacementBytes(i)
      /\ DisplacementBytes(i) # 0 => j.displacement.at = i.next_byte
      /\ j.next_byte = i.next_byte + DisplacementBytes(i)
  BY <1>1, <1>2, DisplacementFields, Zenon
<1> HIDE DEF j
<1>4. /\ DOMAIN j = Fields
      /\ j.prefixes = i.prefixes /\ j.rex_prefix = i.rex_prefix /\ j.vex_prefix = i.vex_prefix
      /\ j.addr_bytes = i.addr_bytes /\ j.opnd_bytes = i.opnd_bytes /\ j.x86_64 = i.x86_64
      /\ j.opcode = i.opcode /\ j.attr = i.attr /\ j.modrm = i.modrm /\ j.sib = i.sib
      /\ j.immediate1 = i.immediate1 /\ j.immediate2 = i.immediate2 /\ j.length = i.length
  BY <1>1, <1>3 DEF SetsOnly, Fields
<1>5. PrefixFacts(j)
  BY <1>1, <1>4, SamePrefixes, Zenon
<1>6. OpcodeFacts(j)
  BY <1>1, <1>4, SameOpcode, Zenon
<1>7. ModRMFacts(j)
  BY <1>1, <1>4, SameModRM, Zenon
<1>8. SibFacts(j)
  BY <1>1, <1>4, SameSib, Zenon
<1>9. NoImmediate(j)
  BY <1>1, <1>4, Zenon DEF NoDisplacement, NoImmediate, NoLength
<1>10. insn_offset_displacement(j) = insn_offset_displacement(i)
  BY <1>4, Zenon DEF insn_offset_displacement, insn_offset_sib, insn_offset_modrm,
                     insn_offset_opcode, insn_offset_vex_prefix, insn_offset_rex_prefix
<1>11. DisplacementBytes(j) = DisplacementBytes(i)
  BY <1>4, Zenon DEF DisplacementBytes
<1>12. DisplacementFacts(j)
  BY <1>1, <1>3, <1>10, <1>11, Zenon DEF DisplacementFacts
<1>13. j.next_byte = insn_offset_immediate(j)
  BY <1>1, <1>3, <1>10, Zenon DEF insn_offset_immediate
<1>14. Stage5(j) /\ j.x86_64 = i.x86_64
  BY <1>4, <1>5, <1>6, <1>7, <1>8, <1>9, <1>12, <1>13, Zenon DEF Stage5
<1> QED
  BY <1>14 DEF j

LEMMA OffsetImmediateType ==
  ASSUME NEW i, PrefixFacts(i), OpcodeFacts(i), ModRMFacts(i), SibFacts(i),
         DisplacementFacts(i)
  PROVE  insn_offset_immediate(i) \in 1 .. 28
<1>1. insn_offset_displacement(i) \in 1 .. 24
  BY OffsetDisplacementType
<1>2. i.displacement.nbytes \in {0, 1, 2, 4}
  BY DisplacementBytesType DEF DisplacementFacts
<1> QED
  BY <1>1, <1>2 DEF insn_offset_immediate

LEMMA ToStage6 ==
  ASSUME NEW i, Stage5(i)
  PROVE  Stage6(Immediate(i)) /\ Immediate(i).x86_64 = i.x86_64
<1> DEFINE j == Immediate(i)
           n == ImmediateSizes(i)
<1>1. /\ DOMAIN i = Fields /\ NoImmediate(i)
      /\ PrefixFacts(i) /\ OpcodeFacts(i) /\ ModRMFacts(i) /\ SibFacts(i)
      /\ DisplacementFacts(i)
      /\ i.next_byte = insn_offset_immediate(i)
  BY Zenon DEF Stage5
<1>2. /\ i.next_byte \in Nat
      /\ i.immediate1 = Absent /\ i.immediate2 = Absent
      /\ Decodable(i.attr)
  <2>1. i.next_byte \in Nat
    BY <1>1, OffsetImmediateType
  <2> QED
    BY <1>1, <2>1, Zenon DEF NoImmediate, OpcodeFacts
<1>3. i.addr_bytes \in {2, 4, 8} /\ i.opnd_bytes \in {2, 4, 8}
  <2>1. i.addr_bytes = Address(i) /\ i.opnd_bytes = Operand(i)
    BY <1>1, Zenon DEF PrefixFacts, ModRMFacts
  <2> QED
    BY <2>1 DEF Address, Operand, PrefixOperand
<1>4. /\ SetsOnly(i, j, {"immediate1", "immediate2", "next_byte"})
      /\ j.immediate1.got = TRUE
      /\ j.immediate1.nbytes = n[1] /\ j.immediate2.nbytes = n[2]
      /\ n[1] \in {0, 1, 2, 4} /\ n[2] \in {0, 1, 2, 4}
      /\ n[1] # 0 => j.immediate1.at = i.next_byte
      /\ j.next_byte = i.next_byte + n[1] + n[2]
  BY <1>1, <1>2, <1>3, ImmediateFields, Zenon
<1> HIDE DEF j
<1>5. /\ DOMAIN j = Fields
      /\ j.prefixes = i.prefixes /\ j.rex_prefix = i.rex_prefix /\ j.vex_prefix = i.vex_prefix
      /\ j.addr_bytes = i.addr_bytes /\ j.opnd_bytes = i.opnd_bytes /\ j.x86_64 = i.x86_64
      /\ j.opcode = i.opcode /\ j.attr = i.attr /\ j.modrm = i.modrm /\ j.sib = i.sib
      /\ j.displacement = i.displacement /\ j.length = i.length
  BY <1>1, <1>4 DEF SetsOnly, Fields
<1>6. PrefixFacts(j)
  BY <1>1, <1>5, SamePrefixes, Zenon
<1>7. OpcodeFacts(j)
  BY <1>1, <1>5, SameOpcode, Zenon
<1>8. ModRMFacts(j)
  BY <1>1, <1>5, SameModRM, Zenon
<1>9. SibFacts(j)
  BY <1>1, <1>5, SameSib, Zenon
<1>10. insn_offset_displacement(j) = insn_offset_displacement(i)
       /\ insn_offset_immediate(j) = insn_offset_immediate(i)
  BY <1>5, Zenon DEF insn_offset_immediate, insn_offset_displacement, insn_offset_sib,
                     insn_offset_modrm, insn_offset_opcode, insn_offset_vex_prefix,
                     insn_offset_rex_prefix
<1>11. DisplacementFacts(j)
  BY <1>1, <1>5, <1>10, SameDisplacement, Zenon
<1>12. ImmediateSizes(j) = n
  BY <1>2, <1>5, SameImmediate, Zenon
<1>13. ImmediateFacts(j)
  BY <1>1, <1>4, <1>10, <1>12, Zenon DEF ImmediateFacts
<1>14. j.next_byte = insn_offset_immediate(j) + j.immediate1.nbytes + j.immediate2.nbytes
  BY <1>1, <1>4, <1>10, Zenon
<1>15. Complete(j)
  BY <1>5, <1>6, <1>7, <1>8, <1>9, <1>11, <1>13, <1>14, Zenon DEF Complete
<1>16. NoLength(j)
  BY <1>1, <1>5, Zenon DEF NoImmediate, NoLength
<1> QED
  BY <1>5, <1>15, <1>16, Zenon DEF Stage6, j

WithLength(i) == [i EXCEPT !.length = i.next_byte % 256]

LEMMA ToStage7 ==
  ASSUME NEW i, Stage6(i)
  PROVE  /\ Stage7(WithLength(i)) /\ WithLength(i).x86_64 = i.x86_64
         /\ WithLength(i).length # 0
<1> DEFINE j == WithLength(i)
<1>1. Complete(i)
  BY DEF Stage6
<1>2. /\ DOMAIN i = Fields
      /\ PrefixFacts(i) /\ OpcodeFacts(i) /\ ModRMFacts(i) /\ SibFacts(i)
      /\ DisplacementFacts(i) /\ ImmediateFacts(i)
      /\ i.next_byte = insn_offset_immediate(i) + i.immediate1.nbytes + i.immediate2.nbytes
  BY <1>1, Zenon DEF Complete
<1>3. i.next_byte \in 1 .. 36
  <2>1. insn_offset_immediate(i) \in 1 .. 28
    BY <1>2, OffsetImmediateType
  <2>2. i.immediate1.nbytes \in {0, 1, 2, 4} /\ i.immediate2.nbytes \in {0, 1, 2, 4}
    BY <1>2 DEF ImmediateFacts
  <2> QED
    BY <1>2, <2>1, <2>2
<1>4. i.next_byte % 256 = i.next_byte
  BY <1>3
<1>5. j = [i EXCEPT !.length = i.next_byte]
  BY <1>4, Zenon DEF WithLength
<1> HIDE DEF j
<1>6. SetsOnly(i, j, {"length"}) /\ j.length = i.next_byte
  BY <1>2, <1>5 DEF SetsOnly, Fields
<1>7. /\ DOMAIN j = Fields
      /\ j.prefixes = i.prefixes /\ j.rex_prefix = i.rex_prefix /\ j.vex_prefix = i.vex_prefix
      /\ j.addr_bytes = i.addr_bytes /\ j.opnd_bytes = i.opnd_bytes /\ j.x86_64 = i.x86_64
      /\ j.opcode = i.opcode /\ j.attr = i.attr /\ j.modrm = i.modrm /\ j.sib = i.sib
      /\ j.displacement = i.displacement /\ j.immediate1 = i.immediate1
      /\ j.immediate2 = i.immediate2 /\ j.next_byte = i.next_byte
  BY <1>6 DEF SetsOnly, Fields
<1>8. PrefixFacts(j)
  BY <1>2, <1>7, SamePrefixes, Zenon
<1>9. OpcodeFacts(j)
  BY <1>2, <1>7, SameOpcode, Zenon
<1>10. ModRMFacts(j)
  BY <1>2, <1>7, SameModRM, Zenon
<1>11. SibFacts(j)
  BY <1>2, <1>7, SameSib, Zenon
<1>12. insn_offset_displacement(j) = insn_offset_displacement(i)
       /\ insn_offset_immediate(j) = insn_offset_immediate(i)
  BY <1>7, Zenon DEF insn_offset_immediate, insn_offset_displacement, insn_offset_sib,
                     insn_offset_modrm, insn_offset_opcode, insn_offset_vex_prefix,
                     insn_offset_rex_prefix
<1>13. DisplacementFacts(j)
  BY <1>2, <1>7, <1>12, SameDisplacement, Zenon
<1>14. ImmediateSizes(j) = ImmediateSizes(i)
  <2>1. Decodable(i.attr)
    BY <1>2, Zenon DEF OpcodeFacts
  <2> QED
    BY <1>7, <2>1, SameImmediate, Zenon
<1>15. ImmediateFacts(j)
  BY <1>2, <1>7, <1>12, <1>14, Zenon DEF ImmediateFacts
<1>16. j.next_byte = insn_offset_immediate(j) + j.immediate1.nbytes + j.immediate2.nbytes
  BY <1>2, <1>7, <1>12, Zenon
<1>17. Complete(j)
  BY <1>7, <1>8, <1>9, <1>10, <1>11, <1>13, <1>15, <1>16, Zenon DEF Complete
<1>18. j.length # 0 /\ j.length = j.next_byte
  BY <1>3, <1>6, <1>7
<1> QED
  BY <1>7, <1>17, <1>18, Zenon DEF Stage7, j

-----------------------------------------------------------------------------
(***************************************************************************)
(* The struct insn of a behaviour is always one of eight.                  *)
(***************************************************************************)
S0(m) == insn_init(m)
S1(m) == AfterAllPrefixes(S0(m))
S2(m) == OpcodeBytes(S1(m))
S3(m) == ModRM(S2(m))
S4(m) == Sib(S3(m))
S5(m) == Displacement(S4(m))
S6(m) == Immediate(S5(m))
S7(m) == WithLength(S6(m))

Reached(m) == {S0(m), S1(m), S2(m), S3(m), S4(m), S5(m), S6(m), S7(m)}

Stage0(i) ==
  /\ DOMAIN i = Fields /\ NoOpcode(i)
  /\ i.prefixes.got = FALSE /\ i.prefixes.nbytes = 0
  /\ i.rex_prefix.nbytes = 0 /\ i.vex_prefix.nbytes = 0
  /\ i.next_byte = 0

LEMMA Stages ==
  ASSUME code \in Seq(Opcode), Len(code) <= 15, NEW m \in BOOLEAN
  PROVE  /\ Stage0(S0(m)) /\ S0(m).x86_64 = m
         /\ Stage1(S1(m)) /\ S1(m).x86_64 = m
         /\ Stage2(S2(m)) /\ S2(m).x86_64 = m
         /\ Stage3(S3(m)) /\ S3(m).x86_64 = m
         /\ Stage4(S4(m)) /\ S4(m).x86_64 = m
         /\ Stage5(S5(m)) /\ S5(m).x86_64 = m
         /\ Stage6(S6(m)) /\ S6(m).x86_64 = m
         /\ Stage7(S7(m)) /\ S7(m).x86_64 = m /\ S7(m).length # 0
<1>0. Stage0(S0(m)) /\ S0(m).x86_64 = m
  <2>1. Empty.nbytes = 0
    BY DEF Empty
  <2>2. NoOpcode(S0(m))
    BY InitFields, Zenon
       DEF S0, NoOpcode, NoModRM, NoSib, NoDisplacement, NoImmediate, NoLength
  <2> QED
    BY <2>1, <2>2, InitFields, Zenon DEF S0, Stage0
<1>1. Stage1(S1(m)) /\ S1(m).x86_64 = m
  BY ToStage1, Zenon DEF S1, S0
<1>2. Stage2(S2(m)) /\ S2(m).x86_64 = m
  BY <1>1, ToStage2, Zenon DEF S2
<1>3. Stage3(S3(m)) /\ S3(m).x86_64 = m
  BY <1>2, ToStage3, Zenon DEF S3
<1>4. Stage4(S4(m)) /\ S4(m).x86_64 = m
  BY <1>3, ToStage4, Zenon DEF S4
<1>5. Stage5(S5(m)) /\ S5(m).x86_64 = m
  BY <1>4, ToStage5, Zenon DEF S5
<1>6. Stage6(S6(m)) /\ S6(m).x86_64 = m
  BY <1>5, ToStage6, Zenon DEF S6
<1>7. Stage7(S7(m)) /\ S7(m).x86_64 = m /\ S7(m).length # 0
  BY <1>6, ToStage7, Zenon DEF S7
<1> QED
  BY <1>0, <1>1, <1>2, <1>3, <1>4, <1>5, <1>6, <1>7, Zenon

\* Each part is there from its stage on, and not before.
LEMMA GotFlags ==
  ASSUME NEW i
  PROVE  /\ Stage0(i) => i.prefixes.got = FALSE
         /\ Stage0(i) \/ Stage1(i) => i.opcode.got = FALSE
         /\ Stage0(i) \/ Stage1(i) \/ Stage2(i) => i.modrm.got = FALSE
         /\ Stage0(i) \/ Stage1(i) \/ Stage2(i) \/ Stage3(i) => i.sib.got = FALSE
         /\ Stage0(i) \/ Stage1(i) \/ Stage2(i) \/ Stage3(i) \/ Stage4(i)
              => i.displacement.got = FALSE
         /\ Stage0(i) \/ Stage1(i) \/ Stage2(i) \/ Stage3(i) \/ Stage4(i) \/ Stage5(i)
              => i.immediate1.got = FALSE
         /\ Stage0(i) \/ Stage1(i) \/ Stage2(i) \/ Stage3(i) \/ Stage4(i) \/ Stage5(i) \/ Stage6(i)
              => i.length = 0
         /\ Stage1(i) \/ Stage2(i) \/ Stage3(i) \/ Stage4(i) \/ Stage5(i) \/ Complete(i)
              => i.prefixes.got = TRUE
         /\ Stage2(i) \/ Stage3(i) \/ Stage4(i) \/ Stage5(i) \/ Complete(i) => i.opcode.got = TRUE
         /\ Stage3(i) \/ Stage4(i) \/ Stage5(i) \/ Complete(i) => i.modrm.got = TRUE
         /\ Stage4(i) \/ Stage5(i) \/ Complete(i) => i.sib.got = TRUE
         /\ Stage5(i) \/ Complete(i) => i.displacement.got = TRUE
         /\ Complete(i) => i.immediate1.got = TRUE
<1>1. Empty.got = FALSE /\ Absent.got = FALSE
  BY DEF Empty, Absent
<1>2. /\ NoOpcode(i) => i.opcode.got = FALSE /\ NoModRM(i)
      /\ NoModRM(i) => i.modrm.got = FALSE /\ NoSib(i)
      /\ NoSib(i) => i.sib.got = FALSE /\ NoDisplacement(i)
      /\ NoDisplacement(i) => i.displacement.got = FALSE /\ NoImmediate(i)
      /\ NoImmediate(i) => i.immediate1.got = FALSE /\ NoLength(i)
      /\ NoLength(i) => i.length = 0
  BY <1>1, Zenon DEF NoOpcode, NoModRM, NoSib, NoDisplacement, NoImmediate, NoLength
<1>3. /\ Stage0(i) => NoOpcode(i) /\ i.prefixes.got = FALSE
      /\ Stage1(i) => NoOpcode(i) /\ PrefixFacts(i)
      /\ Stage2(i) => NoModRM(i) /\ PrefixFacts(i) /\ OpcodeFacts(i)
      /\ Stage3(i) => NoSib(i) /\ PrefixFacts(i) /\ OpcodeFacts(i) /\ ModRMFacts(i)
      /\ Stage4(i) => /\ NoDisplacement(i) /\ PrefixFacts(i) /\ OpcodeFacts(i) /\ ModRMFacts(i)
                      /\ SibFacts(i)
      /\ Stage5(i) => /\ NoImmediate(i) /\ PrefixFacts(i) /\ OpcodeFacts(i) /\ ModRMFacts(i)
                      /\ SibFacts(i) /\ DisplacementFacts(i)
      /\ Stage6(i) => NoLength(i)
      /\ Complete(i) => /\ PrefixFacts(i) /\ OpcodeFacts(i) /\ ModRMFacts(i) /\ SibFacts(i)
                        /\ DisplacementFacts(i) /\ ImmediateFacts(i)
  BY Zenon DEF Stage0, Stage1, Stage2, Stage3, Stage4, Stage5, Stage6, Complete
<1>4. /\ PrefixFacts(i) => i.prefixes.got = TRUE
      /\ OpcodeFacts(i) => i.opcode.got = TRUE
      /\ ModRMFacts(i) => i.modrm.got = TRUE
      /\ SibFacts(i) => i.sib.got = TRUE
      /\ DisplacementFacts(i) => i.displacement.got = TRUE
      /\ ImmediateFacts(i) => i.immediate1.got = TRUE
  BY DEF PrefixFacts, OpcodeFacts, ModRMFacts, SibFacts, DisplacementFacts, ImmediateFacts
<1> QED
  BY <1>2, <1>3, <1>4

\* An accessor that finds its part does nothing; one that does not, decodes
\* what comes before it.
LEMMA Found ==
  ASSUME NEW i
  PROVE  /\ i.prefixes.got = TRUE => AfterPrefixes(i) = {i}
         /\ i.opcode.got = TRUE => AfterOpcode(i) = {i}
         /\ i.modrm.got = TRUE => AfterModRM(i) = {i}
         /\ i.sib.got = TRUE => AfterSib(i) = {i}
         /\ i.displacement.got = TRUE => AfterDisplacement(i) = {i}
         /\ i.immediate1.got = TRUE => AfterImmediate(i) = {i}
         /\ i.length # 0 => AfterLength(i) = {i}
BY DEF AfterPrefixes, AfterOpcode, AfterModRM, AfterSib, AfterDisplacement, AfterImmediate,
       AfterLength

LEMMA DecodesPrefixes ==
  ASSUME NEW i, i.prefixes.got = FALSE
  PROVE  AfterPrefixes(i) = {AfterAllPrefixes(i)}
BY DEF AfterPrefixes, AfterAllPrefixes

LEMMA DecodesOpcode ==
  ASSUME NEW i, NEW j, i.opcode.got = FALSE, AfterPrefixes(i) = {j}
  PROVE  AfterOpcode(i) = {OpcodeBytes(j)}
BY DEF AfterOpcode

LEMMA DecodesModRM ==
  ASSUME NEW i, NEW j, i.modrm.got = FALSE, AfterOpcode(i) = {j}
  PROVE  AfterModRM(i) = {ModRM(j)}
BY DEF AfterModRM

LEMMA DecodesSib ==
  ASSUME NEW i, NEW j, i.sib.got = FALSE, AfterModRM(i) = {j}
  PROVE  AfterSib(i) = {Sib(j)}
BY DEF AfterSib

LEMMA DecodesDisplacement ==
  ASSUME NEW i, NEW j, i.displacement.got = FALSE, AfterSib(i) = {j}
  PROVE  AfterDisplacement(i) = {Displacement(j)}
BY DEF AfterDisplacement

LEMMA DecodesImmediate ==
  ASSUME NEW i, NEW j, i.immediate1.got = FALSE, AfterDisplacement(i) = {j}
  PROVE  AfterImmediate(i) = {Immediate(j)}
BY DEF AfterImmediate

LEMMA DecodesLength ==
  ASSUME NEW i, NEW j, i.length = 0, AfterImmediate(i) = {j}
  PROVE  AfterLength(i) = {WithLength(j)}
BY DEF AfterLength, WithLength

\* So the accessors lead from one of the eight to another.
LEMMA Accessors ==
  ASSUME code \in Seq(Opcode), Len(code) <= 15, NEW m \in BOOLEAN, NEW i \in Reached(m)
  PROVE  /\ AfterPrefixes(i) \subseteq Reached(m)
         /\ AfterOpcode(i) \subseteq Reached(m)
         /\ AfterModRM(i) \subseteq Reached(m)
         /\ AfterSib(i) \subseteq Reached(m)
         /\ AfterDisplacement(i) \subseteq Reached(m)
         /\ AfterImmediate(i) \subseteq Reached(m)
         /\ AfterLength(i) = {S7(m)}
<1> DEFINE s0 == S0(m)
           s1 == S1(m)
           s2 == S2(m)
           s3 == S3(m)
           s4 == S4(m)
           s5 == S5(m)
           s6 == S6(m)
           s7 == S7(m)
<1>1. /\ s1 = AfterAllPrefixes(s0) /\ s2 = OpcodeBytes(s1) /\ s3 = ModRM(s2) /\ s4 = Sib(s3)
      /\ s5 = Displacement(s4) /\ s6 = Immediate(s5) /\ s7 = WithLength(s6)
  BY Zenon DEF S1, S2, S3, S4, S5, S6, S7
<1>2. /\ Stage0(s0) /\ Stage1(s1) /\ Stage2(s2) /\ Stage3(s3) /\ Stage4(s4) /\ Stage5(s5)
      /\ Stage6(s6) /\ Stage7(s7) /\ s7.length # 0 /\ Complete(s6) /\ Complete(s7)
  BY Stages, Zenon DEF Stage6, Stage7
<1>3. Reached(m) = {s0, s1, s2, s3, s4, s5, s6, s7}
  BY Zenon DEF Reached
<1> HIDE DEF s0, s1, s2, s3, s4, s5, s6, s7
<1>4. CASE i = s0
  <2>1. /\ i.prefixes.got = FALSE /\ i.opcode.got = FALSE /\ i.modrm.got = FALSE
        /\ i.sib.got = FALSE /\ i.displacement.got = FALSE /\ i.immediate1.got = FALSE
        /\ i.length = 0
    BY <1>2, <1>4, GotFlags, Zenon
  <2>2. AfterPrefixes(i) = {s1}
    BY <1>1, <1>4, <2>1, DecodesPrefixes, Zenon
  <2>3. AfterOpcode(i) = {s2}
    BY <1>1, <2>1, <2>2, DecodesOpcode, Zenon
  <2>4. AfterModRM(i) = {s3}
    BY <1>1, <2>1, <2>3, DecodesModRM, Zenon
  <2>5. AfterSib(i) = {s4}
    BY <1>1, <2>1, <2>4, DecodesSib, Zenon
  <2>6. AfterDisplacement(i) = {s5}
    BY <1>1, <2>1, <2>5, DecodesDisplacement, Zenon
  <2>7. AfterImmediate(i) = {s6}
    BY <1>1, <2>1, <2>6, DecodesImmediate, Zenon
  <2>8. AfterLength(i) = {s7}
    BY <1>1, <2>1, <2>7, DecodesLength, Zenon
  <2> QED
    BY <1>3, <2>2, <2>3, <2>4, <2>5, <2>6, <2>7, <2>8 DEF s7
<1>5. CASE i = s1
  <2>1. /\ i.prefixes.got = TRUE /\ i.opcode.got = FALSE /\ i.modrm.got = FALSE
        /\ i.sib.got = FALSE /\ i.displacement.got = FALSE /\ i.immediate1.got = FALSE
        /\ i.length = 0
    BY <1>2, <1>5, GotFlags, Zenon
  <2>2. AfterPrefixes(i) = {s1}
    BY <1>5, <2>1, Found, Zenon
  <2>3. AfterOpcode(i) = {s2}
    BY <1>1, <2>1, <2>2, DecodesOpcode, Zenon
  <2>4. AfterModRM(i) = {s3}
    BY <1>1, <2>1, <2>3, DecodesModRM, Zenon
  <2>5. AfterSib(i) = {s4}
    BY <1>1, <2>1, <2>4, DecodesSib, Zenon
  <2>6. AfterDisplacement(i) = {s5}
    BY <1>1, <2>1, <2>5, DecodesDisplacement, Zenon
  <2>7. AfterImmediate(i) = {s6}
    BY <1>1, <2>1, <2>6, DecodesImmediate, Zenon
  <2>8. AfterLength(i) = {s7}
    BY <1>1, <2>1, <2>7, DecodesLength, Zenon
  <2> QED
    BY <1>3, <2>2, <2>3, <2>4, <2>5, <2>6, <2>7, <2>8 DEF s7
<1>6. CASE i = s2
  <2>1. /\ i.prefixes.got = TRUE /\ i.opcode.got = TRUE /\ i.modrm.got = FALSE
        /\ i.sib.got = FALSE /\ i.displacement.got = FALSE /\ i.immediate1.got = FALSE
        /\ i.length = 0
    BY <1>2, <1>6, GotFlags, Zenon
  <2>2. AfterPrefixes(i) = {s2} /\ AfterOpcode(i) = {s2}
    BY <1>6, <2>1, Found, Zenon
  <2>4. AfterModRM(i) = {s3}
    BY <1>1, <2>1, <2>2, DecodesModRM, Zenon
  <2>5. AfterSib(i) = {s4}
    BY <1>1, <2>1, <2>4, DecodesSib, Zenon
  <2>6. AfterDisplacement(i) = {s5}
    BY <1>1, <2>1, <2>5, DecodesDisplacement, Zenon
  <2>7. AfterImmediate(i) = {s6}
    BY <1>1, <2>1, <2>6, DecodesImmediate, Zenon
  <2>8. AfterLength(i) = {s7}
    BY <1>1, <2>1, <2>7, DecodesLength, Zenon
  <2> QED
    BY <1>3, <2>2, <2>4, <2>5, <2>6, <2>7, <2>8 DEF s7
<1>7. CASE i = s3
  <2>1. /\ i.prefixes.got = TRUE /\ i.opcode.got = TRUE /\ i.modrm.got = TRUE
        /\ i.sib.got = FALSE /\ i.displacement.got = FALSE /\ i.immediate1.got = FALSE
        /\ i.length = 0
    BY <1>2, <1>7, GotFlags, Zenon
  <2>2. AfterPrefixes(i) = {s3} /\ AfterOpcode(i) = {s3} /\ AfterModRM(i) = {s3}
    BY <1>7, <2>1, Found, Zenon
  <2>5. AfterSib(i) = {s4}
    BY <1>1, <2>1, <2>2, DecodesSib, Zenon
  <2>6. AfterDisplacement(i) = {s5}
    BY <1>1, <2>1, <2>5, DecodesDisplacement, Zenon
  <2>7. AfterImmediate(i) = {s6}
    BY <1>1, <2>1, <2>6, DecodesImmediate, Zenon
  <2>8. AfterLength(i) = {s7}
    BY <1>1, <2>1, <2>7, DecodesLength, Zenon
  <2> QED
    BY <1>3, <2>2, <2>5, <2>6, <2>7, <2>8 DEF s7
<1>8. CASE i = s4
  <2>1. /\ i.prefixes.got = TRUE /\ i.opcode.got = TRUE /\ i.modrm.got = TRUE
        /\ i.sib.got = TRUE /\ i.displacement.got = FALSE /\ i.immediate1.got = FALSE
        /\ i.length = 0
    BY <1>2, <1>8, GotFlags, Zenon
  <2>2. /\ AfterPrefixes(i) = {s4} /\ AfterOpcode(i) = {s4} /\ AfterModRM(i) = {s4}
        /\ AfterSib(i) = {s4}
    BY <1>8, <2>1, Found, Zenon
  <2>6. AfterDisplacement(i) = {s5}
    BY <1>1, <2>1, <2>2, DecodesDisplacement, Zenon
  <2>7. AfterImmediate(i) = {s6}
    BY <1>1, <2>1, <2>6, DecodesImmediate, Zenon
  <2>8. AfterLength(i) = {s7}
    BY <1>1, <2>1, <2>7, DecodesLength, Zenon
  <2> QED
    BY <1>3, <2>2, <2>6, <2>7, <2>8 DEF s7
<1>9. CASE i = s5
  <2>1. /\ i.prefixes.got = TRUE /\ i.opcode.got = TRUE /\ i.modrm.got = TRUE
        /\ i.sib.got = TRUE /\ i.displacement.got = TRUE /\ i.immediate1.got = FALSE
        /\ i.length = 0
    BY <1>2, <1>9, GotFlags, Zenon
  <2>2. /\ AfterPrefixes(i) = {s5} /\ AfterOpcode(i) = {s5} /\ AfterModRM(i) = {s5}
        /\ AfterSib(i) = {s5} /\ AfterDisplacement(i) = {s5}
    BY <1>9, <2>1, Found, Zenon
  <2>7. AfterImmediate(i) = {s6}
    BY <1>1, <2>1, <2>2, DecodesImmediate, Zenon
  <2>8. AfterLength(i) = {s7}
    BY <1>1, <2>1, <2>7, DecodesLength, Zenon
  <2> QED
    BY <1>3, <2>2, <2>7, <2>8 DEF s7
<1>10. CASE i \in {s6, s7}
  <2>1. /\ i.prefixes.got = TRUE /\ i.opcode.got = TRUE /\ i.modrm.got = TRUE
        /\ i.sib.got = TRUE /\ i.displacement.got = TRUE /\ i.immediate1.got = TRUE
    BY <1>2, <1>10, GotFlags, Zenon
  <2>2. /\ AfterPrefixes(i) = {i} /\ AfterOpcode(i) = {i} /\ AfterModRM(i) = {i}
        /\ AfterSib(i) = {i} /\ AfterDisplacement(i) = {i} /\ AfterImmediate(i) = {i}
    BY <2>1, Found, Zenon
  <2>3. AfterLength(i) = {s7}
    <3>1. CASE i = s6
      <4>1. i.length = 0
        BY <1>2, <3>1, GotFlags, Zenon
      <4> QED
        BY <1>1, <2>2, <3>1, <4>1, DecodesLength, Zenon
    <3>2. CASE i = s7
      BY <1>2, <3>2, Found, Zenon
    <3> QED
      BY <1>10, <3>1, <3>2
  <2> QED
    BY <1>3, <1>10, <2>2, <2>3 DEF s7
<1> QED
  BY <1>3, <1>4, <1>5, <1>6, <1>7, <1>8, <1>9, <1>10

\* The eight depend on the code only, which stays.
LEMMA ReachedStays ==
  ASSUME code' = code, NEW CONSTANT m
  PROVE  Reached(m)' = Reached(m)
<1>1. Different' = Different
  BY Zenon DEF Different, ByteAt
<1>2. PrefixesEnd' = PrefixesEnd
  BY <1>1, Zenon DEF PrefixesEnd, StopsAt, ByteAt
<1>3. S0(m)' = S0(m)
  OBVIOUS
<1>4. S1(m)' = S1(m)
  <2> DEFINE l == LegacyPrefixes(S0(m))
             r == RexPrefix(l)
  <2>1. l' = l
    BY <1>1, <1>2, <1>3, SMT DEF LegacyPrefixes, ByteAt
  <2> HIDE DEF l
  <2>2. r' = r
    BY <2>1, Zenon DEF RexPrefix, ByteAt
  <2> HIDE DEF r
  <2>3. VexPrefix(r)' = VexPrefix(r)
    BY <2>2, Zenon DEF VexPrefix, ByteAt
  <2> QED
    BY <2>3 DEF S1, AfterAllPrefixes, r, l
<1>5. S2(m)' = S2(m)
  <2> DEFINE s == S1(m)
  <2>1. s' = s
    BY <1>4
  <2>2. OpcodeBytes(s)' = OpcodeBytes(s)
    <3> HIDE DEF s
    <3> QED
      BY <2>1, SMTT(30) DEF OpcodeBytes, ByteAt
  <2> QED
    BY <2>2 DEF S2
<1>6. S3(m)' = S3(m)
  BY <1>5, Zenon DEF S3, ModRM, ByteAt
<1>7. S4(m)' = S4(m)
  BY <1>6, Zenon DEF S4, Sib, ByteAt
<1>8. S5(m)' = S5(m)
  BY <1>7, Zenon DEF S5
<1>9. S6(m)' = S6(m)
  BY <1>8, Zenon DEF S6
<1>10. S7(m)' = S7(m)
  BY <1>9, Zenon DEF S7
<1> QED
  BY <1>3, <1>4, <1>5, <1>6, <1>7, <1>8, <1>9, <1>10, Zenon DEF Reached

\* The inductive invariant.
DecodeInv ==
  /\ code \in Seq(Opcode) /\ Len(code) <= 15
  /\ \E m \in BOOLEAN : insn \in Reached(m)

LEMMA InitDecode == Init => DecodeInv
<1> SUFFICES ASSUME Init PROVE DecodeInv
  OBVIOUS
<1>1. code \in Seq(Opcode) /\ Len(code) <= 15
  BY DecodeAssumption DEF Init
<1>2. PICK m \in Modes : insn = insn_init(m)
  BY DEF Init
<1>3. m \in BOOLEAN /\ insn \in Reached(m)
  BY <1>2, DecodeAssumption DEF Reached, S0
<1> QED
  BY <1>1, <1>3 DEF DecodeInv

LEMMA StepDecode == DecodeInv /\ [Next]_vars => DecodeInv'
<1> SUFFICES ASSUME DecodeInv, [Next]_vars PROVE DecodeInv'
  OBVIOUS
<1>1. code' = code
  BY DEF Next, vars, insn_get_prefixes, insn_get_opcode, insn_get_modrm, insn_get_sib,
         insn_get_displacement, insn_get_immediate, insn_get_length
<1>2. code \in Seq(Opcode) /\ Len(code) <= 15
  BY DEF DecodeInv
<1>3. PICK m \in BOOLEAN : insn \in Reached(m)
  BY DEF DecodeInv
<1>4. insn' \in Reached(m)
  <2>1. CASE insn_get_prefixes
    BY <1>2, <1>3, <2>1, Accessors, Zenon DEF insn_get_prefixes
  <2>2. CASE insn_get_opcode
    BY <1>2, <1>3, <2>2, Accessors, Zenon DEF insn_get_opcode
  <2>3. CASE insn_get_modrm
    BY <1>2, <1>3, <2>3, Accessors, Zenon DEF insn_get_modrm
  <2>4. CASE insn_get_sib
    BY <1>2, <1>3, <2>4, Accessors, Zenon DEF insn_get_sib
  <2>5. CASE insn_get_displacement
    BY <1>2, <1>3, <2>5, Accessors, Zenon DEF insn_get_displacement
  <2>6. CASE insn_get_immediate
    BY <1>2, <1>3, <2>6, Accessors, Zenon DEF insn_get_immediate
  <2>7. CASE insn_get_length
    <3>1. insn' = S7(m)
      BY <1>2, <1>3, <2>7, Accessors, Zenon DEF insn_get_length
    <3> QED
      BY <3>1, Zenon DEF Reached
  <2>8. CASE UNCHANGED vars
    BY <1>3, <2>8 DEF vars
  <2> QED
    BY <2>1, <2>2, <2>3, <2>4, <2>5, <2>6, <2>7, <2>8 DEF Next
<1>5. Reached(m)' = Reached(m)
  BY <1>1, ReachedStays
<1>6. (code \in Seq(Opcode) /\ Len(code) <= 15)'
  BY <1>1, <1>2
<1>7. (\E mode \in BOOLEAN : insn \in Reached(mode))'
  BY <1>4, <1>5, Zenon
<1> QED
  BY <1>6, <1>7 DEF DecodeInv

\* In every state the struct insn is one of the eight.
THEOREM DecodeOneOfEight == Spec => []DecodeInv
BY InitDecode, StepDecode, PTL DEF Spec

-----------------------------------------------------------------------------
(***************************************************************************)
(* The properties.                                                         *)
(***************************************************************************)
LEMMA Known ==
  ASSUME DecodeInv
  PROVE  /\ \/ Stage0(insn) \/ Stage1(insn) \/ Stage2(insn) \/ Stage3(insn) \/ Stage4(insn)
            \/ Stage5(insn) \/ Stage6(insn) \/ Stage7(insn)
         /\ insn.x86_64 \in BOOLEAN
         /\ insn.length # 0 => insn = S7(insn.x86_64) /\ Stage7(insn)
<1>1. code \in Seq(Opcode) /\ Len(code) <= 15
  BY DEF DecodeInv
<1>2. PICK m \in BOOLEAN : insn \in Reached(m)
  BY DEF DecodeInv
<1>3. /\ Stage0(S0(m)) /\ S0(m).x86_64 = m
      /\ Stage1(S1(m)) /\ S1(m).x86_64 = m
      /\ Stage2(S2(m)) /\ S2(m).x86_64 = m
      /\ Stage3(S3(m)) /\ S3(m).x86_64 = m
      /\ Stage4(S4(m)) /\ S4(m).x86_64 = m
      /\ Stage5(S5(m)) /\ S5(m).x86_64 = m
      /\ Stage6(S6(m)) /\ S6(m).x86_64 = m
      /\ Stage7(S7(m)) /\ S7(m).x86_64 = m
  BY <1>1, Stages, Zenon
<1>4. insn.x86_64 = m
  BY <1>2, <1>3, Zenon DEF Reached
<1>5. (insn = S7(m) /\ Stage7(insn))
      \/ (\/ Stage0(insn) \/ Stage1(insn) \/ Stage2(insn) \/ Stage3(insn) \/ Stage4(insn)
          \/ Stage5(insn) \/ Stage6(insn))
  BY <1>2, <1>3, Zenon DEF Reached
<1>6. (\/ Stage0(insn) \/ Stage1(insn) \/ Stage2(insn) \/ Stage3(insn) \/ Stage4(insn)
       \/ Stage5(insn) \/ Stage6(insn))
      => insn.length = 0
  BY GotFlags
<1>7. insn.length # 0 => insn = S7(m) /\ Stage7(insn)
  BY <1>5, <1>6, Zenon
<1>8. insn.length # 0 => insn = S7(insn.x86_64) /\ Stage7(insn)
  BY <1>4, <1>7
<1>9. insn.x86_64 \in BOOLEAN
  BY <1>2, <1>4
<1> QED
  BY <1>5, <1>8, <1>9, Zenon

LEMMA NoSizes ==
  /\ Empty.nbytes = 0 /\ Absent.nbytes = 0
BY DEF Empty, Absent

LEMMA TileKnown == DecodeInv => FieldsTile
<1> SUFFICES ASSUME DecodeInv PROVE FieldsTile
  OBVIOUS
<1> DEFINE i == insn
<1>1. CASE Stage0(i)
  BY <1>1, NoSizes
     DEF Stage0, NoOpcode, NoModRM, NoSib, NoDisplacement, NoImmediate, NoLength, FieldsTile,
         insn_offset_immediate, insn_offset_displacement, insn_offset_sib, insn_offset_modrm,
         insn_offset_opcode, insn_offset_vex_prefix, insn_offset_rex_prefix
<1>2. CASE Stage1(i)
  <2>1. PrefixFacts(i) /\ NoOpcode(i) /\ i.next_byte = insn_offset_opcode(i)
    BY <1>2 DEF Stage1
  <2>2. insn_offset_opcode(i) \in Nat
    BY <2>1, OffsetOpcodeType
  <2> QED
    BY <2>1, <2>2, NoSizes
       DEF NoOpcode, NoModRM, NoSib, NoDisplacement, NoImmediate, NoLength, FieldsTile,
           insn_offset_immediate, insn_offset_displacement, insn_offset_sib, insn_offset_modrm
<1>3. CASE Stage2(i)
  <2>1. PrefixFacts(i) /\ OpcodeFacts(i) /\ NoModRM(i) /\ i.next_byte = insn_offset_modrm(i)
    BY <1>3 DEF Stage2
  <2>2. insn_offset_modrm(i) \in Nat
    BY <2>1, OffsetModRMType
  <2> QED
    BY <2>1, <2>2, NoSizes
       DEF NoModRM, NoSib, NoDisplacement, NoImmediate, NoLength, FieldsTile,
           insn_offset_immediate, insn_offset_displacement, insn_offset_sib
<1>4. CASE Stage3(i)
  <2>1. PrefixFacts(i) /\ OpcodeFacts(i) /\ ModRMFacts(i) /\ NoSib(i)
        /\ i.next_byte = insn_offset_sib(i)
    BY <1>4 DEF Stage3
  <2>2. insn_offset_sib(i) \in Nat
    BY <2>1, OffsetSibType
  <2> QED
    BY <2>1, <2>2, NoSizes
       DEF NoSib, NoDisplacement, NoImmediate, NoLength, FieldsTile,
           insn_offset_immediate, insn_offset_displacement
<1>5. CASE Stage4(i)
  <2>1. PrefixFacts(i) /\ OpcodeFacts(i) /\ ModRMFacts(i) /\ SibFacts(i) /\ NoDisplacement(i)
        /\ i.next_byte = insn_offset_displacement(i)
    BY <1>5 DEF Stage4
  <2>2. insn_offset_displacement(i) \in Nat
    BY <2>1, OffsetDisplacementType
  <2> QED
    BY <2>1, <2>2, NoSizes
       DEF NoDisplacement, NoImmediate, NoLength, FieldsTile, insn_offset_immediate
<1>6. CASE Stage5(i)
  <2>1. PrefixFacts(i) /\ OpcodeFacts(i) /\ ModRMFacts(i) /\ SibFacts(i) /\ DisplacementFacts(i)
        /\ NoImmediate(i) /\ i.next_byte = insn_offset_immediate(i)
    BY <1>6 DEF Stage5
  <2>2. insn_offset_immediate(i) \in Nat
    BY <2>1, OffsetImmediateType
  <2> QED
    BY <2>1, <2>2, NoSizes DEF DisplacementFacts, NoImmediate, NoLength, FieldsTile
<1>7. CASE Complete(i) /\ (i.length = 0 \/ i.length = i.next_byte)
  <2>1. DisplacementFacts(i) /\ ImmediateFacts(i)
        /\ i.next_byte = insn_offset_immediate(i) + i.immediate1.nbytes + i.immediate2.nbytes
    BY <1>7 DEF Complete
  <2> QED
    BY <1>7, <2>1, Zenon DEF DisplacementFacts, ImmediateFacts, FieldsTile
<1>8. Stage6(i) \/ Stage7(i) => Complete(i) /\ (i.length = 0 \/ i.length = i.next_byte)
  BY Zenon DEF Stage6, Stage7, NoLength
<1> QED
  BY <1>1, <1>2, <1>3, <1>4, <1>5, <1>6, <1>7, <1>8, Known, Zenon

\* Whatever is asked for and in which order, the offsets computed from the
\* sizes of the fields are where displacement and immediate were read.
THEOREM FieldsAlwaysTile == Spec => []FieldsTile
BY DecodeOneOfEight, TileKnown, PTL

\* Whatever was asked for before, insn_get_length leaves the same struct.
THEOREM CallsAlwaysCommute == Spec => []CallsCommute
<1>1. DecodeInv => CallsCommute
  <2> SUFFICES ASSUME DecodeInv, insn.length # 0
               PROVE  AfterLength(insn_init(insn.x86_64)) = {insn}
    BY DEF CallsCommute
  <2> DEFINE m == insn.x86_64
  <2>1. m \in BOOLEAN /\ insn = S7(m)
    BY Known
  <2>2. code \in Seq(Opcode) /\ Len(code) <= 15
    BY DEF DecodeInv
  <2>3. insn_init(m) \in Reached(m)
    BY Zenon DEF Reached, S0
  <2>4. AfterLength(insn_init(m)) = {S7(m)}
    BY <2>1, <2>2, <2>3, Accessors, Zenon
  <2> QED
    BY <2>1, <2>4, Zenon
<1> QED
  BY <1>1, DecodeOneOfEight, PTL

LEMMA OpcodeSize == DecodeInv => OpcodeFits
<1> SUFFICES ASSUME DecodeInv PROVE insn.opcode.nbytes <= 3
  BY DEF OpcodeFits
<1>1. CASE OpcodeFacts(insn)
  BY <1>1 DEF OpcodeFacts
<1>2. CASE NoOpcode(insn)
  BY <1>2 DEF NoOpcode
<1> QED
  BY <1>1, <1>2, Known, Zenon
     DEF Stage0, Stage1, Stage2, Stage3, Stage4, Stage5, Stage6, Stage7, Complete

\* No chain of escapes makes an opcode of more than three bytes.
THEOREM OpcodeAlwaysFits == Spec => []OpcodeFits
BY DecodeOneOfEight, OpcodeSize, PTL

LEMMA PrefixesKnown == DecodeInv => PrefixesKept
<1> SUFFICES ASSUME DecodeInv, insn.prefixes.got PROVE KeepsPrefixes(insn)
  BY DEF PrefixesKept, KeepsPrefixes, insn_last_prefix
<1>1. ~Stage0(insn)
  BY GotFlags
<1>2. PrefixFacts(insn)
  BY <1>1, Known, Zenon DEF Stage1, Stage2, Stage3, Stage4, Stage5, Stage6, Stage7, Complete
<1> QED
  BY <1>2, Zenon DEF PrefixFacts

\* All the different prefixes are kept, and the last one where the lookups
\* expect it, whatever their number and their repetitions.
THEOREM PrefixesAlwaysKept == Spec => []PrefixesKept
BY DecodeOneOfEight, PrefixesKnown, PTL

-----------------------------------------------------------------------------
(***************************************************************************)
(* The sizes of displacement and immediates, when all of it is decoded.    *)
(***************************************************************************)
LEMMA DoneFacts ==
  ASSUME DecodeInv, insn.length # 0
  PROVE  /\ PrefixFacts(insn) /\ OpcodeFacts(insn) /\ ModRMFacts(insn) /\ SibFacts(insn)
         /\ DisplacementFacts(insn) /\ ImmediateFacts(insn)
         /\ insn.length = insn_offset_immediate(insn) + insn.immediate1.nbytes
                            + insn.immediate2.nbytes
BY Known, Zenon DEF Stage7, Complete

LEMMA SizeTypes ==
  ASSUME NEW i
  PROVE  /\ Address(i) \in {2, 4, 8} /\ Operand(i) \in {2, 4, 8}
         /\ i.x86_64 \in BOOLEAN /\ i.x86_64 => Address(i) \in {4, 8}
<1>1. Address(i) \in {2, 4, 8}
  BY DEF Address
<1>2. Operand(i) \in {2, 4, 8}
  BY DEF Operand
<1>3. i.x86_64 \in BOOLEAN /\ i.x86_64 => Address(i) \in {4, 8}
  BY DEF Address
<1> QED
  BY <1>1, <1>2, <1>3

\* The bytes of the immediates, from the sizes of addresses and operands.
ImmediateSum(i) ==
  IF "MOFFSET" \in i.attr.flags THEN Address(i)
  ELSE CASE i.attr.imm = "VWORD" -> Operand(i)
         [] i.attr.imm = "VWORD32" -> IF Operand(i) = 2 THEN 2 ELSE 4
         [] i.attr.imm = "PTR" -> IF Operand(i) = 8 THEN 0 ELSE Operand(i) + 2
         [] i.attr.imm = "WORD" -> IF "SCNDIMM" \in i.attr.flags THEN 3 ELSE 2
         [] i.attr.imm = "BYTE" -> 1
         [] OTHER -> 0

LEMMA ImmediatesAdd ==
  ASSUME NEW i, Decodable(i.attr), i.addr_bytes = Address(i), i.opnd_bytes = Operand(i)
  PROVE  ImmediateSizes(i)[1] + ImmediateSizes(i)[2] = ImmediateSum(i)
<1> DEFINE a == Address(i)
           o == Operand(i)
<1>1. a \in {2, 4, 8} /\ o \in {2, 4, 8}
  BY SizeTypes
<1>2. i.addr_bytes = a /\ i.opnd_bytes = o
  OBVIOUS
<1>3. /\ i.attr.imm \in {"none", "BYTE", "WORD", "PTR", "VWORD32", "VWORD"}
      /\ "SCNDIMM" \in i.attr.flags => i.attr.imm = "WORD" /\ "MOFFSET" \notin i.attr.flags
  BY DEF Decodable
<1> HIDE DEF a, o
<1>4. CASE "MOFFSET" \in i.attr.flags
  <2>1. "SCNDIMM" \notin i.attr.flags
    BY <1>3, <1>4
  <2>2. ImmediateBytes(i) = moffset_bytes(a)
    BY <1>2, <1>4 DEF ImmediateBytes
  <2>3. moffset_bytes(a)[1] + moffset_bytes(a)[2] = a
    BY <1>1 DEF moffset_bytes
  <2>4. ImmediateSizes(i)[1] + ImmediateSizes(i)[2] = a
    BY <2>1, <2>2, <2>3 DEF ImmediateSizes
  <2> QED
    BY <1>4, <2>4 DEF ImmediateSum, a
<1>5. CASE "MOFFSET" \notin i.attr.flags
  <2>1. CASE i.attr.imm = "none"
    BY <1>3, <1>5, <2>1 DEF ImmediateSum, ImmediateSizes, ImmediateBytes
  <2>2. CASE i.attr.imm = "BYTE"
    BY <1>3, <1>5, <2>2 DEF ImmediateSum, ImmediateSizes, ImmediateBytes
  <2>3. CASE i.attr.imm = "WORD"
    BY <1>3, <1>5, <2>3 DEF ImmediateSum, ImmediateSizes, ImmediateBytes
  <2>4. CASE i.attr.imm = "PTR"
    BY <1>1, <1>2, <1>3, <1>5, <2>4
       DEF ImmediateSum, ImmediateSizes, ImmediateBytes, immptr_bytes, o
  <2>5. CASE i.attr.imm = "VWORD32"
    BY <1>1, <1>2, <1>3, <1>5, <2>5
       DEF ImmediateSum, ImmediateSizes, ImmediateBytes, immv32_bytes, o
  <2>6. CASE i.attr.imm = "VWORD"
    BY <1>1, <1>2, <1>3, <1>5, <2>6
       DEF ImmediateSum, ImmediateSizes, ImmediateBytes, immv_bytes, o
  <2> QED
    BY <1>3, <2>1, <2>2, <2>3, <2>4, <2>5, <2>6
<1> QED
  BY <1>4, <1>5

\* The bytes of the displacement, from the addressing form.
DisplacementForm(i) ==
  LET address == Address(i)
      mod  == X86_MODRM_MOD(i.modrm.value)
      rm   == X86_MODRM_RM(i.modrm.value)
      base == IF rm = 4 /\ address # 2 THEN X86_SIB_BASE(i.sib.value) ELSE rm
      bare == IF address = 2 THEN 6 ELSE 5
      full == IF address = 2 THEN 2 ELSE 4
  IN  IF "MODRM" \notin i.attr.flags \/ mod = 3 THEN 0
      ELSE IF mod = 1 THEN 1
      ELSE IF mod = 2 \/ base = bare THEN full ELSE 0

LEMMA DisplacementAsForm ==
  ASSUME NEW i, i.addr_bytes = Address(i), ModRMFacts(i), SibFacts(i)
  PROVE  DisplacementBytes(i) = DisplacementForm(i)
<1> DEFINE a == Address(i)
           mod == X86_MODRM_MOD(i.modrm.value)
           rm == X86_MODRM_RM(i.modrm.value)
           sb == X86_SIB_BASE(i.sib.value)
<1>1. a \in {2, 4, 8} /\ i.addr_bytes = a
  BY SizeTypes
<1>2. i.modrm.value \in 0 .. 255 /\ i.sib.value \in 0 .. 255
  BY DEF ModRMFacts, SibFacts, Opcode
<1>3. mod \in 0 .. 3 /\ rm \in 0 .. 7
  BY <1>2 DEF X86_MODRM_MOD, X86_MODRM_RM
<1>4. i.modrm.nbytes = 0 <=> "MODRM" \notin i.attr.flags
  BY DEF ModRMFacts
<1>5. (i.modrm.nbytes # 0 /\ a # 2 /\ mod # 3 /\ rm = 4) \/ sb = 0
  <2>1. ~HasSib(i) => sb = 0
    BY DEF SibFacts, X86_SIB_BASE
  <2> QED
    BY <1>1, <2>1 DEF HasSib
<1> HIDE DEF a, mod, rm, sb
<1>6. DisplacementBytes(i) =
        IF i.modrm.nbytes = 0 \/ mod = 3 THEN 0
        ELSE IF mod = 1 THEN 1
        ELSE IF a = 2
        THEN IF (mod = 0 /\ rm = 6) \/ mod = 2 THEN 2 ELSE 0
        ELSE IF (mod = 0 /\ rm = 5) \/ mod = 2 \/ (mod = 0 /\ sb = 5) THEN 4 ELSE 0
  BY <1>1, Zenon DEF DisplacementBytes, mod, rm, sb
<1>7. DisplacementForm(i) =
        IF "MODRM" \notin i.attr.flags \/ mod = 3 THEN 0
        ELSE IF mod = 1 THEN 1
        ELSE IF mod = 2 \/ (IF rm = 4 /\ a # 2 THEN sb ELSE rm) = (IF a = 2 THEN 6 ELSE 5)
        THEN IF a = 2 THEN 2 ELSE 4 ELSE 0
  BY Zenon DEF DisplacementForm, a, mod, rm, sb
<1> QED
  BY <1>1, <1>3, <1>4, <1>5, <1>6, <1>7

\* Displacement and immediate have the sizes that the attribute the tables gave
\* to the opcode asks for, with the addressing form and the prefixes.
SizesAsAttributes ==
  insn.length # 0 =>
    LET pfx     == {ByteAt(k) : k \in 0 .. insn.prefixes.nbytes - 1}
        flags   == insn.attr.flags
        wide    == /\ insn.x86_64
                   /\ \/ X86_REX_W(insn.rex_prefix.value)
                      \/ X86_VEX_W(insn.vex_prefix.bytes[3])
                      \/ "FORCE64" \in flags
        operand == IF wide THEN 8 ELSE IF \h66 \in pfx THEN 2 ELSE 4
        address == CASE insn.x86_64 /\ \h67 \notin pfx -> 8
                     [] ~insn.x86_64 /\ \h67 \in pfx -> 2
                     [] OTHER -> 4
        mod     == X86_MODRM_MOD(insn.modrm.value)
        rm      == X86_MODRM_RM(insn.modrm.value)
        \* the register that, with mod = 0, stands for a bare displacement
        base    == IF rm = 4 /\ address # 2 THEN X86_SIB_BASE(insn.sib.value) ELSE rm
        bare    == IF address = 2 THEN 6 ELSE 5
        full    == IF address = 2 THEN 2 ELSE 4
        imm     == IF "MOFFSET" \in flags THEN address
                   ELSE CASE insn.attr.imm = "VWORD" -> operand
                          [] insn.attr.imm = "VWORD32" -> IF operand = 2 THEN 2 ELSE 4
                          [] insn.attr.imm = "PTR" -> IF operand = 8 THEN 0 ELSE operand + 2
                          [] insn.attr.imm = "WORD" -> IF "SCNDIMM" \in flags THEN 3 ELSE 2
                          [] insn.attr.imm = "BYTE" -> 1
                          [] OTHER -> 0
    IN  /\ insn.immediate1.nbytes + insn.immediate2.nbytes = imm
        /\ insn.displacement.nbytes =
              IF "MODRM" \notin flags \/ mod = 3 THEN 0
              ELSE IF mod = 1 THEN 1
              ELSE IF mod = 2 \/ base = bare THEN full ELSE 0

LEMMA SizesKnown == DecodeInv => SizesAsAttributes
<1> SUFFICES ASSUME DecodeInv, insn.length # 0
             PROVE  /\ insn.immediate1.nbytes + insn.immediate2.nbytes = ImmediateSum(insn)
                    /\ insn.displacement.nbytes = DisplacementForm(insn)
  BY ZenonT(60) DEF SizesAsAttributes, ImmediateSum, DisplacementForm, Address, Operand, PrefixSet
<1>1. /\ insn.addr_bytes = Address(insn) /\ insn.opnd_bytes = Operand(insn)
      /\ Decodable(insn.attr)
  BY DoneFacts, Zenon DEF PrefixFacts, ModRMFacts, OpcodeFacts
<1>2. insn.immediate1.nbytes + insn.immediate2.nbytes = ImmediateSum(insn)
  BY <1>1, DoneFacts, ImmediatesAdd, Zenon DEF ImmediateFacts
<1>3. insn.displacement.nbytes = DisplacementForm(insn)
  BY <1>1, DoneFacts, DisplacementAsForm, Zenon DEF DisplacementFacts
<1> QED
  BY <1>2, <1>3

\* Displacement and immediates have the sizes of the opcode's attribute, whatever
\* the bytes: with the operand and address size of all the prefixes, decoded in
\* other calls.  Whether the attribute is the architecture's is not the matter.
THEOREM SizesAlwaysAsAttributes == Spec => []SizesAsAttributes
BY DecodeOneOfEight, SizesKnown, PTL

LEMMA FixupKnown == DecodeInv => FixupInside
<1> SUFFICES ASSUME DecodeInv, insn.length # 0, insn.x86_64, ~insn_is_avx(insn)
             PROVE  /\ insn.opcode.bytes[1] \in {\he8, \he9} =>
                         /\ insn.immediate1.nbytes = 4 /\ insn.immediate2.nbytes = 0
                         /\ insn_offset_immediate(insn) + 4 = insn.length
                    /\ insn_rip_relative(insn) =>
                         /\ insn.displacement.nbytes = 4
                         /\ insn_offset_displacement(insn) + 4 <= insn.length
  BY DEF FixupInside
<1>1. /\ insn.addr_bytes = Address(insn) /\ insn.opnd_bytes = Operand(insn)
      /\ Decodable(insn.attr)
  BY DoneFacts, Zenon DEF PrefixFacts, ModRMFacts, OpcodeFacts
<1>2. insn_offset_immediate(insn) \in Nat /\ insn_offset_displacement(insn) \in Nat
  BY DoneFacts, OffsetImmediateType, OffsetDisplacementType
<1>3. ASSUME insn.opcode.bytes[1] \in {\he8, \he9}
      PROVE  /\ insn.immediate1.nbytes = 4 /\ insn.immediate2.nbytes = 0
             /\ insn_offset_immediate(insn) + 4 = insn.length
  <2>1. /\ insn.attr.imm = "VWORD32" /\ "FORCE64" \in insn.attr.flags
        /\ {"MODRM", "MOFFSET", "SCNDIMM"} \cap insn.attr.flags = {}
    BY <1>3, DoneFacts, Zenon DEF OpcodeFacts
  <2>2. "MOFFSET" \notin insn.attr.flags /\ "SCNDIMM" \notin insn.attr.flags
    BY <2>1
  <2>3. insn.opnd_bytes = 8
    BY <1>1, <2>1 DEF Operand
  <2>4. ImmediateSizes(insn) = <<4, 0>>
    BY <2>1, <2>2, <2>3 DEF ImmediateSizes, ImmediateBytes, immv32_bytes
  <2>5. insn.immediate1.nbytes = 4 /\ insn.immediate2.nbytes = 0
    BY <2>4, DoneFacts DEF ImmediateFacts
  <2> QED
    BY <1>2, <2>5, DoneFacts
<1>4. ASSUME insn_rip_relative(insn)
      PROVE  /\ insn.displacement.nbytes = 4
             /\ insn_offset_displacement(insn) + 4 <= insn.length
  <2>1. /\ insn.modrm.nbytes # 0 /\ X86_MODRM_MOD(insn.modrm.value) = 0
        /\ X86_MODRM_RM(insn.modrm.value) = 5
    BY <1>4 DEF insn_rip_relative
  <2>2. insn.addr_bytes # 2
    <3>1. insn.x86_64 \in BOOLEAN
      BY DoneFacts DEF PrefixFacts
    <3>2. Address(insn) \in {4, 8}
      BY <3>1, SizeTypes, Zenon
    <3> QED
      BY <1>1, <3>2
  <2>3. DisplacementBytes(insn) = 4
    BY <2>1, <2>2 DEF DisplacementBytes
  <2>4. insn.displacement.nbytes = 4
    BY <2>3, DoneFacts DEF DisplacementFacts
  <2>5. insn.immediate1.nbytes \in {0, 1, 2, 4} /\ insn.immediate2.nbytes \in {0, 1, 2, 4}
    BY DoneFacts DEF ImmediateFacts
  <2>6. insn_offset_immediate(insn) = insn_offset_displacement(insn) + 4
    BY <2>4 DEF insn_offset_immediate
  <2> QED
    BY <1>2, <2>4, <2>5, <2>6, DoneFacts
<1> QED
  BY <1>3, <1>4

\* What copy_and_fixup_insn adjusts is there, in four bytes, and inside the copy.
THEOREM FixupAlwaysInside == Spec => []FixupInside
BY DecodeOneOfEight, FixupKnown, PTL

=============================================================================
