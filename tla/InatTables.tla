----------------------------- MODULE InatTables -----------------------------
(***************************************************************************)
(* The opcode attributes of the instruction decoder: what inat-tables.h    *)
(* says of each opcode byte in each opcode map, as the sets of opcodes     *)
(* that have a prefix, an escape, a group, an immediate or a flag.         *)
(* A table the source leaves NULL has the attribute 0 everywhere, which is *)
(* what the lookups return for it.                                         *)
(***************************************************************************)
EXTENDS Integers, Sequences

Opcode == 0 .. 255
Reg    == 0 .. 7

\* The entry of a mapping from names or numbers to sets that op is in.
Entry(sets, op, none) ==
  IF \E k \in DOMAIN sets : op \in sets[k]
  THEN CHOOSE k \in DOMAIN sets : op \in sets[k] ELSE none

Attribute(pfx, esc, grp, imm, flags, op) ==
  [pfx   |-> Entry(pfx, op, "none"),
   esc   |-> Entry(esc, op, 0),
   grp   |-> Entry(grp, op, 0),
   imm   |-> Entry(imm, op, "none"),
   flags |-> {f \in DOMAIN flags : op \in flags[f]}]

NoPrefix == [OPNDSZ |-> {}]
NoImm    == [BYTE |-> {}]

\* The attribute 0.
NoAttribute == Attribute(NoPrefix, <<>>, <<>>, NoImm, [MODRM |-> {}], 0)

\* The prefixes, immediates and flags of the one-byte opcodes.
PrimaryPrefixes ==
  [OPNDSZ |-> {\h66}, REPE |-> {\hf3}, REPNE |-> {\hf2}, LOCK |-> {\hf0},
   CS |-> {\h2e}, DS |-> {\h3e}, ES |-> {\h26}, FS |-> {\h64}, GS |-> {\h65}, SS |-> {\h36},
   ADDRSZ |-> {\h67}, REX |-> \h40 .. \h4f, VEX2 |-> {\hc5}, VEX3 |-> {\hc4}]

PrimaryImms ==
  [BYTE    |-> {\h04, \h0c, \h14, \h1c, \h24, \h2c, \h34, \h3c, \h6a, \h6b, \h82, \h83, \ha8,
                \hc0, \hc1, \hc6, \hcd, \hd4, \hd5, \heb}
               \cup \h70 .. \h80 \cup \hb0 .. \hb7 \cup \he0 .. \he7,
   WORD    |-> {\hc2, \hc8, \hca},
   PTR     |-> {\h9a, \hea},
   VWORD32 |-> {\h05, \h0d, \h15, \h1d, \h25, \h2d, \h35, \h3d, \h68, \h69, \h81, \ha9, \hc7,
                \he8, \he9},
   VWORD   |-> \hb8 .. \hbf]

PrimaryFlags ==
  [MODRM   |-> \h00 .. \h03 \cup \h08 .. \h0b \cup \h10 .. \h13 \cup \h18 .. \h1b
               \cup \h20 .. \h23 \cup \h28 .. \h2b \cup \h30 .. \h33 \cup \h38 .. \h3b
               \cup {\h62, \h63, \h69, \h6b} \cup \h80 .. \h8f \cup {\hc0, \hc1}
               \cup \hc4 .. \hc7 \cup \hd0 .. \hd3 \cup \hd8 .. \hdf
               \cup {\hf6, \hf7, \hfe, \hff},
   FORCE64 |-> \h50 .. \h5f \cup {\h68, \h6a, \h8f, \h9c, \h9d, \hc2, \hc9} \cup \he0 .. \he3
               \cup {\he8, \he9, \heb},
   MOFFSET |-> \ha0 .. \ha3,
   SCNDIMM |-> {\hc8}]

inat_primary_table == [op \in Opcode |-> Attribute(
  PrimaryPrefixes,
  <<{\h0f}>>,
  <<\h80 .. \h83, {\h8f}, \hc0 .. \hc1 \cup \hd0 .. \hd3, \hc6 .. \hc7,
    {\hf6}, {\hf7}, {\hfe}, {\hff}>>,
  PrimaryImms, PrimaryFlags, op)]

inat_escape_table_1 == [op \in Opcode |-> Attribute(
  NoPrefix,
  <<{}, {\h38}, {\h3a}>>,
  <<{}, {}, {}, {}, {}, {}, {}, {}, {\h00}, {\h01}, {\h0d}, {\h18}, {\h71}, {\h72}, {\h73},
    {\ha6}, {\ha7}, {\hae}, {\hb9}, {\hba}, {\hc7}>>,
  [BYTE    |-> {\h0f, \h70, \ha4, \hac, \hba, \hc2} \cup \hc4 .. \hc6,
   VWORD32 |-> \h80 .. \h8f],
  [MODRM   |-> \h00 .. \h03 \cup {\h0d} \cup \h0f .. \h18 \cup \h1f .. \h23 \cup \h28 .. \h2f
               \cup \h40 .. \h6b \cup \h6e .. \h76 \cup {\h78, \h79, \h7e, \h7f}
               \cup \h90 .. \h9f \cup \ha3 .. \ha7 \cup \hab .. \hb7 \cup \hb9 .. \hc7
               \cup \hd1 .. \hd5 \cup \hd7 .. \he5 \cup \he7 .. \hef \cup \hf1 .. \hfe,
   FORCE64 |-> \h80 .. \h8f \cup {\ha0, \ha1, \ha8, \ha9},
   VARIANT |-> \h10 .. \h17 \cup \h28 .. \h2f \cup \h50 .. \h70 \cup \h74 .. \h76
               \cup \h7c .. \h7f \cup {\hb8, \hc2} \cup \hc4 .. \hc6 \cup \hd0 .. \hfe,
   VEXOK   |-> \h10 .. \h17 \cup {\h28, \h29, \h2b, \h2e, \h2f} \cup \h50 .. \h5f
               \cup {\h77, \hc2, \hc6}],
  op)]

inat_escape_table_1_1 == [op \in Opcode |-> Attribute(
  NoPrefix, <<>>, <<>>,
  [BYTE  |-> {\h70, \hc2} \cup \hc4 .. \hc6],
  [MODRM |-> \h10 .. \h17 \cup \h28 .. \h2f \cup {\h50, \h51} \cup \h54 .. \h70 \cup \h74 .. \h76
             \cup \h7c .. \h7f \cup {\hc2} \cup \hc4 .. \hc6 \cup \hd0 .. \hef \cup \hf1 .. \hfe,
   VEXOK |-> \h10 .. \h17 \cup {\h28, \h29, \h2b, \h2e, \h2f, \h50, \h51} \cup \h54 .. \h70
             \cup \h74 .. \h76 \cup \h7c .. \h7f \cup {\hc2} \cup \hc4 .. \hc6
             \cup \hd0 .. \hef \cup \hf1 .. \hfe],
  op)]

inat_escape_table_1_2 == [op \in Opcode |-> Attribute(
  NoPrefix, <<>>, <<>>,
  [BYTE  |-> {\h70, \hc2}],
  [MODRM |-> \h10 .. \h12 \cup {\h16, \h2a, \h2c, \h2d} \cup \h51 .. \h53 \cup \h58 .. \h5f
             \cup {\h6f, \h70, \h7e, \h7f, \hb8, \hc2, \hd6, \he6},
   VEXOK |-> \h10 .. \h12 \cup {\h16, \h2a, \h2c, \h2d} \cup \h51 .. \h53 \cup \h58 .. \h5f
             \cup {\h6f, \h70, \h7e, \h7f, \hc2, \he6}],
  op)]

inat_escape_table_1_3 == [op \in Opcode |-> Attribute(
  NoPrefix, <<>>, <<>>,
  [BYTE  |-> {\h70, \hc2}],
  [MODRM |-> \h10 .. \h12 \cup {\h2a, \h2c, \h2d, \h51} \cup \h58 .. \h5a \cup \h5c .. \h5f
             \cup {\h70, \h7c, \h7d, \hc2, \hd0, \hd6, \he6, \hf0},
   VEXOK |-> \h10 .. \h12 \cup {\h2a, \h2c, \h2d, \h51} \cup \h58 .. \h5a \cup \h5c .. \h5f
             \cup {\h70, \h7c, \h7d, \hc2, \hd0, \he6, \hf0}],
  op)]

inat_escape_table_2 == [op \in Opcode |-> Attribute(
  NoPrefix, <<>>, <<>>, NoImm,
  [MODRM   |-> \h00 .. \h0b \cup \h1c .. \h1e \cup {\hf0, \hf1},
   VARIANT |-> \h00 .. \h10 \cup {\h14, \h15} \cup \h17 .. \h1a \cup \h1c .. \h1e
               \cup \h20 .. \h25 \cup \h28 .. \h35 \cup \h37 .. \h41 \cup {\h80, \h81}
               \cup \h96 .. \h9f \cup \ha6 .. \haf \cup \hb6 .. \hbf \cup \hdb .. \hdf
               \cup {\hf0, \hf1}],
  op)]

inat_escape_table_2_1 == [op \in Opcode |-> Attribute(
  NoPrefix, <<>>, <<>>, NoImm,
  [MODRM   |-> \h00 .. \h10 \cup {\h14, \h15} \cup \h17 .. \h1a \cup \h1c .. \h1e
               \cup \h20 .. \h25 \cup \h28 .. \h35 \cup \h37 .. \h41 \cup {\h80, \h81}
               \cup \h96 .. \h9f \cup \ha6 .. \haf \cup \hb6 .. \hbf \cup \hdb .. \hdf,
   VEXOK   |-> \h00 .. \h0f \cup \h17 .. \h1a \cup \h1c .. \h1e \cup \h20 .. \h25
               \cup \h28 .. \h35 \cup \h37 .. \h41 \cup \h96 .. \h9f \cup \ha6 .. \haf
               \cup \hb6 .. \hbf \cup \hdb .. \hdf,
   VEXONLY |-> \h0c .. \h0f \cup \h18 .. \h1a \cup \h2c .. \h2f],
  op)]

inat_escape_table_2_3 == [op \in Opcode |-> Attribute(
  NoPrefix, <<>>, <<>>, NoImm, [MODRM |-> {\hf0, \hf1}], op)]

\* The opcodes of map 3 that the prefix 66 changes.
Map3With66 ==
  \h04 .. \h06 \cup \h08 .. \h0f \cup \h14 .. \h19 \cup \h20 .. \h22
  \cup \h40 .. \h42 \cup {\h44} \cup \h4a .. \h4c \cup \h60 .. \h63 \cup {\hdf}

inat_escape_table_3 == [op \in Opcode |-> Attribute(
  NoPrefix, <<>>, <<>>,
  [BYTE    |-> {\h0f}],
  [MODRM   |-> {\h0f},
   VARIANT |-> Map3With66],
  op)]

inat_escape_table_3_1 == [op \in Opcode |-> Attribute(
  NoPrefix, <<>>, <<>>,
  [BYTE    |-> Map3With66],
  [MODRM   |-> Map3With66,
   VEXOK   |-> Map3With66,
   VEXONLY |-> \h04 .. \h06 \cup {\h18, \h19} \cup \h4a .. \h4c],
  op)]

NoTable == [op \in Opcode |-> NoAttribute]

\* [n][m + 1]: the map of escape n for the last prefix m; [1..3] is also the
\* map that the m bits of a VEX prefix name, for its p bits.
inat_escape_tables ==
  << <<inat_escape_table_1, inat_escape_table_1_1, inat_escape_table_1_2, inat_escape_table_1_3>>,
     <<inat_escape_table_2, inat_escape_table_2_1, NoTable, inat_escape_table_2_3>>,
     <<inat_escape_table_3, inat_escape_table_3_1, NoTable, NoTable>> >>

inat_avx_tables == inat_escape_tables

-----------------------------------------------------------------------------
(***************************************************************************)
(* The opcode groups: what the reg field of the ModRM byte adds to the     *)
(* attribute of the opcode, [n][m + 1] as above.                           *)
(***************************************************************************)
ByReg(imm, flags) == [reg \in Reg |-> Attribute(NoPrefix, <<>>, <<>>, imm, flags, reg)]

NoGroup == [reg \in Reg |-> NoAttribute]

Group(plain) == <<plain, NoGroup, NoGroup, NoGroup>>

\* Groups 12 and 13, and group 14, with and without the prefix 66.
ShiftGroup    == ByReg([BYTE |-> {2, 4, 6}], [MODRM |-> {2, 4, 6}, VARIANT |-> {2, 4, 6}])
ShiftGroup_66 == ByReg([BYTE |-> {2, 4, 6}], [MODRM |-> {2, 4, 6}, VEXOK |-> {2, 4, 6}])
ByteGroup     == ByReg([BYTE |-> {2, 6}], [MODRM |-> {2, 6}, VARIANT |-> {2, 3, 6, 7}])
ByteGroup_66  == ByReg([BYTE |-> {2, 3, 6, 7}],
                       [MODRM |-> {2, 3, 6, 7}, VEXOK |-> {2, 3, 6, 7}])

inat_group_tables ==
  [n \in 1 .. 21 |->
     CASE n = 5  -> Group(ByReg([BYTE |-> {0}],    [MODRM |-> Reg \ {1}]))
       [] n = 6  -> Group(ByReg([VWORD32 |-> {0}], [MODRM |-> Reg \ {1}]))
       [] n = 7  -> Group(ByReg(NoImm, [MODRM |-> 0 .. 1]))
       [] n = 8  -> Group(ByReg(NoImm, [MODRM |-> 0 .. 6, FORCE64 |-> {2, 4, 6}]))
       [] n = 9  -> Group(ByReg(NoImm, [MODRM |-> 0 .. 5]))
       [] n = 10 -> Group(ByReg(NoImm, [MODRM |-> Reg \ {5}]))
       [] n = 12 -> Group(ByReg(NoImm, [MODRM |-> 0 .. 3]))
       [] n \in {13, 14} -> <<ShiftGroup, ShiftGroup_66, NoGroup, NoGroup>>
       [] n = 15 -> <<ByteGroup, ByteGroup_66, NoGroup, NoGroup>>
       [] n = 18 -> Group(ByReg(NoImm, [VEXOK |-> {2, 3}]))
       [] n = 21 -> <<ByReg(NoImm, [MODRM |-> {1, 6, 7}, VARIANT |-> {6}]),
                      ByReg(NoImm, [MODRM |-> {6}]), ByReg(NoImm, [MODRM |-> {6}]), NoGroup>>
       [] OTHER  -> Group(NoGroup)]

=============================================================================
