---------------------------- MODULE X86Reference ----------------------------
(***************************************************************************)
(* The formats of x86 instructions, stated from the opcode maps of the     *)
(* architecture and not from the decoder's tables: which opcodes are       *)
(* followed by a ModRM byte, by what immediate, and which are instructions *)
(* at all, up to AVX, AES and FMA.  Map 1 is that of the one-byte opcodes, *)
(* 2 that of 0F, 3 of 0F 38 and 4 of 0F 3A; pfx is the prefix that selects *)
(* an instruction of the maps 2 to 4: F2 or F3, else 66, else none, 0.     *)
(***************************************************************************)
EXTENDS Integers

\* In each row of eight of the first 64 opcodes, an operation on four forms of
\* operands with ModRM, then on AL and eAX with an immediate.
Arithmetic(column) == {8 * row + column : row \in 0 .. 7}

-----------------------------------------------------------------------------
(***************************************************************************)
(* One-byte opcodes.                                                       *)
(***************************************************************************)
PrefixBytes == {\h26, \h2e, \h36, \h3e} \cup \h64 .. \h67 \cup {\hf0, \hf2, \hf3}

\* Not instructions in 64 bits: among them the far CALL and JMP, and what
\* became REX and VEX.
Invalid64 ==
  {\h06, \h07, \h0e, \h16, \h17, \h1e, \h1f, \h27, \h2f, \h37, \h3f} \cup \h40 .. \h4f
  \cup {\h60, \h61, \h62, \h82, \h9a, \hc4, \hc5, \hce, \hd4, \hd5, \hea}

Defined1(op, reg, x86_64) ==
  /\ op \notin PrefixBytes \cup {\h0f, \hd6}
  /\ x86_64 => op \notin Invalid64
  /\ op \in {\hf6, \hf7} => reg # 1

ModRM1 ==
  UNION {Arithmetic(column) : column \in 0 .. 3}
  \cup {\h62, \h63, \h69, \h6b} \cup \h80 .. \h8f \cup \hc0 .. \hc1 \cup \hc4 .. \hc7
  \cup \hd0 .. \hd3 \cup \hd8 .. \hdf \cup {\hf6, \hf7, \hfe, \hff}

\* Iz is 16 or 32 bits wide, Iv up to 64; Iwb is that of ENTER, Ap a far pointer
\* and O an address.
Imm1(op, reg) ==
  CASE op \in Arithmetic(4) \cup {\h6a, \h6b, \h80, \h82, \h83, \ha8, \hc0, \hc1, \hc6, \hcd,
                                  \hd4, \hd5, \heb}
              \cup \h70 .. \h7f \cup \hb0 .. \hb7 \cup \he0 .. \he7 -> "Ib"
    [] op \in Arithmetic(5) \cup {\h68, \h69, \h81, \ha9, \hc7, \he8, \he9} -> "Iz"
    [] op \in \hb8 .. \hbf   -> "Iv"
    [] op \in {\hc2, \hca}   -> "Iw"
    [] op = \hc8             -> "Iwb"
    [] op \in {\h9a, \hea}   -> "Ap"
    [] op \in \ha0 .. \ha3   -> "O"
    [] op = \hf6 /\ reg = 0  -> "Ib"
    [] op = \hf7 /\ reg = 0  -> "Iz"
    [] OTHER                 -> "none"

\* CALL, JMP and the conditional jumps: 64-bit operands in 64 bits, whatever 66
\* says.
NearBranch(map, op) == (map = 1 /\ op \in {\he8, \he9}) \/ (map = 2 /\ op \in \h80 .. \h8f)

-----------------------------------------------------------------------------
(***************************************************************************)
(* 0F.  Some opcodes are the same with any prefix; those of MMX and SSE    *)
(* are other instructions, or none, with each.                             *)
(***************************************************************************)
NoModRM2 ==
  {\h05, \h06, \h07, \h08, \h09, \h0b, \h0e, \h37, \h77} \cup \h30 .. \h35 \cup \h80 .. \h8f
  \cup \ha0 .. \ha2 \cup \ha8 .. \haa \cup \hc8 .. \hcf

AnyPrefix2 ==
  NoModRM2 \cup \h00 .. \h03 \cup {\h0d, \h0f, \h18, \h1f} \cup \h20 .. \h23 \cup \h40 .. \h4f
  \cup \h90 .. \h9f \cup \ha3 .. \ha5 \cup \hab .. \hb7 \cup \hba .. \hbf \cup {\hc0, \hc1, \hc7}

Sse2(pfx) ==
  CASE pfx = 0    -> \h10 .. \h17 \cup \h28 .. \h2f \cup \h50 .. \h6b \cup \h6e .. \h76
                     \cup {\h78, \h79, \h7e, \h7f, \hc2, \hc3} \cup \hc4 .. \hc6
                     \cup \hd1 .. \hd5 \cup \hd7 .. \he5 \cup \he7 .. \hef \cup \hf1 .. \hfe
    [] pfx = \h66 -> \h10 .. \h17 \cup \h28 .. \h2f \cup {\h50, \h51} \cup \h54 .. \h76
                     \cup \h7c .. \h7f \cup {\hc2} \cup \hc4 .. \hc6 \cup \hd0 .. \hef
                     \cup \hf1 .. \hfe
    [] pfx = \hf3 -> \h10 .. \h12 \cup {\h16, \h2a, \h2c, \h2d} \cup \h51 .. \h53 \cup \h58 .. \h5f
                     \cup {\h6f, \h70, \h7e, \h7f, \hb8, \hc2, \hd6, \he6}
    [] pfx = \hf2 -> \h10 .. \h12 \cup {\h2a, \h2c, \h2d, \h51} \cup \h58 .. \h5a \cup \h5c .. \h5f
                     \cup {\h70, \h7c, \h7d, \hc2, \hd0, \hd6, \he6, \hf0}

\* The shifts by an immediate, with the reg fields that there are.
Shift2(op, reg, pfx) ==
  IF op = \h73 THEN reg \in {2, 6} \/ (pfx = \h66 /\ reg \in {3, 7}) ELSE reg \in {2, 4, 6}

Defined2(op, reg, pfx) ==
  /\ op \in AnyPrefix2 \cup Sse2(pfx)
  /\ op \in \h71 .. \h73 => Shift2(op, reg, pfx)

\* 0F 0F is 3DNow!, whose operation follows like an immediate.
Imm2(op) ==
  CASE op \in {\h0f, \ha4, \hac, \hba, \hc2} \cup \h70 .. \h73 \cup \hc4 .. \hc6 -> "Ib"
    [] op \in \h80 .. \h8f -> "Iz"
    [] OTHER -> "none"

-----------------------------------------------------------------------------
(***************************************************************************)
(* 0F 38 and 0F 3A, and VEX.                                               *)
(***************************************************************************)
Defined3(op, pfx) ==
  op \in CASE pfx = 0    -> \h00 .. \h0b \cup \h1c .. \h1e \cup {\hf0, \hf1}
           [] pfx = \h66 -> \h00 .. \h0b \cup {\h10, \h14, \h15, \h17} \cup \h1c .. \h1e
                            \cup \h20 .. \h25 \cup \h28 .. \h2b \cup \h30 .. \h35
                            \cup \h37 .. \h41 \cup {\h80, \h81} \cup \hdb .. \hdf
                            \cup {\hf0, \hf1}
           [] pfx = \hf3 -> {}
           [] pfx = \hf2 -> {\hf0, \hf1}

Defined4(op, pfx) ==
  op \in CASE pfx = 0    -> {\h0f}
           [] pfx = \h66 -> \h08 .. \h0f \cup \h14 .. \h17 \cup \h20 .. \h22 \cup \h40 .. \h42
                            \cup {\h44} \cup \h60 .. \h63 \cup {\hdf}
           [] OTHER      -> {}

\* The instructions with a VEX prefix, which contains pfx.
DefinedVex(map, op, reg, pfx) ==
  \/ /\ map = 2
     /\ op \in CASE pfx = 0    -> \h10 .. \h17 \cup {\h28, \h29, \h2b, \h2e, \h2f} \cup \h50 .. \h5f
                                  \cup {\h77, \hae, \hc2, \hc6}
                 [] pfx = \h66 -> Sse2(\h66) \ {\h2a, \h2c, \h2d}
                 [] pfx = \hf3 -> Sse2(\hf3) \ {\hb8, \hd6}
                 [] pfx = \hf2 -> Sse2(\hf2) \ {\hd6}
     /\ op \in \h71 .. \h73 => Shift2(op, reg, pfx)
     /\ op = \hae => reg \in {2, 3}
  \/ /\ map = 3 /\ pfx = \h66
     /\ op \in \h00 .. \h0f \cup \h17 .. \h1a \cup \h1c .. \h1e \cup \h20 .. \h25 \cup \h28 .. \h35
               \cup \h37 .. \h41 \cup \h96 .. \h9f \cup \ha6 .. \haf \cup \hb6 .. \hbf
               \cup \hdb .. \hdf
  \/ /\ map = 4 /\ pfx = \h66
     /\ op \in \h04 .. \h06 \cup \h08 .. \h0f \cup \h14 .. \h19 \cup \h20 .. \h22 \cup \h40 .. \h42
               \cup {\h44} \cup \h4a .. \h4c \cup \h60 .. \h63 \cup {\hdf}

Defined(map, op, reg, pfx, x86_64) ==
  CASE map = 1 -> Defined1(op, reg, x86_64)
    [] map = 2 -> Defined2(op, reg, pfx)
    [] map = 3 -> Defined3(op, pfx)
    [] map = 4 -> Defined4(op, pfx)

HasModRM(map, op) ==
  CASE map = 1 -> op \in ModRM1 [] map = 2 -> op \notin NoModRM2 [] map \in {3, 4} -> TRUE

\* Every opcode of 0F 3A has a byte that follows.
Imm(map, op, reg) ==
  CASE map = 1 -> Imm1(op, reg) [] map = 2 -> Imm2(op)
    [] map = 3 -> "none"        [] map = 4 -> "Ib"

\* The bytes of an immediate, with operands and addresses of that size.
ImmBytes(imm, operand, address) ==
  CASE imm = "none" -> 0 [] imm = "Ib" -> 1 [] imm = "Iw" -> 2 [] imm = "Iwb" -> 3
    [] imm = "Iz" -> IF operand = 2 THEN 2 ELSE 4
    [] imm = "Iv" -> operand
    [] imm = "Ap" -> operand + 2
    [] imm = "O"  -> address

\* MOV of control and debug registers: the mod field is ignored, the operand is a
\* register.
RegisterOnly(map, op) == map = 2 /\ op \in \h20 .. \h23

\* The bytes of the displacement that a ModRM byte and, if there is one, a SIB
\* byte ask for.
DispBytes(modrm, sib, address) ==
  LET mod  == modrm \div 64
      rm   == modrm % 8
      \* the register that, with mod = 0, stands for a bare displacement
      base == IF rm = 4 /\ address # 2 THEN sib % 8 ELSE rm
      bare == IF address = 2 THEN 6 ELSE 5
      full == IF address = 2 THEN 2 ELSE 4
  IN  CASE mod = 0 -> IF base = bare THEN full ELSE 0
        [] mod = 1 -> 1 [] mod = 2 -> full [] mod = 3 -> 0

=============================================================================
