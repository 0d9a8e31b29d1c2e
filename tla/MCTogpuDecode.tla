--------------------------- MODULE MCTogpuDecode ---------------------------
(***************************************************************************)
(* Instructions for TLC.                                                   *)
(***************************************************************************)
EXTENDS TogpuDecode

Concat(A, B) == {a \o b : a \in A, b \in B}
Bytes(S)     == {<<b>> : b \in S}

\* ModRM bytes of all mods, with the r/m fields that matter, then a SIB byte.
Operands == {<<64 * mod + rm, sib>> : mod \in 0 .. 3, rm \in {0, 4, 5, 6}, sib \in {0, 5}}

\* Every opcode of every map, with each prefix that may select an instruction,
\* and with VEX, with an operand relative to RIP.
EveryOpcode ==
  Concat(Concat({<<>>, <<\h66>>, <<\hf3>>, <<\hf2>>},
                Concat({<<>>, <<\h0f>>, <<\h0f, \h38>>, <<\h0f, \h3a>>}, Bytes(Opcode)))
         \cup Concat({<<\hc5, \hf8 + p>> : p \in 0 .. 3}
                     \cup {<<\hc4, \he0 + m, \h79>> : m \in 1 .. 3}, Bytes(Opcode)),
         {<<\h15>>})

\* Opcodes with each kind of operand and immediate, with prefixes in both
\* orders and REX.W.
EveryOperand ==
  Concat(Concat({<<>>, <<\h66>>, <<\h67>>, <<\h66, \hf3>>, <<\hf3, \h66>>, <<\h48>>,
                 <<\h66, \h48>>, <<\h67, \h4f>>},
                {<<\h8b>>, <<\hc7>>, <<\ha1>>, <<\hb8>>, <<\h9a>>, <<\hc8>>, <<\he8>>,
                 <<\h0f, \hb8>>, <<\h0f, \h3a, \h0f>>}),
         Operands)

\* The members of the groups.
EveryMember ==
  Concat(Concat({<<>>, <<\h66>>, <<\hf3>>},
                Bytes({\h80, \h8f, \hc0, \hc7, \hf6, \hf7, \hfe, \hff})
                \cup Concat({<<\h0f>>}, Bytes({\h00, \h01, \h0d, \h18, \h71, \h72, \h73, \hae,
                                               \hba, \hc7}))),
         {<<5 + 8 * reg>> : reg \in Reg})

\* Five prefixes, some of them the same, and five different ones.
EveryPrefix ==
  {<<\h66>> \o p \o <<\h8b, \h05>> : p \in [1 .. 4 -> {\h66, \h67, \hf2, \hf3, \hf0}]}

\* VEX prefixes, which in 32-bit mode may be LDS or LES.
EveryVex ==
  Concat(Concat(Bytes({\hc5}), Bytes({\h00, \h01, \hc2, \hc3}))
         \cup Concat(Concat({<<>>, <<\h48>>}, Bytes({\hc4})),
                     Concat(Bytes({\h00, \h01, \h02, \he3}), Bytes({\h00, \h81}))),
         Concat(Bytes({\h10, \h71, \h77, \hae, \he8, \h0c, \h4a}), Bytes({\h05, \hc0})))

\* The bytes of the escapes, where they are none.
Escapes == {<<\h0f, \h38, \h38, \h38, \h3a>>, <<\h0f, \h3a, \h38, \h3a, \h0f>>, <<\h0f, \h0f, \h0f>>}

MCCodes == EveryOpcode \cup EveryOperand \cup EveryMember \cup EveryPrefix \cup EveryVex \cup Escapes

=============================================================================
