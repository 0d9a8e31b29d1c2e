------------------------------ MODULE AesFacts ------------------------------
(***************************************************************************)
(* The arithmetic of bytes that the proofs about the kernels rest on.  The *)
(* tables are defined bit by bit, which no prover evaluates; each fact is  *)
(* about finitely many bytes, and TLC evaluates it for all of them.        *)
(***************************************************************************)
EXTENDS AesReference

\* Half of a byte: four bits.
Half == 0 .. 15

\* Exclusive or works on the two halves of a byte apart, and on halves it is
\* associative.
ASSUME XorFacts ==
  /\ \A h, l \in Half : XorByte(h, l) \in Half
  /\ \A h, l, k \in Half : XorByte(XorByte(h, l), k) = XorByte(h, XorByte(l, k))
  /\ \A h, l, g, k \in Half :
       XorByte(16 * h + l, 16 * g + k) = 16 * XorByte(h, g) + XorByte(l, k)
  /\ \A a, b \in Byte : XorByte(a, b) = XorByte(b, a)
  /\ \A a \in Byte : XorByte(a, a) = 0 /\ XorByte(a, 0) = a

\* The constants of the two matrices.
Factors == {1, 2, 3, 9, 11, 13, 14}

\* Products are the ones the tables hold, and distribute over sums.
ASSUME ProductFacts ==
  /\ \A m \in Factors : \A a, b \in Byte :
       /\ GfTable[m][a] \in Byte
       /\ GfTable[m][XorByte(a, b)] = XorByte(GfTable[m][a], GfTable[m][b])
  /\ \A a \in Byte :
       /\ GfTable[1][a] = a            /\ GfTable[2][a] = Times2(a)
       /\ GfTable[3][a] = Times3(a)    /\ GfTable[9][a] = Times9(a)
       /\ GfTable[11][a] = Times11(a)  /\ GfTable[13][a] = Times13(a)
       /\ GfTable[14][a] = Times14(a)

\* The matrix of InvMixColumns is the inverse of that of MixColumns: the
\* first row of their product, the others being its rotations.
ASSUME MatrixFacts ==
  LET G(m, k, a) == GfTable[m][GfTable[k][a]]
  IN  \A a \in Byte :
        /\ XorBytes(G(2, 14, a), G(3, 9, a), G(1, 13, a), G(1, 11, a)) = a
        /\ XorBytes(G(2, 11, a), G(3, 14, a), G(1, 9, a), G(1, 13, a)) = 0
        /\ XorBytes(G(2, 13, a), G(3, 11, a), G(1, 14, a), G(1, 9, a)) = 0
        /\ XorBytes(G(2, 9, a), G(3, 13, a), G(1, 11, a), G(1, 14, a)) = 0
        /\ XorBytes(G(14, 2, a), G(11, 1, a), G(13, 1, a), G(9, 3, a)) = a
        /\ XorBytes(G(14, 3, a), G(11, 2, a), G(13, 1, a), G(9, 1, a)) = 0
        /\ XorBytes(G(14, 1, a), G(11, 3, a), G(13, 2, a), G(9, 1, a)) = 0
        /\ XorBytes(G(14, 1, a), G(11, 1, a), G(13, 3, a), G(9, 2, a)) = 0

\* The table of the last round holds the S-box, that of decryption its inverse.
ASSUME SBoxFacts ==
  \A x \in Byte :
    /\ SBox[x] \in Byte /\ S(x) = SBox[x]
    /\ Td4[x] \in Byte /\ SBox[Td4[x]] = x /\ Td4[SBox[x]] = x

=============================================================================
