------------------------- MODULE TogpuCipherProofs -------------------------
(***************************************************************************)
(* The kernels compute AES, each inverse undoes its kernel, and no thread  *)
(* touches a byte outside its block: for every packet and every number of  *)
(* threads; the first two for every expanded key of AES.                   *)
(***************************************************************************)
EXTENDS TogpuCipher, AesProofs

(***************************************************************************)
(* A round of the kernels is a round of the cipher: the tables hold the    *)
(* products of the S-box with the columns of the matrix.                   *)
(***************************************************************************)
LEMMA AfterOne ==
  /\ After(1, 4 + 1 - 1) = 1 /\ After(1, 4 + 1 - 2) = 4 /\ After(1, 4 + 1 - 3) = 3 /\ After(1, 4 + 1 - 4) = 2
  /\ After(1, 4 + 2 - 1) = 2 /\ After(1, 4 + 2 - 2) = 1 /\ After(1, 4 + 2 - 3) = 4 /\ After(1, 4 + 2 - 4) = 3
  /\ After(1, 4 + 3 - 1) = 3 /\ After(1, 4 + 3 - 2) = 2 /\ After(1, 4 + 3 - 3) = 1 /\ After(1, 4 + 3 - 4) = 4
  /\ After(1, 4 + 4 - 1) = 4 /\ After(1, 4 + 4 - 2) = 3 /\ After(1, 4 + 4 - 3) = 2 /\ After(1, 4 + 4 - 4) = 1
BY DEF After

LEMMA Products ==
  ASSUME NEW a \in Byte
  PROVE  /\ G(1, a) = a            /\ G(2, a) = Times2(a)   /\ G(3, a) = Times3(a)
         /\ G(9, a) = Times9(a)    /\ G(11, a) = Times11(a) /\ G(13, a) = Times13(a)
         /\ G(14, a) = Times14(a)
BY ProductFacts DEF G

LEMMA TeColumns ==
  ASSUME NEW x \in Byte, NEW b \in 1 .. 4
  PROVE  /\ Te0[x][b] = G(Mix[After(1, 4 + 1 - b)], SBox[x])
         /\ Te1[x][b] = G(Mix[After(1, 4 + 2 - b)], SBox[x])
         /\ Te2[x][b] = G(Mix[After(1, 4 + 3 - b)], SBox[x])
         /\ Te3[x][b] = G(Mix[After(1, 4 + 4 - b)], SBox[x])
<1> DEFINE y == S(x)
<1>1. y \in Byte /\ y = SBox[x]
  BY SBoxFacts
<1>2. /\ Te0[x] = <<Times2(y), y, y, Times3(y)>> /\ Te1[x] = <<Times3(y), Times2(y), y, y>>
      /\ Te2[x] = <<y, Times3(y), Times2(y), y>> /\ Te3[x] = <<y, y, Times3(y), Times2(y)>>
  BY Zenon DEF Te0, Te1, Te2, Te3
<1> HIDE DEF y
<1>3. G(1, y) = y /\ G(2, y) = Times2(y) /\ G(3, y) = Times3(y)
  BY <1>1, Products
<1>4. b = 1 \/ b = 2 \/ b = 3 \/ b = 4
  OBVIOUS
<1> QED
  BY <1>1, <1>2, <1>3, <1>4, AfterOne, MixFactors

LEMMA TdColumns ==
  ASSUME NEW x \in Byte, NEW b \in 1 .. 4
  PROVE  /\ Td0[x][b] = G(InvMix[After(1, 4 + 1 - b)], Td4[x])
         /\ Td1[x][b] = G(InvMix[After(1, 4 + 2 - b)], Td4[x])
         /\ Td2[x][b] = G(InvMix[After(1, 4 + 3 - b)], Td4[x])
         /\ Td3[x][b] = G(InvMix[After(1, 4 + 4 - b)], Td4[x])
<1> DEFINE y == Td4[x]
<1>1. y \in Byte
  BY SBoxFacts
<1>2. /\ Td0[x] = <<Times14(y), Times9(y), Times13(y), Times11(y)>>
      /\ Td1[x] = <<Times11(y), Times14(y), Times9(y), Times13(y)>>
      /\ Td2[x] = <<Times13(y), Times11(y), Times14(y), Times9(y)>>
      /\ Td3[x] = <<Times9(y), Times13(y), Times11(y), Times14(y)>>
  BY Zenon DEF Td0, Td1, Td2, Td3
<1> HIDE DEF y
<1>3. G(9, y) = Times9(y) /\ G(11, y) = Times11(y) /\ G(13, y) = Times13(y) /\ G(14, y) = Times14(y)
  BY <1>1, Products
<1>4. b = 1 \/ b = 2 \/ b = 3 \/ b = 4
  OBVIOUS
<1>5. /\ Td0[x][b] = G(InvMix[After(1, 4 + 1 - b)], y)
      /\ Td1[x][b] = G(InvMix[After(1, 4 + 2 - b)], y)
      /\ Td2[x][b] = G(InvMix[After(1, 4 + 3 - b)], y)
      /\ Td3[x][b] = G(InvMix[After(1, 4 + 4 - b)], y)
  BY <1>2, <1>3, <1>4, AfterOne, MixFactors
<1> QED
  BY <1>5 DEF y

\* A byte of a mixed block.
LEMMA MixedByte ==
  ASSUME NEW s, NEW i \in 1 .. 4, NEW b \in 1 .. 4
  PROVE  /\ MixColumns(s)[i][b]
              = XorBytes(G(Mix[After(1, 4 + 1 - b)], s[i][1]), G(Mix[After(1, 4 + 2 - b)], s[i][2]),
                         G(Mix[After(1, 4 + 3 - b)], s[i][3]), G(Mix[After(1, 4 + 4 - b)], s[i][4]))
         /\ InvMixColumns(s)[i][b]
              = XorBytes(G(InvMix[After(1, 4 + 1 - b)], s[i][1]), G(InvMix[After(1, 4 + 2 - b)], s[i][2]),
                         G(InvMix[After(1, 4 + 3 - b)], s[i][3]), G(InvMix[After(1, 4 + 4 - b)], s[i][4]))
BY Zenon DEF MixColumns, InvMixColumns, MixWith, Four, G, Mix, InvMix

\* rk as four words from row on.
LEMMA EncRoundIs ==
  ASSUME NEW s \in Block, NEW row \in Nat
  PROVE  EncRound(s, row) = XorBlock(MixColumns(ShiftedBytes(s)), RoundKey(rk, row))
<1> DEFINE u == ShiftedBytes(s)
           m == MixColumns(u)
<1>1. ASSUME NEW i \in 1 .. 4, NEW b \in 1 .. 4
      PROVE  XorBytes(Te0[s[i][1]][b], Te1[s[After(i, 1)][2]][b],
                      Te2[s[After(i, 2)][3]][b], Te3[s[After(i, 3)][4]][b]) = m[i][b]
  <2>1. /\ s[i][1] \in Byte /\ s[After(i, 1)][2] \in Byte
        /\ s[After(i, 2)][3] \in Byte /\ s[After(i, 3)][4] \in Byte
    <3>1. After(i, 1) \in 1 .. 4 /\ After(i, 2) \in 1 .. 4 /\ After(i, 3) \in 1 .. 4
      BY AfterType
    <3> QED
      BY <3>1 DEF Block, Word
  <2>2. /\ u[i][1] = SBox[s[i][1]] /\ u[i][2] = SBox[s[After(i, 1)][2]]
        /\ u[i][3] = SBox[s[After(i, 2)][3]] /\ u[i][4] = SBox[s[After(i, 3)][4]]
    <3>1. After(i, 1 - 1) = i /\ 2 - 1 = 1 /\ 3 - 1 = 2 /\ 4 - 1 = 3
      BY DEF After
    <3>2. \A r \in 1 .. 4 : u[i][r] = SBox[s[After(i, r - 1)][r]]
      BY Zenon DEF ShiftedBytes, Four
    <3> HIDE DEF u
    <3> QED
      BY <3>1, <3>2
  <2> HIDE DEF u
  <2>3. m[i][b]
          = XorBytes(G(Mix[After(1, 4 + 1 - b)], u[i][1]), G(Mix[After(1, 4 + 2 - b)], u[i][2]),
                     G(Mix[After(1, 4 + 3 - b)], u[i][3]), G(Mix[After(1, 4 + 4 - b)], u[i][4]))
    BY MixedByte
  <2>4. /\ Te0[s[i][1]][b] = G(Mix[After(1, 4 + 1 - b)], u[i][1])
        /\ Te1[s[After(i, 1)][2]][b] = G(Mix[After(1, 4 + 2 - b)], u[i][2])
        /\ Te2[s[After(i, 2)][3]][b] = G(Mix[After(1, 4 + 3 - b)], u[i][3])
        /\ Te3[s[After(i, 3)][4]][b] = G(Mix[After(1, 4 + 4 - b)], u[i][4])
    BY <2>1, <2>2, TeColumns
  <2> QED
    BY <2>3, <2>4, Zenon
<1> HIDE DEF m
<1>2. \A i \in 1 .. 4 : RoundKey(rk, row)[i] = rk[4 * row + i]
  BY Zenon DEF RoundKey, Four
<1>3. EncRound(s, row) = XorBlock(m, RoundKey(rk, row))
  BY <1>1, <1>2, Zenon DEF EncRound, XorBlock, Four
<1> QED
  BY <1>3 DEF m

LEMMA DecRoundIs ==
  ASSUME NEW s \in Block, NEW row \in Nat
  PROVE  DecRound(s, row) = XorBlock(InvMixColumns(InvShiftedBytes(s)), RoundKey(rk, row))
<1> DEFINE u == InvShiftedBytes(s)
           m == InvMixColumns(u)
<1>1. ASSUME NEW i \in 1 .. 4, NEW b \in 1 .. 4
      PROVE  XorBytes(Td0[s[i][1]][b], Td1[s[After(i, 3)][2]][b],
                      Td2[s[After(i, 2)][3]][b], Td3[s[After(i, 1)][4]][b]) = m[i][b]
  <2>1. /\ s[i][1] \in Byte /\ s[After(i, 3)][2] \in Byte
        /\ s[After(i, 2)][3] \in Byte /\ s[After(i, 1)][4] \in Byte
    <3>1. After(i, 1) \in 1 .. 4 /\ After(i, 2) \in 1 .. 4 /\ After(i, 3) \in 1 .. 4
      BY AfterType
    <3> QED
      BY <3>1 DEF Block, Word
  <2>2. /\ u[i][1] = Td4[s[i][1]] /\ u[i][2] = Td4[s[After(i, 3)][2]]
        /\ u[i][3] = Td4[s[After(i, 2)][3]] /\ u[i][4] = Td4[s[After(i, 1)][4]]
    <3>1. After(i, 5 - 1) = i /\ 5 - 2 = 3 /\ 5 - 3 = 2 /\ 5 - 4 = 1
      BY DEF After
    <3>2. \A r \in 1 .. 4 : u[i][r] = Td4[s[After(i, 5 - r)][r]]
      BY Zenon DEF InvShiftedBytes, Four
    <3> HIDE DEF u
    <3> QED
      BY <3>1, <3>2
  <2> HIDE DEF u
  <2>3. m[i][b]
          = XorBytes(G(InvMix[After(1, 4 + 1 - b)], u[i][1]), G(InvMix[After(1, 4 + 2 - b)], u[i][2]),
                     G(InvMix[After(1, 4 + 3 - b)], u[i][3]), G(InvMix[After(1, 4 + 4 - b)], u[i][4]))
    BY MixedByte
  <2>4. /\ Td0[s[i][1]][b] = G(InvMix[After(1, 4 + 1 - b)], u[i][1])
        /\ Td1[s[After(i, 3)][2]][b] = G(InvMix[After(1, 4 + 2 - b)], u[i][2])
        /\ Td2[s[After(i, 2)][3]][b] = G(InvMix[After(1, 4 + 3 - b)], u[i][3])
        /\ Td3[s[After(i, 1)][4]][b] = G(InvMix[After(1, 4 + 4 - b)], u[i][4])
    BY <2>1, <2>2, TdColumns
  <2> QED
    BY <2>3, <2>4, Zenon
<1> HIDE DEF m
<1>2. \A i \in 1 .. 4 : RoundKey(rk, row)[i] = rk[4 * row + i]
  BY Zenon DEF RoundKey, Four
<1>3. DecRound(s, row) = XorBlock(m, RoundKey(rk, row))
  BY <1>1, <1>2, Zenon DEF DecRound, XorBlock, Four
<1> QED
  BY <1>3 DEF m

LEMMA EncFinalIs ==
  ASSUME NEW s \in Block
  PROVE  EncFinal(s) = XorBlock(ShiftedBytes(s), RoundKey(rk, nrounds))
<1>1. ASSUME NEW i \in 1 .. 4, NEW b \in 1 .. 4
      PROVE  S(s[After(i, b - 1)][b]) = ShiftedBytes(s)[i][b]
  <2>1. After(i, b - 1) \in 1 .. 4
    BY AfterType
  <2>2. s[After(i, b - 1)][b] \in Byte
    BY <2>1 DEF Block, Word
  <2>3. ShiftedBytes(s)[i][b] = SBox[s[After(i, b - 1)][b]]
    BY Zenon DEF ShiftedBytes, Four
  <2> QED
    BY <2>2, <2>3, SBoxFacts, Zenon
<1>2. \A i \in 1 .. 4 : RoundKey(rk, nrounds)[i] = rk[4 * nrounds + i]
  BY Zenon DEF RoundKey, Four
<1> QED
  BY <1>1, <1>2, Zenon DEF EncFinal, XorBlock, Four

LEMMA DecFinalIs ==
  ASSUME NEW s \in Block, NEW k
  PROVE  DecFinal(s, k) = XorBlock(InvShiftedBytes(s), k)
<1>1. \A i, b \in 1 .. 4 : InvShiftedBytes(s)[i][b] = Td4[s[After(i, 5 - b)][b]]
  BY Zenon DEF InvShiftedBytes, Four
<1> QED
  BY <1>1, Zenon DEF DecFinal, XorBlock, Four

-----------------------------------------------------------------------------
(***************************************************************************)
(* The counter: the bytes of the sum are those of a number that the next   *)
(* thread has one more of.                                                 *)
(***************************************************************************)

\* What is carried into byte i, from the lowest byte, 15, upwards.
Carry(off) ==
  LET carry[i \in 8 .. 15] ==
        IF i = 15 THEN off ELSE (Ctr[i + 1] + carry[i + 1]) \div 256
  IN  carry

LEMMA CarryDefined ==
  ASSUME NEW off
  PROVE  /\ Carry(off)[15] = off
         /\ \A i \in 8 .. 14 : Carry(off)[i] = (Ctr[i + 1] + Carry(off)[i + 1]) \div 256
<1> DEFINE Body(g) == [i \in 8 .. 15 |-> IF i = 15 THEN off ELSE (Ctr[i + 1] + g[i + 1]) \div 256]
           c14 == (Ctr[15] + off) \div 256
           c13 == (Ctr[14] + c14) \div 256
           c12 == (Ctr[13] + c13) \div 256
           c11 == (Ctr[12] + c12) \div 256
           c10 == (Ctr[11] + c11) \div 256
           c9  == (Ctr[10] + c10) \div 256
           c8  == (Ctr[9] + c9) \div 256
           g == [i \in 8 .. 15 |->
                   IF i = 15 THEN off ELSE IF i = 14 THEN c14 ELSE IF i = 13 THEN c13
                   ELSE IF i = 12 THEN c12 ELSE IF i = 11 THEN c11 ELSE IF i = 10 THEN c10
                   ELSE IF i = 9 THEN c9 ELSE c8]
<1>1. g = Body(g)
  <2>1. ASSUME NEW i \in 8 .. 15
        PROVE  g[i] = IF i = 15 THEN off ELSE (Ctr[i + 1] + g[i + 1]) \div 256
    <3>0. \/ i = 15 \/ i = 14 \/ i = 13 \/ i = 12 \/ i = 11 \/ i = 10 \/ i = 9 \/ i = 8
      OBVIOUS
    <3>1. /\ g[15] = off /\ g[14] = c14 /\ g[13] = c13 /\ g[12] = c12 /\ g[11] = c11
          /\ g[10] = c10 /\ g[9] = c9 /\ g[8] = c8
      <4> HIDE DEF c14, c13, c12, c11, c10, c9, c8
      <4> QED
        OBVIOUS
    <3>2. /\ c14 = (Ctr[15] + off) \div 256 /\ c13 = (Ctr[14] + c14) \div 256
          /\ c12 = (Ctr[13] + c13) \div 256 /\ c11 = (Ctr[12] + c12) \div 256
          /\ c10 = (Ctr[11] + c11) \div 256 /\ c9 = (Ctr[10] + c10) \div 256
          /\ c8 = (Ctr[9] + c9) \div 256
      OBVIOUS
    <3> HIDE DEF g, c14, c13, c12, c11, c10, c9, c8
    <3>3. CASE i = 15
      BY <3>1, <3>3
    <3>4. CASE i = 14
      <4>1. i # 15 /\ i + 1 = 15
        BY <3>4
      <4> QED
        BY <3>1, <3>2, <3>4, <4>1, Zenon
    <3>5. CASE i = 13
      <4>1. i # 15 /\ i + 1 = 14
        BY <3>5
      <4> QED
        BY <3>1, <3>2, <3>5, <4>1, ZenonT(60)
    <3>6. CASE i = 12
      <4>1. i # 15 /\ i + 1 = 13
        BY <3>6
      <4> QED
        BY <3>1, <3>2, <3>6, <4>1, ZenonT(60)
    <3>7. CASE i = 11
      <4>1. i # 15 /\ i + 1 = 12
        BY <3>7
      <4> QED
        BY <3>1, <3>2, <3>7, <4>1, ZenonT(60)
    <3>8. CASE i = 10
      <4>1. i # 15 /\ i + 1 = 11
        BY <3>8
      <4> QED
        BY <3>1, <3>2, <3>8, <4>1, ZenonT(60)
    <3>9. CASE i = 9
      <4>1. i # 15 /\ i + 1 = 10
        BY <3>9
      <4> QED
        BY <3>1, <3>2, <3>9, <4>1, ZenonT(60)
    <3>10. CASE i = 8
      <4>1. i # 15 /\ i + 1 = 9
        BY <3>10
      <4> QED
        BY <3>1, <3>2, <3>10, <4>1, ZenonT(60)
    <3> QED
      BY <3>0, <3>3, <3>4, <3>5, <3>6, <3>7, <3>8, <3>9, <3>10, Zenon
  <2> HIDE DEF g
  <2>2. g = [i \in 8 .. 15 |-> g[i]]
    <3> HIDE DEF c14, c13, c12, c11, c10, c9, c8
    <3> QED
      BY DEF g
  <2> QED
    BY <2>1, <2>2
<1> HIDE DEF g
<1>2. PICK h : h = Body(h)
  BY <1>1, Zenon
<1>3. Carry(off) = Body(Carry(off))
  <2>1. Carry(off) = CHOOSE f : f = Body(f)
    BY Zenon DEF Carry
  <2> HIDE DEF Body
  <2> QED
    BY <1>2, <2>1, Zenon
<1>4. \A i \in 8 .. 15 :
        Carry(off)[i] = IF i = 15 THEN off ELSE (Ctr[i + 1] + Carry(off)[i + 1]) \div 256
  BY <1>3, Zenon
<1>5. 15 \in 8 .. 15 /\ \A i \in 8 .. 14 : i \in 8 .. 15 /\ i # 15
  OBVIOUS
<1> QED
  BY <1>4, <1>5, ZenonT(60)

LEMMA CarryType ==
  ASSUME NEW off \in Nat
  PROVE  \A i \in 8 .. 15 : Carry(off)[i] \in Nat /\ Ctr[i] \in Byte
<1>1. \A i \in 8 .. 15 : Ctr[i] \in Byte
  BY CipherAssumption, SMTT(30)
<1> DEFINE T == {r \in 0 .. 7 : Carry(off)[15 - r] \in Nat}
<1>2. 0 \in T
  BY CarryDefined
<1>3. ASSUME NEW r \in 0 .. 7 - 1, r \in T PROVE r + 1 \in T
  <2> DEFINE i == 15 - (r + 1)
  <2>1. i \in 8 .. 14 /\ i + 1 = 15 - r /\ i + 1 \in 8 .. 15 /\ r + 1 \in 0 .. 7
    OBVIOUS
  <2>2. Carry(off)[i] = (Ctr[i + 1] + Carry(off)[i + 1]) \div 256
    BY <2>1, CarryDefined
  <2>3. Ctr[i + 1] \in Byte /\ Carry(off)[i + 1] \in Nat
    BY <1>1, <1>3, <2>1
  <2>4. Carry(off)[i] \in Nat
    BY <2>2, <2>3 DEF Byte
  <2> QED
    BY <2>1, <2>4
<1>4. \A r \in 0 .. 7 : r \in T
  <2> HIDE DEF T
  <2> QED
    BY <1>2, <1>3, UpTo
<1>5. ASSUME NEW i \in 8 .. 15 PROVE Carry(off)[i] \in Nat
  <2>1. 15 - i \in 0 .. 7 /\ 15 - (15 - i) = i
    OBVIOUS
  <2> QED
    BY <1>4, <2>1
<1> QED
  BY <1>1, <1>5

\* Byte i of the sum.
SumByte(off, i) == (Ctr[i] + Carry(off)[i]) % 256

LEMMA SumIs ==
  ASSUME NEW off
  PROVE  big_u128_add(Ctr, off) = [i \in 0 .. 15 |-> IF i < 8 THEN 0 ELSE SumByte(off, i)]
BY Zenon DEF big_u128_add, SumByte, Carry

\* Whether all bytes below i are 255.
FullBelow(off, i) == \A j \in i + 1 .. 15 : SumByte(off, j) = 255

LEMMA OneMore ==
  ASSUME NEW x \in Nat
  PROVE  /\ (x + 1) \div 256 = x \div 256 + (IF x % 256 = 255 THEN 1 ELSE 0)
         /\ (x + 1) % 256 = ((x % 256) + 1) % 256
OBVIOUS

LEMMA CarryOfNext ==
  ASSUME NEW off \in Nat
  PROVE  \A i \in 8 .. 15 :
           Carry(off + 1)[i] = Carry(off)[i] + (IF FullBelow(off, i) THEN 1 ELSE 0)
<1> DEFINE P(i) == Carry(off + 1)[i] = Carry(off)[i] + (IF FullBelow(off, i) THEN 1 ELSE 0)
           T == {r \in 0 .. 7 : P(15 - r)}
<1>1. 0 \in T
  <2>1. FullBelow(off, 15)
    BY DEF FullBelow
  <2>2. Carry(off + 1)[15] = off + 1 /\ Carry(off)[15] = off
    BY CarryDefined
  <2> QED
    BY <2>1, <2>2
<1>2. ASSUME NEW r \in 0 .. 7 - 1, r \in T PROVE r + 1 \in T
  <2> DEFINE i == 15 - (r + 1)
             x == Ctr[i + 1] + Carry(off)[i + 1]
  <2>1. i \in 8 .. 14 /\ i + 1 = 15 - r /\ i + 1 \in 8 .. 15 /\ r + 1 \in 0 .. 7
    OBVIOUS
  <2>2. /\ Carry(off)[i] = x \div 256
        /\ Carry(off + 1)[i] = (Ctr[i + 1] + Carry(off + 1)[i + 1]) \div 256
    BY <2>1, CarryDefined
  <2>3. Ctr[i + 1] \in Nat /\ Carry(off)[i + 1] \in Nat /\ x \in Nat
    <3>1. Ctr[i + 1] \in Byte /\ Carry(off)[i + 1] \in Nat
      BY <2>1, CarryType
    <3> HIDE DEF i
    <3> QED
      BY <3>1 DEF Byte
  <2>4. P(i + 1)
    BY <1>2, <2>1
  <2>5. FullBelow(off, i) <=> x % 256 = 255 /\ FullBelow(off, i + 1)
    <3>1. SumByte(off, i + 1) = x % 256
      BY DEF SumByte
    <3>2. \A j : j \in i + 1 .. 15 <=> j = i + 1 \/ j \in (i + 1) + 1 .. 15
      BY <2>1
    <3> HIDE DEF x, i
    <3> QED
      BY <3>1, <3>2, Zenon DEF FullBelow
  <2> HIDE DEF i
  <2>6. P(i)
    <3>1. CASE FullBelow(off, i + 1)
      <4>1. Carry(off + 1)[i + 1] = Carry(off)[i + 1] + 1
        BY <2>4, <3>1
      <4>2. Ctr[i + 1] + Carry(off + 1)[i + 1] = x + 1
        BY <2>3, <4>1
      <4>3. (x + 1) \div 256 = x \div 256 + (IF x % 256 = 255 THEN 1 ELSE 0)
        BY <2>3, OneMore
      <4> HIDE DEF x
      <4> QED
        BY <2>2, <2>5, <3>1, <4>2, <4>3
    <3>2. CASE ~FullBelow(off, i + 1)
      <4>1. Carry(off + 1)[i + 1] = Carry(off)[i + 1]
        BY <2>3, <2>4, <3>2
      <4>2. x \div 256 \in Int
        BY <2>3
      <4>3. x \div 256 + 0 = x \div 256
        BY <4>2
      <4> QED
        BY <2>2, <2>5, <3>2, <4>1, <4>3
    <3> QED
      BY <3>1, <3>2
  <2> QED
    BY <2>1, <2>6 DEF i
<1>3. \A r \in 0 .. 7 : r \in T
  <2> HIDE DEF T
  <2> QED
    BY <1>1, <1>2, UpTo
<1>4. ASSUME NEW i \in 8 .. 15 PROVE P(i)
  <2>1. 15 - i \in 0 .. 7 /\ 15 - (15 - i) = i
    OBVIOUS
  <2> QED
    BY <1>3, <2>1
<1> QED
  BY <1>4

\* The counter block of the next thread: 1 more, with every carry.
Successor(b) ==
  [i \in 0 .. 15 |->
     IF i >= 8 /\ \A j \in i + 1 .. 15 : b[j] = 255 THEN (b[i] + 1) % 256 ELSE b[i]]

LEMMA SumOfNext ==
  ASSUME NEW off \in Nat
  PROVE  big_u128_add(Ctr, off + 1) = Successor(big_u128_add(Ctr, off))
<1> DEFINE a == big_u128_add(Ctr, off)
           b == big_u128_add(Ctr, off + 1)
<1>1. /\ \A i \in 0 .. 15 : a[i] = IF i < 8 THEN 0 ELSE SumByte(off, i)
      /\ \A i \in 0 .. 15 : b[i] = IF i < 8 THEN 0 ELSE SumByte(off + 1, i)
      /\ b = [i \in 0 .. 15 |-> b[i]]
  BY SumIs, Zenon
<1> HIDE DEF a, b
<1>2. ASSUME NEW i \in 0 .. 15
      PROVE  b[i] = IF i >= 8 /\ \A j \in i + 1 .. 15 : a[j] = 255 THEN (a[i] + 1) % 256 ELSE a[i]
  <2>1. CASE i < 8
    <3>1. ~(i >= 8)
      BY <2>1
    <3> QED
      BY <1>1, <2>1, <3>1, Zenon
  <2>2. CASE i \in 8 .. 15
    <3> DEFINE x == Ctr[i] + Carry(off)[i]
    <3>1. ~(i < 8) /\ i >= 8 /\ \A j \in i + 1 .. 15 : j \in 0 .. 15 /\ ~(j < 8)
      BY <2>2
    <3>2. a[i] = SumByte(off, i) /\ b[i] = SumByte(off + 1, i)
      BY <1>1, <3>1, Zenon
    <3>3. (\A j \in i + 1 .. 15 : a[j] = 255) <=> FullBelow(off, i)
      <4>1. \A j \in i + 1 .. 15 : a[j] = SumByte(off, j)
        BY <1>1, <3>1, Zenon
      <4> QED
        BY <4>1 DEF FullBelow
    <3>4. Carry(off)[i] \in Nat /\ Ctr[i] \in Byte
      BY <2>2, CarryType
    <3>5. x \in Nat /\ Ctr[i] \in Nat
      BY <3>4 DEF Byte
    <3>6. Carry(off + 1)[i] = Carry(off)[i] + (IF FullBelow(off, i) THEN 1 ELSE 0)
      BY <2>2, CarryOfNext
    <3>7. CASE FullBelow(off, i)
      <4>1. Ctr[i] + Carry(off + 1)[i] = x + 1
        BY <3>4, <3>5, <3>6, <3>7
      <4>2. (x + 1) % 256 = ((x % 256) + 1) % 256
        BY <3>5, OneMore
      <4>3. b[i] = (a[i] + 1) % 256
        BY <3>2, <4>1, <4>2, ZenonT(60) DEF SumByte
      <4> QED
        BY <3>1, <3>3, <3>7, <4>3, Zenon
    <3>8. CASE ~FullBelow(off, i)
      <4>1. Carry(off + 1)[i] = Carry(off)[i]
        BY <3>4, <3>6, <3>8
      <4>2. b[i] = a[i]
        BY <3>2, <4>1, Zenon DEF SumByte
      <4> QED
        BY <3>3, <3>8, <4>2, Zenon
    <3> QED
      BY <3>7, <3>8, Zenon
  <2> QED
    BY <2>1, <2>2
<1>3. b = Successor(a)
  BY <1>1, <1>2 DEF Successor
<1> QED
  BY <1>3 DEF a, b

\* The lower half of the counter, the upper one 0.
LowerHalf == [i \in 0 .. 15 |-> IF i < 8 THEN 0 ELSE Ctr[i]]

LEMMA SumOfZero == big_u128_add(Ctr, 0) = LowerHalf
<1> DEFINE T == {r \in 0 .. 7 : Carry(0)[15 - r] = 0}
<1>0. \A i \in 8 .. 15 : Ctr[i] \in Byte
  BY CipherAssumption
<1>1. 0 \in T
  BY CarryDefined
<1>2. ASSUME NEW r \in 0 .. 7 - 1, r \in T PROVE r + 1 \in T
  <2> DEFINE i == 15 - (r + 1)
  <2>1. i \in 8 .. 14 /\ i + 1 = 15 - r /\ i + 1 \in 8 .. 15 /\ r + 1 \in 0 .. 7
    OBVIOUS
  <2>2. Carry(0)[i] = (Ctr[i + 1] + Carry(0)[i + 1]) \div 256
    BY <2>1, CarryDefined
  <2>3. Ctr[i + 1] \in Byte /\ Carry(0)[i + 1] = 0
    BY <1>0, <1>2, <2>1
  <2>4. Carry(0)[i] = 0
    <3> HIDE DEF i
    <3> QED
      BY <2>2, <2>3 DEF Byte
  <2> QED
    BY <2>1, <2>4
<1>3. \A r \in 0 .. 7 : r \in T
  <2> HIDE DEF T
  <2> QED
    BY <1>1, <1>2, UpTo
<1>4. ASSUME NEW i \in 0 .. 15, ~(i < 8) PROVE SumByte(0, i) = Ctr[i]
  <2>1. 15 - i \in 0 .. 7 /\ 15 - (15 - i) = i /\ i \in 8 .. 15
    BY <1>4
  <2>2. Carry(0)[i] = 0 /\ Ctr[i] \in Byte
    BY <1>0, <1>3, <2>1
  <2> QED
    BY <2>2 DEF SumByte, Byte
<1>5. big_u128_add(Ctr, 0) = [i \in 0 .. 15 |-> IF i < 8 THEN 0 ELSE SumByte(0, i)]
  BY SumIs, Zenon
<1> QED
  BY <1>4, <1>5, Zenon DEF LowerHalf

\* Each thread of the counter modes has the counter block that is its turn,
\* for every number of threads and every counter whose upper half is 0: no carry
\* is lost.
LEMMA CounterIs ==
  ASSUME NEW th \in Thread, CounterFits
  PROVE  Counter(th) = GetBlock(CounterBlocks[th], 0)
<1>0. Threads \in Nat
  BY CipherAssumption
<1>a. Ctr = LowerHalf
  <2>1. Ctr = [i \in 0 .. 15 |-> Ctr[i]]
    BY CipherAssumption, Zenon
  <2>2. \A i \in 0 .. 15 : i < 8 => i \in 0 .. 7
    OBVIOUS
  <2> QED
    BY <2>1, <2>2, Zenon DEF LowerHalf, CounterFits
<1> DEFINE Body(f) == [t \in 0 .. Threads |-> IF t = 0 THEN Ctr ELSE Successor(f[t - 1])]
           sums == [t \in 0 .. Threads |-> big_u128_add(Ctr, t)]
           B == CounterBlocks
           T == {t \in 0 .. Threads : B[t] = big_u128_add(Ctr, t)}
<1>1. sums = Body(sums)
  <2>1. ASSUME NEW t \in 0 .. Threads
        PROVE  sums[t] = IF t = 0 THEN Ctr ELSE Successor(sums[t - 1])
    <3>1. CASE t = 0
      BY <1>a, <3>1, SumOfZero
    <3>2. CASE t # 0
      <4>1. t - 1 \in Nat /\ t - 1 \in 0 .. Threads /\ (t - 1) + 1 = t
        BY <1>0, <3>2
      <4>2. big_u128_add(Ctr, (t - 1) + 1) = Successor(big_u128_add(Ctr, t - 1))
        BY <4>1, SumOfNext
      <4>3. sums[t - 1] = big_u128_add(Ctr, t - 1)
        BY <4>1
      <4>4. sums[t] = big_u128_add(Ctr, t)
        OBVIOUS
      <4> HIDE DEF sums
      <4> QED
        BY <3>2, <4>1, <4>2, <4>3, <4>4
    <3> QED
      BY <3>1, <3>2
  <2>2. sums = [t \in 0 .. Threads |-> sums[t]]
    OBVIOUS
  <2> HIDE DEF sums
  <2> QED
    BY <2>1, <2>2
<1>2. PICK g : g = Body(g)
  BY <1>1, Zenon
<1>3. B = Body(B)
  <2>1. B = CHOOSE f : f = Body(f)
    BY Zenon DEF CounterBlocks, Successor
  <2> HIDE DEF Body
  <2> QED
    BY <1>2, <2>1, Zenon
<1>4. ASSUME NEW t \in 0 .. Threads PROVE B[t] = IF t = 0 THEN Ctr ELSE Successor(B[t - 1])
  BY <1>3, Zenon
<1> HIDE DEF B
<1>5. 0 \in T
  <2>1. 0 \in 0 .. Threads
    BY <1>0
  <2> QED
    BY <1>a, <1>4, <2>1, SumOfZero
<1>6. ASSUME NEW t \in 0 .. Threads - 1, t \in T PROVE t + 1 \in T
  <2>1. t + 1 \in 0 .. Threads /\ t + 1 # 0 /\ (t + 1) - 1 = t /\ t \in Nat
    BY <1>0
  <2>2. B[t + 1] = Successor(B[t])
    BY <1>4, <2>1
  <2>3. B[t] = big_u128_add(Ctr, t)
    BY <1>6
  <2> QED
    BY <2>1, <2>2, <2>3, SumOfNext
<1>7. \A t \in 0 .. Threads : t \in T
  <2> HIDE DEF T
  <2> QED
    BY <1>0, <1>5, <1>6, UpTo
<1>8. th \in 0 .. Threads
  BY <1>0 DEF Thread
<1>9. B[th] = big_u128_add(Ctr, th)
  BY <1>7, <1>8
<1> QED
  BY <1>9, Zenon DEF Counter, thread_ctr_offset, B

-----------------------------------------------------------------------------
(***************************************************************************)
(* Blocks in memory.                                                       *)
(***************************************************************************)
Packet == [0 .. Length - 1 -> Byte]

\* The block at p is inside the packet.
Inside(p) == p \in Nat /\ p + 16 <= Length

LEMMA BlockByte ==
  ASSUME NEW m, NEW p \in Nat, NEW i \in 1 .. 4, NEW b \in 1 .. 4
  PROVE  GetBlock(m, p)[i][b] = m[p + 4 * (i - 1) + (b - 1)]
<1> DEFINE o == p + 4 * (i - 1)
<1>1. GetBlock(m, p)[i] = <<m[o], m[o + 1], m[o + 2], m[o + 3]>>
  BY Zenon DEF GetBlock, GETU32, Four
<1>2. o \in Nat
  OBVIOUS
<1> HIDE DEF o
<1>3. GetBlock(m, p)[i][b] = m[o + (b - 1)]
  <2>1. CASE b = 1
    BY <1>1, <1>2, <2>1
  <2>2. CASE b = 2
    BY <1>1, <1>2, <2>2
  <2>3. CASE b = 3
    BY <1>1, <1>2, <2>3
  <2>4. CASE b = 4
    BY <1>1, <1>2, <2>4
  <2> QED
    BY <2>1, <2>2, <2>3, <2>4
<1> QED
  BY <1>3 DEF o

\* Where byte b of word i is, and which byte is where.
LEMMA Places ==
  ASSUME NEW p \in Nat
  PROVE  /\ \A i, b \in 1 .. 4 :
              LET q == p + 4 * (i - 1) + (b - 1)
              IN  q \in p .. p + 15 /\ ((q - p) \div 4) + 1 = i /\ ((q - p) % 4) + 1 = b
         /\ \A q \in p .. p + 15 : \E i, b \in 1 .. 4 : q = p + 4 * (i - 1) + (b - 1)
<1>1. ASSUME NEW i \in 1 .. 4, NEW b \in 1 .. 4
      PROVE  LET q == p + 4 * (i - 1) + (b - 1)
             IN  q \in p .. p + 15 /\ ((q - p) \div 4) + 1 = i /\ ((q - p) % 4) + 1 = b
  OBVIOUS
<1>2. ASSUME NEW q \in p .. p + 15
      PROVE  \E i, b \in 1 .. 4 : q = p + 4 * (i - 1) + (b - 1)
  <2> DEFINE a == q - p
             i == a \div 4 + 1
             b == a - 4 * (i - 1) + 1
  <2>1. a \in 0 .. 15
    OBVIOUS
  <2>2. i \in 1 .. 4 /\ b \in 1 .. 4
    BY <2>1
  <2>3. q = p + 4 * (i - 1) + (b - 1)
    BY <2>1, <2>2
  <2> HIDE DEF i, b
  <2> QED
    BY <2>2, <2>3, Zenon
<1> QED
  BY <1>1, <1>2

LEMMA GetBlockType ==
  ASSUME NEW m \in Packet, NEW p, Inside(p)
  PROVE  GetBlock(m, p) \in Block
<1> DEFINE s == GetBlock(m, p)
<1>0. p \in Nat /\ p + 16 <= Length /\ Length \in Nat
  BY CipherAssumption DEF Inside
<1>1. ASSUME NEW c \in 1 .. 4, NEW r \in 1 .. 4 PROVE s[c][r] \in Byte
  <2>1. s[c][r] = m[p + 4 * (c - 1) + (r - 1)]
    BY <1>0, BlockByte
  <2>2. p + 4 * (c - 1) + (r - 1) \in 0 .. Length - 1
    BY <1>0
  <2> QED
    BY <2>1, <2>2 DEF Packet
<1>2. /\ s = [c \in 1 .. 4 |-> s[c]]
      /\ \A c \in 1 .. 4 : s[c] = [r \in 1 .. 4 |-> s[c][r]]
  BY DEF GetBlock, GETU32, Four
<1> HIDE DEF s
<1>3. s \in Block
  BY <1>1, <1>2, BlockFrom
<1> QED
  BY <1>3 DEF s

\* The bytes of a block determine it and are determined by it.
LEMMA BlocksAgree ==
  ASSUME NEW m \in Packet, NEW o \in Packet, NEW p, Inside(p)
  PROVE  GetBlock(m, p) = GetBlock(o, p) <=> \A q \in p .. p + 15 : m[q] = o[q]
<1>0. p \in Nat
  BY DEF Inside
<1>1. ASSUME GetBlock(m, p) = GetBlock(o, p), NEW q \in p .. p + 15 PROVE m[q] = o[q]
  <2>1. PICK i \in 1 .. 4, b \in 1 .. 4 : q = p + 4 * (i - 1) + (b - 1)
    BY <1>0, Places
  <2>2. GetBlock(m, p)[i][b] = m[q] /\ GetBlock(o, p)[i][b] = o[q]
    BY <1>0, <2>1, BlockByte
  <2> QED
    BY <1>1, <2>2
<1>2. ASSUME \A q \in p .. p + 15 : m[q] = o[q] PROVE GetBlock(m, p) = GetBlock(o, p)
  <2>1. GetBlock(m, p) \in Block /\ GetBlock(o, p) \in Block
    BY GetBlockType
  <2>2. ASSUME NEW i \in 1 .. 4, NEW b \in 1 .. 4
        PROVE  GetBlock(m, p)[i][b] = GetBlock(o, p)[i][b]
    <3>1. p + 4 * (i - 1) + (b - 1) \in p .. p + 15
      BY <1>0
    <3> QED
      BY <1>0, <1>2, <3>1, BlockByte
  <2> QED
    BY <2>1, <2>2, BlocksEqual
<1> QED
  BY <1>1, <1>2

LEMMA PutBlockIs ==
  ASSUME NEW m \in Packet, NEW p, Inside(p), NEW s \in Block
  PROVE  /\ PutBlock(m, p, s) \in Packet
         /\ GetBlock(PutBlock(m, p, s), p) = s
         /\ \A q \in 0 .. Length - 1 : q \notin p .. p + 15 => PutBlock(m, p, s)[q] = m[q]
<1> DEFINE o == PutBlock(m, p, s)
<1>0. p \in Nat /\ p + 16 <= Length /\ Length \in Nat
  BY CipherAssumption DEF Inside
<1>1. /\ o = [q \in 0 .. Length - 1 |-> o[q]]
      /\ \A q \in 0 .. Length - 1 :
           o[q] = IF q \in p .. p + 15 THEN s[((q - p) \div 4) + 1][((q - p) % 4) + 1] ELSE m[q]
  <2>1. DOMAIN m = 0 .. Length - 1
    BY DEF Packet
  <2> QED
    BY <2>1, Zenon DEF PutBlock
<1> HIDE DEF o
<1>2. ASSUME NEW i \in 1 .. 4, NEW b \in 1 .. 4
      PROVE  /\ p + 4 * (i - 1) + (b - 1) \in 0 .. Length - 1
             /\ o[p + 4 * (i - 1) + (b - 1)] = s[i][b]
  <2> DEFINE q == p + 4 * (i - 1) + (b - 1)
  <2>1. q \in p .. p + 15 /\ ((q - p) \div 4) + 1 = i /\ ((q - p) % 4) + 1 = b
    BY <1>0, Places
  <2>2. q \in 0 .. Length - 1
    BY <1>0
  <2> HIDE DEF q
  <2>3. o[q] = s[i][b]
    BY <1>1, <2>1, <2>2
  <2> QED
    BY <2>2, <2>3 DEF q
<1>3. o \in Packet
  <2>1. ASSUME NEW q \in 0 .. Length - 1 PROVE o[q] \in Byte
    <3>1. CASE q \in p .. p + 15
      <4>1. PICK i \in 1 .. 4, b \in 1 .. 4 : q = p + 4 * (i - 1) + (b - 1)
        BY <1>0, <3>1, Places
      <4>2. o[q] = s[i][b]
        BY <1>2, <4>1
      <4> QED
        BY <4>2 DEF Block, Word
    <3>2. CASE q \notin p .. p + 15
      <4>1. o[q] = m[q]
        BY <1>1, <3>2
      <4> QED
        BY <4>1 DEF Packet
    <3> QED
      BY <3>1, <3>2
  <2> QED
    BY <1>1, <2>1 DEF Packet
<1>4. GetBlock(o, p) = s
  <2>1. GetBlock(o, p) \in Block
    BY <1>3, GetBlockType
  <2>2. ASSUME NEW i \in 1 .. 4, NEW b \in 1 .. 4 PROVE GetBlock(o, p)[i][b] = s[i][b]
    BY <1>0, <1>2, BlockByte
  <2> QED
    BY <2>1, <2>2, BlocksEqual
<1> QED
  BY <1>1, <1>3, <1>4 DEF o

-----------------------------------------------------------------------------
(***************************************************************************)
(* What a kernel makes of a block, in terms of the cipher and its inverse. *)
(***************************************************************************)
CounterModes == {"aes_ctr_crypt", "aes_lctr_crypt"}
Tweaked      == {"xts_encrypt", "xts_decrypt"}

\* The round keys a decrypting kernel uses: aes_decrypt_bp4t has its own.
OwnRow(r) == IF r % 2 = 1 THEN 1 ELSE 2
Repeated(w) == Four(LAMBDA i : w)

DecryptKeys(k, f) ==
  LET n == Rounds[k]
      own == f = "aes_decrypt_bp4t"
  IN  [r \in 0 .. n |->
         IF own /\ r = n THEN Repeated(DecKey[k][4 * n + 1])
         ELSE RoundKey(DecKey[k], IF own /\ r # 0 THEN OwnRow(r) ELSE r)]

\* What goes into the cipher for a block, the states of the cipher, what it
\* returns, and what the kernel makes of that.
Input(f, block, th) ==
  IF f \in CounterModes THEN Counter(th)
  ELSE IF f \in Tweaked THEN XorBlock(Ivs[th], block) ELSE block

Stages(k, f, x) ==
  IF f \in Decrypting THEN InvStates(x, DecryptKeys(k, f), Rounds[k])
  ELSE CipherStates(x, EncKey[k], Rounds[k])

Aes(k, f, x) ==
  IF f \in Decrypting THEN Decipher(x, DecryptKeys(k, f), Rounds[k])
  ELSE Cipher(x, EncKey[k], Rounds[k])

Output(f, block, x, th) ==
  IF f \in CounterModes THEN XorBlock(block, x)
  ELSE IF f \in Tweaked THEN XorBlock(Ivs[th], x) ELSE x

Result(k, f, block, th) == Output(f, block, Aes(k, f, Input(f, block, th)), th)

LEMMA KernelsAre ==
  Kernels = {"aes_encrypt_bpt", "aes_decrypt_bpt", "aes_encrypt_bp4t", "aes_decrypt_bp4t",
             "aes_ctr_crypt", "aes_lctr_crypt", "xts_encrypt", "xts_decrypt"}
BY DEF Kernels, Undo

LEMMA UndoIs ==
  /\ Undo["aes_encrypt_bpt"] = "aes_decrypt_bpt" /\ Undo["aes_decrypt_bpt"] = "aes_encrypt_bpt"
  /\ Undo["aes_encrypt_bp4t"] = "aes_decrypt_bp4t" /\ Undo["aes_decrypt_bp4t"] = "aes_encrypt_bp4t"
  /\ Undo["aes_ctr_crypt"] = "aes_ctr_crypt" /\ Undo["aes_lctr_crypt"] = "aes_lctr_crypt"
  /\ Undo["xts_encrypt"] = "xts_decrypt" /\ Undo["xts_decrypt"] = "xts_encrypt"
BY DEF Undo

LEMMA Undone ==
  ASSUME NEW f \in Kernels
  PROVE  /\ Undo[f] \in Kernels /\ Undo[Undo[f]] = f
         /\ f \in FourLanes <=> Undo[f] \in FourLanes
         /\ f \in CounterModes <=> Undo[f] \in CounterModes
         /\ f \in Tweaked <=> Undo[f] \in Tweaked
         /\ f \in CounterModes => f \notin Decrypting /\ Undo[f] \notin Decrypting
         /\ f \notin CounterModes => (f \in Decrypting <=> Undo[f] \notin Decrypting)
BY KernelsAre, UndoIs DEF FourLanes, CounterModes, Tweaked, Decrypting

LEMMA KeyFacts ==
  ASSUME NEW k \in AesKeys
  PROVE  /\ Rounds[k] \in {10, 12, 14} /\ Rounds[k] \in Nat \ {0}
         /\ EncKey[k] \in Expanded(Rounds[k]) /\ DecKey[k] \in Expanded(Rounds[k])
         /\ \A r \in 0 .. Rounds[k] : RoundKey(DecKey[k], r) = InverseRoundKey(EncKey[k], Rounds[k], r)
<1>1. Rounds[k] \in {10, 12, 14} /\ k \in Keys
  BY CipherAssumption, Zenon
<1>2. Rounds[k] \in Nat \ {0}
  BY <1>1
<1>3. /\ EncKey[k] \in [1 .. 4 * (Rounds[k] + 1) -> Word]
      /\ DecKey[k] \in [1 .. 4 * (Rounds[k] + 1) -> Word]
      /\ \A r \in 0 .. Rounds[k] : RoundKey(DecKey[k], r) = InverseRoundKey(EncKey[k], Rounds[k], r)
  BY <1>1, CipherAssumption, Zenon
<1> QED
  BY <1>1, <1>2, <1>3, Zenon DEF Expanded

LEMMA DecryptKeysAre ==
  ASSUME NEW k \in AesKeys, NEW f
  PROVE  LET n == Rounds[k]
             ks == DecryptKeys(k, f)
         IN  /\ ks \in [0 .. n -> Block]
             /\ ks[0] = RoundKey(DecKey[k], 0)
             /\ f # "aes_decrypt_bp4t" => \A r \in 0 .. n : ks[r] = RoundKey(DecKey[k], r)
             /\ f = "aes_decrypt_bp4t" =>
                  /\ \A r \in 1 .. n - 1 : ks[r] = RoundKey(DecKey[k], OwnRow(r))
                  /\ ks[n] = Repeated(DecKey[k][4 * n + 1])
<1> DEFINE n == Rounds[k]
           ks == DecryptKeys(k, f)
           own == f = "aes_decrypt_bp4t"
           row(r) == IF own /\ r # 0 THEN OwnRow(r) ELSE r
           last == Repeated(DecKey[k][4 * n + 1])
<1>1. n \in {10, 12, 14} /\ n \in Nat \ {0} /\ DecKey[k] \in Expanded(n)
  BY KeyFacts
<1>2. /\ ks = [r \in 0 .. n |-> ks[r]]
      /\ \A r \in 0 .. n : ks[r] = IF own /\ r = n THEN last ELSE RoundKey(DecKey[k], row(r))
  BY Zenon DEF DecryptKeys
<1>3. last \in Block
  <2>1. 4 * n + 1 \in 1 .. 4 * (n + 1)
    BY <1>1
  <2>2. DecKey[k][4 * n + 1] \in Word
    BY <1>1, <2>1 DEF Expanded
  <2> QED
    BY <2>2 DEF Repeated, Four, Block
<1> HIDE DEF n, ks, last
<1>4. ASSUME NEW r \in 0 .. n PROVE ks[r] \in Block
  <2>1. row(r) \in 0 .. n
    BY <1>1 DEF OwnRow
  <2>2. RoundKey(DecKey[k], row(r)) \in Block
    BY <1>1, <2>1, RoundKeyType
  <2> QED
    BY <1>2, <1>3, <2>2, Zenon
<1>5. ks \in [0 .. n -> Block]
  BY <1>2, <1>4
<1>6. 0 \in 0 .. n /\ n \in 0 .. n /\ 0 # n /\ \A r \in 1 .. n - 1 : r \in 0 .. n /\ r # n /\ r # 0
  BY <1>1
<1>7. ks[0] = RoundKey(DecKey[k], 0)
  BY <1>2, <1>6, Zenon
<1>8. ~own => \A r \in 0 .. n : ks[r] = RoundKey(DecKey[k], r)
  BY <1>2, Zenon
<1>9. own => /\ \A r \in 1 .. n - 1 : ks[r] = RoundKey(DecKey[k], OwnRow(r))
             /\ ks[n] = last
  BY <1>2, <1>6, Zenon
<1> QED
  BY <1>5, <1>7, <1>8, <1>9, Zenon DEF n, ks, last

\* The keys are those of the inverse cipher, those of aes_decrypt_bp4t only
\* if all words of the key are the same.
SameWords(k) == \A i \in DOMAIN EncKey[k] : EncKey[k][i] = EncKey[k][1]

LEMMA KeysAreInverse ==
  ASSUME NEW k \in AesKeys, NEW f, f = "aes_decrypt_bp4t" => SameWords(k)
  PROVE  InverseKeys(DecryptKeys(k, f), EncKey[k], Rounds[k])
<1> DEFINE n == Rounds[k]
           ks == DecryptKeys(k, f)
           w == Repeated(EncKey[k][1])
<1>1. /\ n \in {10, 12, 14} /\ n \in Nat \ {0} /\ EncKey[k] \in Expanded(n)
      /\ \A r \in 0 .. n : RoundKey(DecKey[k], r) = InverseRoundKey(EncKey[k], n, r)
  BY KeyFacts
<1>2. /\ ks \in [0 .. n -> Block]
      /\ ks[0] = RoundKey(DecKey[k], 0)
      /\ f # "aes_decrypt_bp4t" => \A r \in 0 .. n : ks[r] = RoundKey(DecKey[k], r)
      /\ f = "aes_decrypt_bp4t" =>
           /\ \A r \in 1 .. n - 1 : ks[r] = RoundKey(DecKey[k], OwnRow(r))
           /\ ks[n] = Repeated(DecKey[k][4 * n + 1])
  BY DecryptKeysAre, Zenon
<1> HIDE DEF n, ks
<1>3. CASE f # "aes_decrypt_bp4t"
  BY <1>1, <1>2, <1>3, Zenon DEF InverseKeys, n, ks
<1>4. CASE f = "aes_decrypt_bp4t"
  <2>1. ASSUME NEW r \in 0 .. n PROVE RoundKey(EncKey[k], r) = w
    <3>1. DOMAIN EncKey[k] = 1 .. 4 * (n + 1)
      BY <1>1 DEF Expanded
    <3>2. \A c \in 1 .. 4 : 4 * r + c \in 1 .. 4 * (n + 1)
      BY <1>1
    <3>3. \A c \in 1 .. 4 : EncKey[k][4 * r + c] = EncKey[k][1]
      BY <1>4, <3>1, <3>2 DEF SameWords
    <3> QED
      BY <3>3, Zenon DEF RoundKey, Repeated, Four
  <2> HIDE DEF w
  <2>2. ASSUME NEW r \in 0 .. n
        PROVE  InverseRoundKey(EncKey[k], n, r) = IF r \in 1 .. n - 1 THEN InvMixColumns(w) ELSE w
    <3>1. n - r \in 0 .. n
      BY <1>1
    <3>2. RoundKey(EncKey[k], n - r) = w
      BY <2>1, <3>1, Zenon
    <3> QED
      BY <3>2, Zenon DEF InverseRoundKey
  <2>3. ASSUME NEW r \in 0 .. n PROVE ks[r] = InverseRoundKey(EncKey[k], n, r)
    <3>1. CASE r = 0
      BY <1>1, <1>2, <3>1, Zenon
    <3>2. CASE r \in 1 .. n - 1
      <4> DEFINE row == OwnRow(r)
      <4>1. row \in 0 .. n /\ row \in 1 .. n - 1
        BY <1>1 DEF OwnRow
      <4>2. ks[r] = RoundKey(DecKey[k], row)
        BY <1>2, <1>4, <3>2, Zenon
      <4> HIDE DEF row
      <4>3. RoundKey(DecKey[k], row) = InvMixColumns(w)
        BY <1>1, <2>2, <4>1, Zenon
      <4> QED
        BY <2>2, <3>2, <4>2, <4>3, Zenon
    <3>3. CASE r = n
      <4>1. n \in 0 .. n /\ n \notin 1 .. n - 1 /\ 1 \in 1 .. 4
        BY <1>1
      <4>2. RoundKey(DecKey[k], n) = w
        BY <1>1, <2>2, <4>1, Zenon
      <4>3. RoundKey(DecKey[k], n)[1] = DecKey[k][4 * n + 1]
        BY <4>1, Zenon DEF RoundKey, Four
      <4>4. w[1] = EncKey[k][1]
        BY <4>1, Zenon DEF w, Repeated, Four
      <4>5. ks[n] = w
        <5>1. DecKey[k][4 * n + 1] = EncKey[k][1]
          BY <4>2, <4>3, <4>4, Zenon
        <5>2. ks[n] = Repeated(DecKey[k][4 * n + 1])
          BY <1>2, <1>4, Zenon
        <5> QED
          BY <5>1, <5>2, Zenon DEF w, Repeated, Four
      <4> QED
        BY <2>2, <3>3, <4>1, <4>5, Zenon
    <3> QED
      BY <1>1, <3>1, <3>2, <3>3
  <2> QED
    BY <1>2, <2>3, Zenon DEF InverseKeys, n, ks
<1> QED
  BY <1>3, <1>4, Zenon

LEMMA CounterType ==
  ASSUME NEW th \in Thread
  PROVE  Counter(th) \in Block
<1> DEFINE a == big_u128_add(Ctr, th)
           s == GetBlock(a, 0)
<1>0. th \in Nat
  BY CipherAssumption DEF Thread
<1>1. \A i \in 0 .. 15 : a[i] = IF i < 8 THEN 0 ELSE SumByte(th, i)
  BY SumIs, Zenon
<1>2. ASSUME NEW i \in 0 .. 15 PROVE a[i] \in Byte
  <2>1. CASE i < 8
    BY <1>1, <2>1 DEF Byte
  <2>2. CASE ~(i < 8)
    <3>1. i \in 8 .. 15
      BY <2>2
    <3>2. Carry(th)[i] \in Nat /\ Ctr[i] \in Byte
      BY <1>0, <3>1, CarryType
    <3>3. SumByte(th, i) \in Byte
      <4>1. Ctr[i] + Carry(th)[i] \in Nat
        BY <3>2 DEF Byte
      <4> QED
        BY <4>1 DEF SumByte, Byte
    <3> QED
      BY <1>1, <2>2, <3>3, Zenon
  <2> QED
    BY <2>1, <2>2
<1>3. ASSUME NEW c \in 1 .. 4, NEW r \in 1 .. 4 PROVE s[c][r] \in Byte
  <2>1. s[c][r] = a[0 + 4 * (c - 1) + (r - 1)]
    BY BlockByte
  <2>2. 0 + 4 * (c - 1) + (r - 1) \in 0 .. 15
    OBVIOUS
  <2> HIDE DEF a, s
  <2> QED
    BY <1>2, <2>1, <2>2
<1> HIDE DEF a
<1>4. /\ s = [c \in 1 .. 4 |-> s[c]]
      /\ \A c \in 1 .. 4 : s[c] = [r \in 1 .. 4 |-> s[c][r]]
  BY DEF GetBlock, GETU32, Four
<1> HIDE DEF s
<1>5. s \in Block
  BY <1>3, <1>4, BlockFrom
<1> QED
  BY <1>5, Zenon DEF s, a, Counter, thread_ctr_offset

LEMMA IvType == \A th \in Thread : Ivs[th] \in Block
BY CipherAssumption

\* The states of the cipher, one after the other.
LEMMA EncStages ==
  ASSUME NEW k \in AesKeys, NEW f, f \notin Decrypting, NEW x \in Block
  PROVE  LET n == Rounds[k]
             s == Stages(k, f, x)
         IN  /\ \A r \in 0 .. n - 1 : s[r] \in Block
             /\ s[0] = XorBlock(x, RoundKey(EncKey[k], 0))
             /\ \A r \in 1 .. n - 1 :
                  s[r] = XorBlock(MixColumns(ShiftedBytes(s[r - 1])), RoundKey(EncKey[k], r))
             /\ Aes(k, f, x) = XorBlock(ShiftedBytes(s[n - 1]), RoundKey(EncKey[k], n))
             /\ Aes(k, f, x) \in Block
<1> DEFINE n == Rounds[k]
           s == CipherStates(x, EncKey[k], n)
<1>1. n \in Nat /\ n > 0 /\ EncKey[k] \in Expanded(n)
  <2>1. n \in Nat \ {0} /\ EncKey[k] \in Expanded(n)
    BY KeyFacts
  <2> HIDE DEF n
  <2> QED
    BY <2>1
<1>2. /\ s \in [0 .. n -> Block]
      /\ s[0] = XorBlock(x, RoundKey(EncKey[k], 0))
      /\ \A r \in 1 .. n - 1 :
           s[r] = XorBlock(MixColumns(ShiftedBytes(s[r - 1])), RoundKey(EncKey[k], r))
      /\ s[n] = XorBlock(ShiftedBytes(s[n - 1]), RoundKey(EncKey[k], n))
  <2> HIDE DEF n
  <2> QED
    BY <1>1, CipherStatesKnown, ZenonT(60)
<1>3. Stages(k, f, x) = s /\ Aes(k, f, x) = s[n]
  BY Zenon DEF Stages, Aes, Cipher
<1> HIDE DEF n, s
<1>4. s[n] \in Block /\ \A r \in 0 .. n - 1 : s[r] \in Block
  BY <1>1, <1>2
<1> QED
  BY <1>2, <1>3, <1>4, Zenon DEF n

LEMMA DecStages ==
  ASSUME NEW k \in AesKeys, NEW f \in Decrypting, NEW x \in Block
  PROVE  LET n == Rounds[k]
             s == Stages(k, f, x)
             ks == DecryptKeys(k, f)
         IN  /\ \A r \in 0 .. n - 1 : s[r] \in Block
             /\ s[0] = XorBlock(x, ks[0])
             /\ \A r \in 1 .. n - 1 : s[r] = XorBlock(InvMixColumns(InvShiftedBytes(s[r - 1])), ks[r])
             /\ Aes(k, f, x) = XorBlock(InvShiftedBytes(s[n - 1]), ks[n])
             /\ Aes(k, f, x) \in Block
<1> DEFINE n == Rounds[k]
           ks == DecryptKeys(k, f)
           s == InvStates(x, ks, n)
<1>1. n \in Nat \ {0}
  BY KeyFacts
<1>2. ks \in [0 .. n -> Block]
  BY DecryptKeysAre, Zenon
<1>3. Stages(k, f, x) = s /\ Aes(k, f, x) = Decipher(x, ks, n)
  BY Zenon DEF Stages, Aes
<1> HIDE DEF n, ks
<1>4. /\ s \in [0 .. n - 1 -> Block]
      /\ s[0] = XorBlock(x, ks[0])
      /\ \A r \in 1 .. n - 1 : s[r] = XorBlock(InvMixColumns(InvShiftedBytes(s[r - 1])), ks[r])
      /\ Decipher(x, ks, n) \in Block
  BY <1>1, <1>2, InvStatesKnown, Zenon
<1>5. Decipher(x, ks, n) = XorBlock(InvShiftedBytes(s[n - 1]), ks[n])
  BY Zenon DEF Decipher
<1> HIDE DEF s
<1>6. \A r \in 0 .. n - 1 : s[r] \in Block
  BY <1>4
<1> QED
  BY <1>3, <1>4, <1>5, <1>6, Zenon DEF n, ks

LEMMA ResultType ==
  ASSUME NEW k \in AesKeys, NEW f, NEW b \in Block, NEW th \in Thread
  PROVE  /\ Input(f, b, th) \in Block
         /\ \A x \in Block : Aes(k, f, x) \in Block
         /\ Result(k, f, b, th) \in Block
<1>1. Input(f, b, th) \in Block
  BY CounterType, IvType, XorBlockType DEF Input
<1>2. ASSUME NEW x \in Block PROVE Aes(k, f, x) \in Block
  BY EncStages, DecStages, Zenon
<1>3. \A x \in Block : Output(f, b, x, th) \in Block
  BY IvType, XorBlockType DEF Output
<1> QED
  BY <1>1, <1>2, <1>3, Zenon DEF Result

\* Deciphering and ciphering undo each other.
LEMMA AesUndone ==
  ASSUME NEW k \in AesKeys, NEW f \in Kernels, f \notin CounterModes,
         f \in FourLanes => SameWords(k), NEW x \in Block
  PROVE  Aes(k, f, Aes(k, Undo[f], x)) = x
<1> DEFINE g == Undo[f]
           n == Rounds[k]
<1>1. /\ g \in FourLanes <=> f \in FourLanes
      /\ f \in Decrypting <=> g \notin Decrypting
  BY Undone
<1>2. n \in Nat \ {0} /\ EncKey[k] \in Expanded(n)
  BY KeyFacts
<1>3. "aes_decrypt_bp4t" \in FourLanes
  BY DEF FourLanes
<1> HIDE DEF g, n
<1>4. CASE f \in Decrypting
  <2>1. InverseKeys(DecryptKeys(k, f), EncKey[k], n)
    BY <1>3, KeysAreInverse, Zenon DEF n
  <2>2. Decipher(Cipher(x, EncKey[k], n), DecryptKeys(k, f), n) = x
    BY <1>2, <2>1, DecipherUndoesCipher, ZenonT(60)
  <2> QED
    BY <1>1, <1>4, <2>2, Zenon DEF Aes, n, g
<1>5. CASE f \notin Decrypting
  <2>1. InverseKeys(DecryptKeys(k, g), EncKey[k], n)
    BY <1>1, <1>3, KeysAreInverse, Zenon DEF n
  <2>2. Cipher(Decipher(x, DecryptKeys(k, g), n), EncKey[k], n) = x
    BY <1>2, <2>1, CipherUndoesDecipher
  <2> QED
    BY <1>1, <1>5, <2>2, Zenon DEF Aes, n, g
<1> QED
  BY <1>4, <1>5, Zenon

LEMMA ResultUndone ==
  ASSUME NEW k \in AesKeys, NEW f \in Kernels, f \in FourLanes => SameWords(k),
         NEW b \in Block, NEW th \in Thread
  PROVE  Result(k, f, Result(k, Undo[f], b, th), th) = b
<1> DEFINE g == Undo[f]
           R == Result(k, g, b, th)
<1>1. /\ f \in CounterModes <=> g \in CounterModes
      /\ f \in Tweaked <=> g \in Tweaked
      /\ f \in CounterModes => f \notin Decrypting /\ g \notin Decrypting
  BY Undone
<1>2. /\ R \in Block /\ Input(g, b, th) \in Block /\ Input(f, R, th) \in Block
      /\ \A x \in Block : Aes(k, g, x) \in Block /\ Aes(k, f, x) \in Block
  BY ResultType, Zenon
<1>3. ASSUME f \notin CounterModes, NEW x \in Block PROVE Aes(k, f, Aes(k, g, x)) = x
  BY <1>3, AesUndone, Zenon
<1>4. R = Output(g, b, Aes(k, g, Input(g, b, th)), th)
  BY Zenon DEF Result
<1>5. Ivs[th] \in Block /\ Counter(th) \in Block
  BY IvType, CounterType, Zenon
<1> HIDE DEF g, R
<1>6. CASE f \in CounterModes
  <2> DEFINE x == Aes(k, f, Counter(th))
  <2>1. Aes(k, g, Counter(th)) = x
    BY <1>1, <1>6, Zenon DEF Aes
  <2>2. R = XorBlock(b, x)
    BY <1>1, <1>4, <1>6, <2>1, Zenon DEF Output, Input
  <2>3. x \in Block
    BY <1>2, <1>5, Zenon
  <2>4. Result(k, f, R, th) = XorBlock(R, x)
    BY <1>6, Zenon DEF Result, Output, Input
  <2> HIDE DEF x
  <2>5. XorBlock(XorBlock(b, x), x) = b
    BY <2>3, XorBlockUndone, Zenon
  <2> QED
    BY <2>2, <2>4, <2>5, Zenon DEF R, g
<1>7. CASE f \notin CounterModes /\ f \in Tweaked
  <2> DEFINE iv == Ivs[th]
             y == XorBlock(iv, b)
             z == Aes(k, g, y)
  <2>1. R = XorBlock(iv, z)
    BY <1>1, <1>4, <1>7, Zenon DEF Output, Input
  <2>2. y \in Block
    BY <1>5, XorBlockType
  <2>3. z \in Block
    BY <1>2, <2>2, Zenon
  <2>4. Result(k, f, R, th) = XorBlock(iv, Aes(k, f, XorBlock(iv, R)))
    BY <1>7, Zenon DEF Result, Output, Input
  <2>5. Aes(k, f, z) = y
    BY <1>3, <1>7, <2>2, Zenon
  <2> HIDE DEF z
  <2>6. XorBlock(iv, XorBlock(iv, z)) = z
    BY <1>5, <2>3, XorBlockUndone, Zenon
  <2>7. XorBlock(iv, XorBlock(iv, b)) = b
    BY <1>5, XorBlockUndone, Zenon
  <2> HIDE DEF iv
  <2> QED
    BY <2>1, <2>4, <2>5, <2>6, <2>7, Zenon DEF R, g
<1>8. CASE f \notin CounterModes /\ f \notin Tweaked
  <2>1. R = Aes(k, g, b)
    BY <1>1, <1>4, <1>8, Zenon DEF Output, Input
  <2>2. Result(k, f, R, th) = Aes(k, f, R)
    BY <1>8, Zenon DEF Result, Output, Input
  <2>3. Aes(k, f, Aes(k, g, b)) = b
    BY <1>3, <1>8, Zenon
  <2> QED
    BY <2>1, <2>2, <2>3, Zenon DEF R, g
<1> QED
  BY <1>6, <1>7, <1>8, Zenon

-----------------------------------------------------------------------------
(***************************************************************************)
(* The inductive invariant.  Where a thread is says which state of the     *)
(* cipher it holds and what its block of the packet is: the one the launch *)
(* found, then what the kernel makes of it.                                *)
(***************************************************************************)
Place(f, th) == IF f \in FourLanes THEN 16 * th ELSE Header + 16 * th

BytesOf(f, th) == Place(f, th) .. Place(f, th) + 15

\* The block of a thread before the launch: the second launch finds what the
\* first one made.
Before(th) ==
  LET old == GetBlock(Text, Place(kernel, th))
  IN  IF launch = 1 THEN old ELSE Result(key, Undo[kernel], old, th)

ArgsInv ==
  /\ key \in AesKeys /\ kernel \in Kernels
  /\ nrounds = Rounds[key]
  /\ rk = KeyFor(kernel)
  /\ launch \in {1, 2}

ThreadsInv ==
  /\ pc \in [Thread -> 0 .. nrounds + 1]
  /\ state \in [Thread -> Block]
  /\ text \in Packet

BlockInv(th) ==
  GetBlock(text, Place(kernel, th))
    = IF pc[th] = nrounds + 1 THEN Result(key, kernel, Before(th), th) ELSE Before(th)

StateInv(th) ==
  pc[th] \in 1 .. nrounds =>
    state[th] = Stages(key, kernel, Input(kernel, Before(th), th))[pc[th] - 1]

RestInv ==
  \A q \in 0 .. Length - 1 : (\A th \in Thread : q \notin BytesOf(kernel, th)) => text[q] = Text[q]

KernelInv ==
  /\ ArgsInv
  /\ ThreadsInv
  /\ \A th \in Thread : BlockInv(th) /\ StateInv(th)
  /\ RestInv

LEMMA RoundsAre ==
  ASSUME ArgsInv
  PROVE  /\ nrounds \in {10, 12, 14} /\ nrounds \in Nat \ {0} /\ nrounds = Rounds[key]
         /\ InnerRounds(nrounds) = nrounds - 1 /\ Done = nrounds + 1
<1>1. nrounds \in {10, 12, 14} /\ nrounds \in Nat \ {0} /\ nrounds = Rounds[key]
  BY KeyFacts DEF ArgsInv
<1>2. InnerRounds(nrounds) = nrounds - 1
  BY <1>1 DEF InnerRounds
<1> QED
  BY <1>1, <1>2 DEF Done

\* The blocks are inside the packet and apart from each other.
LEMMA PlacesInside ==
  ASSUME NEW f, NEW th \in Thread
  PROVE  /\ Inside(Place(f, th))
         /\ \A q \in BytesOf(f, th) : q \in 0 .. Length - 1
         /\ \A u \in Thread : u # th => \A q \in BytesOf(f, u) : q \notin BytesOf(f, th)
<1>1. /\ Threads \in Nat /\ Length \in Nat /\ Header = 32 /\ Header + 16 * Threads <= Length
  BY CipherAssumption DEF Header
<1>2. th \in Nat /\ th <= Threads - 1
  BY <1>1 DEF Thread
<1>3. Place(f, th) \in Nat /\ Place(f, th) + 16 <= Length
  BY <1>1, <1>2 DEF Place
<1>4. ASSUME NEW u \in Thread, u # th, NEW q \in BytesOf(f, u) PROVE q \notin BytesOf(f, th)
  <2>1. u \in Nat
    BY <1>1 DEF Thread
  <2> QED
    BY <1>1, <1>2, <1>4, <2>1 DEF BytesOf, Place
<1>5. \A q \in BytesOf(f, th) : q \in 0 .. Length - 1
  BY <1>1, <1>3 DEF BytesOf
<1> QED
  BY <1>3, <1>4, <1>5 DEF Inside

LEMMA TextType == Text \in Packet
BY CipherAssumption DEF Packet

LEMMA BeforeType ==
  ASSUME ArgsInv, NEW th \in Thread
  PROVE  Before(th) \in Block /\ Input(kernel, Before(th), th) \in Block
<1>1. GetBlock(Text, Place(kernel, th)) \in Block
  BY PlacesInside, TextType, GetBlockType
<1>2. key \in AesKeys
  BY DEF ArgsInv
<1>3. Before(th) \in Block
  BY <1>1, <1>2, ResultType, Zenon DEF Before
<1> QED
  BY <1>2, <1>3, ResultType, Zenon

LEMMA AtIs == \A th : At(th) = Place(kernel, th)
BY DEF At, Place

-----------------------------------------------------------------------------
(***************************************************************************)
(* What the steps of the kernels are in terms of the cipher: each kernel   *)
(* loads the input, makes the next state, or stores the result.            *)
(***************************************************************************)
NextStage(th) == Stages(key, kernel, Input(kernel, Before(th), th))[pc[th]]

CipherStep(th) ==
  \/ Load(th, Input(kernel, OwnBlock(th), th))
  \/ Round(th, NextStage(th))
  \/ Store(th, Result(key, kernel, Before(th), th))

\* What the three parts of an encrypting thread compute.
LEMMA EncSteps ==
  ASSUME KernelInv, NEW th \in Thread, kernel \notin Decrypting
  PROVE  LET x == Aes(key, kernel, Input(kernel, Before(th), th))
         IN  /\ pc[th] \in 1 .. InnerRounds(nrounds) => EncRound(state[th], pc[th]) = NextStage(th)
             /\ pc[th] = InnerRounds(nrounds) + 1 => EncFinal(state[th]) = x
<1> DEFINE b == Input(kernel, Before(th), th)
           s == Stages(key, kernel, b)
           n == nrounds
<1>1. /\ n \in Nat \ {0} /\ n = Rounds[key] /\ InnerRounds(n) = n - 1 /\ key \in AesKeys
      /\ rk = EncKey[key]
  BY RoundsAre DEF KernelInv, ArgsInv, KeyFor
<1>2. b \in Block
  BY BeforeType DEF KernelInv
<1> HIDE DEF b
<1>3. /\ \A r \in 1 .. n - 1 :
           s[r] = XorBlock(MixColumns(ShiftedBytes(s[r - 1])), RoundKey(rk, r))
      /\ Aes(key, kernel, b) = XorBlock(ShiftedBytes(s[n - 1]), RoundKey(rk, n))
  BY <1>1, <1>2, EncStages, ZenonT(60)
<1>4. StateInv(th) /\ state[th] \in Block
  BY DEF KernelInv, ThreadsInv
<1>5. ASSUME pc[th] \in 1 .. n - 1 PROVE EncRound(state[th], pc[th]) = NextStage(th)
  <2>1. pc[th] \in 1 .. n /\ pc[th] \in Nat
    BY <1>1, <1>5
  <2>2. state[th] = s[pc[th] - 1]
    BY <1>4, <2>1, Zenon DEF StateInv, b
  <2>3. EncRound(state[th], pc[th])
          = XorBlock(MixColumns(ShiftedBytes(state[th])), RoundKey(rk, pc[th]))
    BY <1>4, <2>1, EncRoundIs
  <2>4. NextStage(th) = s[pc[th]]
    BY Zenon DEF NextStage, b
  <2> HIDE DEF s
  <2> QED
    BY <1>3, <1>5, <2>2, <2>3, <2>4
<1>6. ASSUME pc[th] = n PROVE EncFinal(state[th]) = Aes(key, kernel, b)
  <2>1. pc[th] \in 1 .. n
    BY <1>1, <1>6
  <2>2. state[th] = s[n - 1]
    BY <1>4, <1>6, <2>1, Zenon DEF StateInv, b
  <2>3. EncFinal(state[th]) = XorBlock(ShiftedBytes(state[th]), RoundKey(rk, n))
    BY <1>4, EncFinalIs
  <2> QED
    BY <1>3, <2>2, <2>3, Zenon
<1>7. (n - 1) + 1 = n
  BY <1>1
<1> QED
  BY <1>1, <1>5, <1>6, <1>7, Zenon DEF b

\* And a decrypting one: the key of a round is the one DecryptKeys names.
LEMMA DecSteps ==
  ASSUME KernelInv, NEW th \in Thread, kernel \in Decrypting
  PROVE  LET x == Aes(key, kernel, Input(kernel, Before(th), th))
             ks == DecryptKeys(key, kernel)
         IN  /\ \A row \in Nat :
                  pc[th] \in 1 .. InnerRounds(nrounds) /\ ks[pc[th]] = RoundKey(rk, row) =>
                    DecRound(state[th], row) = NextStage(th)
             /\ pc[th] = InnerRounds(nrounds) + 1 => DecFinal(state[th], ks[nrounds]) = x
<1> DEFINE b == Input(kernel, Before(th), th)
           s == Stages(key, kernel, b)
           n == nrounds
           ks == DecryptKeys(key, kernel)
<1>1. n \in Nat \ {0} /\ n = Rounds[key] /\ InnerRounds(n) = n - 1 /\ key \in AesKeys
  BY RoundsAre DEF KernelInv, ArgsInv
<1>2. b \in Block
  BY BeforeType DEF KernelInv
<1> HIDE DEF b
<1>3. /\ \A r \in 1 .. n - 1 : s[r] = XorBlock(InvMixColumns(InvShiftedBytes(s[r - 1])), ks[r])
      /\ Aes(key, kernel, b) = XorBlock(InvShiftedBytes(s[n - 1]), ks[n])
  BY <1>1, <1>2, DecStages, Zenon
<1> HIDE DEF ks
<1>4. StateInv(th) /\ state[th] \in Block
  BY DEF KernelInv, ThreadsInv
<1>5. ASSUME pc[th] \in 1 .. n - 1, NEW row \in Nat, ks[pc[th]] = RoundKey(rk, row)
      PROVE  DecRound(state[th], row) = NextStage(th)
  <2>1. pc[th] \in 1 .. n
    BY <1>1, <1>5
  <2>2. state[th] = s[pc[th] - 1]
    BY <1>4, <2>1, Zenon DEF StateInv, b
  <2>3. DecRound(state[th], row)
          = XorBlock(InvMixColumns(InvShiftedBytes(state[th])), RoundKey(rk, row))
    BY <1>4, DecRoundIs
  <2>4. NextStage(th) = s[pc[th]]
    BY Zenon DEF NextStage, b
  <2> HIDE DEF s
  <2> QED
    BY <1>3, <1>5, <2>2, <2>3, <2>4
<1>6. ASSUME pc[th] = n PROVE DecFinal(state[th], ks[n]) = Aes(key, kernel, b)
  <2>1. pc[th] \in 1 .. n
    BY <1>1, <1>6
  <2>2. state[th] = s[n - 1]
    BY <1>4, <1>6, <2>1, Zenon DEF StateInv, b
  <2>3. DecFinal(state[th], ks[n]) = XorBlock(InvShiftedBytes(state[th]), ks[n])
    BY <1>4, DecFinalIs
  <2> QED
    BY <1>3, <2>2, <2>3, Zenon
<1>7. (n - 1) + 1 = n
  BY <1>1
<1> QED
  BY <1>1, <1>5, <1>6, <1>7, Zenon DEF b, ks

\* A thread that has not stored its result still has its block as it was.
LEMMA OwnBlockIs ==
  ASSUME KernelInv, NEW th \in Thread
  PROVE  pc[th] # nrounds + 1 => OwnBlock(th) = Before(th)
BY AtIs, Zenon DEF KernelInv, BlockInv, OwnBlock

ThreadStep(th) ==
  \/ aes_encrypt_bpt(th)  \/ aes_decrypt_bpt(th)
  \/ aes_encrypt_bp4t(th) \/ aes_decrypt_bp4t(th)
  \/ aes_ctr_crypt(th)    \/ aes_lctr_crypt(th)
  \/ xts_encrypt(th)      \/ xts_decrypt(th)

LEMMA KernelSteps ==
  ASSUME KernelInv, NEW th \in Thread, ThreadStep(th)
  PROVE  CipherStep(th)
<1> DEFINE b == Before(th)
           x == Aes(key, kernel, Input(kernel, b, th))
           n == nrounds
           ks == DecryptKeys(key, kernel)
<1>0. /\ "aes_encrypt_bpt" \notin Decrypting /\ "aes_encrypt_bp4t" \notin Decrypting
      /\ "aes_ctr_crypt" \notin Decrypting /\ "aes_lctr_crypt" \notin Decrypting
      /\ "xts_encrypt" \notin Decrypting /\ "xts_decrypt" \in Decrypting
      /\ "aes_decrypt_bpt" \in Decrypting /\ "aes_decrypt_bp4t" \in Decrypting
  BY DEF Decrypting
<1>1. /\ "aes_ctr_crypt" \in CounterModes /\ "aes_lctr_crypt" \in CounterModes
      /\ "aes_encrypt_bpt" \notin CounterModes /\ "aes_encrypt_bp4t" \notin CounterModes
      /\ "aes_decrypt_bpt" \notin CounterModes /\ "aes_decrypt_bp4t" \notin CounterModes
      /\ "xts_encrypt" \notin CounterModes /\ "xts_decrypt" \notin CounterModes
      /\ "xts_encrypt" \in Tweaked /\ "xts_decrypt" \in Tweaked
      /\ "aes_encrypt_bpt" \notin Tweaked /\ "aes_encrypt_bp4t" \notin Tweaked
      /\ "aes_decrypt_bpt" \notin Tweaked /\ "aes_decrypt_bp4t" \notin Tweaked
  BY DEF CounterModes, Tweaked
<1>2. /\ n \in Nat \ {0} /\ n \in {10, 12, 14} /\ n = Rounds[key] /\ InnerRounds(n) = n - 1
      /\ key \in AesKeys
  BY RoundsAre DEF KernelInv, ArgsInv
<1>3. ASSUME pc[th] = InnerRounds(n) + 1 PROVE OwnBlock(th) = b
  <2>1. pc[th] # n + 1
    BY <1>2, <1>3
  <2> QED
    BY <2>1, OwnBlockIs, Zenon
<1>4. Result(key, kernel, b, th) = Output(kernel, b, x, th)
  BY Zenon DEF Result
<1>5. ASSUME kernel \notin Decrypting
      PROVE  /\ pc[th] \in 1 .. InnerRounds(n) => EncRound(state[th], pc[th]) = NextStage(th)
             /\ pc[th] = InnerRounds(n) + 1 => EncFinal(state[th]) = x
  BY <1>5, EncSteps, Zenon
<1>6. ASSUME kernel \in Decrypting
      PROVE  /\ \A row \in Nat :
                  pc[th] \in 1 .. InnerRounds(n) /\ ks[pc[th]] = RoundKey(rk, row) =>
                    DecRound(state[th], row) = NextStage(th)
             /\ pc[th] = InnerRounds(n) + 1 => DecFinal(state[th], ks[n]) = x
  BY <1>6, DecSteps, Zenon
<1> HIDE DEF b, x
<1>7. ASSUME kernel \in Decrypting, kernel # "aes_decrypt_bp4t"
      PROVE  /\ pc[th] \in 1 .. InnerRounds(n) => DecRound(state[th], pc[th]) = NextStage(th)
             /\ pc[th] = InnerRounds(n) + 1 => DecFinal(state[th], LastKey) = x
  <2>1. rk = DecKey[key]
    BY <1>7 DEF KernelInv, ArgsInv, KeyFor
  <2>2. \A r \in 0 .. n : ks[r] = RoundKey(rk, r)
    BY <1>2, <1>7, <2>1, DecryptKeysAre, Zenon
  <2> HIDE DEF ks
  <2>3. n \in 0 .. n /\ (pc[th] \in 1 .. InnerRounds(n) => pc[th] \in Nat /\ pc[th] \in 0 .. n)
    BY <1>2
  <2>4. LastKey = ks[n]
    BY <2>2, <2>3, Zenon DEF LastKey, RoundKey
  <2> QED
    BY <1>6, <1>7, <2>2, <2>3, <2>4, Zenon
<1>8. CASE Encrypt(th) /\ kernel \in {"aes_encrypt_bpt", "aes_encrypt_bp4t"}
  <2>1. kernel \notin Decrypting /\ kernel \notin CounterModes /\ kernel \notin Tweaked
    BY <1>0, <1>1, <1>8
  <2>2. CASE Load(th, OwnBlock(th))
    BY <2>1, <2>2, Zenon DEF CipherStep, Input
  <2>3. CASE Round(th, EncRound(state[th], pc[th]))
    BY <1>5, <2>1, <2>3, Zenon DEF CipherStep, Round
  <2>4. CASE Store(th, EncFinal(state[th]))
    <3>1. EncFinal(state[th]) = Result(key, kernel, b, th)
      BY <1>4, <1>5, <2>1, <2>4, Zenon DEF Store, Output
    <3> QED
      BY <2>4, <3>1, Zenon DEF CipherStep, b
  <2> QED
    BY <1>8, <2>2, <2>3, <2>4, Zenon DEF Encrypt
<1>9. CASE CounterMode(th) /\ kernel \in CounterModes
  <2>1. kernel \notin Decrypting
    BY <1>0, <1>9 DEF CounterModes
  <2>2. CASE Load(th, Counter(th))
    BY <1>9, <2>2, Zenon DEF CipherStep, Input
  <2>3. CASE Round(th, EncRound(state[th], pc[th]))
    BY <1>5, <2>1, <2>3, Zenon DEF CipherStep, Round
  <2>4. CASE Store(th, XorBlock(OwnBlock(th), EncFinal(state[th])))
    <3>1. XorBlock(OwnBlock(th), EncFinal(state[th])) = Result(key, kernel, b, th)
      BY <1>3, <1>4, <1>5, <1>9, <2>1, <2>4, Zenon DEF Store, Output
    <3> QED
      BY <2>4, <3>1, Zenon DEF CipherStep, b
  <2> QED
    BY <1>9, <2>2, <2>3, <2>4, Zenon DEF CounterMode
<1>10. CASE xts_encrypt(th)
  <2>1. kernel \notin Decrypting /\ kernel \notin CounterModes /\ kernel \in Tweaked
    BY <1>0, <1>1, <1>10, Zenon DEF xts_encrypt
  <2>2. CASE Load(th, XorBlock(Ivs[th], OwnBlock(th)))
    BY <2>1, <2>2, Zenon DEF CipherStep, Input
  <2>3. CASE Round(th, EncRound(state[th], pc[th]))
    BY <1>5, <2>1, <2>3, Zenon DEF CipherStep, Round
  <2>4. CASE Store(th, XorBlock(Ivs[th], EncFinal(state[th])))
    <3>1. XorBlock(Ivs[th], EncFinal(state[th])) = Result(key, kernel, b, th)
      BY <1>4, <1>5, <2>1, <2>4, Zenon DEF Store, Output
    <3> QED
      BY <2>4, <3>1, Zenon DEF CipherStep, b
  <2> QED
    BY <1>10, <2>2, <2>3, <2>4, Zenon DEF xts_encrypt
<1>11. CASE aes_decrypt_bpt(th)
  <2>1. /\ kernel \in Decrypting /\ kernel \notin CounterModes /\ kernel \notin Tweaked
        /\ kernel # "aes_decrypt_bp4t"
    BY <1>0, <1>1, <1>11 DEF aes_decrypt_bpt
  <2>2. CASE Load(th, OwnBlock(th))
    BY <2>1, <2>2, Zenon DEF CipherStep, Input
  <2>3. CASE Round(th, DecRound(state[th], pc[th]))
    BY <1>7, <2>1, <2>3, Zenon DEF CipherStep, Round
  <2>4. CASE Store(th, DecFinal(state[th], LastKey))
    <3>1. DecFinal(state[th], LastKey) = Result(key, kernel, b, th)
      BY <1>4, <1>7, <2>1, <2>4, Zenon DEF Store, Output
    <3> QED
      BY <2>4, <3>1, Zenon DEF CipherStep, b
  <2> QED
    BY <1>11, <2>2, <2>3, <2>4, Zenon DEF aes_decrypt_bpt
<1>12. CASE xts_decrypt(th)
  <2>1. /\ kernel \in Decrypting /\ kernel \notin CounterModes /\ kernel \in Tweaked
        /\ kernel # "aes_decrypt_bp4t"
    BY <1>0, <1>1, <1>12 DEF xts_decrypt
  <2>2. CASE Load(th, XorBlock(Ivs[th], OwnBlock(th)))
    BY <2>1, <2>2, Zenon DEF CipherStep, Input
  <2>3. CASE Round(th, DecRound(state[th], pc[th]))
    BY <1>7, <2>1, <2>3, Zenon DEF CipherStep, Round
  <2>4. CASE Store(th, XorBlock(Ivs[th], DecFinal(state[th], LastKey)))
    <3>1. XorBlock(Ivs[th], DecFinal(state[th], LastKey)) = Result(key, kernel, b, th)
      BY <1>4, <1>7, <2>1, <2>4, Zenon DEF Store, Output
    <3> QED
      BY <2>4, <3>1, Zenon DEF CipherStep, b
  <2> QED
    BY <1>12, <2>2, <2>3, <2>4, Zenon DEF xts_decrypt
<1>13. CASE aes_decrypt_bp4t(th)
  <2> DEFINE row == OwnRow(pc[th])
             last == Repeated(rk[4 * nrounds + 1])
  <2>1. /\ kernel \in Decrypting /\ kernel \notin CounterModes /\ kernel \notin Tweaked
        /\ kernel = "aes_decrypt_bp4t"
    BY <1>0, <1>1, <1>13, Zenon DEF aes_decrypt_bp4t
  <2>2. rk = DecKey[key]
    BY <2>1 DEF KernelInv, ArgsInv, KeyFor
  <2>3. /\ \A r \in 1 .. n - 1 : ks[r] = RoundKey(rk, OwnRow(r))
        /\ ks[n] = last
    <3>1. /\ \A r \in 1 .. Rounds[key] - 1 :
               ks[r] = RoundKey(DecKey[key], OwnRow(r))
          /\ ks[Rounds[key]] = Repeated(DecKey[key][4 * Rounds[key] + 1])
      BY <1>2, <2>1, DecryptKeysAre, ZenonT(60)
    <3> QED
      BY <1>2, <2>2, <3>1, Zenon
  <2>4. row \in Nat
    BY DEF OwnRow
  <2>5. pc[th] \in 1 .. InnerRounds(n) => ks[pc[th]] = RoundKey(rk, row)
    BY <1>2, <2>3, Zenon
  <2> HIDE DEF row, ks
  <2>6. CASE Load(th, OwnBlock(th))
    BY <2>1, <2>6, Zenon DEF CipherStep, Input
  <2>7. CASE Round(th, DecRound(state[th], row))
    BY <1>6, <2>1, <2>4, <2>5, <2>7, Zenon DEF CipherStep, Round
  <2>8. CASE Store(th, DecFinal(state[th], last))
    <3>1. DecFinal(state[th], last) = Result(key, kernel, b, th)
      BY <1>4, <1>6, <2>1, <2>3, <2>8, Zenon DEF Store, Output
    <3> QED
      BY <2>8, <3>1, Zenon DEF CipherStep, b
  <2> QED
    <3>1. \/ Load(th, OwnBlock(th))
          \/ Round(th, DecRound(state[th], row))
          \/ Store(th, DecFinal(state[th], last))
      BY <1>13, Zenon DEF aes_decrypt_bp4t, row, OwnRow, Repeated
    <3> QED
      BY <2>6, <2>7, <2>8, <3>1, Zenon
<1>14. \/ Encrypt(th) /\ kernel \in {"aes_encrypt_bpt", "aes_encrypt_bp4t"}
       \/ CounterMode(th) /\ kernel \in CounterModes
       \/ xts_encrypt(th) \/ aes_decrypt_bpt(th) \/ xts_decrypt(th) \/ aes_decrypt_bp4t(th)
  BY <1>1, Zenon DEF ThreadStep, aes_encrypt_bpt, aes_encrypt_bp4t, aes_ctr_crypt, aes_lctr_crypt
<1> QED
  BY <1>8, <1>9, <1>10, <1>11, <1>12, <1>13, <1>14, Zenon

-----------------------------------------------------------------------------
(***************************************************************************)
(* The invariant is inductive.                                             *)
(***************************************************************************)

\* While the arguments and the launch stay, so does what the launch found.
LEMMA BeforeStays ==
  ASSUME UNCHANGED <<args, launch>>
  PROVE  /\ key' = key /\ kernel' = kernel /\ rk' = rk /\ nrounds' = nrounds /\ launch' = launch
         /\ ArgsInv => ArgsInv'
         /\ \A th : Before(th)' = Before(th)
<1>1. key' = key /\ kernel' = kernel /\ rk' = rk /\ nrounds' = nrounds /\ launch' = launch
  BY DEF args
<1>2. ArgsInv => ArgsInv'
  BY <1>1 DEF ArgsInv, KeyFor
<1>3. ASSUME NEW th PROVE Before(th)' = Before(th)
  BY <1>1, Zenon DEF Before
<1> QED
  BY <1>1, <1>2, <1>3, Zenon

LEMMA InitInv == Init /\ key \in AesKeys => KernelInv
<1> SUFFICES ASSUME Init, key \in AesKeys PROVE KernelInv
  OBVIOUS
<1>1. ArgsInv
  BY DEF Init, ArgsInv
<1>2. nrounds \in Nat \ {0}
  BY <1>1, RoundsAre
<1>3. ThreadsInv
  <2>1. NoBlock \in Block
    BY DEF NoBlock, Four, Block, Word, Byte
  <2>2. 0 \in 0 .. nrounds + 1
    BY <1>2
  <2> QED
    BY <2>1, <2>2, TextType DEF Init, ThreadsInv
<1>4. ASSUME NEW th \in Thread PROVE BlockInv(th) /\ StateInv(th)
  <2>1. pc[th] = 0 /\ launch = 1 /\ text = Text
    BY DEF Init
  <2>2. pc[th] # nrounds + 1 /\ pc[th] \notin 1 .. nrounds
    BY <1>2, <2>1
  <2> QED
    BY <2>1, <2>2, Zenon DEF BlockInv, StateInv, Before
<1>5. RestInv
  BY Zenon DEF RestInv, Init
<1> QED
  BY <1>1, <1>3, <1>4, <1>5 DEF KernelInv

LEMMA LoadStep ==
  ASSUME KernelInv, NEW th \in Thread, Load(th, Input(kernel, OwnBlock(th), th))
  PROVE  KernelInv'
<1> DEFINE b == Input(kernel, Before(th), th)
<1>1. UNCHANGED <<args, launch>> /\ text' = text /\ pc[th] = 0
  BY DEF Load
<1>2. /\ key' = key /\ kernel' = kernel /\ rk' = rk /\ nrounds' = nrounds /\ launch' = launch
      /\ ArgsInv' /\ \A u : Before(u)' = Before(u)
  BY <1>1, BeforeStays DEF KernelInv
<1>3. nrounds \in Nat \ {0} /\ nrounds = Rounds[key] /\ key \in AesKeys /\ kernel \in Kernels
  BY RoundsAre DEF KernelInv, ArgsInv
<1>4. OwnBlock(th) = Before(th)
  <2>1. pc[th] # nrounds + 1
    BY <1>1, <1>3
  <2> QED
    BY <2>1, OwnBlockIs
<1>5. b \in Block
  BY BeforeType DEF KernelInv
<1>6. /\ pc' = [pc EXCEPT ![th] = 1]
      /\ state' = [state EXCEPT ![th] = XorBlock(b, Four(LAMBDA i : rk[i]))]
  BY <1>4, Zenon DEF Load
<1> HIDE DEF b
<1>7. XorBlock(b, Four(LAMBDA i : rk[i])) = Stages(key, kernel, b)[0] /\ Stages(key, kernel, b)[0] \in Block
  <2>1. Four(LAMBDA i : rk[i]) = RoundKey(rk, 0)
    BY DEF RoundKey, Four
  <2>2. 0 \in 0 .. Rounds[key] - 1
    BY <1>3
  <2>3. CASE kernel \in Decrypting
    <3>1. rk = DecKey[key]
      BY <2>3 DEF KernelInv, ArgsInv, KeyFor
    <3>2. DecryptKeys(key, kernel)[0] = RoundKey(rk, 0)
      BY <1>3, <3>1, DecryptKeysAre, Zenon
    <3>3. /\ Stages(key, kernel, b)[0] = XorBlock(b, DecryptKeys(key, kernel)[0])
          /\ \A r \in 0 .. Rounds[key] - 1 : Stages(key, kernel, b)[r] \in Block
      BY <1>3, <1>5, <2>3, DecStages, Zenon
    <3> QED
      BY <2>1, <2>2, <3>2, <3>3, Zenon
  <2>4. CASE kernel \notin Decrypting
    <3>1. rk = EncKey[key]
      BY <2>4 DEF KernelInv, ArgsInv, KeyFor
    <3>2. /\ Stages(key, kernel, b)[0] = XorBlock(b, RoundKey(EncKey[key], 0))
          /\ \A r \in 0 .. Rounds[key] - 1 : Stages(key, kernel, b)[r] \in Block
      BY <1>3, <1>5, <2>4, EncStages, Zenon
    <3> QED
      BY <2>1, <2>2, <3>1, <3>2, Zenon
  <2> QED
    BY <2>3, <2>4
<1>8. ThreadsInv'
  BY <1>1, <1>2, <1>3, <1>6, <1>7 DEF KernelInv, ThreadsInv
<1>9. ASSUME NEW u \in Thread PROVE BlockInv(u)' /\ StateInv(u)'
  <2>1. BlockInv(u) /\ StateInv(u) /\ pc \in [Thread -> 0 .. nrounds + 1] /\ state \in [Thread -> Block]
    BY DEF KernelInv, ThreadsInv
  <2>2. CASE u = th
    <3>1. pc'[u] = 1 /\ state'[u] = Stages(key, kernel, b)[0]
      BY <1>6, <1>7, <2>1, <2>2
    <3>2. 1 # nrounds + 1 /\ pc[u] # nrounds + 1 /\ 1 - 1 = 0
      BY <1>1, <1>3, <2>2
    <3>3. BlockInv(u)'
      BY <1>1, <1>2, <2>1, <3>1, <3>2, Zenon DEF BlockInv
    <3>4. StateInv(u)'
      BY <1>2, <2>2, <3>1, <3>2, Zenon DEF StateInv, b
    <3> QED
      BY <3>3, <3>4
  <2>3. CASE u # th
    <3>1. pc'[u] = pc[u] /\ state'[u] = state[u]
      BY <1>6, <2>1, <2>3
    <3>2. BlockInv(u)'
      BY <1>1, <1>2, <2>1, <3>1, Zenon DEF BlockInv
    <3>3. StateInv(u)'
      BY <1>2, <2>1, <3>1, Zenon DEF StateInv
    <3> QED
      BY <3>2, <3>3
  <2> QED
    BY <2>2, <2>3
<1>10. RestInv'
  BY <1>1, <1>2 DEF KernelInv, RestInv, BytesOf, Place
<1> QED
  BY <1>2, <1>8, <1>9, <1>10 DEF KernelInv

LEMMA RoundStep ==
  ASSUME KernelInv, NEW th \in Thread, Round(th, NextStage(th))
  PROVE  KernelInv'
<1> DEFINE b == Input(kernel, Before(th), th)
           n == nrounds
<1>1. UNCHANGED <<args, launch>> /\ text' = text /\ pc[th] \in 1 .. InnerRounds(n)
  BY DEF Round
<1>2. /\ key' = key /\ kernel' = kernel /\ rk' = rk /\ nrounds' = nrounds /\ launch' = launch
      /\ ArgsInv' /\ \A u : Before(u)' = Before(u)
  BY <1>1, BeforeStays DEF KernelInv
<1>3. n \in Nat \ {0} /\ n = Rounds[key] /\ key \in AesKeys /\ InnerRounds(n) = n - 1
  BY RoundsAre DEF KernelInv, ArgsInv
<1>4. pc[th] \in 1 .. n - 1 /\ pc[th] \in 0 .. n - 1 /\ pc[th] + 1 \in 0 .. n + 1 /\ pc[th] # n + 1
      /\ pc[th] + 1 # n + 1 /\ (pc[th] + 1) - 1 = pc[th]
  BY <1>1, <1>3
<1>5. b \in Block
  BY BeforeType DEF KernelInv
<1>6. NextStage(th) = Stages(key, kernel, b)[pc[th]]
  BY Zenon DEF NextStage
<1> HIDE DEF b
<1>7. NextStage(th) \in Block
  <2>1. \A r \in 0 .. Rounds[key] - 1 : Stages(key, kernel, b)[r] \in Block
    <3>1. CASE kernel \in Decrypting
      BY <1>3, <1>5, <3>1, DecStages, Zenon
    <3>2. CASE kernel \notin Decrypting
      BY <1>3, <1>5, <3>2, EncStages, Zenon
    <3> QED
      BY <3>1, <3>2, Zenon
  <2> QED
    BY <1>3, <1>4, <1>6, <2>1, Zenon
<1>8. pc' = [pc EXCEPT ![th] = @ + 1] /\ state' = [state EXCEPT ![th] = NextStage(th)]
  BY DEF Round
<1>9. ThreadsInv'
  BY <1>1, <1>2, <1>4, <1>7, <1>8 DEF KernelInv, ThreadsInv
<1>10. ASSUME NEW u \in Thread PROVE BlockInv(u)' /\ StateInv(u)'
  <2>1. BlockInv(u) /\ StateInv(u) /\ pc \in [Thread -> 0 .. nrounds + 1] /\ state \in [Thread -> Block]
    BY DEF KernelInv, ThreadsInv
  <2>2. CASE u = th
    <3>1. pc'[u] = pc[th] + 1 /\ state'[u] = Stages(key, kernel, b)[pc[th]]
      BY <1>6, <1>8, <2>1, <2>2
    <3>2. BlockInv(u)'
      BY <1>1, <1>2, <1>4, <2>1, <2>2, <3>1, Zenon DEF BlockInv
    <3>3. StateInv(u)'
      BY <1>2, <1>4, <2>2, <3>1, Zenon DEF StateInv, b
    <3> QED
      BY <3>2, <3>3
  <2>3. CASE u # th
    <3>1. pc'[u] = pc[u] /\ state'[u] = state[u]
      BY <1>8, <2>1, <2>3
    <3>2. BlockInv(u)'
      BY <1>1, <1>2, <2>1, <3>1, Zenon DEF BlockInv
    <3>3. StateInv(u)'
      BY <1>2, <2>1, <3>1, Zenon DEF StateInv
    <3> QED
      BY <3>2, <3>3
  <2> QED
    BY <2>2, <2>3
<1>11. RestInv'
  BY <1>1, <1>2 DEF KernelInv, RestInv, BytesOf, Place
<1> QED
  BY <1>2, <1>9, <1>10, <1>11 DEF KernelInv

LEMMA StoreStep ==
  ASSUME KernelInv, NEW th \in Thread, Store(th, Result(key, kernel, Before(th), th))
  PROVE  KernelInv'
<1> DEFINE R == Result(key, kernel, Before(th), th)
           p == Place(kernel, th)
           n == nrounds
<1>1. UNCHANGED <<args, launch>> /\ pc[th] = InnerRounds(n) + 1
  BY DEF Store
<1>2. /\ key' = key /\ kernel' = kernel /\ rk' = rk /\ nrounds' = nrounds /\ launch' = launch
      /\ ArgsInv' /\ \A u : Before(u)' = Before(u)
  BY <1>1, BeforeStays DEF KernelInv
<1>3. n \in Nat \ {0} /\ key \in AesKeys /\ InnerRounds(n) = n - 1 /\ Done = n + 1
  BY RoundsAre DEF KernelInv, ArgsInv
<1>4. R \in Block
  <2>1. Before(th) \in Block
    BY BeforeType DEF KernelInv
  <2> QED
    BY <1>3, <2>1, ResultType, Zenon
<1>5. /\ text' = PutBlock(text, p, R)
      /\ pc' = [pc EXCEPT ![th] = n + 1]
      /\ state' = [state EXCEPT ![th] = NoBlock]
  BY <1>3, AtIs, Zenon DEF Store
<1> HIDE DEF R
<1>6. text \in Packet /\ Inside(p)
  BY PlacesInside DEF KernelInv, ThreadsInv
<1>7. /\ text' \in Packet /\ GetBlock(text', p) = R
      /\ \A q \in 0 .. Length - 1 : q \notin p .. p + 15 => text'[q] = text[q]
  BY <1>4, <1>5, <1>6, PutBlockIs, ZenonT(60)
<1>8. ThreadsInv'
  <2>1. NoBlock \in Block
    BY DEF NoBlock, Four, Block, Word, Byte
  <2>2. n + 1 \in 0 .. n + 1
    BY <1>3
  <2> QED
    BY <1>2, <1>5, <1>7, <2>1, <2>2 DEF KernelInv, ThreadsInv
<1>9. ASSUME NEW u \in Thread PROVE BlockInv(u)' /\ StateInv(u)'
  <2>1. BlockInv(u) /\ StateInv(u) /\ pc \in [Thread -> 0 .. nrounds + 1] /\ state \in [Thread -> Block]
    BY DEF KernelInv, ThreadsInv
  <2>2. CASE u = th
    <3>1. pc'[u] = n + 1
      BY <1>5, <2>1, <2>2
    <3>2. n + 1 \notin 1 .. n
      BY <1>3
    <3>3. BlockInv(u)'
      BY <1>2, <1>7, <2>2, <3>1, Zenon DEF BlockInv, R
    <3>4. StateInv(u)'
      BY <1>2, <3>1, <3>2, Zenon DEF StateInv
    <3> QED
      BY <3>3, <3>4
  <2>3. CASE u # th
    <3>1. pc'[u] = pc[u] /\ state'[u] = state[u]
      BY <1>5, <2>1, <2>3
    <3>2. GetBlock(text', Place(kernel, u)) = GetBlock(text, Place(kernel, u))
      <4>1. /\ Inside(Place(kernel, u))
            /\ \A q \in BytesOf(kernel, u) : q \in 0 .. Length - 1 /\ q \notin BytesOf(kernel, th)
        BY <2>3, PlacesInside, Zenon
      <4>2. \A q \in Place(kernel, u) .. Place(kernel, u) + 15 : text'[q] = text[q]
        BY <1>7, <4>1, Zenon DEF BytesOf
      <4> QED
        BY <1>6, <1>7, <4>1, <4>2, BlocksAgree
    <3>3. BlockInv(u)'
      BY <1>2, <2>1, <3>1, <3>2, Zenon DEF BlockInv
    <3>4. StateInv(u)'
      BY <1>2, <2>1, <3>1, Zenon DEF StateInv
    <3> QED
      BY <3>3, <3>4
  <2> QED
    BY <2>2, <2>3
<1>10. RestInv'
  <2> SUFFICES ASSUME NEW q \in 0 .. Length - 1, \A u \in Thread : q \notin BytesOf(kernel, u)
               PROVE  text'[q] = Text[q]
    BY <1>2 DEF RestInv, BytesOf, Place
  <2>1. q \notin p .. p + 15
    BY DEF BytesOf
  <2>2. text[q] = Text[q]
    BY DEF KernelInv, RestInv
  <2> QED
    BY <1>7, <2>1, <2>2, Zenon
<1> QED
  BY <1>2, <1>8, <1>9, <1>10 DEF KernelInv

LEMMA RelaunchStep ==
  ASSUME KernelInv, Relaunch
  PROVE  KernelInv'
<1> DEFINE f == Undo[kernel]
<1>1. /\ launch = 1 /\ launch' = 2 /\ kernel' = f /\ pc' = [th \in Thread |-> 0]
      /\ key' = key /\ nrounds' = nrounds /\ text' = text /\ state' = state
      /\ \A th \in Thread : pc[th] = nrounds + 1
  BY RoundsAre DEF Relaunch, KernelInv
<1>2. nrounds \in Nat \ {0} /\ key \in AesKeys /\ kernel \in Kernels
  BY RoundsAre DEF KernelInv, ArgsInv
<1>3. f \in Kernels /\ Undo[f] = kernel /\ (f \in FourLanes <=> kernel \in FourLanes)
  BY <1>2, Undone
<1>4. \A th \in Thread : Place(f, th) = Place(kernel, th) /\ BytesOf(f, th) = BytesOf(kernel, th)
  BY <1>3 DEF Place, BytesOf
<1> HIDE DEF f
<1>5. ArgsInv'
  <2>1. rk' = KeyFor(kernel')
    BY DEF Relaunch
  <2>2. rk' = KeyFor(kernel)'
    BY <1>1, <2>1 DEF KeyFor
  <2> QED
    BY <1>1, <1>3, <2>2 DEF KernelInv, ArgsInv
<1>6. ThreadsInv'
  <2>1. 0 \in 0 .. nrounds + 1
    BY <1>2
  <2> QED
    BY <1>1, <2>1 DEF KernelInv, ThreadsInv
<1>7. ASSUME NEW th \in Thread PROVE BlockInv(th)' /\ StateInv(th)'
  <2>1. pc'[th] = 0 /\ 0 # nrounds + 1 /\ 0 \notin 1 .. nrounds /\ launch' # 1
    BY <1>1, <1>2
  <2>2. GetBlock(text, Place(kernel, th)) = Result(key, kernel, Before(th), th)
    BY <1>1, Zenon DEF KernelInv, BlockInv
  <2>3. Before(th) = GetBlock(Text, Place(kernel, th))
    BY <1>1, Zenon DEF Before
  <2>4. Before(th)' = Result(key, kernel, GetBlock(Text, Place(kernel, th)), th)
    BY <1>1, <1>3, <1>4, <2>1, Zenon DEF Before
  <2>5. BlockInv(th)'
    BY <1>1, <1>4, <2>1, <2>2, <2>3, <2>4, Zenon DEF BlockInv
  <2>6. StateInv(th)'
    BY <1>1, <2>1, Zenon DEF StateInv
  <2> QED
    BY <2>5, <2>6
<1>8. RestInv'
  <2> SUFFICES ASSUME NEW q \in 0 .. Length - 1, \A th \in Thread : q \notin BytesOf(f, th)
               PROVE  text[q] = Text[q]
    BY <1>1 DEF RestInv, BytesOf, Place
  <2> QED
    BY <1>4 DEF KernelInv, RestInv
<1> QED
  BY <1>5, <1>6, <1>7, <1>8 DEF KernelInv

\* With a key of AES the kernels keep the invariant: each thread holds the
\* state of the cipher that its position says, its block is the one the launch
\* found or what the kernel makes of it, and no other byte has changed.
THEOREM KernelsFollowCipher == Spec => [](key \in AesKeys => KernelInv)
<1>1. Init => (key \in AesKeys => KernelInv)
  BY InitInv
<1>2. KernelInv /\ [Next]_vars => KernelInv'
  <2> SUFFICES ASSUME KernelInv, [Next]_vars PROVE KernelInv'
    OBVIOUS
  <2>1. CASE \E th \in Thread : ThreadStep(th)
    <3>1. PICK th \in Thread : ThreadStep(th)
      BY <2>1
    <3>2. CipherStep(th)
      BY <3>1, KernelSteps
    <3> QED
      BY <3>2, LoadStep, RoundStep, StoreStep, Zenon DEF CipherStep
  <2>2. CASE Relaunch
    BY <2>2, RelaunchStep
  <2>3. CASE UNCHANGED vars
    <3>1. UNCHANGED <<args, launch>> /\ text' = text /\ pc' = pc /\ state' = state
      BY <2>3 DEF vars
    <3>2. /\ key' = key /\ kernel' = kernel /\ nrounds' = nrounds /\ ArgsInv'
          /\ \A th : Before(th)' = Before(th)
      BY <3>1, BeforeStays DEF KernelInv
    <3>3. ThreadsInv'
      BY <3>1, <3>2 DEF KernelInv, ThreadsInv
    <3>4. ASSUME NEW th \in Thread PROVE BlockInv(th)' /\ StateInv(th)'
      <4>1. BlockInv(th)'
        BY <3>1, <3>2, Zenon DEF KernelInv, BlockInv
      <4>2. StateInv(th)'
        BY <3>1, <3>2, Zenon DEF KernelInv, StateInv
      <4> QED
        BY <4>1, <4>2
    <3>5. RestInv'
      BY <3>1, <3>2 DEF KernelInv, RestInv, BytesOf, Place
    <3> QED
      BY <3>2, <3>3, <3>4, <3>5 DEF KernelInv
  <2> QED
    BY <2>1, <2>2, <2>3, Zenon DEF Next, ThreadStep
<1>3. [Next]_vars => key' = key
  BY DEF Next, vars, args, Relaunch, aes_encrypt_bpt, aes_decrypt_bpt, aes_encrypt_bp4t,
     aes_decrypt_bp4t, aes_ctr_crypt, aes_lctr_crypt, xts_encrypt, xts_decrypt, Encrypt,
     CounterMode, Load, Round, Store
<1>4. (key \in AesKeys => KernelInv) /\ [Next]_vars => (key \in AesKeys => KernelInv)'
  BY <1>2, <1>3, Zenon
<1> QED
  BY <1>1, <1>4, PTL DEF Spec

-----------------------------------------------------------------------------
(***************************************************************************)
(* The properties.                                                         *)
(***************************************************************************)

\* What OnlyOwnBlock needs to be kept: the packet keeps its bytes' places, and
\* the two launches place their blocks alike.
OwnInv ==
  /\ kernel \in Kernels /\ launch \in {1, 2}
  /\ DOMAIN text = DOMAIN Text /\ DOMAIN pc = Thread
  /\ OnlyOwnBlock

\* A step of a thread, whatever key and rounds it was given: it does not store,
\* or it ends and stores its own block.
LEMMA ThreadStepIs ==
  ASSUME NEW th \in Thread, ThreadStep(th)
  PROVE  /\ UNCHANGED <<args, launch>>
         /\ pc[th] # Done
         /\ \/ text' = text /\ \E n : pc' = [pc EXCEPT ![th] = n]
            \/ pc' = [pc EXCEPT ![th] = Done] /\ \E b : text' = PutBlock(text, At(th), b)
<1>1. PICK b : \/ Load(th, b) \/ Round(th, b) \/ Store(th, b)
  BY DEF ThreadStep, aes_encrypt_bpt, aes_decrypt_bpt, aes_encrypt_bp4t, aes_decrypt_bp4t,
     aes_ctr_crypt, aes_lctr_crypt, xts_encrypt, xts_decrypt, Encrypt, CounterMode
<1>2. InnerRounds(nrounds) \in {9, 11, 13}
  BY DEF InnerRounds
<1>3. pc[th] # Done
  BY <1>1, <1>2 DEF Load, Round, Store, Done
<1> QED
  BY <1>1, <1>3, Zenon DEF Load, Round, Store

\* No byte outside the blocks of the ended threads changes, whatever the
\* length of the packet, the order of the threads, the key and the number of
\* rounds it is passed with.
THEOREM OnlyOwnBlocks == Spec => []OnlyOwnBlock
<1>1. Init => OwnInv
  BY DEF Init, OwnInv, OnlyOwnBlock
<1>2. OwnInv /\ [Next]_vars => OwnInv'
  <2> SUFFICES ASSUME OwnInv, [Next]_vars PROVE OwnInv'
    OBVIOUS
  <2> DEFINE first == IF kernel \in FourLanes THEN 0 ELSE Header
             thread(q) == (q - first) \div 16
             Ended(q) == thread(q) \in Thread /\ (launch = 2 \/ pc[thread(q)] = Done)
  <2>0. \A q \in DOMAIN Text : text[q] # Text[q] => Ended(q)
    BY Zenon DEF OwnInv, OnlyOwnBlock
  <2>1. ASSUME NEW th \in Thread, ThreadStep(th) PROVE OwnInv'
    <3>1. UNCHANGED <<kernel, nrounds, launch>> /\ pc[th] # Done /\ Done' = Done
      BY <2>1, ThreadStepIs DEF args, Done
    <3>2. first' = first /\ \A q : thread(q)' = thread(q)
      BY <3>1
    <3>3. DOMAIN text' = DOMAIN Text /\ DOMAIN pc' = Thread
      BY <2>1, ThreadStepIs, Zenon DEF OwnInv, PutBlock
    <3>4. ASSUME NEW u \in Thread, pc[u] = Done PROVE pc'[u] = Done
      BY <2>1, <3>1, <3>4, ThreadStepIs, Zenon DEF OwnInv
    <3>5. ASSUME NEW q \in DOMAIN Text, text'[q] # Text[q]
          PROVE  thread(q) \in Thread /\ (launch = 2 \/ pc'[thread(q)] = Done)
      <4>1. CASE text'[q] = text[q]
        <5>1. Ended(q)
          BY <2>0, <3>5, <4>1
        <5> HIDE DEF thread
        <5> QED
          BY <3>4, <5>1, Zenon
      <4>2. CASE text'[q] # text[q]
        <5>1. PICK b : text' = PutBlock(text, At(th), b) /\ pc' = [pc EXCEPT ![th] = Done]
          BY <2>1, <4>2, ThreadStepIs, Zenon
        <5>2. q \in At(th) .. At(th) + 15
          BY <4>2, <5>1, Zenon DEF PutBlock, OwnInv
        <5>3. th \in Nat /\ first \in Nat /\ At(th) = first + 16 * th
          BY CipherAssumption DEF Thread, At, Header
        <5>4. q \in Nat
          BY CipherAssumption
        <5>5. thread(q) = th
          <6> HIDE DEF first
          <6>1. q - first \in 16 * th .. 16 * th + 15
            BY <5>2, <5>3, <5>4
          <6> QED
            BY <5>3, <6>1
        <5>6. pc'[th] = Done
          BY <5>1, Zenon DEF OwnInv
        <5> HIDE DEF thread
        <5> QED
          BY <5>5, <5>6
      <4> QED
        BY <4>1, <4>2
    <3>6. OnlyOwnBlock'
      <4> HIDE DEF first, thread
      <4>1. \A q \in DOMAIN Text : text'[q] # Text[q] =>
              thread(q)' \in Thread /\ (launch' = 2 \/ pc'[thread(q)'] = Done')
        BY <3>1, <3>2, <3>5, Zenon
      <4> QED
        BY <4>1, Zenon DEF OnlyOwnBlock, first, thread
    <3> QED
      BY <3>1, <3>3, <3>6 DEF OwnInv
  <2>2. CASE Relaunch
    <3>1. /\ launch' = 2 /\ text' = text /\ kernel' = Undo[kernel] /\ DOMAIN pc' = Thread
      BY <2>2 DEF Relaunch
    <3>2. kernel' \in Kernels /\ (kernel \in FourLanes <=> kernel' \in FourLanes)
      BY <3>1, Undone DEF OwnInv
    <3>3. first' = first /\ \A q : thread(q)' = thread(q)
      BY <3>2
    <3>4. OnlyOwnBlock'
      <4> HIDE DEF first, thread
      <4>1. \A q \in DOMAIN Text : text'[q] # Text[q] => thread(q)' \in Thread /\ launch' = 2
        BY <2>0, <3>1, <3>3, Zenon
      <4> QED
        BY <4>1, Zenon DEF OnlyOwnBlock, first, thread
    <3> QED
      BY <3>1, <3>2, <3>4 DEF OwnInv
  <2>3. CASE UNCHANGED vars
    BY <2>3, Zenon DEF vars, args, OwnInv, OnlyOwnBlock, Done
  <2> QED
    BY <2>1, <2>2, <2>3, Zenon DEF Next, ThreadStep
<1>3. OwnInv => OnlyOwnBlock
  BY DEF OwnInv
<1> QED
  BY <1>1, <1>2, <1>3, PTL DEF Spec

\* A kernel and then its inverse leave the packet as it was: for every
\* packet, key of AES, counter and tweak.
THEOREM InverseRestoresPacket == Spec => []RoundTrip
<1>1. (key \in AesKeys => KernelInv) => RoundTrip
  <2> SUFFICES ASSUME KernelInv, launch = 2, KeyFits, \A th \in Thread : pc[th] = Done
               PROVE  text = Text
    BY DEF RoundTrip
  <2>1. key \in AesKeys /\ kernel \in Kernels /\ Done = nrounds + 1 /\ launch # 1 /\ text \in Packet
    BY RoundsAre DEF KernelInv, ArgsInv, ThreadsInv
  <2>2. kernel \in FourLanes => SameWords(key)
    BY Zenon DEF KeyFits, SameWords
  <2>3. ASSUME NEW q \in 0 .. Length - 1 PROVE text[q] = Text[q]
    <3>1. CASE \A th \in Thread : q \notin BytesOf(kernel, th)
      BY <3>1, Zenon DEF KernelInv, RestInv
    <3>2. ASSUME NEW th \in Thread, q \in BytesOf(kernel, th) PROVE text[q] = Text[q]
      <4> DEFINE old == GetBlock(Text, Place(kernel, th))
      <4>1. Inside(Place(kernel, th)) /\ old \in Block
        BY PlacesInside, TextType, GetBlockType
      <4>2. GetBlock(text, Place(kernel, th))
              = Result(key, kernel, Result(key, Undo[kernel], old, th), th)
        BY <2>1, Zenon DEF KernelInv, BlockInv, Before
      <4> HIDE DEF old
      <4>3. Result(key, kernel, Result(key, Undo[kernel], old, th), th) = old
        BY <2>1, <2>2, <4>1, ResultUndone, ZenonT(60)
      <4>4. GetBlock(text, Place(kernel, th)) = GetBlock(Text, Place(kernel, th))
        BY <4>2, <4>3, Zenon DEF old
      <4>5. \A o \in BytesOf(kernel, th) : text[o] = Text[o]
        BY <2>1, <4>1, <4>4, TextType, BlocksAgree DEF BytesOf
      <4> QED
        BY <3>2, <4>5
    <3> QED
      BY <3>1, <3>2
  <2>4. /\ text = [q \in 0 .. Length - 1 |-> text[q]]
        /\ Text = [q \in 0 .. Length - 1 |-> Text[q]]
    BY <2>1, TextType DEF Packet
  <2>5. [q \in 0 .. Length - 1 |-> text[q]] = [q \in 0 .. Length - 1 |-> Text[q]]
    BY <2>3, Zenon
  <2> QED
    BY <2>4, <2>5, Zenon
<1> QED
  BY <1>1, KernelsFollowCipher, PTL

\* The result of a kernel is what AES makes of the block, in each mode.
LEMMA ResultIsAes ==
  ASSUME NEW k \in AesKeys, NEW f \in Kernels, f = "aes_decrypt_bp4t" => SameWords(k),
         f \in CounterModes => CounterFits,
         NEW old \in Block, NEW th \in Thread, NEW new, new = Result(k, f, old, th)
  PROVE  LET n == Rounds[k]
             C(x) == Cipher(x, EncKey[k], n)
         IN  /\ f \in {"aes_encrypt_bpt", "aes_encrypt_bp4t"} => C(old) = new
             /\ f \in {"aes_decrypt_bpt", "aes_decrypt_bp4t"} => C(new) = old
             /\ f \in CounterModes => C(GetBlock(CounterBlocks[th], 0)) = XorBlock(old, new)
             /\ f = "xts_encrypt" => C(XorBlock(Ivs[th], old)) = XorBlock(Ivs[th], new)
             /\ f = "xts_decrypt" => C(XorBlock(Ivs[th], new)) = XorBlock(Ivs[th], old)
<1> DEFINE n == Rounds[k]
           ek == EncKey[k]
           ks == DecryptKeys(k, f)
           iv == Ivs[th]
<1>1. n \in Nat \ {0} /\ ek \in Expanded(n)
  BY KeyFacts
<1>2. InverseKeys(ks, ek, n)
  BY KeysAreInverse, Zenon
<1>3. /\ iv \in Block /\ Counter(th) \in Block
      /\ f \in CounterModes => Counter(th) = GetBlock(CounterBlocks[th], 0)
  BY IvType, CounterType, CounterIs
<1>4. XorBlock(iv, old) \in Block /\ XorBlock(iv, XorBlock(iv, old)) = old
  BY <1>3, XorBlockType, XorBlockUndone
<1>5. /\ "aes_encrypt_bpt" \notin Decrypting /\ "aes_encrypt_bp4t" \notin Decrypting
      /\ "xts_encrypt" \notin Decrypting /\ "xts_decrypt" \in Decrypting
      /\ "aes_decrypt_bpt" \in Decrypting /\ "aes_decrypt_bp4t" \in Decrypting
      /\ \A g \in CounterModes : g \notin Decrypting
  BY DEF Decrypting, CounterModes
<1>6. /\ "aes_encrypt_bpt" \notin CounterModes /\ "aes_encrypt_bp4t" \notin CounterModes
      /\ "aes_decrypt_bpt" \notin CounterModes /\ "aes_decrypt_bp4t" \notin CounterModes
      /\ "xts_encrypt" \notin CounterModes /\ "xts_decrypt" \notin CounterModes
      /\ "xts_encrypt" \in Tweaked /\ "xts_decrypt" \in Tweaked
      /\ "aes_encrypt_bpt" \notin Tweaked /\ "aes_encrypt_bp4t" \notin Tweaked
      /\ "aes_decrypt_bpt" \notin Tweaked /\ "aes_decrypt_bp4t" \notin Tweaked
  BY DEF CounterModes, Tweaked
<1>7. \A x \in Block : Cipher(x, ek, n) \in Block
  BY <1>1, <1>2, DecipherUndoesCipher
<1>8. \A x \in Block : Decipher(x, ks, n) \in Block /\ Cipher(Decipher(x, ks, n), ek, n) = x
  BY <1>1, <1>2, CipherUndoesDecipher
<1>9. ASSUME f \notin CounterModes, f \notin Tweaked, f \notin Decrypting
      PROVE  new = Cipher(old, ek, n)
  BY <1>9, Zenon DEF Result, Output, Input, Aes
<1>10. ASSUME f \notin CounterModes, f \notin Tweaked, f \in Decrypting
       PROVE  new = Decipher(old, ks, n)
  BY <1>10, Zenon DEF Result, Output, Input, Aes
<1>11. ASSUME f \in CounterModes
       PROVE  new = XorBlock(old, Cipher(Counter(th), ek, n))
  BY <1>5, <1>11, Zenon DEF Result, Output, Input, Aes
<1>12. ASSUME f \notin CounterModes, f \in Tweaked, f \notin Decrypting
       PROVE  new = XorBlock(iv, Cipher(XorBlock(iv, old), ek, n))
  BY <1>12, Zenon DEF Result, Output, Input, Aes
<1>13. ASSUME f \notin CounterModes, f \in Tweaked, f \in Decrypting
       PROVE  new = XorBlock(iv, Decipher(XorBlock(iv, old), ks, n))
  BY <1>13, Zenon DEF Result, Output, Input, Aes
<1> HIDE DEF n, ek, ks, iv
<1>14. f \in {"aes_encrypt_bpt", "aes_encrypt_bp4t"} => Cipher(old, ek, n) = new
  BY <1>5, <1>6, <1>9
<1>15. f \in {"aes_decrypt_bpt", "aes_decrypt_bp4t"} => Cipher(new, ek, n) = old
  BY <1>5, <1>6, <1>8, <1>10
<1>16. f \in CounterModes => Cipher(GetBlock(CounterBlocks[th], 0), ek, n) = XorBlock(old, new)
  BY <1>3, <1>7, <1>11, XorBlockUndone
<1>17. f = "xts_encrypt" => Cipher(XorBlock(iv, old), ek, n) = XorBlock(iv, new)
  BY <1>3, <1>4, <1>5, <1>6, <1>7, <1>12, XorBlockUndone
<1>18. f = "xts_decrypt" => Cipher(XorBlock(iv, new), ek, n) = XorBlock(iv, old)
  BY <1>3, <1>4, <1>5, <1>6, <1>8, <1>13, XorBlockUndone
<1> QED
  BY <1>14, <1>15, <1>16, <1>17, <1>18, Zenon DEF n, ek, iv

\* With a key of AES, and in the counter modes with a counter whose upper half
\* is 0, the kernels other than aes_decrypt_bp4t compute AES: a thread that has
\* ended has put into its block what the cipher of FIPS 197 makes of the block
\* that was there, in the mode of the kernel, whatever the other threads did.
THEOREM KernelsAlwaysComputeAes == Spec => []KernelsComputeAes
<1>1. (key \in AesKeys => KernelInv) => KernelsComputeAes
  <2> SUFFICES ASSUME KernelInv, launch = 1, kernel # "aes_decrypt_bp4t",
                      kernel \in {"aes_ctr_crypt", "aes_lctr_crypt"} => CounterFits,
                      NEW th \in Thread, pc[th] = Done
               PROVE  LET old == GetBlock(Text, At(th))
                          new == OwnBlock(th)
                          ends ==
                            CASE kernel \in {"aes_encrypt_bpt", "aes_encrypt_bp4t"} -> <<old, new>>
                              [] kernel = "aes_decrypt_bpt" -> <<new, old>>
                              [] kernel \in {"aes_ctr_crypt", "aes_lctr_crypt"} ->
                                   <<GetBlock(CounterBlocks[th], 0), XorBlock(old, new)>>
                              [] kernel = "xts_encrypt" -> <<XorBlock(Ivs[th], old), XorBlock(Ivs[th], new)>>
                              [] kernel = "xts_decrypt" -> <<XorBlock(Ivs[th], new), XorBlock(Ivs[th], old)>>
                      IN  Cipher(ends[1], EncKey[key], nrounds) = ends[2]
    BY DEF KernelsComputeAes
  <2> DEFINE old == GetBlock(Text, At(th))
             new == OwnBlock(th)
             n == nrounds
             C(x) == Cipher(x, EncKey[key], n)
  <2>1. key \in AesKeys /\ kernel \in Kernels /\ Done = n + 1 /\ n = Rounds[key]
    BY RoundsAre DEF KernelInv, ArgsInv
  <2>2. old \in Block /\ old = GetBlock(Text, Place(kernel, th))
    BY AtIs, PlacesInside, TextType, GetBlockType
  <2>3. new = Result(key, kernel, old, th)
    BY <2>1, <2>2, AtIs, Zenon DEF KernelInv, BlockInv, Before, OwnBlock
  <2>4. kernel \in CounterModes => CounterFits
    BY DEF CounterModes
  <2> HIDE DEF old, new
  <2>5. /\ kernel \in {"aes_encrypt_bpt", "aes_encrypt_bp4t"} => C(old) = new
        /\ kernel = "aes_decrypt_bpt" => C(new) = old
        /\ kernel \in CounterModes => C(GetBlock(CounterBlocks[th], 0)) = XorBlock(old, new)
        /\ kernel = "xts_encrypt" => C(XorBlock(Ivs[th], old)) = XorBlock(Ivs[th], new)
        /\ kernel = "xts_decrypt" => C(XorBlock(Ivs[th], new)) = XorBlock(Ivs[th], old)
    BY <2>1, <2>2, <2>3, <2>4, ResultIsAes
  <2> DEFINE ends ==
               CASE kernel \in {"aes_encrypt_bpt", "aes_encrypt_bp4t"} -> <<old, new>>
                 [] kernel = "aes_decrypt_bpt" -> <<new, old>>
                 [] kernel \in {"aes_ctr_crypt", "aes_lctr_crypt"} ->
                      <<GetBlock(CounterBlocks[th], 0), XorBlock(old, new)>>
                 [] kernel = "xts_encrypt" -> <<XorBlock(Ivs[th], old), XorBlock(Ivs[th], new)>>
                 [] kernel = "xts_decrypt" -> <<XorBlock(Ivs[th], new), XorBlock(Ivs[th], old)>>
  <2>6. /\ kernel \in {"aes_encrypt_bpt", "aes_encrypt_bp4t"} => ends[1] = old /\ ends[2] = new
        /\ kernel = "aes_decrypt_bpt" => ends[1] = new /\ ends[2] = old
        /\ kernel \in CounterModes =>
             ends[1] = GetBlock(CounterBlocks[th], 0) /\ ends[2] = XorBlock(old, new)
        /\ kernel = "xts_encrypt" =>
             ends[1] = XorBlock(Ivs[th], old) /\ ends[2] = XorBlock(Ivs[th], new)
        /\ kernel = "xts_decrypt" =>
             ends[1] = XorBlock(Ivs[th], new) /\ ends[2] = XorBlock(Ivs[th], old)
    BY DEF CounterModes
  <2>7. \/ kernel \in {"aes_encrypt_bpt", "aes_encrypt_bp4t"}
        \/ kernel = "aes_decrypt_bpt"
        \/ kernel \in CounterModes
        \/ kernel = "xts_encrypt" \/ kernel = "xts_decrypt"
    BY <2>1, KernelsAre DEF CounterModes
  <2> HIDE DEF ends
  <2>8. C(ends[1]) = ends[2]
    BY <2>5, <2>6, <2>7, Zenon
  <2> QED
    BY <2>8 DEF ends, old, new
<1> QED
  BY <1>1, KernelsFollowCipher, PTL

=============================================================================
