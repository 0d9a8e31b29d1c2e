----------------------------- MODULE AesProofs -----------------------------
(***************************************************************************)
(* AES as the reference defines it, and the cipher that undoes it.  The    *)
(* proofs are about all keys and blocks; what they use of single bytes is  *)
(* in AesFacts.                                                            *)
(***************************************************************************)
EXTENDS AesFacts, WellFoundedInduction, TLAPS

(***************************************************************************)
(* Exclusive or.                                                           *)
(***************************************************************************)
LEMMA Halves == \A a \in Byte : \E h, l \in Half : a = 16 * h + l
<1> SUFFICES ASSUME NEW a \in Byte PROVE \E h, l \in Half : a = 16 * h + l
  OBVIOUS
<1> DEFINE h == a \div 16
           l == a - 16 * h
<1>1. a \in Nat /\ a <= 255
  BY DEF Byte
<1>2. l \in Half /\ h \in Half
  BY <1>1 DEF Half
<1>3. a = 16 * h + l
  BY <1>1, <1>2 DEF Half
<1> QED
  BY <1>2, <1>3, Zenon

LEMMA FromHalves == \A h, l \in Half : 16 * h + l \in Byte
BY DEF Half, Byte

LEMMA XorCommutative == \A a, b \in Byte : XorByte(a, b) = XorByte(b, a)
BY XorFacts

LEMMA HalfType == \A h, l \in Half : XorByte(h, l) \in Half
BY XorFacts

LEMMA HalfAssociative ==
  \A h, l, k \in Half : XorByte(XorByte(h, l), k) = XorByte(h, XorByte(l, k))
BY XorFacts

LEMMA XorHalves ==
  ASSUME NEW a, NEW b,
         NEW h \in Half, NEW l \in Half, NEW g \in Half, NEW k \in Half,
         a = 16 * h + l, b = 16 * g + k
  PROVE  XorByte(a, b) = 16 * XorByte(h, g) + XorByte(l, k)
BY XorFacts

LEMMA XorType == \A a, b \in Byte : XorByte(a, b) \in Byte
<1> SUFFICES ASSUME NEW a \in Byte, NEW b \in Byte PROVE XorByte(a, b) \in Byte
  OBVIOUS
<1>1. PICK h \in Half, l \in Half : a = 16 * h + l
  BY Halves, Zenon
<1>2. PICK g \in Half, k \in Half : b = 16 * g + k
  BY Halves, Zenon
<1>3. XorByte(a, b) = 16 * XorByte(h, g) + XorByte(l, k)
  BY <1>1, <1>2, XorHalves
<1>4. XorByte(h, g) \in Half /\ XorByte(l, k) \in Half
  BY HalfType
<1> QED
  BY <1>3, <1>4, FromHalves, Zenon

LEMMA XorAssociative ==
  ASSUME NEW a \in Byte, NEW b \in Byte, NEW c \in Byte
  PROVE  XorByte(XorByte(a, b), c) = XorByte(a, XorByte(b, c))
<1>1. PICK h \in Half, l \in Half : a = 16 * h + l
  BY Halves, Zenon
<1>2. PICK g \in Half, k \in Half : b = 16 * g + k
  BY Halves, Zenon
<1>3. PICK i \in Half, j \in Half : c = 16 * i + j
  BY Halves, Zenon
<1>4. /\ XorByte(h, g) \in Half /\ XorByte(l, k) \in Half
      /\ XorByte(g, i) \in Half /\ XorByte(k, j) \in Half
  BY HalfType
<1>5. XorByte(a, b) = 16 * XorByte(h, g) + XorByte(l, k)
  BY <1>1, <1>2, XorHalves
<1>6. XorByte(XorByte(a, b), c) = 16 * XorByte(XorByte(h, g), i) + XorByte(XorByte(l, k), j)
  BY <1>3, <1>4, <1>5, XorHalves
<1>7. XorByte(b, c) = 16 * XorByte(g, i) + XorByte(k, j)
  BY <1>2, <1>3, XorHalves
<1>8. XorByte(a, XorByte(b, c)) = 16 * XorByte(h, XorByte(g, i)) + XorByte(l, XorByte(k, j))
  BY <1>1, <1>4, <1>7, XorHalves
<1>9. /\ XorByte(XorByte(h, g), i) = XorByte(h, XorByte(g, i))
      /\ XorByte(XorByte(l, k), j) = XorByte(l, XorByte(k, j))
  BY HalfAssociative
<1> QED
  BY <1>6, <1>8, <1>9, Zenon

LEMMA XorZero == 0 \in Byte /\ \A a \in Byte : XorByte(a, 0) = a /\ XorByte(0, a) = a /\ XorByte(a, a) = 0
<1>1. 0 \in Byte
  BY DEF Byte
<1> QED
  BY <1>1, XorFacts

LEMMA XorUndone ==
  \A a, b \in Byte : XorByte(XorByte(a, b), b) = a /\ XorByte(a, XorByte(a, b)) = b
<1> SUFFICES ASSUME NEW a \in Byte, NEW b \in Byte
             PROVE  XorByte(XorByte(a, b), b) = a /\ XorByte(a, XorByte(a, b)) = b
  OBVIOUS
<1>1. XorByte(XorByte(a, b), b) = XorByte(a, XorByte(b, b))
  BY XorAssociative
<1>2. XorByte(XorByte(a, a), b) = XorByte(a, XorByte(a, b))
  BY XorAssociative
<1> QED
  BY <1>1, <1>2, XorZero

\* The two middle ones of four change places.
LEMMA XorMedial ==
  ASSUME NEW a \in Byte, NEW b \in Byte, NEW c \in Byte, NEW d \in Byte
  PROVE  XorBytes(a, b, c, d) = XorBytes(a, c, b, d)
<1>1. XorByte(XorByte(a, b), XorByte(c, d)) = XorByte(a, XorByte(b, XorByte(c, d)))
  BY XorAssociative, XorType
<1>2. XorByte(b, XorByte(c, d)) = XorByte(XorByte(b, c), d)
  BY XorAssociative
<1>3. XorByte(b, c) = XorByte(c, b)
  BY XorCommutative
<1>4. XorByte(XorByte(c, b), d) = XorByte(c, XorByte(b, d))
  BY XorAssociative
<1>5. XorByte(a, XorByte(c, XorByte(b, d))) = XorByte(XorByte(a, c), XorByte(b, d))
  BY XorAssociative, XorType
<1> QED
  BY <1>1, <1>2, <1>3, <1>4, <1>5 DEF XorBytes

LEMMA XorBytesType ==
  \A a, b, c, d \in Byte : XorBytes(a, b, c, d) \in Byte
BY XorType DEF XorBytes

LEMMA XorWordType == \A v, w \in Word : XorWord(v, w) \in Word
BY XorType DEF XorWord, Four, Word

\* The bytes of a word, summed up.
Total(w) == XorBytes(w[1], w[2], w[3], w[4])

\* The sum of two sums is the sum of the sums by place.
LEMMA XorPairs ==
  ASSUME NEW a \in Word, NEW b \in Word
  PROVE  XorByte(Total(a), Total(b)) = Total(XorWord(a, b))
<1> DEFINE a12 == XorByte(a[1], a[2])
           a34 == XorByte(a[3], a[4])
           b12 == XorByte(b[1], b[2])
           b34 == XorByte(b[3], b[4])
           c == XorWord(a, b)
<1>0. /\ a[1] \in Byte /\ a[2] \in Byte /\ a[3] \in Byte /\ a[4] \in Byte
      /\ b[1] \in Byte /\ b[2] \in Byte /\ b[3] \in Byte /\ b[4] \in Byte
  BY DEF Word
<1>1. a12 \in Byte /\ a34 \in Byte /\ b12 \in Byte /\ b34 \in Byte
  BY <1>0, XorType
<1>2. XorBytes(a12, a34, b12, b34) = XorBytes(a12, b12, a34, b34)
  BY <1>1, XorMedial, ZenonT(60)
<1>3. XorBytes(a[1], a[2], b[1], b[2]) = XorBytes(a[1], b[1], a[2], b[2])
  BY <1>0, XorMedial
<1>4. XorBytes(a[3], a[4], b[3], b[4]) = XorBytes(a[3], b[3], a[4], b[4])
  BY <1>0, XorMedial
<1>5. /\ c[1] = XorByte(a[1], b[1]) /\ c[2] = XorByte(a[2], b[2])
      /\ c[3] = XorByte(a[3], b[3]) /\ c[4] = XorByte(a[4], b[4])
  BY DEF XorWord, Four
<1> HIDE DEF c
<1>6. XorByte(Total(a), Total(b)) = XorByte(XorBytes(a[1], a[2], b[1], b[2]), XorBytes(a[3], a[4], b[3], b[4]))
  BY <1>2, Zenon DEF XorBytes, Total
<1>7. Total(c) = XorByte(XorBytes(a[1], b[1], a[2], b[2]), XorBytes(a[3], b[3], a[4], b[4]))
  BY <1>5, Zenon DEF XorBytes, Total
<1> QED
  BY <1>3, <1>4, <1>6, <1>7, Zenon DEF c

\* A sum of rows is the sum of the columns.
LEMMA XorTransposed ==
  ASSUME NEW a \in Word, NEW b \in Word, NEW c \in Word, NEW d \in Word
  PROVE  XorBytes(Total(a), Total(b), Total(c), Total(d))
           = XorBytes(XorBytes(a[1], b[1], c[1], d[1]), XorBytes(a[2], b[2], c[2], d[2]),
                      XorBytes(a[3], b[3], c[3], d[3]), XorBytes(a[4], b[4], c[4], d[4]))
<1> DEFINE e == XorWord(a, b)
           f == XorWord(c, d)
<1>1. e \in Word /\ f \in Word /\ XorWord(e, f) \in Word
  BY XorWordType
<1>2. XorByte(Total(a), Total(b)) = Total(e)
  BY XorPairs
<1>3. XorByte(Total(c), Total(d)) = Total(f)
  BY XorPairs
<1>4. XorByte(Total(e), Total(f)) = Total(XorWord(e, f))
  BY <1>1, XorPairs
<1>5. XorBytes(Total(a), Total(b), Total(c), Total(d)) = Total(XorWord(e, f))
  BY <1>2, <1>3, <1>4, Zenon DEF XorBytes
<1>6. ASSUME NEW i \in 1 .. 4
      PROVE  XorWord(e, f)[i] = XorBytes(a[i], b[i], c[i], d[i])
  BY <1>6 DEF XorWord, Four, XorBytes
<1> HIDE DEF e, f
<1>7. Total(XorWord(e, f))
        = XorBytes(XorBytes(a[1], b[1], c[1], d[1]), XorBytes(a[2], b[2], c[2], d[2]),
                   XorBytes(a[3], b[3], c[3], d[3]), XorBytes(a[4], b[4], c[4], d[4]))
  <2>1. 1 \in 1 .. 4 /\ 2 \in 1 .. 4 /\ 3 \in 1 .. 4 /\ 4 \in 1 .. 4
    OBVIOUS
  <2> QED
    BY <1>6, <2>1, Zenon DEF Total
<1> QED
  BY <1>5, <1>7

\* The last one of four becomes the first.
LEMMA XorRotated ==
  ASSUME NEW a \in Byte, NEW b \in Byte, NEW c \in Byte, NEW d \in Byte
  PROVE  XorBytes(d, a, b, c) = XorBytes(a, b, c, d)
<1>1. XorBytes(d, a, b, c) = XorBytes(d, b, a, c)
  BY XorMedial
<1>2. XorByte(d, b) \in Byte /\ XorByte(a, c) \in Byte
  BY XorType
<1>3. XorBytes(d, b, a, c) = XorByte(XorByte(a, c), XorByte(d, b))
  BY <1>2, XorCommutative DEF XorBytes
<1>4. XorByte(d, b) = XorByte(b, d)
  BY XorCommutative
<1>5. XorBytes(a, c, b, d) = XorBytes(a, b, c, d)
  BY XorMedial
<1> QED
  BY <1>1, <1>3, <1>4, <1>5, Zenon DEF XorBytes

-----------------------------------------------------------------------------
(***************************************************************************)
(* Products with the constants of the matrices.                            *)
(***************************************************************************)
G(m, a) == GfTable[m][a]

LEMMA GType == \A m \in Factors : \A a \in Byte : G(m, a) \in Byte
BY ProductFacts DEF G

LEMMA GXor == \A m \in Factors : \A a, b \in Byte : G(m, XorByte(a, b)) = XorByte(G(m, a), G(m, b))
BY ProductFacts DEF G

LEMMA GSum ==
  ASSUME NEW m \in Factors, NEW a \in Byte, NEW b \in Byte, NEW c \in Byte, NEW d \in Byte
  PROVE  G(m, XorBytes(a, b, c, d)) = XorBytes(G(m, a), G(m, b), G(m, c), G(m, d))
<1>1. XorByte(a, b) \in Byte /\ XorByte(c, d) \in Byte
  BY XorType
<1>2. G(m, XorByte(XorByte(a, b), XorByte(c, d)))
        = XorByte(G(m, XorByte(a, b)), G(m, XorByte(c, d)))
  BY <1>1, GXor, Zenon
<1>3. G(m, XorByte(a, b)) = XorByte(G(m, a), G(m, b))
  BY GXor, Zenon
<1>4. G(m, XorByte(c, d)) = XorByte(G(m, c), G(m, d))
  BY GXor, Zenon
<1> QED
  BY <1>2, <1>3, <1>4, Zenon DEF XorBytes

\* The bytes of a word, multiplied.
Scaled(m, w) == Four(LAMBDA i : G(m, w[i]))

LEMMA GTotal ==
  ASSUME NEW m \in Factors, NEW w \in Word
  PROVE  Scaled(m, w) \in Word /\ G(m, Total(w)) = Total(Scaled(m, w))
<1>1. w[1] \in Byte /\ w[2] \in Byte /\ w[3] \in Byte /\ w[4] \in Byte
  BY DEF Word
<1>2. G(m, Total(w)) = XorBytes(G(m, w[1]), G(m, w[2]), G(m, w[3]), G(m, w[4]))
  BY <1>1, GSum DEF Total
<1>3. Scaled(m, w) \in Word
  BY GType DEF Scaled, Four, Word
<1>4. Total(Scaled(m, w)) = XorBytes(G(m, w[1]), G(m, w[2]), G(m, w[3]), G(m, w[4]))
  BY DEF Total, Scaled, Four
<1> QED
  BY <1>2, <1>3, <1>4

LEMMA FactorsAre ==
  /\ 1 \in Factors /\ 2 \in Factors /\ 3 \in Factors /\ 9 \in Factors
  /\ 11 \in Factors /\ 13 \in Factors /\ 14 \in Factors
BY DEF Factors

LEMMA MatrixG ==
  ASSUME NEW a \in Byte
  PROVE  /\ XorBytes(G(2, G(14, a)), G(3, G(9, a)), G(1, G(13, a)), G(1, G(11, a))) = a
         /\ XorBytes(G(2, G(11, a)), G(3, G(14, a)), G(1, G(9, a)), G(1, G(13, a))) = 0
         /\ XorBytes(G(2, G(13, a)), G(3, G(11, a)), G(1, G(14, a)), G(1, G(9, a))) = 0
         /\ XorBytes(G(2, G(9, a)), G(3, G(13, a)), G(1, G(11, a)), G(1, G(14, a))) = 0
         /\ XorBytes(G(14, G(2, a)), G(11, G(1, a)), G(13, G(1, a)), G(9, G(3, a))) = a
         /\ XorBytes(G(14, G(3, a)), G(11, G(2, a)), G(13, G(1, a)), G(9, G(1, a))) = 0
         /\ XorBytes(G(14, G(1, a)), G(11, G(3, a)), G(13, G(2, a)), G(9, G(1, a))) = 0
         /\ XorBytes(G(14, G(1, a)), G(11, G(1, a)), G(13, G(3, a)), G(9, G(2, a))) = 0
BY MatrixFacts DEF G

\* The first rows of the two matrices.
Mix    == <<2, 3, 1, 1>>
InvMix == <<14, 11, 13, 9>>

LEMMA MixFactors ==
  /\ Mix[1] = 2 /\ Mix[2] = 3 /\ Mix[3] = 1 /\ Mix[4] = 1
  /\ InvMix[1] = 14 /\ InvMix[2] = 11 /\ InvMix[3] = 13 /\ InvMix[4] = 9
BY DEF Mix, InvMix

\* Each row of the one times a column of the other: the first is the byte,
\* the others are 0.
Inverses(m, n) ==
  \A a \in Byte :
    /\ XorBytes(G(m[1], G(n[1], a)), G(m[2], G(n[4], a)), G(m[3], G(n[3], a)), G(m[4], G(n[2], a))) = a
    /\ XorBytes(G(m[1], G(n[2], a)), G(m[2], G(n[1], a)), G(m[3], G(n[4], a)), G(m[4], G(n[3], a))) = 0
    /\ XorBytes(G(m[1], G(n[3], a)), G(m[2], G(n[2], a)), G(m[3], G(n[1], a)), G(m[4], G(n[4], a))) = 0
    /\ XorBytes(G(m[1], G(n[4], a)), G(m[2], G(n[3], a)), G(m[3], G(n[2], a)), G(m[4], G(n[1], a))) = 0

LEMMA MatricesInverse == Inverses(Mix, InvMix) /\ Inverses(InvMix, Mix)
BY MatrixG, MixFactors, ZenonT(60) DEF Inverses

MatrixRow(m) == m[1] \in Factors /\ m[2] \in Factors /\ m[3] \in Factors /\ m[4] \in Factors

\* The bytes x1, ..., x4 of a column through one matrix and a row of the other.
LEMMA RowOfProduct ==
  ASSUME NEW m, NEW n, MatrixRow(m), MatrixRow(n), Inverses(m, n),
         NEW x1 \in Byte, NEW x2 \in Byte, NEW x3 \in Byte, NEW x4 \in Byte
  PROVE  XorBytes(G(m[1], XorBytes(G(n[1], x1), G(n[2], x2), G(n[3], x3), G(n[4], x4))),
                  G(m[2], XorBytes(G(n[1], x2), G(n[2], x3), G(n[3], x4), G(n[4], x1))),
                  G(m[3], XorBytes(G(n[1], x3), G(n[2], x4), G(n[3], x1), G(n[4], x2))),
                  G(m[4], XorBytes(G(n[1], x4), G(n[2], x1), G(n[3], x2), G(n[4], x3)))) = x1
<1>0. /\ m[1] \in Factors /\ m[2] \in Factors /\ m[3] \in Factors /\ m[4] \in Factors
      /\ n[1] \in Factors /\ n[2] \in Factors /\ n[3] \in Factors /\ n[4] \in Factors
  BY DEF MatrixRow
<1> DEFINE w1 == <<G(n[1], x1), G(n[2], x2), G(n[3], x3), G(n[4], x4)>>
           w2 == <<G(n[4], x1), G(n[1], x2), G(n[2], x3), G(n[3], x4)>>
           w3 == <<G(n[3], x1), G(n[4], x2), G(n[1], x3), G(n[2], x4)>>
           w4 == <<G(n[2], x1), G(n[3], x2), G(n[4], x3), G(n[1], x4)>>
           y2 == XorBytes(G(n[1], x2), G(n[2], x3), G(n[3], x4), G(n[4], x1))
           y3 == XorBytes(G(n[1], x3), G(n[2], x4), G(n[3], x1), G(n[4], x2))
           y4 == XorBytes(G(n[1], x4), G(n[2], x1), G(n[3], x2), G(n[4], x3))
           a == Scaled(m[1], w1)
           b == Scaled(m[2], w2)
           c == Scaled(m[3], w3)
           d == Scaled(m[4], w4)
<1>1. /\ G(n[1], x1) \in Byte /\ G(n[2], x2) \in Byte /\ G(n[3], x3) \in Byte /\ G(n[4], x4) \in Byte
      /\ G(n[4], x1) \in Byte /\ G(n[1], x2) \in Byte /\ G(n[2], x3) \in Byte /\ G(n[3], x4) \in Byte
      /\ G(n[3], x1) \in Byte /\ G(n[4], x2) \in Byte /\ G(n[1], x3) \in Byte /\ G(n[2], x4) \in Byte
      /\ G(n[2], x1) \in Byte /\ G(n[3], x2) \in Byte /\ G(n[4], x3) \in Byte /\ G(n[1], x4) \in Byte
  BY <1>0, GType, Zenon
<1>2. w1 \in Word /\ w2 \in Word /\ w3 \in Word /\ w4 \in Word
  BY <1>1 DEF Word
<1>3. y2 = XorBytes(G(n[4], x1), G(n[1], x2), G(n[2], x3), G(n[3], x4))
  BY <1>1, XorRotated
<1>4. y4 = XorBytes(G(n[2], x1), G(n[3], x2), G(n[4], x3), G(n[1], x4))
  BY <1>1, XorRotated
<1>5. y3 = XorBytes(G(n[3], x1), G(n[4], x2), G(n[1], x3), G(n[2], x4))
  <2>1. y3 = XorBytes(G(n[4], x2), G(n[1], x3), G(n[2], x4), G(n[3], x1))
    BY <1>1, XorRotated
  <2> QED
    BY <1>1, <2>1, XorRotated
<1>6. /\ Total(w1) = XorBytes(G(n[1], x1), G(n[2], x2), G(n[3], x3), G(n[4], x4))
      /\ Total(w2) = y2 /\ Total(w3) = y3 /\ Total(w4) = y4
  BY <1>3, <1>4, <1>5 DEF Total
<1>7. /\ a[1] = G(m[1], G(n[1], x1)) /\ b[1] = G(m[2], G(n[4], x1))
      /\ c[1] = G(m[3], G(n[3], x1)) /\ d[1] = G(m[4], G(n[2], x1))
  BY DEF Scaled, Four
<1>8. /\ a[2] = G(m[1], G(n[2], x2)) /\ b[2] = G(m[2], G(n[1], x2))
      /\ c[2] = G(m[3], G(n[4], x2)) /\ d[2] = G(m[4], G(n[3], x2))
  BY DEF Scaled, Four
<1>9. /\ a[3] = G(m[1], G(n[3], x3)) /\ b[3] = G(m[2], G(n[2], x3))
      /\ c[3] = G(m[3], G(n[1], x3)) /\ d[3] = G(m[4], G(n[4], x3))
  BY DEF Scaled, Four
<1>10. /\ a[4] = G(m[1], G(n[4], x4)) /\ b[4] = G(m[2], G(n[3], x4))
       /\ c[4] = G(m[3], G(n[2], x4)) /\ d[4] = G(m[4], G(n[1], x4))
  BY DEF Scaled, Four
<1> HIDE DEF w1, w2, w3, w4
<1>11. /\ a \in Word /\ G(m[1], Total(w1)) = Total(a)
       /\ b \in Word /\ G(m[2], Total(w2)) = Total(b)
       /\ c \in Word /\ G(m[3], Total(w3)) = Total(c)
       /\ d \in Word /\ G(m[4], Total(w4)) = Total(d)
  BY <1>0, <1>2, GTotal, Zenon
<1> HIDE DEF a, b, c, d
<1>12. XorBytes(Total(a), Total(b), Total(c), Total(d))
         = XorBytes(XorBytes(a[1], b[1], c[1], d[1]), XorBytes(a[2], b[2], c[2], d[2]),
                    XorBytes(a[3], b[3], c[3], d[3]), XorBytes(a[4], b[4], c[4], d[4]))
  BY <1>11, XorTransposed
<1>13. /\ XorBytes(a[1], b[1], c[1], d[1]) = x1 /\ XorBytes(a[2], b[2], c[2], d[2]) = 0
       /\ XorBytes(a[3], b[3], c[3], d[3]) = 0 /\ XorBytes(a[4], b[4], c[4], d[4]) = 0
  BY <1>7, <1>8, <1>9, <1>10, ZenonT(60) DEF Inverses
<1>14. XorBytes(x1, 0, 0, 0) = x1
  BY XorZero DEF XorBytes
<1> QED
  BY <1>6, <1>11, <1>12, <1>13, <1>14, Zenon

-----------------------------------------------------------------------------
(***************************************************************************)
(* The steps of a round and their inverses.                                *)
(***************************************************************************)

\* The place of a column r places away, and the row of a product that
\* belongs to it.
Row(m, w, r) ==
  XorBytes(G(m[1], w[r]), G(m[2], w[After(r, 1)]), G(m[3], w[After(r, 2)]), G(m[4], w[After(r, 3)]))

LEMMA AfterType == \A r \in 1 .. 4 : \A k \in Int : After(r, k) \in 1 .. 4
BY DEF After

LEMMA AfterValues ==
  /\ After(1, 1) = 2 /\ After(1, 2) = 3 /\ After(1, 3) = 4
  /\ After(2, 1) = 3 /\ After(2, 2) = 4 /\ After(2, 3) = 1
  /\ After(3, 1) = 4 /\ After(3, 2) = 1 /\ After(3, 3) = 2
  /\ After(4, 1) = 1 /\ After(4, 2) = 2 /\ After(4, 3) = 3
  /\ After(1, 4) = 1 /\ After(1, 5) = 2 /\ After(1, 6) = 3 /\ After(1, 7) = 4
BY DEF After

LEMMA MixRow ==
  ASSUME NEW m, m[1] \in Factors, m[2] \in Factors, m[3] \in Factors, m[4] \in Factors,
         NEW s \in Block, NEW c \in 1 .. 4, NEW r \in 1 .. 4
  PROVE  MixWith(m, s)[c][r] = Row(m, s[c], r)
<1> DEFINE w == s[c]
           t(k) == G(m[After(1, 4 + k - r)], w[k])
<1>1. MixWith(m, s)[c][r] = XorBytes(t(1), t(2), t(3), t(4))
  BY DEF MixWith, Four, G
<1>2. w[1] \in Byte /\ w[2] \in Byte /\ w[3] \in Byte /\ w[4] \in Byte
  BY DEF Block, Word
<1> HIDE DEF w
<1>3. CASE r = 1
  <2>1. t(1) = G(m[1], w[1]) /\ t(2) = G(m[2], w[2]) /\ t(3) = G(m[3], w[3]) /\ t(4) = G(m[4], w[4])
    BY <1>3, AfterValues
  <2> QED
    BY <1>1, <1>3, <2>1, AfterValues, Zenon DEF Row, w
<1>4. CASE r = 2
  <2>1. t(1) = G(m[4], w[1]) /\ t(2) = G(m[1], w[2]) /\ t(3) = G(m[2], w[3]) /\ t(4) = G(m[3], w[4])
    BY <1>4, AfterValues
  <2>2. t(1) \in Byte /\ t(2) \in Byte /\ t(3) \in Byte /\ t(4) \in Byte
    BY <1>2, <2>1, GType, Zenon
  <2> HIDE DEF t
  <2>3. XorBytes(t(1), t(2), t(3), t(4)) = XorBytes(t(2), t(3), t(4), t(1))
    BY <2>2, XorRotated
  <2> QED
    BY <1>1, <1>4, <2>1, <2>3, AfterValues, Zenon DEF Row, w
<1>5. CASE r = 3
  <2>1. t(1) = G(m[3], w[1]) /\ t(2) = G(m[4], w[2]) /\ t(3) = G(m[1], w[3]) /\ t(4) = G(m[2], w[4])
    BY <1>5, AfterValues
  <2>2. t(1) \in Byte /\ t(2) \in Byte /\ t(3) \in Byte /\ t(4) \in Byte
    BY <1>2, <2>1, GType, Zenon
  <2> HIDE DEF t
  <2>3. XorBytes(t(1), t(2), t(3), t(4)) = XorBytes(t(2), t(3), t(4), t(1))
    BY <2>2, XorRotated
  <2>4. XorBytes(t(2), t(3), t(4), t(1)) = XorBytes(t(3), t(4), t(1), t(2))
    BY <2>2, XorRotated
  <2> QED
    BY <1>1, <1>5, <2>1, <2>3, <2>4, AfterValues, Zenon DEF Row, w
<1>6. CASE r = 4
  <2>1. t(1) = G(m[2], w[1]) /\ t(2) = G(m[3], w[2]) /\ t(3) = G(m[4], w[3]) /\ t(4) = G(m[1], w[4])
    BY <1>6, AfterValues
  <2>2. t(1) \in Byte /\ t(2) \in Byte /\ t(3) \in Byte /\ t(4) \in Byte
    BY <1>2, <2>1, GType, Zenon
  <2> HIDE DEF t
  <2>3. XorBytes(t(4), t(1), t(2), t(3)) = XorBytes(t(1), t(2), t(3), t(4))
    BY <2>2, XorRotated
  <2> QED
    BY <1>1, <1>6, <2>1, <2>3, AfterValues, Zenon DEF Row, w
<1> QED
  BY <1>3, <1>4, <1>5, <1>6

LEMMA RowType ==
  ASSUME NEW m \in {Mix, InvMix}, NEW w \in Word, NEW r \in 1 .. 4
  PROVE  Row(m, w, r) \in Byte
<1>1. m[1] \in Factors /\ m[2] \in Factors /\ m[3] \in Factors /\ m[4] \in Factors
  BY MixFactors, FactorsAre
<1>2. After(r, 1) \in 1 .. 4 /\ After(r, 2) \in 1 .. 4 /\ After(r, 3) \in 1 .. 4
  BY AfterType
<1>3. w[r] \in Byte /\ w[After(r, 1)] \in Byte /\ w[After(r, 2)] \in Byte /\ w[After(r, 3)] \in Byte
  BY <1>2 DEF Word
<1> QED
  BY <1>1, <1>3, GType, XorBytesType DEF Row

LEMMA MixRows ==
  ASSUME NEW s \in Block, NEW c \in 1 .. 4, NEW r \in 1 .. 4
  PROVE  /\ MixColumns(s)[c][r] = Row(Mix, s[c], r)
         /\ InvMixColumns(s)[c][r] = Row(InvMix, s[c], r)
<1>1. /\ Mix[1] \in Factors /\ Mix[2] \in Factors /\ Mix[3] \in Factors /\ Mix[4] \in Factors
      /\ InvMix[1] \in Factors /\ InvMix[2] \in Factors /\ InvMix[3] \in Factors
      /\ InvMix[4] \in Factors
  BY MixFactors, FactorsAre
<1>2. MixColumns(s) = MixWith(Mix, s) /\ InvMixColumns(s) = MixWith(InvMix, s)
  BY Zenon DEF MixColumns, InvMixColumns, Mix, InvMix
<1>3. MixWith(Mix, s)[c][r] = Row(Mix, s[c], r)
  BY <1>1, MixRow, Zenon
<1>4. MixWith(InvMix, s)[c][r] = Row(InvMix, s[c], r)
  BY <1>1, MixRow, Zenon
<1> QED
  BY <1>2, <1>3, <1>4

LEMMA MixShape ==
  ASSUME NEW s
  PROVE  /\ DOMAIN MixColumns(s) = 1 .. 4 /\ DOMAIN InvMixColumns(s) = 1 .. 4
         /\ \A c \in 1 .. 4 : DOMAIN MixColumns(s)[c] = 1 .. 4 /\ DOMAIN InvMixColumns(s)[c] = 1 .. 4
         /\ MixColumns(s) = [c \in 1 .. 4 |-> MixColumns(s)[c]]
         /\ InvMixColumns(s) = [c \in 1 .. 4 |-> InvMixColumns(s)[c]]
         /\ \A c \in 1 .. 4 : MixColumns(s)[c] = [r \in 1 .. 4 |-> MixColumns(s)[c][r]]
         /\ \A c \in 1 .. 4 : InvMixColumns(s)[c] = [r \in 1 .. 4 |-> InvMixColumns(s)[c][r]]
BY DEF MixColumns, InvMixColumns, MixWith, Four

\* A block is the function of its bytes.
LEMMA BlockFrom ==
  ASSUME NEW s, s = [c \in 1 .. 4 |-> s[c]],
         \A c \in 1 .. 4 : s[c] = [r \in 1 .. 4 |-> s[c][r]],
         \A c, r \in 1 .. 4 : s[c][r] \in Byte
  PROVE  s \in Block
<1>1. ASSUME NEW c \in 1 .. 4 PROVE s[c] \in Word
  <2> DEFINE w == s[c]
  <2>1. w = [r \in 1 .. 4 |-> w[r]] /\ \A r \in 1 .. 4 : w[r] \in Byte
    OBVIOUS
  <2> HIDE DEF w
  <2>2. w \in Word
    BY <2>1 DEF Word
  <2> QED
    BY <2>2 DEF w
<1> QED
  BY <1>1 DEF Block

LEMMA MixType ==
  ASSUME NEW s \in Block
  PROVE  MixColumns(s) \in Block /\ InvMixColumns(s) \in Block
<1>1. \A c \in 1 .. 4 : s[c] \in Word
  BY DEF Block
<1>2. \A c, r \in 1 .. 4 : MixColumns(s)[c][r] \in Byte
  BY <1>1, MixRows, RowType
<1>3. \A c, r \in 1 .. 4 : InvMixColumns(s)[c][r] \in Byte
  BY <1>1, MixRows, RowType
<1>4. MixColumns(s) \in Block
  BY <1>2, MixShape, BlockFrom
<1>5. InvMixColumns(s) \in Block
  BY <1>3, MixShape, BlockFrom
<1> QED
  BY <1>4, <1>5

\* Two blocks are the same if their bytes are.
LEMMA BlocksEqual ==
  ASSUME NEW s \in Block, NEW t \in Block, \A c, r \in 1 .. 4 : s[c][r] = t[c][r]
  PROVE  s = t
<1>1. ASSUME NEW c \in 1 .. 4 PROVE s[c] = t[c]
  BY DEF Block, Word
<1> QED
  BY <1>1 DEF Block

LEMMA AfterAfter ==
  ASSUME NEW r \in 1 .. 4
  PROVE  /\ After(After(r, 1), 1) = After(r, 2) /\ After(After(r, 1), 2) = After(r, 3)
         /\ After(After(r, 1), 3) = r
         /\ After(After(r, 2), 1) = After(r, 3) /\ After(After(r, 2), 2) = r
         /\ After(After(r, 2), 3) = After(r, 1)
         /\ After(After(r, 3), 1) = r /\ After(After(r, 3), 2) = After(r, 1)
         /\ After(After(r, 3), 3) = After(r, 2)
<1>1. r = 1 \/ r = 2 \/ r = 3 \/ r = 4
  OBVIOUS
<1> QED
  BY <1>1, AfterValues, Zenon

\* A row of one matrix, applied to what the other one makes of a column.
LEMMA RowsInverse ==
  ASSUME NEW m \in {Mix, InvMix}, NEW n \in {Mix, InvMix}, m # n, NEW w \in Word, NEW v \in Word,
         \A k \in 1 .. 4 : v[k] = Row(n, w, k), NEW r \in 1 .. 4
  PROVE  Row(m, v, r) = w[r]
<1> DEFINE x1 == w[r]
           x2 == w[After(r, 1)]
           x3 == w[After(r, 2)]
           x4 == w[After(r, 3)]
<1>1. x1 \in Byte /\ x2 \in Byte /\ x3 \in Byte /\ x4 \in Byte
  BY AfterType DEF Word
<1>2. MatrixRow(m) /\ MatrixRow(n) /\ Inverses(m, n)
  <2>1. MatrixRow(Mix) /\ MatrixRow(InvMix)
    BY MixFactors, FactorsAre DEF MatrixRow
  <2>2. (m = Mix /\ n = InvMix) \/ (m = InvMix /\ n = Mix)
    OBVIOUS
  <2> QED
    BY <2>1, <2>2, MatricesInverse, Zenon
<1>3. Row(m, v, r)
        = XorBytes(G(m[1], XorBytes(G(n[1], x1), G(n[2], x2), G(n[3], x3), G(n[4], x4))),
                   G(m[2], XorBytes(G(n[1], x2), G(n[2], x3), G(n[3], x4), G(n[4], x1))),
                   G(m[3], XorBytes(G(n[1], x3), G(n[2], x4), G(n[3], x1), G(n[4], x2))),
                   G(m[4], XorBytes(G(n[1], x4), G(n[2], x1), G(n[3], x2), G(n[4], x3))))
  <2>1. After(r, 1) \in 1 .. 4 /\ After(r, 2) \in 1 .. 4 /\ After(r, 3) \in 1 .. 4
    BY AfterType
  <2>2. /\ v[r] = Row(n, w, r) /\ v[After(r, 1)] = Row(n, w, After(r, 1))
        /\ v[After(r, 2)] = Row(n, w, After(r, 2)) /\ v[After(r, 3)] = Row(n, w, After(r, 3))
    BY <2>1, Zenon
  <2> QED
    BY <2>2, AfterAfter, Zenon DEF Row
<1> HIDE DEF x1, x2, x3, x4
<1>4. Row(m, v, r) = x1
  BY <1>1, <1>2, <1>3, RowOfProduct
<1> QED
  BY <1>4 DEF x1

\* MixColumns and InvMixColumns undo each other.
LEMMA MixInverse ==
  ASSUME NEW s \in Block
  PROVE  MixColumns(InvMixColumns(s)) = s /\ InvMixColumns(MixColumns(s)) = s
<1> DEFINE t == InvMixColumns(s)
           u == MixColumns(s)
<1>1. t \in Block /\ u \in Block
  BY MixType
<1>2. /\ \A c, r \in 1 .. 4 : t[c][r] = Row(InvMix, s[c], r)
      /\ \A c, r \in 1 .. 4 : u[c][r] = Row(Mix, s[c], r)
  BY MixRows
<1> HIDE DEF t, u
<1>3. \A c \in 1 .. 4 : s[c] \in Word /\ t[c] \in Word /\ u[c] \in Word
  BY <1>1 DEF Block
<1>4. Mix # InvMix
  BY MixFactors
<1>5. ASSUME NEW c \in 1 .. 4, NEW r \in 1 .. 4 PROVE MixColumns(t)[c][r] = s[c][r]
  <2>1. MixColumns(t)[c][r] = Row(Mix, t[c], r)
    BY <1>1, MixRows
  <2>2. Row(Mix, t[c], r) = s[c][r]
    BY <1>2, <1>3, <1>4, RowsInverse
  <2> QED
    BY <2>1, <2>2
<1>6. ASSUME NEW c \in 1 .. 4, NEW r \in 1 .. 4 PROVE InvMixColumns(u)[c][r] = s[c][r]
  <2>1. InvMixColumns(u)[c][r] = Row(InvMix, u[c], r)
    BY <1>1, MixRows
  <2>2. Row(InvMix, u[c], r) = s[c][r]
    BY <1>2, <1>3, <1>4, RowsInverse
  <2> QED
    BY <2>1, <2>2
<1>7. MixColumns(t) \in Block /\ InvMixColumns(u) \in Block
  BY <1>1, MixType
<1>8. MixColumns(t) = s
  BY <1>5, <1>7, BlocksEqual
<1>9. InvMixColumns(u) = s
  BY <1>6, <1>7, BlocksEqual
<1> QED
  BY <1>8, <1>9 DEF t, u

LEMMA XorBlockType == \A s, t \in Block : XorBlock(s, t) \in Block
BY XorType DEF XorBlock, Four, Block, Word

\* Exclusive or with the same block twice changes nothing.
LEMMA XorBlockUndone ==
  ASSUME NEW s \in Block, NEW t \in Block
  PROVE  XorBlock(XorBlock(s, t), t) = s /\ XorBlock(s, XorBlock(s, t)) = t
<1>1. XorBlock(s, t) \in Block /\ XorBlock(XorBlock(s, t), t) \in Block /\ XorBlock(s, XorBlock(s, t)) \in Block
  BY XorBlockType
<1>2. \A c, r \in 1 .. 4 : s[c][r] \in Byte /\ t[c][r] \in Byte
  BY DEF Block, Word
<1>3. /\ \A c, r \in 1 .. 4 : XorBlock(XorBlock(s, t), t)[c][r] = XorByte(XorByte(s[c][r], t[c][r]), t[c][r])
      /\ \A c, r \in 1 .. 4 : XorBlock(s, XorBlock(s, t))[c][r] = XorByte(s[c][r], XorByte(s[c][r], t[c][r]))
  BY DEF XorBlock, Four
<1>4. ASSUME NEW c \in 1 .. 4, NEW r \in 1 .. 4
      PROVE  /\ XorBlock(XorBlock(s, t), t)[c][r] = s[c][r]
             /\ XorBlock(s, XorBlock(s, t))[c][r] = t[c][r]
  <2> DEFINE a == s[c][r]
             b == t[c][r]
  <2>1. a \in Byte /\ b \in Byte
    BY <1>2, Zenon
  <2>2. /\ XorBlock(XorBlock(s, t), t)[c][r] = XorByte(XorByte(a, b), b)
        /\ XorBlock(s, XorBlock(s, t))[c][r] = XorByte(a, XorByte(a, b))
    BY <1>3, Zenon
  <2> HIDE DEF a, b
  <2>3. XorByte(XorByte(a, b), b) = a /\ XorByte(a, XorByte(a, b)) = b
    BY <2>1, XorUndone
  <2> QED
    BY <2>2, <2>3 DEF a, b
<1>5. XorBlock(XorBlock(s, t), t) = s
  BY <1>1, <1>4, BlocksEqual
<1>6. XorBlock(s, XorBlock(s, t)) = t
  BY <1>1, <1>4, BlocksEqual
<1> QED
  BY <1>5, <1>6

LEMMA RowLinear ==
  ASSUME NEW m \in {Mix, InvMix}, NEW v \in Word, NEW w \in Word, NEW r \in 1 .. 4
  PROVE  Row(m, XorWord(v, w), r) = XorByte(Row(m, v, r), Row(m, w, r))
<1> DEFINE terms(u) == <<G(m[1], u[r]), G(m[2], u[After(r, 1)]), G(m[3], u[After(r, 2)]),
                         G(m[4], u[After(r, 3)])>>
           x == XorWord(v, w)
<1>1. m[1] \in Factors /\ m[2] \in Factors /\ m[3] \in Factors /\ m[4] \in Factors
  BY MixFactors, FactorsAre
<1>2. After(r, 1) \in 1 .. 4 /\ After(r, 2) \in 1 .. 4 /\ After(r, 3) \in 1 .. 4
  BY AfterType
<1>3. /\ v[r] \in Byte /\ v[After(r, 1)] \in Byte /\ v[After(r, 2)] \in Byte /\ v[After(r, 3)] \in Byte
      /\ w[r] \in Byte /\ w[After(r, 1)] \in Byte /\ w[After(r, 2)] \in Byte /\ w[After(r, 3)] \in Byte
  BY <1>2 DEF Word
<1>4. /\ x[r] = XorByte(v[r], w[r])
      /\ x[After(r, 1)] = XorByte(v[After(r, 1)], w[After(r, 1)])
      /\ x[After(r, 2)] = XorByte(v[After(r, 2)], w[After(r, 2)])
      /\ x[After(r, 3)] = XorByte(v[After(r, 3)], w[After(r, 3)])
  BY <1>2 DEF XorWord, Four
<1> HIDE DEF x
<1>5. terms(v) \in Word /\ terms(w) \in Word
  BY <1>1, <1>3, GType DEF Word
<1>6. /\ G(m[1], x[r]) = XorByte(G(m[1], v[r]), G(m[1], w[r]))
      /\ G(m[2], x[After(r, 1)]) = XorByte(G(m[2], v[After(r, 1)]), G(m[2], w[After(r, 1)]))
      /\ G(m[3], x[After(r, 2)]) = XorByte(G(m[3], v[After(r, 2)]), G(m[3], w[After(r, 2)]))
      /\ G(m[4], x[After(r, 3)]) = XorByte(G(m[4], v[After(r, 3)]), G(m[4], w[After(r, 3)]))
  BY <1>1, <1>3, <1>4, GXor
<1>7. Row(m, x, r) = Total(XorWord(terms(v), terms(w)))
  <2> DEFINE y == XorWord(terms(v), terms(w))
  <2>1. /\ y[1] = G(m[1], x[r]) /\ y[2] = G(m[2], x[After(r, 1)])
        /\ y[3] = G(m[3], x[After(r, 2)]) /\ y[4] = G(m[4], x[After(r, 3)])
    BY <1>6 DEF XorWord, Four
  <2> HIDE DEF y
  <2>2. Row(m, x, r) = Total(y)
    BY <2>1, Zenon DEF Row, Total
  <2> QED
    BY <2>2 DEF y
<1>8. Row(m, v, r) = Total(terms(v)) /\ Row(m, w, r) = Total(terms(w))
  BY DEF Row, Total
<1> HIDE DEF terms
<1>9. XorByte(Total(terms(v)), Total(terms(w))) = Total(XorWord(terms(v), terms(w)))
  BY <1>5, XorPairs
<1> QED
  BY <1>7, <1>8, <1>9 DEF x

LEMMA MixLinear ==
  ASSUME NEW s \in Block, NEW t \in Block
  PROVE  InvMixColumns(XorBlock(s, t)) = XorBlock(InvMixColumns(s), InvMixColumns(t))
<1> DEFINE x == XorBlock(s, t)
           y == XorBlock(InvMixColumns(s), InvMixColumns(t))
<1>1. x \in Block /\ y \in Block /\ InvMixColumns(x) \in Block
  BY XorBlockType, MixType
<1>2. \A c \in 1 .. 4 : x[c] = XorWord(s[c], t[c])
  BY DEF XorBlock, XorWord, Four
<1>3. \A c, r \in 1 .. 4 : y[c][r] = XorByte(InvMixColumns(s)[c][r], InvMixColumns(t)[c][r])
  BY DEF XorBlock, Four
<1> HIDE DEF x, y
<1>4. \A c \in 1 .. 4 : s[c] \in Word /\ t[c] \in Word
  BY DEF Block
<1>5. ASSUME NEW c \in 1 .. 4, NEW r \in 1 .. 4 PROVE InvMixColumns(x)[c][r] = y[c][r]
  <2>1. InvMixColumns(x)[c][r] = Row(InvMix, x[c], r)
    BY <1>1, MixRows
  <2>2. /\ InvMixColumns(s)[c][r] = Row(InvMix, s[c], r)
        /\ InvMixColumns(t)[c][r] = Row(InvMix, t[c], r)
    BY MixRows
  <2>3. Row(InvMix, XorWord(s[c], t[c]), r) = XorByte(Row(InvMix, s[c], r), Row(InvMix, t[c], r))
    BY <1>4, RowLinear
  <2> QED
    BY <1>2, <1>3, <2>1, <2>2, <2>3
<1>6. InvMixColumns(x) = y
  BY <1>1, <1>5, BlocksEqual
<1> QED
  BY <1>6 DEF x, y

\* ShiftRows and SubBytes backwards.
InvShiftedBytes(s) == Four(LAMBDA c : Four(LAMBDA r : Td4[s[After(c, 5 - r)][r]]))

LEMMA ShiftedType ==
  ASSUME NEW s \in Block
  PROVE  ShiftedBytes(s) \in Block /\ InvShiftedBytes(s) \in Block
<1>1. \A c, r \in 1 .. 4 : After(c, r - 1) \in 1 .. 4 /\ After(c, 5 - r) \in 1 .. 4
  BY DEF After
<1>2. \A c, r \in 1 .. 4 : s[c][r] \in Byte
  BY DEF Block, Word
<1>3. \A c, r \in 1 .. 4 : /\ SBox[s[After(c, r - 1)][r]] \in Byte
                           /\ Td4[s[After(c, 5 - r)][r]] \in Byte
  BY <1>1, <1>2, SBoxFacts
<1> QED
  BY <1>3 DEF ShiftedBytes, InvShiftedBytes, Four, Block, Word

LEMMA ShiftedInverse ==
  ASSUME NEW s \in Block
  PROVE  ShiftedBytes(InvShiftedBytes(s)) = s /\ InvShiftedBytes(ShiftedBytes(s)) = s
<1> DEFINE t == InvShiftedBytes(s)
           u == ShiftedBytes(s)
<1>1. t \in Block /\ u \in Block /\ ShiftedBytes(t) \in Block /\ InvShiftedBytes(u) \in Block
  BY ShiftedType
<1>2. \A c, r \in 1 .. 4 : After(c, r - 1) \in 1 .. 4 /\ After(c, 5 - r) \in 1 .. 4
  BY DEF After
<1>3. \A c, r \in 1 .. 4 : After(After(c, r - 1), 5 - r) = c /\ After(After(c, 5 - r), r - 1) = c
  BY DEF After
<1>4. \A c, r \in 1 .. 4 : s[c][r] \in Byte
  BY DEF Block, Word
<1>5. /\ \A c, r \in 1 .. 4 : t[c][r] = Td4[s[After(c, 5 - r)][r]]
      /\ \A c, r \in 1 .. 4 : u[c][r] = SBox[s[After(c, r - 1)][r]]
  BY DEF ShiftedBytes, InvShiftedBytes, Four
<1> HIDE DEF t, u
<1>6. /\ \A c, r \in 1 .. 4 : ShiftedBytes(t)[c][r] = SBox[t[After(c, r - 1)][r]]
      /\ \A c, r \in 1 .. 4 : InvShiftedBytes(u)[c][r] = Td4[u[After(c, 5 - r)][r]]
  BY DEF ShiftedBytes, InvShiftedBytes, Four
<1>7. ASSUME NEW c \in 1 .. 4, NEW r \in 1 .. 4
      PROVE  ShiftedBytes(t)[c][r] = s[c][r] /\ InvShiftedBytes(u)[c][r] = s[c][r]
  <2>1. t[After(c, r - 1)][r] = Td4[s[c][r]]
    BY <1>2, <1>3, <1>5
  <2>2. u[After(c, 5 - r)][r] = SBox[s[c][r]]
    BY <1>2, <1>3, <1>5
  <2> QED
    BY <1>4, <1>6, <2>1, <2>2, SBoxFacts, SMTT(30)
<1>8. ShiftedBytes(t) = s
  BY <1>1, <1>7, BlocksEqual
<1>9. InvShiftedBytes(u) = s
  BY <1>1, <1>7, BlocksEqual
<1> QED
  BY <1>8, <1>9 DEF t, u

-----------------------------------------------------------------------------
(***************************************************************************)
(* Rounds one after the other.  Induction is on the set of the rounds that *)
(* have the property, by its least counterexample.                         *)
(***************************************************************************)
LEMMA UpTo ==
  ASSUME NEW n \in Nat, NEW T, 0 \in T, \A r \in 0 .. n - 1 : r \in T => r + 1 \in T
  PROVE  \A r \in 0 .. n : r \in T
<1> DEFINE Bad == {r \in 0 .. n : r \notin T}
           R == OpToRel(<, Nat)
<1> SUFFICES ASSUME Bad # {} PROVE FALSE
  OBVIOUS
<1>1. IsWellFoundedOn(R, Nat)
  BY NatLessThanWellFounded
<1>2. Bad \subseteq Nat
  OBVIOUS
<1> HIDE DEF R
<1>3. PICK x \in Bad : \A y \in Bad : ~(<<y, x>> \in R)
  <2> HIDE DEF Bad
  <2> QED
    BY <1>1, <1>2, WFMin
<1>4. x \in 0 .. n /\ x \notin T /\ x # 0
  OBVIOUS
<1>5. x - 1 \in 0 .. n - 1 /\ x - 1 \in Nat /\ x - 1 < x /\ (x - 1) + 1 = x
  BY <1>4
<1>6. x - 1 \notin Bad
  <2>1. x \in Nat
    BY <1>4
  <2>2. <<x - 1, x>> \in R
    BY <1>5, <2>1 DEF OpToRel, R
  <2> QED
    BY <1>3, <2>2, Zenon
<1>7. x - 1 \in T
  BY <1>5, <1>6
<1> QED
  BY <1>4, <1>5, <1>7

\* x, then step[1] of it, then step[2] of that ...
Iterated(x, step, n) ==
  LET f[r \in 0 .. n] == IF r = 0 THEN x ELSE step[r][f[r - 1]] IN f

\* The recursive definition defines a function.
LEMMA IteratedDefined ==
  ASSUME NEW x, NEW step, NEW n \in Nat
  PROVE  /\ Iterated(x, step, n) = [r \in 0 .. n |-> Iterated(x, step, n)[r]]
         /\ DOMAIN Iterated(x, step, n) = 0 .. n
         /\ Iterated(x, step, n)[0] = x
         /\ \A r \in 1 .. n : Iterated(x, step, n)[r] = step[r][Iterated(x, step, n)[r - 1]]
<1> DEFINE Body(k, g) == [r \in 0 .. k |-> IF r = 0 THEN x ELSE step[r][g[r - 1]]]
           T == {k \in 0 .. n : \E g : g = Body(k, g)}
<1>1. 0 \in T
  <2> DEFINE g == [r \in 0 .. 0 |-> x]
  <2>1. g = Body(0, g)
    OBVIOUS
  <2>2. 0 \in 0 .. n
    OBVIOUS
  <2> QED
    BY <2>1, <2>2, Zenon
<1>2. ASSUME NEW k \in 0 .. n - 1, k \in T PROVE k + 1 \in T
  <2>1. PICK g : g = Body(k, g)
    BY <1>2, Zenon
  <2> DEFINE h == [r \in 0 .. k + 1 |-> IF r = k + 1 THEN step[k + 1][g[k]] ELSE g[r]]
  <2>2. \A r \in 0 .. k + 1 : h[r] = IF r = 0 THEN x ELSE step[r][h[r - 1]]
    <3> SUFFICES ASSUME NEW r \in 0 .. k + 1 PROVE h[r] = IF r = 0 THEN x ELSE step[r][h[r - 1]]
      OBVIOUS
    <3>1. CASE r = k + 1
      <4>1. h[r - 1] = g[k] /\ r # 0
        BY <3>1
      <4>2. h[r] = step[r][g[k]]
        BY <3>1
      <4> HIDE DEF h
      <4> QED
        BY <4>1, <4>2
    <3>2. CASE r # k + 1
      <4>1. r \in 0 .. k /\ h[r] = g[r]
        BY <3>2
      <4>2. g[r] = IF r = 0 THEN x ELSE step[r][g[r - 1]]
        BY <2>1, <4>1, Zenon
      <4>3. r # 0 => h[r - 1] = g[r - 1]
        BY <3>2
      <4> HIDE DEF h
      <4> QED
        BY <4>1, <4>2, <4>3, Zenon
    <3> QED
      BY <3>1, <3>2
  <2>3. h = Body(k + 1, h)
    BY <2>2, Zenon
  <2>4. k + 1 \in 0 .. n
    OBVIOUS
  <2> QED
    BY <2>3, <2>4, Zenon
<1>3. n \in T
  <2> HIDE DEF T
  <2> QED
    BY <1>1, <1>2, UpTo
<1>4. PICK g : g = Body(n, g)
  BY <1>3
<1> DEFINE f == Iterated(x, step, n)
<1>5. f = Body(n, f)
  <2>1. f = CHOOSE h : h = Body(n, h)
    BY Zenon DEF Iterated
  <2> QED
    BY <1>4, <2>1, Zenon
<1> HIDE DEF f, T
<1>6. DOMAIN f = 0 .. n /\ f = [r \in 0 .. n |-> f[r]]
  BY <1>5, Zenon
<1>7. ASSUME NEW r \in 0 .. n PROVE f[r] = IF r = 0 THEN x ELSE step[r][f[r - 1]]
  BY <1>5, Zenon
<1>8. 0 \in 0 .. n /\ \A r \in 1 .. n : r \in 0 .. n /\ r # 0
  OBVIOUS
<1> QED
  BY <1>6, <1>7, <1>8, Zenon DEF f

LEMMA IteratedType ==
  ASSUME NEW x, NEW step, NEW n \in Nat, NEW D, x \in D,
         \A r \in 1 .. n : \A s \in D : step[r][s] \in D
  PROVE  Iterated(x, step, n) \in [0 .. n -> D]
<1> DEFINE f == Iterated(x, step, n)
           T == {r \in 0 .. n : f[r] \in D}
<1>1. /\ DOMAIN f = 0 .. n /\ f[0] = x
      /\ \A r \in 1 .. n : f[r] = step[r][f[r - 1]]
  BY IteratedDefined
<1>2. f = [r \in 0 .. n |-> f[r]]
  BY IteratedDefined
<1> HIDE DEF f
<1>3. 0 \in T
  BY <1>1
<1>4. ASSUME NEW r \in 0 .. n - 1, r \in T PROVE r + 1 \in T
  <2>1. r + 1 \in 1 .. n /\ r + 1 \in 0 .. n /\ (r + 1) - 1 = r
    OBVIOUS
  <2>2. f[r + 1] = step[r + 1][f[r]] /\ f[r] \in D
    BY <1>1, <1>4, <2>1
  <2> QED
    BY <2>1, <2>2
<1>5. \A r \in 0 .. n : r \in T
  <2> HIDE DEF T
  <2> QED
    BY <1>3, <1>4, UpTo
<1>6. f \in [0 .. n -> D]
  BY <1>2, <1>5
<1> QED
  BY <1>6 DEF f

-----------------------------------------------------------------------------
(***************************************************************************)
(* The cipher.                                                             *)
(***************************************************************************)

\* An expanded key for n rounds.
Expanded(n) == [1 .. 4 * (n + 1) -> Word]

LEMMA RoundKeyType ==
  ASSUME NEW n \in Nat, NEW key \in Expanded(n), NEW r \in 0 .. n
  PROVE  RoundKey(key, r) \in Block
<1>1. \A c \in 1 .. 4 : 4 * r + c \in 1 .. 4 * (n + 1)
  OBVIOUS
<1>2. \A c \in 1 .. 4 : key[4 * r + c] \in Word
  BY <1>1 DEF Expanded
<1> QED
  BY <1>2 DEF RoundKey, Four, Block

LEMMA CipherStatesKnown ==
  ASSUME NEW n \in Nat, NEW key \in Expanded(n), NEW b \in Block
  PROVE  LET C == CipherStates(b, key, n)
         IN  /\ C \in [0 .. n -> Block]
             /\ C[0] = XorBlock(b, RoundKey(key, 0))
             /\ \A r \in 1 .. n - 1 :
                  C[r] = XorBlock(MixColumns(ShiftedBytes(C[r - 1])), RoundKey(key, r))
             /\ n > 0 => C[n] = XorBlock(ShiftedBytes(C[n - 1]), RoundKey(key, n))
<1> DEFINE C == CipherStates(b, key, n)
           x == XorBlock(b, RoundKey(key, 0))
           step == CipherRounds(key, n)
<1>1. C = Iterated(x, step, n)
  BY Zenon DEF CipherStates, Iterated
<1>2. x \in Block
  BY RoundKeyType, XorBlockType
<1>3. ASSUME NEW r \in 1 .. n, NEW s \in Block
      PROVE  /\ step[r][s] = XorBlock(IF r < n THEN MixColumns(ShiftedBytes(s)) ELSE ShiftedBytes(s),
                                      RoundKey(key, r))
             /\ step[r][s] \in Block
  <2>1. step[r][s] = XorBlock(IF r < n THEN MixColumns(ShiftedBytes(s)) ELSE ShiftedBytes(s),
                              RoundKey(key, r))
    BY DEF CipherRounds
  <2>2. RoundKey(key, r) \in Block
    BY RoundKeyType
  <2>3. (IF r < n THEN MixColumns(ShiftedBytes(s)) ELSE ShiftedBytes(s)) \in Block
    BY ShiftedType, MixType
  <2> QED
    BY <2>1, <2>2, <2>3, XorBlockType
<1> HIDE DEF C, x, step
<1>4. /\ C[0] = x
      /\ \A r \in 1 .. n : C[r] = step[r][C[r - 1]]
  BY <1>1, IteratedDefined
<1>5. C \in [0 .. n -> Block]
  BY <1>1, <1>2, <1>3, IteratedType
<1>6. ASSUME NEW r \in 1 .. n
      PROVE  C[r] = XorBlock(IF r < n THEN MixColumns(ShiftedBytes(C[r - 1]))
                             ELSE ShiftedBytes(C[r - 1]), RoundKey(key, r))
  <2>1. C[r - 1] \in Block
    <3>1. r - 1 \in 0 .. n
      OBVIOUS
    <3> QED
      BY <1>5, <3>1
  <2> QED
    BY <1>3, <1>4, <2>1, Zenon
<1>7. ASSUME NEW r \in 1 .. n - 1
      PROVE  C[r] = XorBlock(MixColumns(ShiftedBytes(C[r - 1])), RoundKey(key, r))
  <2>1. r \in 1 .. n /\ r < n
    OBVIOUS
  <2> QED
    BY <1>6, <2>1, Zenon
<1>8. n > 0 => C[n] = XorBlock(ShiftedBytes(C[n - 1]), RoundKey(key, n))
  <2>1. n > 0 => n \in 1 .. n /\ ~(n < n)
    OBVIOUS
  <2> QED
    BY <1>6, <2>1, Zenon
<1> QED
  BY <1>4, <1>5, <1>7, <1>8, Zenon DEF C, x

\* The equivalent inverse cipher, with the round keys ks[0], ..., ks[n] in
\* the order in which it uses them.
InvRounds(ks, n) ==
  [r \in 1 .. n - 1 |->
     [s \in Block |-> XorBlock(InvMixColumns(InvShiftedBytes(s)), ks[r])]]

InvStates(b, ks, n) == Iterated(XorBlock(b, ks[0]), InvRounds(ks, n), n - 1)

Decipher(b, ks, n) == XorBlock(InvShiftedBytes(InvStates(b, ks, n)[n - 1]), ks[n])

LEMMA InvStatesKnown ==
  ASSUME NEW n \in Nat \ {0}, NEW ks \in [0 .. n -> Block], NEW b \in Block
  PROVE  LET D == InvStates(b, ks, n)
         IN  /\ D \in [0 .. n - 1 -> Block]
             /\ D[0] = XorBlock(b, ks[0])
             /\ \A r \in 1 .. n - 1 :
                  D[r] = XorBlock(InvMixColumns(InvShiftedBytes(D[r - 1])), ks[r])
             /\ Decipher(b, ks, n) \in Block
<1> DEFINE D == InvStates(b, ks, n)
           x == XorBlock(b, ks[0])
           step == InvRounds(ks, n)
<1>0. n - 1 \in Nat /\ n - 1 \in 0 .. n - 1 /\ \A r \in 1 .. n - 1 : r \in 0 .. n
  OBVIOUS
<1>1. D = Iterated(x, step, n - 1)
  BY Zenon DEF InvStates
<1>2. x \in Block
  BY XorBlockType
<1>3. ASSUME NEW r \in 1 .. n - 1, NEW s \in Block
      PROVE  /\ step[r][s] = XorBlock(InvMixColumns(InvShiftedBytes(s)), ks[r])
             /\ step[r][s] \in Block
  <2>1. step[r][s] = XorBlock(InvMixColumns(InvShiftedBytes(s)), ks[r])
    BY DEF InvRounds
  <2>2. InvMixColumns(InvShiftedBytes(s)) \in Block /\ ks[r] \in Block
    BY <1>0, ShiftedType, MixType
  <2> QED
    BY <2>1, <2>2, XorBlockType
<1> HIDE DEF D, x, step
<1>4. /\ D[0] = x
      /\ \A r \in 1 .. n - 1 : D[r] = step[r][D[r - 1]]
  BY <1>0, <1>1, IteratedDefined
<1>5. D \in [0 .. n - 1 -> Block]
  BY <1>0, <1>1, <1>2, <1>3, IteratedType
<1>6. ASSUME NEW r \in 1 .. n - 1
      PROVE  D[r] = XorBlock(InvMixColumns(InvShiftedBytes(D[r - 1])), ks[r])
  <2>1. D[r - 1] \in Block
    <3>1. r - 1 \in 0 .. n - 1
      OBVIOUS
    <3> QED
      BY <1>5, <3>1
  <2> QED
    BY <1>3, <1>4, <2>1, Zenon
<1>7. Decipher(b, ks, n) \in Block
  <2>1. D[n - 1] \in Block
    BY <1>0, <1>5
  <2>2. InvShiftedBytes(D[n - 1]) \in Block /\ ks[n] \in Block
    BY <2>1, ShiftedType
  <2> QED
    BY <2>2, XorBlockType DEF Decipher, D
<1> QED
  BY <1>4, <1>5, <1>6, <1>7, Zenon DEF D, x

\* The keys of the inverse cipher are those of the cipher backwards, the inner
\* ones through InvMixColumns.
InverseKeys(ks, key, n) ==
  /\ ks \in [0 .. n -> Block]
  /\ \A r \in 0 .. n : ks[r] = InverseRoundKey(key, n, r)

LEMMA InverseKeysAre ==
  ASSUME NEW n \in Nat \ {0}, NEW key \in Expanded(n), NEW ks, InverseKeys(ks, key, n)
  PROVE  /\ ks[0] = RoundKey(key, n) /\ ks[n] = RoundKey(key, 0)
         /\ \A r \in 1 .. n - 1 : ks[r] = InvMixColumns(RoundKey(key, n - r))
<1>1. /\ 0 \in 0 .. n /\ n \in 0 .. n /\ 0 \notin 1 .. n - 1 /\ n \notin 1 .. n - 1
      /\ n - 0 = n /\ n - n = 0 /\ \A r \in 1 .. n - 1 : r \in 0 .. n
  OBVIOUS
<1>2. \A r \in 0 .. n : ks[r] = IF r \in 1 .. n - 1 THEN InvMixColumns(RoundKey(key, n - r))
                                ELSE RoundKey(key, n - r)
  BY Zenon DEF InverseKeys, InverseRoundKey
<1>3. ks[0] = RoundKey(key, n - 0) /\ ks[n] = RoundKey(key, n - n)
  BY <1>1, <1>2, Zenon
<1>4. \A r \in 1 .. n - 1 : ks[r] = InvMixColumns(RoundKey(key, n - r))
  BY <1>1, <1>2, Zenon
<1> QED
  BY <1>1, <1>3, <1>4, Zenon

\* One round back: the sum of the two keys is undone by the linearity of
\* InvMixColumns.
LEMMA RoundUndone ==
  ASSUME NEW s \in Block, NEW k \in Block
  PROVE  /\ XorBlock(InvMixColumns(XorBlock(MixColumns(s), k)), InvMixColumns(k)) = s
         /\ XorBlock(MixColumns(XorBlock(InvMixColumns(s), InvMixColumns(k))), k) = s
<1>1. MixColumns(s) \in Block /\ XorBlock(MixColumns(s), k) \in Block /\ XorBlock(s, k) \in Block
  BY MixType, XorBlockType
<1>2. XorBlock(InvMixColumns(XorBlock(MixColumns(s), k)), InvMixColumns(k))
        = InvMixColumns(XorBlock(XorBlock(MixColumns(s), k), k))
  BY <1>1, MixLinear
<1>3. XorBlock(XorBlock(MixColumns(s), k), k) = MixColumns(s)
  BY <1>1, XorBlockUndone
<1>4. InvMixColumns(MixColumns(s)) = s
  BY MixInverse
<1>5. XorBlock(InvMixColumns(s), InvMixColumns(k)) = InvMixColumns(XorBlock(s, k))
  BY MixLinear
<1>6. MixColumns(InvMixColumns(XorBlock(s, k))) = XorBlock(s, k)
  BY <1>1, MixInverse
<1>7. XorBlock(XorBlock(s, k), k) = s
  BY XorBlockUndone
<1> QED
  BY <1>2, <1>3, <1>4, <1>5, <1>6, <1>7

\* The inverse cipher undoes the cipher, for every key and every block: its
\* state after r rounds is that of the cipher n - 1 - r rounds after the
\* start, SubBytes and ShiftRows applied.
THEOREM DecipherUndoesCipher ==
  ASSUME NEW n \in Nat \ {0}, NEW key \in Expanded(n), NEW ks, InverseKeys(ks, key, n),
         NEW b \in Block
  PROVE  /\ Cipher(b, key, n) \in Block
         /\ Decipher(Cipher(b, key, n), ks, n) = b
<1> DEFINE C == CipherStates(b, key, n)
           x == Cipher(b, key, n)
           D == InvStates(x, ks, n)
           K(r) == RoundKey(key, r)
           T == {r \in 0 .. n - 1 : D[r] = ShiftedBytes(C[n - 1 - r])}
<1>1. /\ C \in [0 .. n -> Block]
      /\ C[0] = XorBlock(b, K(0))
      /\ \A r \in 1 .. n - 1 : C[r] = XorBlock(MixColumns(ShiftedBytes(C[r - 1])), K(r))
      /\ C[n] = XorBlock(ShiftedBytes(C[n - 1]), K(n))
  <2>1. n \in Nat /\ n > 0
    OBVIOUS
  <2> QED
    BY <2>1, CipherStatesKnown, Zenon
<1>2. x = C[n] /\ x \in Block
  <2>1. n \in 0 .. n
    OBVIOUS
  <2> QED
    BY <1>1, <2>1 DEF Cipher
<1> HIDE DEF C, x
<1>3. ks \in [0 .. n -> Block]
  BY DEF InverseKeys
<1>4. /\ D[0] = XorBlock(x, ks[0])
      /\ \A r \in 1 .. n - 1 : D[r] = XorBlock(InvMixColumns(InvShiftedBytes(D[r - 1])), ks[r])
  BY <1>2, <1>3, InvStatesKnown, Zenon
<1>5. Decipher(x, ks, n) = XorBlock(InvShiftedBytes(D[n - 1]), ks[n])
  BY DEF Decipher
<1> HIDE DEF D
<1>6. /\ ks[0] = K(n) /\ ks[n] = K(0)
      /\ \A r \in 1 .. n - 1 : ks[r] = InvMixColumns(K(n - r))
  BY InverseKeysAre
<1>7. \A r \in 0 .. n : K(r) \in Block /\ C[r] \in Block /\ ShiftedBytes(C[r]) \in Block
  <2>1. \A r \in 0 .. n : C[r] \in Block
    BY <1>1
  <2> QED
    BY <2>1, RoundKeyType, ShiftedType
<1> HIDE DEF K
<1>8. 0 \in T
  <2>1. n - 1 \in 0 .. n /\ n \in 0 .. n /\ 0 \in 0 .. n - 1 /\ (n - 1) - 0 = n - 1
    OBVIOUS
  <2>2. D[0] = ShiftedBytes(C[n - 1])
    BY <1>1, <1>2, <1>4, <1>6, <1>7, <2>1, XorBlockUndone
  <2> QED
    BY <2>1, <2>2
<1>9. ASSUME NEW r \in 0 .. (n - 1) - 1, r \in T PROVE r + 1 \in T
  <2> DEFINE i == (n - 1) - r
  <2>1. /\ r + 1 \in 1 .. n - 1 /\ r + 1 \in 0 .. n - 1 /\ (r + 1) - 1 = r
        /\ i \in 1 .. n - 1 /\ i \in 0 .. n /\ i - 1 \in 0 .. n
        /\ n - (r + 1) = i /\ (n - 1) - (r + 1) = i - 1
    OBVIOUS
  <2> HIDE DEF i
  <2>2. InvShiftedBytes(D[r]) = C[i]
    BY <1>7, <1>9, <2>1, ShiftedInverse DEF i
  <2>3. C[i] = XorBlock(MixColumns(ShiftedBytes(C[i - 1])), K(i))
    BY <1>1, <2>1
  <2>4. D[r + 1] = XorBlock(InvMixColumns(C[i]), InvMixColumns(K(i)))
    BY <1>4, <1>6, <2>1, <2>2
  <2>5. K(i) \in Block /\ ShiftedBytes(C[i - 1]) \in Block
    BY <1>7, <2>1
  <2>6. D[r + 1] = ShiftedBytes(C[i - 1])
    BY <2>3, <2>4, <2>5, RoundUndone
  <2> QED
    BY <2>1, <2>6
<1>10. n - 1 \in T
  <2>1. n - 1 \in Nat /\ n - 1 \in 0 .. n - 1
    OBVIOUS
  <2> HIDE DEF T
  <2> QED
    BY <1>8, <1>9, <2>1, UpTo
<1>11. Decipher(x, ks, n) = b
  <2>1. D[n - 1] = ShiftedBytes(C[0])
    BY <1>10
  <2>2. C[0] \in Block /\ K(0) \in Block
    BY <1>7
  <2> QED
    BY <1>1, <1>5, <1>6, <2>1, <2>2, ShiftedInverse, XorBlockUndone
<1> QED
  BY <1>2, <1>11 DEF x

\* The cipher undoes the inverse cipher, by the same argument with the two
\* in each other's place.
THEOREM CipherUndoesDecipher ==
  ASSUME NEW n \in Nat \ {0}, NEW key \in Expanded(n), NEW ks, InverseKeys(ks, key, n),
         NEW b \in Block
  PROVE  /\ Decipher(b, ks, n) \in Block
         /\ Cipher(Decipher(b, ks, n), key, n) = b
<1> DEFINE D == InvStates(b, ks, n)
           x == Decipher(b, ks, n)
           C == CipherStates(x, key, n)
           K(r) == RoundKey(key, r)
           T == {r \in 0 .. n - 1 : C[r] = InvShiftedBytes(D[n - 1 - r])}
<1>1. ks \in [0 .. n -> Block]
  BY DEF InverseKeys
<1>2. /\ D \in [0 .. n - 1 -> Block]
      /\ D[0] = XorBlock(b, ks[0])
      /\ \A r \in 1 .. n - 1 : D[r] = XorBlock(InvMixColumns(InvShiftedBytes(D[r - 1])), ks[r])
      /\ x \in Block
  BY <1>1, InvStatesKnown, Zenon
<1>3. x = XorBlock(InvShiftedBytes(D[n - 1]), ks[n])
  BY DEF Decipher
<1> HIDE DEF D, x
<1>4. /\ C[0] = XorBlock(x, K(0))
      /\ \A r \in 1 .. n - 1 : C[r] = XorBlock(MixColumns(ShiftedBytes(C[r - 1])), K(r))
      /\ C[n] = XorBlock(ShiftedBytes(C[n - 1]), K(n))
  <2>1. n \in Nat /\ n > 0
    OBVIOUS
  <2> QED
    BY <1>2, <2>1, CipherStatesKnown, Zenon
<1>5. Cipher(x, key, n) = C[n]
  BY DEF Cipher
<1> HIDE DEF C
<1>6. /\ ks[0] = K(n) /\ ks[n] = K(0)
      /\ \A r \in 1 .. n - 1 : ks[r] = InvMixColumns(K(n - r))
  BY InverseKeysAre
<1>7. /\ \A r \in 0 .. n : K(r) \in Block
      /\ \A r \in 0 .. n - 1 : D[r] \in Block /\ InvShiftedBytes(D[r]) \in Block
  <2>1. \A r \in 0 .. n - 1 : D[r] \in Block
    BY <1>2
  <2> QED
    BY <2>1, RoundKeyType, ShiftedType
<1> HIDE DEF K
<1>8. 0 \in T
  <2>1. 0 \in 0 .. n /\ n - 1 \in 0 .. n - 1 /\ 0 \in 0 .. n - 1 /\ (n - 1) - 0 = n - 1
    OBVIOUS
  <2>2. C[0] = InvShiftedBytes(D[n - 1])
    BY <1>3, <1>4, <1>6, <1>7, <2>1, XorBlockUndone
  <2> QED
    BY <2>1, <2>2
<1>9. ASSUME NEW r \in 0 .. (n - 1) - 1, r \in T PROVE r + 1 \in T
  <2> DEFINE i == (n - 1) - r
  <2>1. /\ r + 1 \in 1 .. n - 1 /\ r + 1 \in 0 .. n /\ r + 1 \in 0 .. n - 1 /\ (r + 1) - 1 = r
        /\ i \in 1 .. n - 1 /\ i \in 0 .. n - 1 /\ i - 1 \in 0 .. n - 1
        /\ n - i = r + 1 /\ (n - 1) - (r + 1) = i - 1
    OBVIOUS
  <2> HIDE DEF i
  <2>2. ShiftedBytes(C[r]) = D[i]
    BY <1>7, <1>9, <2>1, ShiftedInverse DEF i
  <2>3. D[i] = XorBlock(InvMixColumns(InvShiftedBytes(D[i - 1])), InvMixColumns(K(r + 1)))
    BY <1>2, <1>6, <2>1
  <2>4. C[r + 1] = XorBlock(MixColumns(D[i]), K(r + 1))
    BY <1>4, <2>1, <2>2
  <2>5. K(r + 1) \in Block /\ InvShiftedBytes(D[i - 1]) \in Block
    BY <1>7, <2>1
  <2>6. C[r + 1] = InvShiftedBytes(D[i - 1])
    BY <2>3, <2>4, <2>5, RoundUndone
  <2> QED
    BY <2>1, <2>6
<1>10. n - 1 \in T
  <2>1. n - 1 \in Nat /\ n - 1 \in 0 .. n - 1
    OBVIOUS
  <2> HIDE DEF T
  <2> QED
    BY <1>8, <1>9, <2>1, UpTo
<1>11. Cipher(x, key, n) = b
  <2>1. C[n - 1] = InvShiftedBytes(D[0])
    BY <1>10
  <2>2. D[0] \in Block /\ K(n) \in Block
    <3>1. 0 \in 0 .. n - 1 /\ n \in 0 .. n
      OBVIOUS
    <3> QED
      BY <1>7, <3>1
  <2>3. ShiftedBytes(C[n - 1]) = D[0]
    BY <2>1, <2>2, ShiftedInverse
  <2> QED
    BY <1>2, <1>4, <1>5, <1>6, <2>2, <2>3, XorBlockUndone
<1> QED
  BY <1>2, <1>11 DEF x

=============================================================================
