------------------------------ MODULE AesTables ------------------------------
(***************************************************************************)
(* The lookup tables of the AES kernels and the arithmetic behind them.    *)
(* A 32-bit word is the sequence of its four bytes, the most significant   *)
(* first.  Te4 is written down; the other tables, 256 literals each in the *)
(* source, are given by the rule their entries follow.                     *)
(***************************************************************************)
EXTENDS Integers, Sequences

Byte == 0 .. 255
Word == [1 .. 4 -> Byte]

\* Four values, one per byte of a word or per word of a block, and the
\* index k places after i.
Four(f(_))  == [i \in 1 .. 4 |-> f(i)]
After(i, k) == ((i - 1 + k) % 4) + 1

\* Exclusive or of bytes, of two words and of two blocks of four words.
XorTable ==
  [a \in Byte |-> [b \in Byte |->
     LET low[i \in 0 .. 8] ==   \* of the i lowest bits
           IF i = 0 THEN 0
           ELSE low[i - 1] + 2^(i - 1) * ((a \div 2^(i - 1) + b \div 2^(i - 1)) % 2)
     IN  low[8]]]

XorByte(a, b) == XorTable[a][b]

XorBytes(a, b, c, d) == XorByte(XorByte(a, b), XorByte(c, d))
XorWord(v, w)  == Four(LAMBDA i : XorByte(v[i], w[i]))
XorBlock(v, w) == Four(LAMBDA i : Four(LAMBDA b : XorByte(v[i][b], w[i][b])))

\* Multiplication in GF(2^8) by 2 and, from it, by the constants of AES.
Doubled == [a \in Byte |-> IF a < 128 THEN 2 * a ELSE XorByte(2 * a - 256, 27)]
Times2(a) == Doubled[a]
Times3(a) == XorByte(Times2(a), a)
Times8(a) == Times2(Times2(Times2(a)))
Times9(a) == XorByte(Times8(a), a)
Times11(a) == XorByte(Times8(a), Times3(a))
Times13(a) == XorByte(Times9(a), Times2(Times2(a)))
Times14(a) == XorByte(XorByte(Times8(a), Times2(Times2(a))), Times2(a))

\* The byte that fills Te4[x]: the S-box.
Te4 ==
  << 99, 124, 119, 123, 242, 107, 111, 197,  48,   1, 103,  43, 254, 215, 171, 118,
    202, 130, 201, 125, 250,  89,  71, 240, 173, 212, 162, 175, 156, 164, 114, 192,
    183, 253, 147,  38,  54,  63, 247, 204,  52, 165, 229, 241, 113, 216,  49,  21,
      4, 199,  35, 195,  24, 150,   5, 154,   7,  18, 128, 226, 235,  39, 178, 117,
      9, 131,  44,  26,  27, 110,  90, 160,  82,  59, 214, 179,  41, 227,  47, 132,
     83, 209,   0, 237,  32, 252, 177,  91, 106, 203, 190,  57,  74,  76,  88, 207,
    208, 239, 170, 251,  67,  77,  51, 133,  69, 249,   2, 127,  80,  60, 159, 168,
     81, 163,  64, 143, 146, 157,  56, 245, 188, 182, 218,  33,  16, 255, 243, 210,
    205,  12,  19, 236,  95, 151,  68,  23, 196, 167, 126,  61, 100,  93,  25, 115,
     96, 129,  79, 220,  34,  42, 144, 136,  70, 238, 184,  20, 222,  94,  11, 219,
    224,  50,  58,  10,  73,   6,  36,  92, 194, 211, 172,  98, 145, 149, 228, 121,
    231, 200,  55, 109, 141, 213,  78, 169, 108,  86, 244, 234, 101, 122, 174,   8,
    186, 120,  37,  46,  28, 166, 180, 198, 232, 221, 116,  31,  75, 189, 139, 138,
    112,  62, 181, 102,  72,   3, 246,  14,  97,  53,  87, 185, 134, 193,  29, 158,
    225, 248, 152,  17, 105, 217, 142, 148, 155,  30, 135, 233, 206,  85,  40, 223,
    140, 161, 137,  13, 191, 230,  66, 104,  65, 153,  45,  15, 176,  84, 187,  22 >>
S(x) == Te4[x + 1]

Te0 == [x \in Byte |-> <<Times2(S(x)), S(x), S(x), Times3(S(x))>>]
Te1 == [x \in Byte |-> <<Times3(S(x)), Times2(S(x)), S(x), S(x)>>]
Te2 == [x \in Byte |-> <<S(x), Times3(S(x)), Times2(S(x)), S(x)>>]
Te3 == [x \in Byte |-> <<S(x), S(x), Times3(S(x)), Times2(S(x))>>]

\* The byte that fills Td4[x]: the S-box backwards.
Td4 == [x \in Byte |-> CHOOSE y \in Byte : S(y) = x]

Td0 == [x \in Byte |-> LET y == Td4[x] IN <<Times14(y), Times9(y), Times13(y), Times11(y)>>]
Td1 == [x \in Byte |-> LET y == Td4[x] IN <<Times11(y), Times14(y), Times9(y), Times13(y)>>]
Td2 == [x \in Byte |-> LET y == Td4[x] IN <<Times13(y), Times11(y), Times14(y), Times9(y)>>]
Td3 == [x \in Byte |-> LET y == Td4[x] IN <<Times9(y), Times13(y), Times11(y), Times14(y)>>]

=============================================================================
