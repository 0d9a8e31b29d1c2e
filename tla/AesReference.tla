---------------------------- MODULE AesReference ----------------------------
(***************************************************************************)
(* AES as FIPS 197 defines it, to compare the kernels with: a state of     *)
(* four columns, each a word, that the steps SubBytes, ShiftRows,          *)
(* MixColumns and AddRoundKey transform.  No lookup table of the kernels   *)
(* is used.                                                                *)
(***************************************************************************)
EXTENDS AesTables

\* The product in GF(2^8), bit by bit of b from the top.
GfProduct(a, b) ==
  LET sum[i \in 0 .. 8] ==   \* the product with the bits of b from 8 - i on
        IF i = 0 THEN 0
        ELSE XorByte(Times2(sum[i - 1]), a * ((b \div 2^(8 - i)) % 2))
  IN  sum[8]
GfTable == [a \in 1 .. 14 |-> [b \in Byte |-> GfProduct(a, b)]]

\* The element that times a is 1, and 0 for 0.
GfInverse(a) ==
  IF a = 0 THEN 0 ELSE CHOOSE b \in 1 .. 255 : GfProduct(a, b) = 1

SBox ==
  [x \in Byte |->
     LET y == GfInverse(x)
         bit(i) == ( y \div 2^i + y \div 2^((i + 4) % 8) + y \div 2^((i + 5) % 8)
                   + y \div 2^((i + 6) % 8) + y \div 2^((i + 7) % 8) + 99 \div 2^i) % 2
         low[i \in 0 .. 8] == IF i = 0 THEN 0 ELSE low[i - 1] + 2^(i - 1) * bit(i - 1)
     IN  low[8]]

Block == [1 .. 4 -> Word]

\* SubBytes and then ShiftRows.
ShiftedBytes(s) == Four(LAMBDA c : Four(LAMBDA r : SBox[s[After(c, r - 1)][r]]))

\* Each column times the circulant matrix whose first row is m.
MixWith(m, s) ==
  LET term(c, r, k) == GfTable[m[After(1, 4 + k - r)]][s[c][k]]
  IN  Four(LAMBDA c : Four(LAMBDA r :
        XorBytes(term(c, r, 1), term(c, r, 2), term(c, r, 3), term(c, r, 4))))

MixColumns(s)    == MixWith(<<2, 3, 1, 1>>, s)
InvMixColumns(s) == MixWith(<<14, 11, 13, 9>>, s)

\* The round keys are the words of an expanded key, four by four.
RoundKey(key, r) == Four(LAMBDA c : key[4 * r + c])

\* The rounds, as functions of the state: the last one, n, mixes no columns.
CipherRounds(key, n) ==
  [r \in 1 .. n |->
     [s \in Block |->
        XorBlock(IF r < n THEN MixColumns(ShiftedBytes(s)) ELSE ShiftedBytes(s), RoundKey(key, r))]]

\* The states of the cipher for block b under the expanded key: before the
\* first and after each of the n rounds.  The last one is the result.
CipherStates(b, key, n) ==
  LET after[r \in 0 .. n] ==
        IF r = 0 THEN XorBlock(b, RoundKey(key, 0)) ELSE CipherRounds(key, n)[r][after[r - 1]]
  IN  after

Cipher(b, key, n) == CipherStates(b, key, n)[n]

\* The round keys of the equivalent inverse cipher: those of the cipher
\* backwards, the inner ones through InvMixColumns.
InverseRoundKey(key, n, r) ==
  LET k == RoundKey(key, n - r) IN IF r \in 1 .. n - 1 THEN InvMixColumns(k) ELSE k

\* The key expansion, for a key of n - 6 words: words[i] holds the first i.
ExpandKey(key, n) ==
  LET nk == n - 6
      subst(v) == Four(LAMBDA i : SBox[v[i]])
      rotate(v) == <<v[2], v[3], v[4], v[1]>>
      rcon[i \in 1 .. 10] == IF i = 1 THEN 1 ELSE Times2(rcon[i - 1])
      derived(i, w) ==
        LET t == w[i]
        IN  XorWord(w[i - nk + 1],
              IF i % nk = 0 THEN XorWord(subst(rotate(t)), <<rcon[i \div nk], 0, 0, 0>>)
              ELSE IF nk > 6 /\ i % nk = 4 THEN subst(t)
              ELSE t)
      words[i \in 0 .. 4 * n + 4] ==
        IF i = 0 THEN <<>>
        ELSE LET w == words[i - 1]
             IN  Append(w, IF i <= nk THEN key[i] ELSE derived(i - 1, w))
  IN  words[4 * n + 4]

=============================================================================
