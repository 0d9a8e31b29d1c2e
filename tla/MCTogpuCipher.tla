--------------------------- MODULE MCTogpuCipher ---------------------------
(***************************************************************************)
(* Values for TLC: the example keys of FIPS 197 in the three key sizes, a  *)
(* key whose words are all 0, and cipher_key as aes_test passes it: 128    *)
(* words that are 0, for 134 rounds, with two contents of the memory that  *)
(* follows.                                                                *)
(***************************************************************************)
EXTENDS TogpuCipher

MCThreads == 2

FipsKeys   == {"AES-128", "AES-192", "AES-256"}
CipherKeys == {"cipher_key before 0", "cipher_key before 255"}
MCAesKeys  == FipsKeys \cup {"zero"}
MCKeys     == MCAesKeys \cup CipherKeys
MCRounds ==
  [k \in MCKeys |-> CASE k = "AES-128" -> 10 [] k = "AES-192" -> 12
                      [] k \in CipherKeys -> 134 [] OTHER -> 14]

\* The bytes 00 01 02 ... up to the length of the key, expanded.
FipsBytes == [i \in 1 .. 8 |-> Four(LAMBDA b : 4 * i + b - 5)]
FipsKey(n) == ExpandKey(SubSeq(FipsBytes, 1, n - 6), n)

\* 128 words of 0, then the memory behind them.
CipherKey(behind) == [i \in 1 .. 4 * 135 |-> Four(LAMBDA b : IF i <= 128 THEN 0 ELSE behind)]

MCEncKey ==
  [k \in MCKeys |->
     CASE k \in FipsKeys -> FipsKey(MCRounds[k])
       [] k = "zero" -> SubSeq(CipherKey(0), 1, 60)
       [] k = "cipher_key before 0" -> CipherKey(0)
       [] k = "cipher_key before 255" -> CipherKey(255)]

\* aes_test would pass the same words to decrypt.
MCDecKey ==
  [k \in MCKeys |->
     IF k \in CipherKeys THEN MCEncKey[k]
     ELSE [w \in 1 .. 4 * (MCRounds[k] + 1) |->
             InverseRoundKey(MCEncKey[k], MCRounds[k], (w - 1) \div 4)[((w - 1) % 4) + 1]]]

\* The block 00 11 22 ... ff of FIPS 197, and a packet of different blocks.
FipsByte(q) == 17 * (q % 16)

MCLength == Header + 16 * MCThreads + 3
MCText == [q \in 0 .. MCLength - 1 |-> (FipsByte(q) + 5 * (q \div 16)) % 256]

\* The sum of counter and thread carries over all lower bytes.
MCCtr == [i \in 0 .. 15 |-> IF i < 8 THEN 0 ELSE IF i = 8 THEN 1 ELSE 255]

MCIvs == [th \in 0 .. MCThreads - 1 |-> Four(LAMBDA c : Four(LAMBDA b : 90 + 16 * th + 4 * c + b))]

\* The results FIPS 197, appendix C, gives for that block and those keys.
FipsResult ==
  [n \in {10, 12, 14} |->
     CASE n = 10 -> <<105, 196, 224, 216, 106, 123, 4, 48, 216, 205, 183, 128, 112, 180, 197, 90>>
       [] n = 12 -> <<221, 169, 124, 164, 134, 76, 223, 224, 110, 175, 112, 160, 236, 13, 113, 145>>
       [] n = 14 -> <<142, 162, 183, 202, 81, 103, 69, 191, 234, 252, 73, 144, 75, 73, 96, 137>>]

ASSUME ReferenceIsAes ==
  \A n \in {10, 12, 14} :
    Cipher(GetBlock([q \in 0 .. 15 |-> FipsByte(q)], 0), FipsKey(n), n)
      = GetBlock([q \in 0 .. 15 |-> FipsResult[n][q + 1]], 0)

=============================================================================
