---------------------------- MODULE TogpuCipher ----------------------------
(***************************************************************************)
(* The AES kernels.  A launch starts one thread per AES block of the       *)
(* packet (four lanes of one warp, which execute each statement together,  *)
(* in the two bp4t kernels); the threads run in any order and write their  *)
(* results over the packet.  The key, the number of rounds, the counter    *)
(* and the tweaks are what the host passes, the expanded keys of AES or    *)
(* not: the only launch in the repository passes 134 rounds and a key that *)
(* is shorter, so that the last round reads the memory behind it.          *)
(* To see what one kernel does and that the other undoes it, a behaviour   *)
(* launches a kernel and, when its threads have ended, its inverse.        *)
(* A name of the form Action_Mistake is a wrong version of the definition  *)
(* that follows, to show that a property catches the mistake.              *)
(***************************************************************************)
EXTENDS AesFacts

CONSTANTS
  Threads,   \* the number of threads, or groups of four lanes, of a launch
  Keys,      \* the keys
  AesKeys,   \* the keys of AES among them: 10, 12 or 14 rounds, and the round
             \* keys that the equivalent inverse cipher needs for decryption
  Rounds,    \* the number of rounds passed with each
  EncKey,    \* the words at each key, as encryption and as decryption gets
  DecKey,    \* them: the key, then whatever lies behind it in memory
  Length,    \* the bytes of the packet, counted from 0
  Text,
  Ctr,       \* the counter block of the counter modes: 16 bytes
  Ivs        \* the tweak of each block in XTS mode

Thread == 0 .. Threads - 1
Header == 32   \* the bytes of a packet that are skipped

ASSUME CipherAssumption ==
  /\ Threads \in Nat
  /\ \A k \in Keys :
       /\ Rounds[k] \in Nat /\ Rounds[k] >= 10   \* as many as are executed at least
       /\ EncKey[k] \in [1 .. 4 * (Rounds[k] + 1) -> Word]
       /\ DecKey[k] \in [1 .. 4 * (Rounds[k] + 1) -> Word]
  /\ AesKeys \subseteq Keys
  /\ \A k \in AesKeys :
       /\ Rounds[k] \in {10, 12, 14}
       /\ \A r \in 0 .. Rounds[k] :
            RoundKey(DecKey[k], r) = InverseRoundKey(EncKey[k], Rounds[k], r)
  /\ Length \in Nat /\ Header + 16 * Threads <= Length
  /\ Text \in [0 .. Length - 1 -> Byte]
  /\ Ctr \in [0 .. 15 -> Byte]
  /\ Ivs \in [Thread -> Block]

\* Each kernel and the one that undoes it.
Undo ==
  [aes_encrypt_bpt  |-> "aes_decrypt_bpt",  aes_decrypt_bpt  |-> "aes_encrypt_bpt",
   aes_encrypt_bp4t |-> "aes_decrypt_bp4t", aes_decrypt_bp4t |-> "aes_encrypt_bp4t",
   aes_ctr_crypt    |-> "aes_ctr_crypt",    aes_lctr_crypt   |-> "aes_lctr_crypt",
   xts_encrypt      |-> "xts_decrypt",      xts_decrypt      |-> "xts_encrypt"]

Kernels    == DOMAIN Undo
FourLanes  == {"aes_encrypt_bp4t", "aes_decrypt_bp4t"}
Decrypting == {"aes_decrypt_bpt", "aes_decrypt_bp4t", "xts_decrypt"}

VARIABLES
  key,           \* the key
  kernel,        \* the kernel that runs, and its arguments:
  rk, nrounds,   \* the expanded key and the number of rounds,
  text,          \* and the packet
  pc,            \* of each thread: 0, then 1 + the rounds it has done
  state,         \* the words s0..s3 or t0..t3 of each thread
  launch         \* 1: the kernel, 2: its inverse

args == <<key, kernel, rk, nrounds>>
vars == <<args, text, pc, state, launch>>

KeyFor(f) == IF f \in Decrypting THEN DecKey[key] ELSE EncKey[key]

\* The rounds before the last one, whatever nrounds says.
InnerRounds(n) == IF n > 12 THEN 13 ELSE IF n > 10 THEN 11 ELSE 9

Done == InnerRounds(nrounds) + 2

NoBlock == Four(LAMBDA i : <<0, 0, 0, 0>>)

Init ==
  /\ kernel \in Kernels
  /\ key \in Keys
  /\ nrounds = Rounds[key]
  /\ rk = KeyFor(kernel)
  /\ text = Text
  /\ pc = [th \in Thread |-> 0]
  /\ state = [th \in Thread |-> NoBlock]
  /\ launch = 1

-----------------------------------------------------------------------------
(***************************************************************************)
(* Memory.  The words in memory are little-endian, those of the cipher     *)
(* have the first byte on top: the bytes are permuted on the way.          *)
(***************************************************************************)
GETU32(m, p) == <<m[p], m[p + 1], m[p + 2], m[p + 3]>>
GetBlock(m, p) == Four(LAMBDA i : GETU32(m, p + 4 * (i - 1)))

PutBlock(m, p, block) ==
  [q \in DOMAIN m |->
     IF q \in p .. p + 15 THEN block[((q - p) \div 4) + 1][((q - p) % 4) + 1] ELSE m[q]]

At_NoHeader(th) == 16 * th

\* Where the block of a thread begins; the bp4t kernels skip no header.
At(th) == IF kernel \in FourLanes THEN 16 * th ELSE Header + 16 * th

big_u128_add_WordCarry(ctr, offset) ==
  LET carry[i \in 8 .. 15] ==
        IF i = 15 THEN offset
        ELSE IF i = 11 THEN 0 ELSE (ctr[i + 1] + carry[i + 1]) \div 256
  IN  [i \in 0 .. 15 |-> IF i < 8 THEN 0 ELSE (ctr[i] + carry[i]) % 256]

\* The lower 64 bits of the counter plus offset; the upper ones become 0.
big_u128_add(ctr, offset) ==
  LET carry[i \in 8 .. 15] ==
        IF i = 15 THEN offset ELSE (ctr[i + 1] + carry[i + 1]) \div 256
  IN  [i \in 0 .. 15 |-> IF i < 8 THEN 0 ELSE (ctr[i] + carry[i]) % 256]

thread_ctr_offset(th) == th

Counter(th) == GetBlock(big_u128_add(Ctr, thread_ctr_offset(th)), 0)

-----------------------------------------------------------------------------
(***************************************************************************)
(* Rounds: each word of the next state is made of four tables, indexed by  *)
(* one byte of each word, and a word of the key.                           *)
(***************************************************************************)
EncRound(s, row) ==
  Four(LAMBDA i : Four(LAMBDA b :
    XorByte(XorBytes(Te0[s[i][1]][b],           Te1[s[After(i, 1)][2]][b],
                     Te2[s[After(i, 2)][3]][b], Te3[s[After(i, 3)][4]][b]), rk[4 * row + i][b])))

DecRound(s, row) ==
  Four(LAMBDA i : Four(LAMBDA b :
    XorByte(XorBytes(Td0[s[i][1]][b],           Td1[s[After(i, 3)][2]][b],
                     Td2[s[After(i, 2)][3]][b], Td3[s[After(i, 1)][4]][b]), rk[4 * row + i][b])))

EncFinal(s) ==
  Four(LAMBDA i : Four(LAMBDA b :
    XorByte(S(s[After(i, b - 1)][b]), rk[4 * nrounds + i][b])))

\* Byte b of word i comes from the word b - 1 places before; lastKey is the
\* key of the last round.
DecFinal(s, lastKey) ==
  Four(LAMBDA i : Four(LAMBDA b : XorByte(Td4[s[After(i, 5 - b)][b]], lastKey[i][b])))

LastKey == Four(LAMBDA i : rk[4 * nrounds + i])

\* The three parts of a thread: the block and the first key, a round, and
\* the last round, whose result goes back to the packet.
Load(th, block) ==
  /\ pc[th] = 0
  /\ state' = [state EXCEPT ![th] = XorBlock(block, Four(LAMBDA i : rk[i]))]
  /\ pc' = [pc EXCEPT ![th] = 1]
  /\ UNCHANGED <<args, text, launch>>

Round(th, next) ==
  /\ pc[th] \in 1 .. InnerRounds(nrounds)
  /\ state' = [state EXCEPT ![th] = next]
  /\ pc' = [pc EXCEPT ![th] = @ + 1]
  /\ UNCHANGED <<args, text, launch>>

Store(th, block) ==
  /\ pc[th] = InnerRounds(nrounds) + 1
  /\ text' = PutBlock(text, At(th), block)
  /\ state' = [state EXCEPT ![th] = NoBlock]
  /\ pc' = [pc EXCEPT ![th] = Done]
  /\ UNCHANGED <<args, launch>>

-----------------------------------------------------------------------------
(***************************************************************************)
(* The kernels, as one of their threads executes them.                     *)
(***************************************************************************)
OwnBlock(th) == GetBlock(text, At(th))

Encrypt(th) ==
  \/ Load(th, OwnBlock(th))
  \/ Round(th, EncRound(state[th], pc[th]))
  \/ Store(th, EncFinal(state[th]))

aes_encrypt_bpt(th)  == kernel = "aes_encrypt_bpt" /\ Encrypt(th)
aes_encrypt_bp4t(th) == kernel = "aes_encrypt_bp4t" /\ Encrypt(th)

aes_decrypt_bpt(th) ==
  /\ kernel = "aes_decrypt_bpt"
  /\ \/ Load(th, OwnBlock(th))
     \/ Round(th, DecRound(state[th], pc[th]))
     \/ Store(th, DecFinal(state[th], LastKey))

\* Its rounds use the words 4 to 11 of the key in turn, and the last one
\* the same word in every lane.
aes_decrypt_bp4t(th) ==
  /\ kernel = "aes_decrypt_bp4t"
  /\ \/ Load(th, OwnBlock(th))
     \/ Round(th, DecRound(state[th], IF pc[th] % 2 = 1 THEN 1 ELSE 2))
     \/ Store(th, DecFinal(state[th], Four(LAMBDA i : rk[4 * nrounds + 1])))

CounterMode(th) ==
  \/ Load(th, Counter(th))
  \/ Round(th, EncRound(state[th], pc[th]))
  \/ Store(th, XorBlock(OwnBlock(th), EncFinal(state[th])))

aes_ctr_crypt(th)  == kernel = "aes_ctr_crypt" /\ CounterMode(th)
aes_lctr_crypt(th) == kernel = "aes_lctr_crypt" /\ CounterMode(th)

xts_encrypt_NoTweakAfter(th) ==
  /\ kernel = "xts_encrypt"
  /\ \/ Load(th, XorBlock(Ivs[th], OwnBlock(th)))
     \/ Round(th, EncRound(state[th], pc[th]))
     \/ Store(th, EncFinal(state[th]))

xts_encrypt(th) ==
  /\ kernel = "xts_encrypt"
  /\ \/ Load(th, XorBlock(Ivs[th], OwnBlock(th)))
     \/ Round(th, EncRound(state[th], pc[th]))
     \/ Store(th, XorBlock(Ivs[th], EncFinal(state[th])))

xts_decrypt(th) ==
  /\ kernel = "xts_decrypt"
  /\ \/ Load(th, XorBlock(Ivs[th], OwnBlock(th)))
     \/ Round(th, DecRound(state[th], pc[th]))
     \/ Store(th, XorBlock(Ivs[th], DecFinal(state[th], LastKey)))

\* The host launches the inverse when the threads have ended.
Relaunch ==
  /\ launch = 1 /\ \A th \in Thread : pc[th] = Done
  /\ launch' = 2
  /\ kernel' = Undo[kernel]
  /\ rk' = KeyFor(kernel')
  /\ pc' = [th \in Thread |-> 0]
  /\ UNCHANGED <<key, nrounds, text, state>>

Next ==
  \/ \E th \in Thread :
       \/ aes_encrypt_bpt(th)  \/ aes_decrypt_bpt(th)
       \/ aes_encrypt_bp4t(th) \/ aes_decrypt_bp4t(th)
       \/ aes_ctr_crypt(th)    \/ aes_lctr_crypt(th)
       \/ xts_encrypt(th)      \/ xts_decrypt(th)
  \/ Relaunch

Spec == Init /\ [][Next]_vars

-----------------------------------------------------------------------------
(***************************************************************************)
(* Properties.                                                             *)
(***************************************************************************)

\* The counter blocks of the counter mode: Ctr, then 1 more each time in the
\* lower 64 bits, with every carry, and the same upper ones.
CounterBlocks ==
  LET successor(b) ==
        [i \in 0 .. 15 |->
           IF i >= 8 /\ \A j \in i + 1 .. 15 : b[j] = 255 THEN (b[i] + 1) % 256 ELSE b[i]]
      blocks[th \in 0 .. Threads] == IF th = 0 THEN Ctr ELSE successor(blocks[th - 1])
  IN  blocks

\* big_u128_add stores 0 for the upper 64 bits (kernel.cu:872, where the copy is
\* commented out), so its blocks are those of the mode only if they were 0.
CounterFits == \A i \in 0 .. 7 : Ctr[i] = 0

\* aes_decrypt_bp4t decrypts only if all words of the key are the same, which no
\* expanded key is: its rounds use the round keys 1 and 2 alone.
KeyFits ==
  kernel \in FourLanes => \A i \in DOMAIN EncKey[key] : EncKey[key][i] = EncKey[key][1]

\* Each thread that has ended has put into its block what AES makes of the
\* block that was there, in the mode of the kernel, whatever the other
\* threads did meanwhile: the unrolled table lookups (kernel.cu:885 to 1723) compute
\* the cipher of FIPS 197.  Not claimed: any key that is not one of AES, the
\* one of aes_test included; the counter modes when the upper half of the
\* counter is not 0; aes_decrypt_bp4t, which does not decrypt.
KernelsComputeAes ==
  launch = 1 /\ key \in AesKeys /\ kernel # "aes_decrypt_bp4t"
    /\ (kernel \in {"aes_ctr_crypt", "aes_lctr_crypt"} => CounterFits) =>
    \A th \in Thread :
      pc[th] = Done =>
        LET old == GetBlock(Text, At(th))
            new == OwnBlock(th)
            ends ==   \* what AES is applied to, and what it makes of it
              CASE kernel \in {"aes_encrypt_bpt", "aes_encrypt_bp4t"} -> <<old, new>>
                [] kernel = "aes_decrypt_bpt" -> <<new, old>>
                [] kernel \in {"aes_ctr_crypt", "aes_lctr_crypt"} ->
                     <<GetBlock(CounterBlocks[th], 0), XorBlock(old, new)>>
                [] kernel = "xts_encrypt" -> <<XorBlock(Ivs[th], old), XorBlock(Ivs[th], new)>>
                [] kernel = "xts_decrypt" -> <<XorBlock(Ivs[th], new), XorBlock(Ivs[th], old)>>
        IN  Cipher(ends[1], EncKey[key], nrounds) = ends[2]

\* A kernel and then its inverse leave the packet as it was, with a key of AES
\* (kernel.cu:1760 "Decryption test").
RoundTrip ==
  (launch = 2 /\ key \in AesKeys /\ KeyFits /\ \A th \in Thread : pc[th] = Done) => text = Text

\* No byte of the packet changes but those of the blocks whose threads have
\* ended: not the header, nor what follows the last whole block, nor a block
\* another thread still has to read.  For every key and number of rounds, those
\* aes_test passes included.
OnlyOwnBlock ==
  LET first == IF kernel \in FourLanes THEN 0 ELSE Header
  IN  \A q \in DOMAIN Text :
        text[q] # Text[q] =>
          LET th == (q - first) \div 16
          IN  th \in Thread /\ (launch = 2 \/ pc[th] = Done)

=============================================================================
