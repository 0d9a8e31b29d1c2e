# TOGPU: a verification project for Porteus_GPU

Porteus_GPU is a live Linux distribution for GPU development. Its own program is
TOGPU: a Netfilter target and kernel driver (`src/togpu/driver`) that moves the
data of received packets into GPU-visible memory and has a CUDA program work on
them. This directory holds TLA+ models of TOGPU, the TLC runs that check them on
small instances, and TLAPS proofs for every value of the constants. File names
below are those of `src/togpu/driver` without the prefix `xt_TOGPU_`.

## 1. The system

    iptables rule ──> nfgpu_target (main.c) ──┐  mailbox in slot 0
    NIC driver ──> __netdev_alloc_skb hook ───┤
                   skb_release_data hook ─────┤  32 MB block, 4 KB slots
    launcher ──ioctl──> /dev/togpu ───────────┤  (vmap of the pages of the
    launcher ──> aes_test (kernel.cu) ──> GPU ┘   launcher's pinned memory)

| Component | State | Operations | Talks to |
|---|---|---|---|
| Pool (main.c 235-314) | `nfgpu_skbs` (slot -> native buffer), `nfgpu_next`, `skb->head` | allocation hook, release hook | native SKB functions through `run`; `nfgpu_running`, `nfgpu_kva` of the device |
| Target (main.c 175-222) | first words of the block | `nfgpu_target` | `aes_test` through shared memory, no lock |
| `aes_test` (kernel.cu 1741-1780) | the same words | endless loop: wait, launch, clear | GPU |
| Device (main.c 373-534) | `nfgpu_av`, `nfgpu_slock`, `nfgpu_uva/kva/pages/npages`, `nfgpu_running` | open, release, ioctls SET_BUFFERS, START, STOP | launcher; page walk; vmap |
| Page walk (pagewalk.c) | cursor of each level, pages collected | `walk_page` and below | page tables of the launcher |
| Launcher (launcher.c) | step of `main` | open, STOP, allocate, SET_BUFFERS, START, `aes_test` | device, CUDA |
| Hooking (hook.c, symbols.c) | kernel text, `struct kernsym` | `hook_init`, `symbol_hook`, init, exit | kernel text executed by all CPUs |
| Instruction decoder (insn.c, inat*) | `struct insn` | length and attributes | hooking |
| Profiling thread (main.c 139-171) | two counters | print and reset | target |
| AES kernels (kernel.cu 1-1739) | tables, packet | encrypt, decrypt | launched by `aes_test` |
| iptables extension | option flags | parse, check, print | iptables |
| Boot installers (`src/boot`, `src/porteus`) | boot records, backup | find device, check sums, back up, overwrite | disks |

What is hard in it: nothing on the packet path takes a lock. Hooks run on any
CPU, the target spins on memory another program writes, and the launcher, which
owns that memory, is killed by ^C in normal use and started again, perhaps at
another kernel address, while SKBs of the last launch are still around.
`PROJECT.json` lists each hazard at its line.

What makes each part correct: two SKBs never share a buffer and each is released
with its own (pool); a packet is served once and its target returns (mailbox);
the mapping is the block of one process (device) and has its pages in order
(walk); a hook can always go on to the function it replaced (hooking), whose
instructions were told apart rightly (decoder); the kernels compute AES, each
thread in its own block (cipher).

## 2. Modules

| Module | Models | Correspondence |
|---|---|---|
| `TogpuPool` | pool, ioctls, launcher | Variables are the driver's globals; `apc`, `rpc`, `lpc` the step of each hook and of the launcher. One action per access to shared state; a hook reads `nfgpu_kva` once. |
| `SlotLending` | what the pool promises | A slot is lent to one buffer at a time until it is returned. |
| `TogpuMailbox` | target, `aes_test`, launcher, profiling thread | The block's first 16 bytes as four 32-bit words, as both sides see them; the CPU the launcher is on; the counters with one step per load and store. |
| `TogpuDevice` | open, release, `nfgpu_set_mempool` | Any number of processes, with blocks of any size and absent pages; pages are identified by their owner. |
| `TogpuHook` | `hook_init`, `symbol_hook`, init, exit, callers | A function is a set of instructions with place, length, kind and offset; the copy is made instruction by instruction. |
| `TogpuPagewalk` | `walk_page`, `nfgpu_skb_pte_process` | Four levels with `Fan` entries; one action per branch of a loop body. |
| `TogpuDecode` | insn.c, insn.h, inat.c | The state is one `struct insn`; an action is a call of an accessor, which also collects what precedes its field. |
| `InatTables` | inat-tables.h, the attributes of inat.h | A table is given by the sets of opcodes with each prefix, escape, group, immediate and flag. |
| `X86Reference` | the opcode maps of the x86 architecture | Which opcodes are defined, have a ModRM byte and which immediate, written from the architecture's maps and not from the decoder's tables; what the decoder is compared with. |
| `TogpuCipher` | the eight AES kernels | One action per round of a thread; threads share the packet and run in any order. |
| `AesTables` | the lookup tables of kernel.cu | `Te4` byte by byte, the others by what their entries are. |
| `AesReference` | FIPS 197 | S-box, MixColumns, cipher and key expansion by their definitions; what the kernels are compared with. |
| `AesFacts` | arithmetic of bytes | Assumptions about all bytes, which TLC evaluates and the proofs use. |
| `MCTogpuHook`, `MCTogpuPagewalk`, `MCTogpuCipher`, `MCTogpuDecode` | values for TLC | Programs, blocks, keys, instructions. |
| `*Proofs` | theorems | For pool, mailbox, device, hooking, walk, decoder and cipher; `AesProofs` for AES itself. |

The ioctls occur in `TogpuPool` and `TogpuMailbox`, each with the part of their
effect that concerns the module, and in `TogpuDevice`, where SET_BUFFERS is taken
apart. The block the walk collects (`TogpuPagewalk`) is what SET_BUFFERS maps.

Decisions a reader may ask about:

* Addresses in `TogpuPool` are counted in slots. An SKB is named by the address
  of its native buffer, so "released with its own buffer" is `head[s] = s`.
* `NextCopies`: `nfgpu_next` is an ordinary global under a data race. After the
  search loop the build may use the register copy or read memory again, at each
  use. The models take either.
* `TogpuPool` and `TogpuMailbox` have one launcher at a time (`LOpen`).
  `TogpuDevice` shows that `nfgpu_open` can let in two: then one's STOP unmaps and
  clears under the other, and `RunningOnlyWhenMapped` would not hold. What the two
  modules say is about a system in which the device is opened by one launcher after
  another, as by hand.
* An allocation hook interrupts a release on the same CPU, not the reverse:
  receive work runs in softirq context.
* The native release of an address the slab did not hand out is a kernel BUG;
  the CPU stops there (`"oops"`). So do dereferences of NULL and of unmapped memory.
* `cudaHostAlloc` returns fresh pages, which the kernel has zeroed. So every
  SET_BUFFERS starts with an empty mailbox.
* The driver takes no reference on the pages it maps (main.c:352, 425). When the
  launcher dies they go back to the kernel: `Reuse` lets their next owner store
  any word of `Junk` in the mailbox until the next SET_BUFFERS, 0 included.
* The target spins in a softirq (main.c:206), so a launcher on the same CPU does
  not run (`Runs`). The scheduler may have moved it before, or may move it
  (`Migrate`); nothing makes it.
* The launch of a GPU kernel only queues it, and `aes_test` clears the mailbox
  without waiting for the GPU. `AesTakesWaiting` therefore says what `aes_test`
  holds while it works on a packet, not that the GPU has finished.
* `taken`, `accepted` and `disturbed` of `TogpuMailbox` are history variables; no
  action reads them. `disturbed` are the CPUs whose target was at the mailbox
  together with another one, or without a living launcher in its loop.
* The values `nfgpu_thread` reads for the message it prints are left out; what it
  resets is not.
* `Word`, the number of values of a 32-bit word, is a parameter. The runs use 128
  and 256, the proofs any value. `MaxPackets` bounds the packets counted between
  two resets.
* The lock around the profiling code is commented out, so each counter is
  loaded and stored in steps of its own. `Weight` is 256 in the code; the runs use
  1 and 2, to keep averages of small times apart, the proofs any value. `Clocks` are the
  times a target may take; where it is empty, the clock never advances between
  the two readings and the profiling code is skipped.
* An accessor of `TogpuDecode` is an operator from a `struct insn` to the next,
  wrapped in a one-element set so that TLC evaluates it once.
* `AesTables` gives `Te4` literally and the other tables by a formula for their
  entries. The entries of the formulas, and the 4000 of `InatTables`, were compared
  with the source's literals once by a script, which is not part of this project; a
  reader who does not trust it has to compare again.
* No x86 instruction is longer than 15 bytes (`DecodeAssumption`). The decoder itself
  has no limit, and would skip any number of equal prefixes.
* `Length` is the length of the packet in `TogpuCipher`: the whole blocks of the
  threads after the header, and any number of bytes more. The length word of the
  mailbox is `TogpuMailbox`'s; here a kernel is launched with a thread per block.
* `TogpuCipher` takes expanded keys and numbers of rounds, as the kernels do. Some of
  them are keys of AES (`AesKeys`): they have 10, 12 or 14 rounds, and the key for
  decryption is that of the equivalent inverse cipher of FIPS 197
  (`CipherAssumption`). Others are not, among them `cipher_key` as `aes_test` passes
  it: 128 zero words and 134 rounds, so that the last round takes words from behind
  the key, whatever is there. `MCTogpuCipher` expands the keys of the run.
* `CounterBlocks` is the counter mode's own sequence; that the code clears the upper
  half of the counter is the premise `CounterFits`, not part of the definition.
* The four lanes of a bp4t kernel share a warp, whose threads execute a
  statement together; the code has no barrier and relies on it, and
  `TogpuCipher` takes the four as one thread.
* The host code of this repository launches `aes_encrypt_bpt` only. The other
  kernels have no caller; `TogpuCipher` launches each as its parameters suggest,
  and then the one that undoes it.
* The driver can be loaded once: exit leaves the device class behind and
  `class_create` refuses a name that is taken. A load that fails there changes
  nothing. So `TogpuHook` needs no second load.
* `TogpuHook` assumes what `symbol_hook` assumes of code: no conditional jump
  leaves a function, and `module_alloc` memory is within 32-bit reach. These and
  the layout of programs are `HookAssumption`.
* The pages of the block are pinned and their process waits in the ioctl, so the
  tables of `TogpuPagewalk` change only by the walk itself. The holes and absent
  pages of its runs are those of a block that was not pinned when it was given.
* Names of the form `Action_Mistake` are wrong versions of the definition that
  follows; no specification uses them. They show that a property notices.

## 3. Runs

Passing:

| Run | Question | Bounds | States |
|---|---|---|---|
| `TogpuPool_lending` | With what the driver counts on (one allocating CPU, one aligned address, `vmap` succeeds), are slots lent properly over any releases, kills and relaunches? Does the pool implement `SlotLending`? Does a search in a full pool end? | 2 CPUs, 3 SKBs, 2 lendable slots: the pool can be full | 55 530 |
| `TogpuPool_failures` | With every failure and two addresses, is slot 0 safe, and is a block mapped while TOGPU runs? | 2 CPUs, 2 SKBs, 2 bases | 1 257 904 |
| `TogpuMailbox_rendezvous` | Two CPUs post, launchers die and come back, their pages are reused: is no packet taken twice, does `aes_test` work on waiting packets only, is an undisturbed target served and does it return if the launcher gets to run, and is the average one of times measured? | 2 CPUs, of which one may be the launcher's, 2 slots, 2 launches, 2 addresses; reused pages read 0, the value that ends a poll; 1 packet counted between resets | 293 466 |
| `TogpuDevice_mapping` | Is the mapping made of one block, though `nfgpu_open` can let in two processes, and does nothing overrun `nfgpu_pages`? | 4 processes, an array of 2 pages, blocks of 0 to 2; three processes suffice to get two in at once | 296 481 |
| `TogpuHook_load` | Whatever is missing or fails, does a hook find a faithful copy, is no buffer leaked, and is the page protection restored? | 2 CPUs, 6 shapes of code for each of the 2 functions, every subset of symbols | 133 202 |
| `TogpuPagewalk_walk` | Are exactly the mapped pages collected, in order, and does the walk end? | Fan 2, 16 pages, blocks that begin and end inside tables, huge pages | 9 840 |
| `TogpuCipher_modes` | Does each kernel compute AES in its mode, does its inverse restore the packet, and is no byte outside the threads' blocks touched? | 8 kernels; the FIPS 197 keys of 128, 192 and 256 bits, a zero key of 14 rounds, and `cipher_key` as `aes_test` passes it (134 rounds, two contents of the memory behind it), for which only the last question is asked; 2 threads in any order; a counter whose sum carries through seven bytes; 3 bytes after the last block | 21 824 |
| `TogpuDecode_accessors` | Do the fields tile the instruction, whatever accessors are called in whatever order, with the sizes of the architecture, and does the offset hooking rewrites lie inside? | All opcodes of the four maps without and with 66, F3 and F2, and with VEX; 9 opcodes with 8 prefix sets and 32 operands; group members; five prefixes; 32 and 64 bits: 18 956 instructions | 151 648 |

Violated, each a disagreement between the code and what it says of itself
(`findings` in `PROJECT.json` quotes the line):

| Run | Shows |
|---|---|
| `TogpuPool_two_allocators` | Two CPUs take one slot; two SKBs share a buffer. |
| `TogpuPool_relaunched` | Without the premises of `TogpuPool_lending`: an SKB lent before a relaunch reaches the native release with its slot. A moved address, an address that is not aligned and a failing `vmap` each suffice alone. |
| `TogpuMailbox_cipher` | `aes_test` reads the upper half of the index as length; no launch is ever valid, no packet ciphered. |
| `TogpuMailbox_killed` | After a kill `nfgpu_running` stays set and a target polls for ever (under fairness of target and `aes_test`). |

Further disagreements the models reach, and which have no run of their own:

* A failing `vmap` clears the table while SKBs are lent, and `NoSharedHead` is
  violated in the next launch.
* Two targets at the mailbox: the second overwrites the first, whose target returns
  when the second was answered, its packet unserved. `ServedOnce` therefore asks
  for service only where a target was alone.
* A target on the CPU of a living launcher spins for ever, because the launcher
  never runs. `AnsweredWhileAlive` excepts this (`~Runs`).
* A block larger than `nfgpu_pages`, whose size the driver takes from the caller,
  overruns the array: `TogpuDevice` with such a size violates `PagesFit`.
* A launcher killed between SET_BUFFERS and START leaves its mapping for ever;
  STOP unmaps the block under a target (`Fault`); an open that fails while the
  device is released leaves `nfgpu_av` at 2 and the device shut.
* A reset of `nfgpu_packets` that falls between load and store of an increment is
  lost, and packets printed before are printed again.
* `aes_decrypt_bp4t` uses the words 4 to 11 of the key in turn and `rk[0]` in
  every lane of the last round; it inverts the encryption only if all words of the
  key are equal, which no expanded key is. `KernelsComputeAes` leaves the kernel out,
  `RoundTrip` asks of the bp4t pair only `KeyFits`.
  Both bp4t kernels also work on the first 32 bytes the others skip.
* `big_u128_add` clears the upper 64 bits of the counter (kernel.cu:872), which its
  comment ("deal with lower 64bit only") may or may not mean; with any other upper
  half the CTR kernels do not compute the counter mode.
* `aes_test` passes `sizeof(cipher_key)/4+6`, 134 rounds of a key of 128 words
  commented as "512-bit key" (kernel.cu:1728); the last round would read the words
  536 to 539. What that launch computes is no AES, if it were ever valid.
* `copy_and_fixup_insn` takes any opcode E8 or E9 for CALL or JMP, also after a
  VEX prefix, where they are other instructions; in 32-bit mode `66 E8` has an
  offset of two bytes and four are written. `FixupInside` leaves both out.
* Instructions the decoder measures wrongly, each confirmed by TLC and excepted by
  `KnownMiscount`: 66 68 (PUSH imm16) in 64 bits gets four bytes of immediate
  (inat-tables.h:97); the VEX forms of 0F 71 to 73 and 0F AE lose ModRM and
  immediate (:285, :342); 66 0F 38 F0 and F1 lose ModRM (:671); 0F 20 to 23 with a
  mod field other than 3, which the architecture ignores, get a displacement. With
  F3 66 before an opcode that has variants, the decoder goes by 66, the last one,
  where the architecture goes by F3.
* `insn_get_length` never leaves 0, so `symbol_hook` does not notice an
  instruction that is not decoded.

Fairness. `TogpuPool`: a CPU inside a hook goes on, and delivered packets are
consumed in the end (weak fairness of each hook's steps); the launcher and the
NICs owe nothing. `TogpuMailbox`: a CPU goes on executing the target, and a
living launcher its loop, which is all it does, while no target spins on its CPU:
the steps of `aes_test` are enabled only then, so that weak fairness of them asks
nothing of a scheduler that leaves the launcher there. `TogpuPagewalk`: the ioctl goes
on. No fairness is assumed of kills or packets.

The profiling thread owes nothing either. The cipher and the decoder have no
liveness property: straight-line code.

Deadlock is not checked where the system may stop: a killed launcher with no
launches left, a loaded driver nobody calls, a finished walk, kernels that ended.

## 4. Proofs

All proofs are for any number of CPUs, slots, SKBs, processes, pages, threads
and launches. Every invariant and the refinement that a passing run checks is
stated by a theorem, except `ReleasesOwnBuffer` and `SizesAsArchitecture`, for which
weaker statements are proved.

**Pool.** `TypeCorrect` and `MappedWhileRunning` hold without premises. The
latter needs `LauncherInv`: where the launcher stands decides what `mapped` and
`nfgpu_running` may be. `NoSharing` and `SlotZeroReserved` are proved for one
allocating CPU (`SingleAllocator`), mappings that do not overlap
(`DisjointBases`) and a `vmap` that succeeds. `NoSharedHead` is not inductive:
it does not say that a slot the table calls free has no head in it. `PoolInv`
adds this (`HeadInv`: an SKB has its native buffer, or a slot that the table
says is its own), what the hooks hold in their locals (`AllocInv`, `RelInv`),
that no two of them work on one SKB (`ExclusiveInv`), and that slot 0 is out of
the game. From `PoolInv` also follows `NoForeignBuffer`: whatever address a
relaunch gets, aligned or not, the native release gets the SKB's own buffer or its
own slot, never another SKB's. `SlotsNeverLost` and `PoolImplementsLending` need
one aligned address (`SameBase`, `AlignedBases`) and `LendingInv` on top of
`PoolInv`. The premises are necessary: `TogpuPool_two_allocators` violates
`NoSharedHead` without the first, `TogpuPool_relaunched` shows what the others
exclude.

**Mailbox.** Without premises: any number of CPUs, launches, kills and reused
pages. `MailInv`: packets at the mailbox are in slots of their own. `BlockInv`: the
word in the mailbox, as long as a launcher looks at it, is the slot of a target that
waits and can reach it, and so is the packet `aes_test` works on, even when another
one has overwritten it. `TakeInv`: a packet whose index may still be read was not
taken before. `SoloInv`: an undisturbed target and `aes_test` use the mailbox in
turns. From these
`AesOnlyTakesWaiting` and `TakenOnce`. `AverageBounded`: `AverageBelowLongest` is
inductive, because every value stored is a weighted mean of two values that are
bounded by a time measured (lemma `AveragedBound`), wherever they were loaded; and
only `LoadAverage` brings a target to the point where what it loaded is an average
(`AverageEntered`).

**Device.** `OneProcessMapped` for any number of processes and blocks of any size,
`PagesAlwaysFit` for blocks no larger than the array (`SizesFit`). `LockInv`: only
the holder of the lock is inside. `CollectInv`: the pages up to `nfgpu_npages` are
its own, and with those still to walk no more than its block has. `MappedInv`: what
is mapped.

**Hooking.** `TypeCorrect`, `HookHasCopy`, `NoBufferLeaked`, `PagesProtected`,
from `HookAssumption` only. The lemma `SignedOfOffset` shows that the cast of
`CODE_OFFSET_FROM_ADDR` loses nothing for distances 32 bits reach; `FixUpAlike`
that `copy_and_fixup_insn` makes an instruction with the same meaning. `HookInv`
says that a JMP leads only to symbols whose copy is complete, that while copying
all instructions before the offset have their copy, and that no JMP is written
before its symbol's turn. `BufferInv` follows a symbol's buffer before, during
and after its turn, `ProtectInv` remembers in `pte_ro` what the page was.

**Page walk.** `WalkTypeOK` and `WalkCollectsMappedPages`, for tables of any size,
any block, holes and huge pages.
`CollectsMappedPages` says what has been collected before the cursor, and the
cursor is that of the innermost function that runs. So `WalkInv` relates the
functions called and not returned: each waits at an entry that is not empty, and
the one below it walks the part of the block in that entry (`Nested`); and it
says what the step in hand knows of its entry (`AtStep`). `PagesInv` adds the
property itself.

**Decoder.** For any instruction of up to 15 bytes, in 32 and 64 bits, and any
sequence of accessors. `DecodeInv` is what makes this possible: at any time the
`struct insn` is one of eight, the fresh one and what each of the seven
accessors makes of the one before (`DecodeOneOfEight`). An accessor called
again, or after a later one, finds `got` set and changes nothing. For each of
the eight, `Stage0` to `Stage7` say what its fields hold and that `next_byte` is
the offset of the next one. From these follow `FieldsAlwaysTile`,
`CallsAlwaysCommute`, `OpcodeAlwaysFits`, `PrefixesAlwaysKept`,
`SizesAlwaysAsAttributes` and `FixupAlwaysInside`. `SizesAsAttributes` takes the
opcode's class from the decoder's own tables: it shows that accessors put prefixes,
attributes and ModRM together rightly, not that the tables are right. Of the tables the proofs
use only what matters: which one-byte opcodes are prefixes, that escapes go from
map 0 to 1 and from 1 to 2 or 3, which immediates and flags occur (`Decodable`),
and the attributes of E8 and E9. That the prefixes end, which the code leaves to
the bytes, is shown by the least place where the loop stops.

**AES.** `DecipherUndoesCipher` and `CipherUndoesDecipher`: the equivalent
inverse cipher, which the decryption kernels compute, undoes the cipher of FIPS
197 and the other way round, for any number of rounds, any expanded key and any
block. The state of one after r rounds is that of the other before its last r
rounds, up to SubBytes and ShiftRows; induction over the rounds. This needs that
InvMixColumns is linear and the inverse of MixColumns, and that the tables of
the two S-boxes are inverse to each other. What holds of single bytes is assumed
in `AesFacts` (exclusive or by halves of a byte, products distribute, the two
matrices are inverse, the S-boxes too); TLC evaluates it for every byte in each
run of `TogpuCipher`. From there on everything is proved: that exclusive or is
associative on bytes, that the matrices are inverse on columns and blocks, and
the rounds.

**Cipher.** For any packet, any number of threads in any order, any counter and
tweaks. A row of the lookup tables is a column of the matrix times an entry of the
S-box, so a round of a kernel is a round of the reference (`EncRoundIs`,
`DecRoundIs`, and the last ones). `KernelInv` (`KernelsFollowCipher`) says, for
keys of AES, of each thread that its block of the packet is the one it found until
it has ended (`BlockInv`), that its state is that of the cipher, or of the inverse
cipher with the round keys the kernel takes, after as many rounds (`StateInv`),
what the arguments of the launch are, and that the rest of the packet is untouched
(`RestInv`). Then `KernelsAlwaysComputeAes`, under the restrictions of
`KernelsComputeAes` (section 3), and `InverseRestoresPacket` with the theorems
about AES. `OnlyOwnBlocks` is for every key and number of rounds, those of the
driver's launch included, from `OwnInv`, which says nothing of what is computed.
The counter of the CTR kernels, added byte by byte, is the sum (`SumOfNext`).

How the recursive definitions are dealt with: the prover has no induction
theorem it can instantiate, so the proofs of the decoder and of AES use the
least counterexample in an explicit set of numbers. Each recursive function is
first shown to be the function its equation defines.

Only model-checked: liveness (`AllocationReturns`, `AnsweredWhileAlive`,
`PollReturns`, `WalkTerminates`), which the prover does not reach. Also that
`ExpandKey` makes the keys `CipherAssumption` asks for, which the run shows for
its keys. And `SizesAsArchitecture`: that the attribute tables agree with
`X86Reference`, opcode by opcode.

## 5. Not modelled

* The generator of the opcode tables: build-time text processing, from the Linux
  kernel. The tables it made are modelled.
* The values of displacements and immediates in the decoder; `TogpuHook` has
  offsets, and takes lengths and kinds of instructions as given.
* In the AES kernels: the speed settings of `aes_init`, and `add_uint128`,
  `block_id`, `thread_id` and `rcon`, which nothing uses. Where the key and the
  tweaks come from: no host code expands a key.
* The iptables extension: one option, which the driver ignores.
* The installers, and everything that is binary, menu or text.
* Code that is not compiled or never called: `ALLOC_VMAP_PAGES`, kernels before
  2.6.30, hugetlb, `symbol_restore`, `find_address_symbol`.
* Logging and time stamps, and the execution of GPU kernels next to `aes_test`.

## 6. Plan

Done: the pool with its abstract specification, mailbox with profiling, device,
hooking, walk, decoder and AES kernels, with theorems about each. In this order:

1. Composition of pool and mailbox: a packet the GPU works on is not released.
2. `TogpuHook`'s lengths and kinds from `TogpuDecode`.
3. `PorteusInstall`: device search, checksum, backup, boot records, interrupted
   anywhere; whether the backup restores what was overwritten. Option flags of the
   iptables extension.
