---------------------------- MODULE TogpuMailbox ----------------------------
(***************************************************************************)
(* The rendezvous between nfgpu_target, which iptables calls for a packet, *)
(* and aes_test, the loop of the launcher that feeds packets to the GPU.   *)
(* They share the first bytes of the mapped block (slot 0 of the pool):    *)
(* the target stores the packet's slot and length there and spins until    *)
(* the first word is 0 again.  No lock protects the block, neither side    *)
(* notices that the other one has gone.                                    *)
(* A name of the form Action_Mistake is a wrong version of the action that *)
(* follows, to show that a property catches the mistake.                   *)
(*                                                                         *)
(* The target stores two unsigned long (64 bits), aes_test reads u32: the  *)
(* block is modelled as the four u32 words both can see, of any size Word. *)
(*                                                                         *)
(* The target spins in a softirq: while it does, no process runs on its    *)
(* CPU, and the launcher is one.  One launcher at a time: what nfgpu_open  *)
(* makes of several is the subject of TogpuDevice.                         *)
(***************************************************************************)
EXTENDS Integers

CONSTANTS
  Cpus,         \* the CPUs that run nfgpu_target
  LCpus,        \* the CPUs the scheduler may run the launcher on
  Indexes,      \* the slots packets may be in
  Lens,         \* skb->len of the packets
  Word,         \* number of values of an u32
  Bases,        \* the addresses vmap() may return
  Junk,         \* what the next owner of the block's pages may store in them
  MayDie,       \* may the launcher be killed?
  MaxLaunches,  \* bound: how often a launcher is started
  Weight,       \* of the old average against a new time: 1 << 8
  Clocks,       \* the times, in CPU clocks, a target may take
  MaxPackets    \* bound: the packets that may be counted

ASSUME MailboxAssumption ==
  /\ Word \in Nat \ {0}
  /\ Indexes \subseteq 1 .. Word - 1      \* slot 0 is this mailbox
  /\ Lens \subseteq 0 .. Word - 1
  /\ LCpus # {}
  /\ Bases \subseteq Nat \ {0}
  /\ Junk \subseteq 0 .. Word - 1
  /\ MayDie \in BOOLEAN
  /\ MaxLaunches \in Nat
  /\ Weight \in Nat
  /\ Clocks \subseteq Nat
  /\ MaxPackets \in Nat

VARIABLES
  nfgpu_running, nfgpu_kva,
  mapped,        \* is the block at nfgpu_kva mapped?
  word,          \* the u32 words of the block last mapped
  tpc, target, tidx, tlen,
                 \* nfgpu_target on each CPU: step, pointer, index, skb->len
  taken,         \* history: how often aes_test took the CPU's packet: 0, 1, 2 = more
  accepted,      \* history: the CPUs whose packet the GPU accepted
  disturbed,     \* history: the CPUs whose target met another one, or no launcher
  lpc, lcpu,     \* the launcher: step, the CPU it is on
  gidx, glen,    \* aes_test: index, length
  launches,      \* launchers started so far
  nfgpu_average, nfgpu_packets,
                 \* the counters of the profiling code
  loaded,        \* the counter that nfgpu_target has loaded, on each CPU
  ppc            \* nfgpu_thread

targetVars == <<tpc, target, tidx, tlen>>
aesVars    == <<gidx, glen>>
launcherVars == <<lpc, lcpu, aesVars, launches>>
driverVars == <<nfgpu_running, nfgpu_kva, mapped>>
history    == <<taken, accepted, disturbed>>
profiling  == <<nfgpu_average, nfgpu_packets, loaded, ppc>>
vars == <<driverVars, word, targetVars, history, launcherVars, profiling>>

RendezvousTypeOK ==
  /\ nfgpu_running \in BOOLEAN
  /\ nfgpu_kva \in Bases \cup {0}
  /\ mapped \in BOOLEAN
  /\ word \in [0 .. 3 -> 0 .. Word - 1]
  /\ tpc \in [Cpus -> {"idle", "check", "index", "len", "poll", "done", "average",
                    "packets", "return", "oops"}]
  /\ target \in [Cpus -> Bases \cup {0}]
  /\ tidx \in [Cpus -> Indexes \cup {0}]
  /\ tlen \in [Cpus -> Lens \cup {0}]
  /\ taken \in [Cpus -> 0 .. 2]
  /\ accepted \subseteq Cpus
  /\ disturbed \subseteq Cpus
  /\ lpc \in {"off", "opened", "stopping", "stopped", "mapped",
              "poll", "index", "length", "launch", "clear"}
  /\ lcpu \in LCpus
  /\ gidx \in 0 .. Word - 1
  /\ glen \in 0 .. Word - 1
  /\ launches \in 0 .. MaxLaunches

ProfilingTypeOK ==
  /\ nfgpu_average \in Nat /\ nfgpu_packets \in Nat
  /\ loaded \in [Cpus -> Nat]
  /\ ppc \in {"sleep", "packets"}

TypeOK == RendezvousTypeOK /\ ProfilingTypeOK

Init ==
  /\ nfgpu_running = FALSE /\ nfgpu_kva = 0 /\ mapped = FALSE
  /\ word = [w \in 0 .. 3 |-> 0]
  /\ tpc = [c \in Cpus |-> "idle"]
  /\ target = [c \in Cpus |-> 0]
  /\ tidx = [c \in Cpus |-> 0]
  /\ tlen = [c \in Cpus |-> 0]
  /\ taken = [c \in Cpus |-> 0]
  /\ accepted = {} /\ disturbed = {}
  /\ lpc = "off" /\ lcpu \in LCpus
  /\ gidx = 0 /\ glen = 0
  /\ launches = 0
  /\ nfgpu_average = 0 /\ nfgpu_packets = 0
  /\ loaded = [c \in Cpus |-> 0]
  /\ ppc = "sleep"

\* The u32 halves, low one first, of the unsigned long n.
Low(n)  == n % Word
High(n) == n \div Word

-----------------------------------------------------------------------------
(***************************************************************************)
(* nfgpu_target on CPU c.                                                  *)
(***************************************************************************)

\* The target has business with the mailbox.
Mailing == {"check", "index", "len", "poll"}

AesLoop == {"poll", "index", "length", "launch", "clear"}

\* A packet of slot i and length n comes while TOGPU runs; otherwise it is
\* accepted at once and nothing changes.  The packet disturbs, and is disturbed
\* by, the targets of other CPUs that are at the mailbox.
Enter(c, i, n) ==
  /\ tpc[c] = "idle" /\ nfgpu_running
  /\ \A d \in Cpus : tpc[d] # "idle" => tidx[d] # i
  /\ tpc' = [tpc EXCEPT ![c] = "check"]
  /\ tidx' = [tidx EXCEPT ![c] = i]
  /\ tlen' = [tlen EXCEPT ![c] = n]
  /\ LET others == {d \in Cpus : tpc[d] \in Mailing}
     IN  disturbed' = IF others = {} /\ lpc \in AesLoop THEN disturbed \ {c}
                      ELSE disturbed \cup others \cup {c}
  /\ UNCHANGED <<driverVars, word, target, taken, accepted, launcherVars, profiling>>

\* What a target no longer needs is forgotten: its locals, and its history.
DropLocals(c) ==
  /\ target' = [target EXCEPT ![c] = 0]
  /\ tidx' = [tidx EXCEPT ![c] = 0]
  /\ tlen' = [tlen EXCEPT ![c] = 0]

DropHistory(c) ==
  /\ taken' = [taken EXCEPT ![c] = 0]
  /\ accepted' = accepted \ {c}
  /\ disturbed' = disturbed \ {c}

\* nfgpu_kva is read, once for the tests of skb->head and for the pointer:
\* nothing between them makes the build read it again.  nfgpu_running is not
\* tested again.
Fetch(c) ==
  /\ tpc[c] = "check"
  /\ target' = [target EXCEPT ![c] = nfgpu_kva]
  /\ tpc' = [tpc EXCEPT ![c] = "index"]
  /\ UNCHANGED <<driverVars, word, tidx, tlen, history, launcherVars, profiling>>

\* skb->head is not in the block at nfgpu_kva: accepted at once.
Skip(c) ==
  /\ tpc[c] = "check"
  /\ tpc' = [tpc EXCEPT ![c] = "idle"]
  /\ DropLocals(c) /\ DropHistory(c)
  /\ UNCHANGED <<driverVars, word, launcherVars, profiling>>

\* The pointer still leads to the block: nobody unmapped it.
Reachable(c) == mapped /\ target[c] = nfgpu_kva

PostIndex(c) ==
  /\ tpc[c] = "index" /\ Reachable(c)
  /\ word' = [word EXCEPT ![0] = Low(tidx[c]), ![1] = High(tidx[c])]
  /\ tpc' = [tpc EXCEPT ![c] = "len"]
  /\ UNCHANGED <<driverVars, target, tidx, tlen, history, launcherVars, profiling>>

PostLen(c) ==
  /\ tpc[c] = "len" /\ Reachable(c)
  /\ word' = [word EXCEPT ![2] = Low(tlen[c]), ![3] = High(tlen[c])]
  /\ tpc' = [tpc EXCEPT ![c] = "poll"]
  /\ UNCHANGED <<driverVars, target, tidx, tlen, history, launcherVars, profiling>>

PollEnds_Always(c) ==
  /\ tpc[c] = "poll" /\ Reachable(c)
  /\ tpc' = [tpc EXCEPT ![c] = "done"]
  /\ DropLocals(c)
  /\ UNCHANGED <<driverVars, word, history, launcherVars, profiling>>

PollEnds(c) ==
  /\ tpc[c] = "poll" /\ Reachable(c)
  /\ word[0] = 0 /\ word[1] = 0
  /\ tpc' = [tpc EXCEPT ![c] = "done"]
  /\ DropLocals(c)
  /\ UNCHANGED <<driverVars, word, history, launcherVars, profiling>>

\* The clock did not advance between the two readings: NF_ACCEPT at once.
Return(c) ==
  /\ tpc[c] = "done"
  /\ tpc' = [tpc EXCEPT ![c] = "idle"]
  /\ DropHistory(c)
  /\ UNCHANGED <<driverVars, word, target, tidx, tlen, launcherVars, profiling>>

\* The lock around the profiling code is commented out: a value is loaded,
\* and what was made of it stored, with other CPUs in between.
LoadAverage(c) ==
  /\ tpc[c] = "done" /\ Clocks # {}
  /\ loaded' = [loaded EXCEPT ![c] = nfgpu_average]
  /\ tpc' = [tpc EXCEPT ![c] = "average"]
  /\ DropHistory(c)
  /\ UNCHANGED <<driverVars, word, target, tidx, tlen, launcherVars,
                 nfgpu_average, nfgpu_packets, ppc>>

Averaged_NotNormalised(average, clocks) == (average * Weight + clocks) \div Weight

Averaged(average, clocks) == (average * Weight + clocks) \div (Weight + 1)

StoreAverage(c) ==
  /\ tpc[c] = "average"
  /\ \E clocks \in Clocks : nfgpu_average' = Averaged(loaded[c], clocks)
  /\ loaded' = [loaded EXCEPT ![c] = 0]
  /\ tpc' = [tpc EXCEPT ![c] = "packets"]
  /\ UNCHANGED <<driverVars, word, target, tidx, tlen, history, launcherVars,
                 nfgpu_packets, ppc>>

LoadPackets(c) ==
  /\ tpc[c] = "packets" /\ nfgpu_packets < MaxPackets
  /\ loaded' = [loaded EXCEPT ![c] = nfgpu_packets]
  /\ tpc' = [tpc EXCEPT ![c] = "return"]
  /\ UNCHANGED <<driverVars, word, target, tidx, tlen, history, launcherVars,
                 nfgpu_average, nfgpu_packets, ppc>>

\* nfgpu_packets++ ends, and NF_ACCEPT.
StorePackets(c) ==
  /\ tpc[c] = "return"
  /\ nfgpu_packets' = loaded[c] + 1
  /\ loaded' = [loaded EXCEPT ![c] = 0]
  /\ tpc' = [tpc EXCEPT ![c] = "idle"]
  /\ UNCHANGED <<driverVars, word, target, tidx, tlen, history, launcherVars, nfgpu_average, ppc>>

\* Any access after the block was unmapped is a page fault in the kernel.
Fault(c) ==
  /\ tpc[c] \in {"index", "len", "poll"} /\ ~Reachable(c)
  /\ tpc' = [tpc EXCEPT ![c] = "oops"]
  /\ DropLocals(c) /\ DropHistory(c)
  /\ UNCHANGED <<driverVars, word, launcherVars, profiling>>

TargetStep(c) ==
  \/ Fetch(c) \/ Skip(c)
  \/ PostIndex(c) \/ PostLen(c) \/ PollEnds(c) \/ Return(c) \/ Fault(c)
  \/ LoadAverage(c) \/ StoreAverage(c) \/ LoadPackets(c) \/ StorePackets(c)

-----------------------------------------------------------------------------
(***************************************************************************)
(* The launcher up to START, and its death.                                *)
(***************************************************************************)

\* No target keeps the launcher's CPU from running it.
Runs == lcpu \in Cpus => tpc[lcpu] = "idle"

\* The scheduler may move it; nothing makes the scheduler do so.
Migrate ==
  /\ lpc # "off"
  /\ lcpu' \in LCpus \ {lcpu}
  /\ UNCHANGED <<driverVars, word, targetVars, history, lpc, aesVars, launches, profiling>>

LOpen ==
  /\ lpc = "off" /\ Runs /\ launches < MaxLaunches
  /\ launches' = launches + 1
  /\ lpc' = "opened"
  /\ UNCHANGED <<driverVars, word, targetVars, history, lcpu, aesVars, profiling>>

StopUnmap ==
  /\ lpc = "opened" /\ Runs
  /\ mapped' = IF nfgpu_running /\ nfgpu_kva # 0 THEN FALSE ELSE mapped
  /\ lpc' = "stopping"
  /\ UNCHANGED <<nfgpu_running, nfgpu_kva, word, targetVars, history, lcpu, aesVars, launches, profiling>>

StopClear ==
  /\ lpc = "stopping" /\ Runs
  /\ nfgpu_running' = FALSE
  /\ lpc' = "stopped"
  /\ UNCHANGED <<nfgpu_kva, mapped, word, targetVars, history, lcpu, aesVars, launches, profiling>>

\* A new block: cudaHostAlloc returns pages the kernel has zeroed.  vmap()
\* does not return the address of a block that is still mapped.
SetBuffers ==
  /\ lpc = "stopped" /\ Runs
  /\ nfgpu_kva' \in Bases
  /\ mapped => nfgpu_kva' # nfgpu_kva
  /\ mapped' = TRUE
  /\ word' = [w \in 0 .. 3 |-> 0]
  /\ lpc' = "mapped"
  /\ UNCHANGED <<nfgpu_running, targetVars, history, lcpu, aesVars, launches, profiling>>

Start ==
  /\ lpc = "mapped" /\ Runs
  /\ nfgpu_running' = TRUE
  /\ lpc' = "poll"
  /\ UNCHANGED <<nfgpu_kva, mapped, word, targetVars, history, lcpu, aesVars, launches, profiling>>

\* Killed outside an ioctl, when it runs.  The driver is not told, and its
\* mapping stays, but it holds no reference on the pages (main.c:352).
Kill ==
  /\ MayDie /\ Runs
  /\ lpc \notin {"off", "stopping"}
  /\ lpc' = "off"
  /\ gidx' = 0 /\ glen' = 0
  /\ disturbed' = disturbed \cup {c \in Cpus : tpc[c] \in Mailing}
  /\ UNCHANGED <<driverVars, word, targetVars, taken, accepted, lcpu, launches, profiling>>

\* The launcher's memory went back to the kernel when it died: the pages that
\* are still mapped are somebody else's.  Words 2 and 3 are read by nobody.
Reuse ==
  /\ lpc \in {"off", "opened", "stopping", "stopped"} /\ mapped
  /\ \E a, b \in Junk : word' = [word EXCEPT ![0] = a, ![1] = b]
  /\ UNCHANGED <<driverVars, targetVars, history, launcherVars, profiling>>

-----------------------------------------------------------------------------
(***************************************************************************)
(* aes_test.                                                               *)
(***************************************************************************)
AesSees ==
  /\ lpc = "poll" /\ Runs /\ word[0] # 0
  /\ lpc' = "index"
  /\ UNCHANGED <<driverVars, word, targetVars, history, lcpu, aesVars, launches, profiling>>

\* The packets, in the mailbox or overwritten there, that wait in slot i.
Waiting(i) == {c \in Cpus : tpc[c] \in {"len", "poll"} /\ tidx[c] = i}

AesIndex ==
  /\ lpc = "index" /\ Runs
  /\ gidx' = word[0]
  /\ taken' = [c \in Cpus |->
                 IF c \in Waiting(word[0]) /\ taken[c] < 2 THEN taken[c] + 1 ELSE taken[c]]
  /\ lpc' = "length"
  /\ UNCHANGED <<driverVars, word, targetVars, accepted, disturbed, lcpu, glen, launches, profiling>>

AesLength_Payload ==
  /\ lpc = "length" /\ Runs
  /\ glen' = word[1] - 32
  /\ lpc' = "launch"
  /\ UNCHANGED <<driverVars, word, targetVars, history, lcpu, gidx, launches, profiling>>

AesLength_ClearsEarly ==
  /\ lpc = "length" /\ Runs
  /\ glen' = word[1]
  /\ word' = [word EXCEPT ![0] = 0]
  /\ lpc' = "launch"
  /\ UNCHANGED <<driverVars, targetVars, history, lcpu, gidx, launches, profiling>>

\* *(target+1), target being an u32 pointer.
AesLength ==
  /\ lpc = "length" /\ Runs
  /\ glen' = word[1]
  /\ lpc' = "launch"
  /\ UNCHANGED <<driverVars, word, targetVars, history, lcpu, gidx, launches, profiling>>

\* C division truncates towards zero.
CDiv(n, d) == IF n >= 0 THEN n \div d ELSE -((-n) \div d)

MaxThreads == 1024 \* threads of a CUDA block

\* aes_encrypt_bpt<<<1,threads>>>: a launch that is not valid is dropped, and
\* nobody looks at the error.  The launch only queues the kernel: neither it nor
\* what follows waits for the GPU.
AesLaunch ==
  /\ lpc = "launch" /\ Runs
  /\ accepted' = IF CDiv(glen - 32, 16) \in 1 .. MaxThreads
                 THEN accepted \cup Waiting(gidx) ELSE accepted
  /\ lpc' = "clear"
  /\ UNCHANGED <<driverVars, word, targetVars, taken, disturbed, lcpu, aesVars, launches, profiling>>

AesClear_Missing ==
  /\ lpc = "clear" /\ Runs
  /\ gidx' = 0 /\ glen' = 0
  /\ lpc' = "poll"
  /\ UNCHANGED <<driverVars, word, targetVars, history, lcpu, launches, profiling>>

AesClear ==
  /\ lpc = "clear" /\ Runs
  /\ word' = [word EXCEPT ![0] = 0]
  /\ gidx' = 0 /\ glen' = 0
  /\ lpc' = "poll"
  /\ UNCHANGED <<driverVars, targetVars, history, lcpu, launches, profiling>>

AesStep == AesSees \/ AesIndex \/ AesLength \/ AesLaunch \/ AesClear

-----------------------------------------------------------------------------
(***************************************************************************)
(* nfgpu_thread: every five seconds it sets the counters to 0, one by one, *)
(* after it has read them for the message it prints.                       *)
(***************************************************************************)
OtherVars == <<driverVars, word, targetVars, history, launcherVars, loaded>>

ResetAverage ==
  /\ ppc = "sleep"
  /\ nfgpu_average' = 0
  /\ ppc' = "packets"
  /\ UNCHANGED <<OtherVars, nfgpu_packets>>

ResetPackets ==
  /\ ppc = "packets"
  /\ nfgpu_packets' = 0
  /\ ppc' = "sleep"
  /\ UNCHANGED <<OtherVars, nfgpu_average>>

nfgpu_thread == ResetAverage \/ ResetPackets

-----------------------------------------------------------------------------
Next ==
  \/ \E c \in Cpus : \/ \E i \in Indexes, n \in Lens : Enter(c, i, n)
                     \/ TargetStep(c)
  \/ LOpen \/ StopUnmap \/ StopClear \/ SetBuffers \/ Start \/ Kill
  \/ Migrate \/ Reuse
  \/ AesStep
  \/ nfgpu_thread

Spec == Init /\ [][Next]_vars

\* A CPU keeps executing the target, and a launcher that lives, and whose CPU is
\* not taken by a target, keeps running its loop.  Nothing is assumed of
\* packets, of the scheduler's moves, nor that a launcher dies or not.
FairSpec ==
  /\ Spec
  /\ \A c \in Cpus : WF_vars(TargetStep(c))
  /\ WF_vars(AesStep)

-----------------------------------------------------------------------------
(***************************************************************************)
(* Properties.                                                             *)
(***************************************************************************)

\* aes_test never takes a packet twice; and when a target that was alone at the
\* mailbox, with a launcher that lived, stops polling, aes_test has taken this
\* very packet (main.c:206 "Wait by polling till packet is processed").
ServedOnce ==
  \A c \in Cpus :
    /\ taken[c] <= 1
    /\ tpc[c] = "done" /\ c \notin disturbed => taken[c] = 1

\* The slot aes_test works on, from reading its index to clearing the mailbox, is
\* that of a packet whose target still waits, whichever CPUs post and whoever
\* dies and starts again: the rest of the kernel cannot touch or free the packet
\* while its kernel is launched (not while it runs: nobody waits for the GPU).
AesTakesWaiting ==
  lpc \in {"length", "launch", "clear"} => Waiting(gidx) # {}

\* The packet the target returns was given to the GPU (kernel.cu:1769
\* "Received network packets will be ciphered by AES").
PacketCiphered ==
  \A c \in Cpus : tpc[c] = "done" => c \in accepted

\* A target that posted its packet returns (kernel.cu:1777 "Packet processing has
\* ended"), unless its launcher dies, another target comes between, or a target
\* spins on the CPU the launcher is on: then the launcher, though alive, never
\* gets to answer.
AnsweredWhileAlive ==
  \A c \in Cpus : tpc[c] = "poll" ~> tpc[c] # "poll" \/ c \in disturbed \/ ~Runs

\* The average, where it is kept and on its way through a target, is never more
\* than the longest time a target measured, though targets and thread overwrite
\* each other's values without the lock (main.c:213 "Don't worry, but do NOT
\* stop please!").
AverageBelowLongest ==
  /\ \E d \in Clocks \cup {0} : nfgpu_average <= d
  /\ \A c \in Cpus : tpc[c] = "average" => \E d \in Clocks \cup {0} : loaded[c] <= d

\* A target that posted its packet returns: TOGPU takes no packet unless the
\* GPU's program is there to answer (main.c:188 "CUDA kernel must be running
\* in order to process network traffic").
PollReturns ==
  \A c \in Cpus : tpc[c] = "poll" ~> tpc[c] = "done"

=============================================================================
