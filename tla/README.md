# Muntjac in TLA+

A verification project for Muntjac, a 64-bit RISC-V multicore in SystemVerilog
with a Verilator simulator in C++. Two halves of it are modelled from their
source: the parts of the hardware that keep caches coherent, and the simulator
that runs programs on it. TLC checks the models on small instances; TLAPS proves
the results that should hold for every size.

## The system and its parts

| Part | Source | Here |
|---|---|---|
| TileLink opcodes and permissions | `ip/tl/rtl/tl_pkg.sv` | `TileLink` |
| L1 data cache | `ip/core/rtl/muntjac_dcache.sv` | `DCache` |
| Last-level cache with directory (LLC) | `ip/core/rtl/muntjac_llc.sv` | `LLC` |
| Broadcast hub (coherence without a directory) | `ip/tl/rtl/tl_broadcast.sv` | `TlBroadcast` |
| Simulator: main memory | `flows/verilator/src/main_memory.*` | `MainMemory`, `FlatMemory`, `ByteMemory` |
| Simulator: run loop, memory ports | `simulation.h`, `memory_port.*` (same directory) | `Simulation` |
| Simulator: pipeline harness | `pipeline_harness.*`, `*_cache_port.h`, `page_table_walker.*`, `virtual_addressing.h` | `PipelineHarness`, `CachePorts`, `PageTableWalker` |
| Simulator: command line and loader | `argument_parser.*`, `binary_parser.*`, `simulation.h` | `Startup` |
| Simulator: core harness | `core_harness.*` | `CoreHarness` |
| TLB, walker, instruction caches, pipeline, sockets, adapters, AXI bridges | `ip/` | not modelled, see below |

### The hardware
A load or store of the pipeline goes to the L1 data cache. On a miss the cache
sends an *Acquire* (TileLink channel A), receives a *Grant* on D and confirms
it with a *GrantAck* on E. The manager below, which is the LLC or the hub,
takes lines back with *Probe* on B, answered by *ProbeAck* on C; a cache gives
a line up by itself with *Release* on C, answered on D. A line is held with
permission N (none), B (read) or T (read and write).

### The simulator
Both simulators read the command line, load a program and its arguments into
main memory, write a stub that jumps to the program's entry point, reset the
hardware and run a loop of half cycles until the program writes an exit code to
`tohost` or the time is up. The *pipeline* simulator stands in for the caches,
the TLB and memory: an instruction and a data port translate each request,
perform it at once and queue the response for a later cycle. The *core*
simulator, whose hardware has caches, stands in for the memories below them.

`PROJECT.json` lists every part with its status, and the hazards of each with
the line where they bite.

## Modules

### `TileLink`
Permissions, growth, cap and report parameters as strings, with the permission
that each stands for.

### `DCache`
One `Tick` is one clock cycle. The state is the registers of the six machines
(`main`, `miss`, `wb`, `refill`, `probe`, `flush`), the two SRAMs with what was
read from them in the last cycle, and the channels. Operators named after the
source's wires (`probe_locking`, `refill_fifo_valid`, `access_tag_read_gnt`,
...) compute what the combinational logic computes; `MainStep`, `MissStep`,
`WbStep`, `RefillStep`, `ProbeStep` and `FlushStep` are the `always_ff` blocks;
`TagPort` and `DataPort` are the SRAM multiplexers. The lock that the machines
share is, as in the source, no register of its own: it is the set of trackers
that are valid.

The environment is a TileLink manager that grants, probes and acknowledges as
the protocol allows, other clients that write lines which this cache does not
own, the pipeline, and the translation, which answers at once, later, with a
fault, or never because the address is refused. Which of the channels may stall
is a constant (`Stalls`), since every stall multiplies the state space.

### `LLC`
One `Tick` is one clock cycle of the three trackers (`acq`, `wb`, `rel`) with
their tag and data requests arbitrated by priority, the probe sequencer and the
reset counter. A burst is one message. What has to be done with a beat (write
it, forward it, acknowledge it) is a set of effects, each with its own
handshake, and the message is held until all are done: that is what the
`beat_written`, `beat_forwarded` and `beat_acked` flags do. One thing that a
burst of several beats can do and a single message cannot is to find the
register slice still full with the beat before; `stall` restores it.

Hosts behave as `DCache` does (they answer a probe only when no release of
their own is on the way), a further client reads and writes without caching,
and the device below may probe in its turn. Which lines, requests, probes and
pauses there are is a *scene*; a run checks one or more of them.

### `TlBroadcast`
Each handshake is an action: accepting a request (`HubAccept`), sending a probe
(`HubProbe`), taking a message of channel C (`HubTakeC`), of the device
(`HubTakeDevD`) or of channel E (`HubTakeE`), and the steps of the hub's own
state machine. The source's transition out of `StateInv` and `StateWait` in the
cycle of the last event is a step of its own (`HubAllAcked`, `HubFinished`);
the hub does nothing else in between. The device below serves requests in order
(`Ordered`) or in any order, as `tl_axi_adapter` does with reads and writes.

### `MainMemory`, `FlatMemory` and `ByteMemory`
`MainMemory` has the map from page tags to pages, allocated with arbitrary
content (`Unset`) on first touch, and one action per call; `write` of a block is
one step per iteration of its loop. `FlatMemory` is what it promises: a function
from addresses to bytes, and `Contents` is the refinement mapping between them.
A block that is being copied counts as written, so the copying steps stutter.
`ByteMemory` is the same promise as operators, for the modules that use memory.

### `Simulation`
The loop of `RISCVSimulation::run`, cut where the code cuts it: the half cycle
before the loop, the first half (`set_outputs`), the second (`get_inputs`, then
the test of exit and timeout), and the queues of `MemoryPort`. The harness
modules extend it; its own `Spec` (any answers, any exit codes) is what the
proofs are about.

### `PageTableWalker`, `CachePorts` and `PipelineHarness`
`PageTableWalker` is `translate` and the checks of `virtual_addressing.h`, with
the setting of accessed and dirty bits. `CachePorts` is what the two ports do
with a request: alignment, translation, load and store, the reservation, the
nine AMOs, and the exceptions. `PipelineHarness` puts them in the loop and adds
the fences. The pipeline is the environment; what it may ask for is a *scene*.

### `Startup` and `CoreHarness`
`Startup` has one step per word of the command line, then the options, the
arguments, the sections one by one, the symbols and the stub. Every way to
refuse a command line or a program ends the process. `CoreHarness` continues
with the two ports of the core simulator in the loop.

### `MC...` and `.cfg`
The `MC` modules add model values, scenes, files and command lines; each `.cfg`
is one run.

## What the runs check

| Run | What it shows |
|---|---|
| `dcache_data` | Every kind of access on two lines that fight for one way, with probes, stalls and foreign writes: no store lost (`StoresReachMemory`), no stale load (`LoadsAreCurrent`) or copy (`CopyIsCurrent`); a successful SC is atomic with its LR (`ScIsAtomic`); the lock has one user (`LockExclusive`); the refill FIFO never overflows. |
| `dcache_geo` | Two sets of two ways, powered up with garbage: reset clears every set, upgrades and silent drops never make a second copy of a line, and the cache holds no more than it was granted. One line is only reached uncached, after a denied Acquire, and translations fault, wait or are refused: loads return the device's word. |
| `dcache_live` | Every request and every probe is answered: the 16-cycle lock on a refilled line gives progress and ends. |
| `llc_hosts` | Two scenes: hosts and an uncached client on one line, with pauses on channel D; hosts that share, upgrade and release two lines in one way, so that evictions cross with Releases. A single writer, no stale copy or read, a directory that covers the hosts (`DirectoryCoversHosts`), and no Release of a line that the LLC lost (`ReleaseFindsLine`). |
| `llc_probed` | No stale copy, and a directory that covers the hosts, when the device below probes; and the blocking rules between the trackers, whose comments argue "This wouldn't cause a deadlock", let every request, Release and probe be answered. |
| `llc_reset` | Violation, see below. |
| `broadcast_dma` | Three hosts and an uncached client on an ordered device: single writer, no stale copy or read, every probe counted (`ProbesAccounted`). |
| `broadcast_live` | A device that reorders: every request is answered, whatever crosses on the way. (That there is a single writer on such a device too is proved, see below.) |
| `sim_memory` | Paged memory implements the flat one (`FlatSpec`): scalars and blocks that lie on one, two or three pages, allocation on first touch, refused accesses and host calls. |
| `sim_pipeline` | Translation against the privileged architecture's rules, written as a condition on the whole walk instead of a loop (`TranslationMeetsSpec`); loads, stores and AMOs against arithmetic on integers (`AccessMeetsSpec`); a refused request changes nothing (`FaultLeavesMemory`); while a reservation lasts no store, AMO or SC has written the reserved word, though the walker may have marked it (`OnlyWalkerWritesReserved`); responses in time, fences answered in the next cycle. |
| `sim_reservation` | Violation, see below. |
| `sim_core` | From every command line to the end of the process: options and values are told apart (`CommandLineObeyed`), memory holds the image and the arguments (`ImageLoaded`, `ArgvReadable`), each port answers a read with the word of the cycle before (`DataNextCycle`), a masked I/O write touches its lanes only (`IoWriteMasked`), the process ends. |

Deadlock is checked in the hardware runs and in `sim_memory`. The harness
runs end, as the process does.

### Findings
**Reset of the LLC** (`llc_reset`). The counter leaves `FlushStateReset` on the
last set with the write switched off: that set keeps what the SRAM powered up
with. The data cache's loop, which writes the last set too, passes `dcache_geo`.

**Reservation of the pipeline simulator** (`sim_reservation`). `data_cache_port.h`
says of the single reservation: "clear it whenever any memory is written". Stores,
AMOs and successful SCs do; the walker, which writes the accessed and dirty bits
straight to memory (`page_table_walker.cc:139`), does not. TLC's trace is an LR of
a word that is a page table entry, then a translated load whose walk marks that
entry: the reservation stays valid, and an SC that follows succeeds and writes over
the mark. So an SC is not atomic with its LR on a page table entry that is in use;
on any other word nobody writes behind the reservation's back
(`OnlyWalkerWritesReserved`).

### Other disagreements met while modelling
In the LLC, when the device below probes it (they do not arise when the LLC is
the last manager above memory):

* *GrantAck of a refill.* The source says of leaving `AcqStateFill`: "This state
  change must be the same cycle as our GrantAck handshake." The acknowledgement
  is sent in an earlier cycle when the last beat is held up at channel D. To see
  it, check `PROPERTY GrantAckLeavesRefill` of `LLC` under `Spec` with one host,
  one value, and the one scene in `Scenes` with `tags |-> {t1}`,
  `probes |-> {"toN"}` and `stalls |-> {"d"}`.
* *Probe of a line being replaced.* The writeback tracker, serving a probe from
  below, writes its tag over the one that the Acquire tracker has just refilled.
  Check `DirectoryCoversHosts` with one host, one value, one way and the scene with
  `tags |-> {t1, t2}`, `probes |-> {"toN", "toB"}` and no stalls.

In the simulator, where the models do what the code does:

* `--memory-latency`, "Set main memory latency to X cycles." in
  `flows/README.md`, has no effect: the ports copy the latency when they are
  constructed, before the command line is read (`pipeline_harness.cc:23`).
* The layout in the comment of `binary_parser.cc` puts `argc`, `argv[0]` and
  `argv[1]` at the start of memory; the stub of three words is then written over
  them. `ArgvReadable` is about the rest. The strings of `argv` have no zero
  between them.
* An I/O write of 32 bits passes on 16 of them (`core_harness.cc`).
* A program that exits in the last cycle before the timeout is reported as timed
  out (`ending`).
* A translated address is put together in 32 bits; `TranslationMeetsSpec` compares
  addresses that fit.
* Without a program on the command line `binary_position` is read uninitialised:
  in the model, `Configure` chooses, among the positions on the command line and
  the one behind it.

### Something to know about the hub
An uncached request returns the hub to `StateIdle` without waiting for its
answer. On a device that reorders, an Acquire that follows an uncached write
may read the line first and keep the old value. No comment or document says
which devices may be used, so this is stated as the assumption under which
`CopiesAreCurrent` is checked (`Ordered`), not as a violation.

### Bounds
Two hosts are enough for every pairwise race, and the hub, whose counter adds
up the answers of all of them, has three; two tags in one way force evictions,
two ways of the data cache leave room for a second copy of the one line that
`dcache_geo` has per set (a choice between two occupied ways is not exercised there;
the proofs cover it; the LLC is checked with one way per set); two sets exercise
the reset counter's last index. Two values tell a stale copy
from a current one. Data cache lines have two words, so that a burst has a
first and a last beat. `AccessLockCycles` shortens the 16 cycles of the access
lock; the argument needs only that it is long enough for a replay, and it is
kept as small as that allows. The device of the hub holds `DevDepth` = 2
requests: a write and the read that may overtake it. It is checked on one line:
the hub serves one request at a time and keeps nothing per line. In
`llc_probed` hosts reach T through B (`NtoB`, then `BtoT`), so that sharing,
upgrade and probe from below meet; `llc_hosts` has `NtoT` too.

Main memory has three pages of two bytes (`PageSize`, `MaxAddress`), the least
with a page that a block fills from edge to edge between two others; `Wrap`
stands for 2^64 and is close enough for the last byte's address to wrap. The
pipeline scenes have bytes of 4 bits, words of 4 bytes, pages of two words and
one bit per index of a virtual address (`ByteBits`, `WordBytes`, `OffsetBits`,
`IndexBits`, `TopBits`), so that all 128 combinations of flags, four page
numbers and three levels are tables of their own, and operands lie at the edges
of each width; 7 bits (`UintBits`) stand for the 32 in which an address is put
together. `Latency` is 2 there, so that responses wait behind each other; the
loop runs for 3 cycles, and for 6 in the scene where accesses, reservations,
faults, fences and exits follow each other. The core simulator has its own bytes
and double words, 80 of them (`MaxAddress`), 64 instead of 1024 for the arguments
(`ArgumentSpace`) and a timeout of up to 3 cycles. Numbers on the command line
are not negative.

### Fairness
Weak fairness of `Tick` is the clock. The manager, the device and the hosts
take what is offered and answer, as TileLink demands. Strong fairness is
assumed of agents that compete for a shared channel through a round-robin
arbiter (`tl_socket_m1` and the arbiters inside the LLC and the hub); of the
data cache's manager, which serves its clients in turn and so grants although it probes the line again and again; of the reordering device,
which serves its oldest request in the end; and, in `dcache_live`, of a `Tick` in
which no probe waits and no machine has the lock. The last says that probes do not
follow each other without a gap: the manager learns of an answer to a probe a
cycle after the cache sent it, so the next probe does not always arrive in the very
cycle in which the cache is free again. The simulator is
one thread that does nothing but run: weak fairness of its next step.

### Mutants
Every property is shown to depend on the code by a mutant: a definition such as
`probe_locking_OverRefill`, next to the one it changes, makes the kind of slip
that the property is there to catch.

## Proofs

The assumptions of each are those on the constants (`DCacheAssumption`,
`BroadcastAssumption`, `MainMemoryAssumption`, `SimulationAssumption`), which TLC
evaluates on the runs.

**The data cache**, for any number of ways, sets, words, lines and values and any
behaviour of the environment: every safety property that the runs check. The
argument is in three layers, each inductive relative to the one before.
* *The lock* (`LockInv`): `DCacheTypes` (`Spec => []TypeOK`) and `DCacheLock` (`Spec
  => []LockExclusive`). `LockExclusive` alone is not inductive: whether a machine
  asks for the lock depends on its state, and whether it holds it on a flag set with
  the state. `LockStates` ties the flags of refill, probe and flush to the states
  that need them. The lemma about each machine says when its tracker can become valid
  (only if nothing is in progress and nothing with priority asks, or by a transfer
  from a machine that gives the lock up in the same cycle), and their combination
  leaves one holder.
* *Permissions* (`PermInv`, `ScInv`): `DCacheOneCopy`, `DCachePermissions`,
  `DCacheFifo`, `DCacheSc`. Only the holder of the lock writes tags, so whoever
  decides on tags has read them as they are (`TagsRead`). A probe is in one place:
  channel B, the check of the tags, or the writeback (`Probes`); what a writeback
  reports is what the tags say (`Reports`). The line that is waited for is in no way
  (`Absent`), even for an upgrade, because the miss invalidates the old copy; so a
  refill makes no second copy. The beats of the one grant are at the manager, on channel
  D or in the FIFO, the last behind all others, and together no more than a burst
  (`Beats`): that bounds the FIFO, and a probe of the line waits on channel B until
  the refill is written although the GrantAck has left. `Reserved` says that a
  reservation whose line is still writable has not been written by anybody else.
* *Data* (`DataInv`): `DCacheCurrent`, `DCacheStores`, `DCacheLoads`. The latest data of
  a line is in memory, in a dirty copy, or in a writeback that holds the line as
  writer (`MemoryCurrent`). A writeback sends the words in order from a way nobody
  touches; the word on channel C, stalled or not, is the one of its index
  (`Writeback`). A grant with data brings the words in order, and the words before
  the first beat still in the FIFO are in the way; one without data finds them there,
  because nobody wrote the line since the upgrade began, or else the manager's record
  of it is gone and the grant comes with data (`Refilled`). An access that uses the
  old word has read it from the SRAM as it is (`WordRead`). Lines that may not be
  cached never are (`UncachedAccess`).

TLC finds `DataInv` to be an invariant on the instances of `dcache_data` and `dcache_geo`.
`DCacheSteps` has the lock and what a clock cycle does to permissions, `DCachePerms` the
manager's steps, the theorems on permissions and what a cycle does to copies;
`DCacheData` what it does to writeback and refill; `DCacheProofs` uncached
accesses, the manager's steps on data and the theorems on data.

**`TlBroadcastProofs`**, for any number of hosts, lines and values, any depth of
the device and either order: `HubTypes`, `HubCounts` (`Spec => []ProbesAccounted`)
and `HubSingleWriter` (`Spec => []SingleWriter`). The hub has no directory: that
no other host has the line rests on a counter. The argument has two parts.
* *Before the grant.* `ProbesAccounted` says that the counter is the number of
  probes that wait, are sent, are answered, or are answered with data that is
  not yet written; `Places` that a probe is in one of these places and asks for
  what the request needs; `Probed` that a host with none of its own left has no
  more than the request allows. Counting needs three facts about finite sets: what
  appending a request to the device's queue, and taking one out of its middle,
  does to the number of write-backs in it (`WritebacksAppend`,
  `WritebacksWithout`, by a bijection).
* *Until the GrantAck.* A host could only regain the line from another grant.
  `InFlight` says that whatever is on its way (a read at the device, its answer,
  a Grant, a GrantAck) belongs to the request being served, and `OneGrant` that
  there is one of them, so that after the GrantAck there is none. `Kinds` is
  what the state says about the request.

Their conjunction with `TypeOK` and `SingleWriter` is inductive. (TLC finds it to
be an invariant with two hosts, on one line, and on two lines with a device that
reorders.)

On top of it, `HubCoherent` (`Spec => []CopiesAreCurrent`) and `HubReads` (`Spec =>
ReadsAreCurrent`): every copy is the latest value written, and a read that the hub
passes on will return it. Both assume `KeepsOrder`: the device serves requests in
order, or nobody but the hosts writes ("Something to know about the hub" says why
one of the two is needed). Dirty data moves from its owner to channel C, to the
device's queue, to memory. `DataInv` follows it:
* `OneReturn`: it is in one of these places, and while it is on its way nobody may
  write the line;
* `OneRelease`, `HeldOff`: a host has one release on the way, and answers no probe
  of that line until it is acknowledged, so the hub cannot pass a read while the
  release is outstanding;
* `Requests`, `Shapes`: the host that asks has neither write permission nor a release
  of the line, and the messages of a transaction look as its kind says;
* `Current`: the owner's copy, the data on its way and, if nobody has it dirty, what
  the device will have when its queue is served (`WillHave`), are all the latest
  value; the writes to a line precede a cached read of it in the queue.

`TlBroadcastSteps` has the definitions, proves types, kinds of message and the
single grant action by action, and that the steps of the hub and the device and the
requests of the hosts keep `DataInv`; `TlBroadcastProofs` has the other steps of the
hosts, the counting and the theorems. TLC finds `DataInv`
to be an invariant with two hosts, with an ordered device and DMA reads and writes,
and with a reordering device and DMA reads.

**`MainMemoryProofs`**, for any page size, address width, access width and
content: `MemoryTypes`, and `MemoryIsFlat` (`Spec => FlatSpec`), the refinement.
Initial states map to initial states; each scalar access and call maps to the
same of the flat memory, the start of a block to the whole write, and the copy of
a page to no change. The mapping shows the bytes that are still to be copied over what
the pages hold (`Contents`), so the step needs of `TypeOK` that pages are whole
and aligned and that the block fits.

**`SimulationProofs`**, for any number of ports and any latency: `PortsOnTime`
(`Spec => []OnTime`). It needs that after cycle 0 no waiting response has the
time that a new one would get, and the fact about reset that `get_inputs` states:
the half cycle before the loop and that of cycle 0 have the same time.

Only model-checked:
* the LLC. Its invariants hold on the environments of its runs, and not all of them
  beyond ("Other disagreements" above), so a theorem would have these
  restrictions as hypotheses; it has not been attempted;
* the pipeline harness. The walk of the page table is a recursive operator and the AMOs
  use bitwise operators: the prover can use neither;
* start-up and the core harness. What they say is about folds over the command line,
  the sections and the bytes of a word, which needs induction over data;
* all liveness, which is beyond the prover.

## Not modelled
* Data cache: byte masks and operand widths, performance counters; the TLB and
  the walker of the hardware answer as an environment. Translation is the
  identity: a reservation is compared by line, where the source compares virtual
  addresses, so a change of `satp` between LR and SC is outside. Whether a probe
  is held off by the access lock is decided by comparing sets; the source compares
  `address[11:6]`, which is the set for its default `SetsWidth` of 6.
* LLC: several trackers of one kind, AcquirePerm, denied answers.
* Hub: denied and corrupt answers, burst beats.
* Simulator: VCD, FST, CSV and coverage files and messages, which nothing reads
  back; `MainMemory::read` of a block, which nothing calls (its loop cuts a chunk
  to the page size and not to the rest of the page, `main_memory.cc:61-63`, and so
  would read past the page for a block that starts inside one; `write`, which is
  modelled, gets this right, and the mutant of `FlatSpec` has that slip); what libelf does with
  a file that is damaged rather than no RISC-V program.
* TLB and walker, instruction caches, pipeline, CSRs, sockets, terminators,
  adapters and AXI bridges: each is a cycle-level model of the size of the ones
  here. The models above use what they promise: a host that keeps asking is
  served, a translation answers, the device may reorder.
* The FPU and decoders (pure functions of wide words), register files, wiring,
  vendored primitives and the test code.

## Where to go next
1. `Translation`: TLB and walker. A refused access leaves its walk running, and
   a refill can follow the flush that should have undone it.
2. An abstract manager (permissions and values only), implemented by
   `TlBroadcast` and `LLC`; an abstract client, implemented by `DCache`; the
   composition of the two.
3. Proofs: `SingleWriter` and `DirectoryCoversHosts` of `LLC`, along the arguments used
   for the hub and the data cache, with the restrictions of its runs as hypotheses.
4. `ICache`, from the data cache's machines; `Socket`, `Terminator`, `Trackers`
   and `FifoConverter`; `Pipeline` and CSR trap entry and return.
