# A TLA+ verification of Spike with gdb server and ORAM

Spike is an instruction set simulator for RISC-V.  Around the loop over
instructions this tree has a gdb server that debugs the simulated hart through
the RISC-V debug specification (Debug ROM, Debug RAM, a debug interrupt), a cache
simulator with a tree ORAM behind it, the DRAMSim2 model of a memory channel, and
a copy of the SoftFloat library.  This directory holds TLA+ models of the code
under `riscv/`, `debug_rom/`, `softfloat/` and `DRAMSim2/`, the TLC runs that check
them on small instances and the TLAPS proofs that hold for all.

## 1. The system

### Components

| component | state | operations | correct when |
|---|---|---|---|
| `sim_t` (`riscv/sim.cc`) | harts, `current_proc`, `current_step`, memory, bus | `main`: a slice of `step`, then `gdbserver->handle()`, for ever; `step`: hart after hart, INTERLEAVE instructions each | every hart gets its turn; nothing that `handle()` does is seen half done by a hart |
| `processor_t` (`riscv/processor.cc`, `riscv/execute.cc`) | `state_t`: registers, CSRs, `dcsr`, `single_step` | `step`, `take_interrupt`, `take_trap`, `enter_debug_mode`, `set_csr`, `get_csr` | traps and Debug Mode save what they overwrite; one step is one instruction |
| Debug ROM (`debug_rom/debug_rom.S`) | none; runs in s0, s1, dscratch | entry, resume, exception, wait loop | leaves every register of the program as it found it |
| `debug_module_t` | Debug RAM (64 bytes), `interrupt`, `halt_notification` | loads and stores of the hart, `ram_read32`, `ram_write32`, set, clear, get | shared by hart and server without a lock |
| `gdbserver_t` (`riscv/gdbserver.cc`) | `operation_queue`, cached `dpc`, `dcsr`, `mstatus`, `xlen`, breakpoints, two byte buffers | `handle`, `accept`, `read`, `write`, `process_requests`, one `perform_step` per operation class | gdb's picture of the target is the target's state |
| `circular_buffer_t` | `data`, `start`, `end` | `append`, `data_added`, `consume`, `reset`, sizes | a FIFO |
| `oram_sim_t` (`riscv/oramsim.cc`) | `oram_tree`, `position_map`, `stash` | `init`, `access`, `load_path_to_stash`, `stash_write_back` | every block is found on its path or in the stash |
| `cache_sim_t` (`riscv/cachesim.cc`) | tags with valid and dirty bits | `access`, `victimize` | dirty lines reach the next level |
| `mmu_t` (`riscv/mmu.cc`) | three TLBs, instruction cache, matched trigger | translation, loads, stores, fetches, flushes | no stale translation or instruction is used |
| `rtc_t` (`riscv/rtc.cc`) | mtime, mtimecmp | `increment`, `store` | MTIP is set exactly when mtime has reached mtimecmp |
| `bus_t` (`riscv/devices.cc`) | devices by their base addresses | `load`, `store` | an address leads to the device that the config string announces there |
| FPU (`riscv/decode.h`, `riscv/insns/f*.h`) | f registers, fflags, frm, mstatus.FS; the library's rounding mode and flags, one for all harts | an instruction each | flags accrue in the hart that raised them; a clean FS means that nothing changed |
| SoftFloat (`softfloat/`) | none of its own | `f32_add`, `f64_div`, `f64_to_i64`, ... | every result is the exact one, rounded once |
| DRAMSim2 (`DRAMSim2/`) | transaction and command queues, bank tables of controller and ranks, refresh counters | `addTransaction`, `update`: one clock cycle | no command violates the timing of a rank; every transaction is answered, reads with the last write |

### Interaction

All of it runs in one thread.  `sim_t::main` calls `step` and then `handle()`;
the hart never runs while `handle()` does.  That removes data races, but not
interleavings: a slice ends after any instruction, in the middle of the Debug
ROM or of a program in Debug RAM too, and `handle()` then acts on a hart that is
half way through.  The server and the hart talk through the debug module:

    gdb --packets--> gdbserver_t --words--> Debug RAM --executed by--> hart
                         |  set interrupt -------------------------->  |
                         |  <-------------- clear interrupt (CLEARDEBINT)
    gdb <--replies-- gdbserver_t <------- halt notification (SETHALTNOT)

An operation of the server is a state machine.  Each `perform_step` writes a
program of a few instructions into Debug RAM and sets the debug interrupt; the
next step is made when the hart has run the program and cleared the interrupt.
A `continue` is three such programs (dpc, mstatus, dcsr), a halt four.

The harts take turns: `sim_t::step` gives each INTERLEAVE instructions, ends its
load reservation and, after the last hart, advances the timer.  Harts meet in
memory, in the pages of the bus through which they interrupt each other, and in
the global variables of SoftFloat.  Loads, stores and fetches that miss the TLB
are shown to the cache models (`memtracer_t`); the last level calls the ORAM,
and the ORAM the DRAM.

### What is hard

- *Sharing Debug RAM.*  The interrupt flag is the only thing that keeps server
  and hart apart.  The Debug ROM also keeps s1 and the result word there.
- *Single stepping.*  `single_step` has three values and is looked at in four
  places of `processor_t::step`; interrupts, traps and serializing instructions
  leave its loops at different points.
- *Crossing stops.*  A breakpoint's halt notification and gdb's interrupt
  character may be on their way at the same time.
- *Caches of the hart's state* in the server, which have to be written back
  before the hart goes on.
- *Clients that come and go* while operations are in the queue.
- *Long histories* of the ORAM: blocks are evicted, brought back and evicted
  again; a slip shows many accesses later, as a block that is gone.
- *Forgotten flushes.*  A TLB entry carries one translation for three kinds of
  access, and the instruction cache is indexed by virtual addresses; every change
  of privilege, mstatus or triggers has to clear both.
- *Boundaries*: the end of the ring buffer, a full stash, memory sizes that are
  no powers of two, the ends of the exponent and integer ranges.
- *A byte stream.*  A read ends anywhere; an acknowledgement, an interrupt
  character and the same bytes inside a packet look alike.
- *Interrupts that are looked for only now and then*, levels that are compared only
  when something changes, and reservations that no store checks.
- *Two tables of one device*: the DRAM controller and the rank each count down the
  same delays, a command latency apart, and a difference of one cycle is an exit.
- *Out-of-order service* in the command queue, with refreshes and closed rows
  between the activate of an access and the access.

`PROJECT.json` lists these as hazards with the line of code where each bites.

## 2. The modules

### CircularBuffer and Fifo

`Fifo` says what `recv_buf` and `send_buf` promise: a queue of at most `Limit`
elements, to which whole chunks are added and from which the oldest leave.
`CircularBuffer` is the template class: `data`, `start` and `end` are its
members, `Read` is `gdbserver_t::read` filling the contiguous free part and
calling `data_added`, `append`, `Consume` and `Reset` are the member functions.
A failed assert sets `aborted`, after which nothing happens.  `ImplementsFifo`
is the abstract specification with `q` mapped to what `operator[]` returns.

### DebugRom, DebugHart, GdbServer, SpikeDebug

`DebugRom` is the Debug ROM, word for word in the build for RV32 and RV64 that
`debug_module.cc` includes, and the reading and writing of Debug RAM words.  An
instruction is a record; a 64-bit datum fills two words, and reading two words
that were not written together gives `Junk`.  So does reading instruction bits.

`DebugHart` is hart 0.  `state` holds pc, the registers s0 and s1, `x` for every
other integer register, `f` for the floating point ones, the debug CSRs,
mstatus and mepc, and the local state of `step()`: `n`, the instructions left,
and `outer`, whether control is at the head of the outer loop, where
`take_interrupt` is called.  There is an action per kind of instruction and one
for a taken interrupt; `begin_step`, `retire`, `retire_serialized` and
`after_trap` are the prologue, the end of the inner loop, `advance_pc` for a
serializing instruction, and the catch clause.  `hist` and `insns` are history
variables: what the program's own instructions made of its state, which nothing
in Debug Mode touches.

`GdbServer` has one operator per operation class, a function from the server's
record and Debug RAM to the next ones, and one per packet handler.  `SpikeDebug`
composes them: `Slice`, `Run` and `SliceEnds` are a call of `sim_t::step`,
`HandleClient` and `HandleNoClient` the two branches of `gdbserver_t::handle`,
in the order of its statements (operation, notification, read, requests).  The
client is external: it takes the target as halted when it attaches, sends one
command at a time, waits for as many replies as the server sends, lets the
target run until a stop reply, and may send the interrupt character while it
runs.  It may disconnect at any time.

A behaviour starts with the choice of a `session`: the program the hart runs and
its privilege, whether it has a timer, which commands gdb may send, how many, and
whether it interrupts, disconnects and comes back.  The sessions of one run are
the cases that are explored side by side: programs that trap while they are stepped
(timer interrupts and `mret` in `TimerSession`, `IllegalSession`, `EbreakSession`), registers
and memory, breakpoints with repeated `Z` and `z`, and clients that leave.

What the abstraction leaves out: framing, checksums and hex digits of packets
(a packet is a record; see PacketLayer); 32-bit and 128-bit slots; the access size of memory
operations (one access moves one value); address translation (the program runs
without virtual memory, where `collect_translation_info_op_t` does nothing);
`c` with an address; hardware breakpoints.  The steps of the `g` packet for the
register pairs that hold neither s0 nor s1 are alike, and one of them is kept.
`PC_SERIALIZE_BEFORE` is folded into the CSR instruction: its only effect is a
further call of `take_interrupt` before it.

### Oram

`oram_tree`, `position_map` and `stash` are the members of `oram_sim_t`.  An
access is `AccessHit`, or `AccessMiss` followed by one `BringEvicted` per entry
of the loop over the evicted blocks and by `WriteBack`; nothing happens in
between.  The tree is given by `Path`, and the assumption on it says what
halving node numbers guarantees; `MCOram` defines it with the division of the
code.  `rand()` is a choice of any leaf.

### Mmu

`Mmu` is `mmu_t` with the instructions of one hart that change what it depends
on.  `state` has what translation reads of `state_t`: prv, whether the hart is in
Debug Mode, dcsr.prv, the fields of mstatus, sptbr.  `tlb_tag`, `tlb_data` and
`icache` are the arrays of the class, `check` its three `check_triggers_*`,
`trigger` and `tdata2` the one trigger, `tracer` the access types that the cache
models want to see.  `walk` follows the page table with one bit of the address
per level, checks the permissions in the order of the code and makes the fake
leaf of a superpage.  `Load`, `Store`, `FetchFast` and `FetchSlow` are accesses
that complete, through a hit or through the slow path and `refill_tlb`; `Fault`
and `TriggerFires` the ones that do not, in the order in which the slow paths look (a
load needs its page first, a store looks at the triggers before it).  A trigger that fires
enters Debug Mode or raises a breakpoint exception, as its `action` says.
Traps, `mret`, `sret`, `dret` and the entry of Debug Mode go through `set_privilege`,
which flushes; writes of mstatus
flush if a relevant field changes, writes of sptbr never do.

`synced` and `fenced` are history variables: that no store and no write of sptbr
changed a translation since the last `flush_tlb`, and that no store went to a
page that is fetched from since the last `flush_icache`.  They stand for the
fences that the architecture asks of software.

What the abstraction does: a cell of a page holds one page table entry, one
instruction or one datum; the A and D bits are kept beside the memory, since
nothing reads them; an AMO is a load and a store; the single trigger matches
one address (MATCH_EQUAL) in every mode, without select and chain; `tlb_data` behind
three invalid tags is forgotten,
as nothing reads it; addresses beyond the reach of the page table, unaligned
accesses, which are split into bytes, and instructions of more than one parcel
are left out.

### PacketLayer

`handle()` once more, seen from the socket.  The byte buffers are those of
`CircularBuffer`: its own variables for `recv_buf`, an instance for `send_buf`.
`at` is the statement of `handle()` that is next: the operation at the head of the
queue, `accept` or `read`, `process_requests`, `write`.  `Scan` is the loop of
`process_requests`, with its early returns as actions of their own: `Ack`,
`handle_interrupt`, `Malformed`, `handle_packet`, `RequestsEnd`.  An operation is the
list of what its steps send; what it does to the hart is in `SpikeDebug`.  The
client frames packets, acknowledges replies, damages or cuts frames, gives up
waiting, closes and reconnects.  The socket hands over any prefix of what was
sent.  Bytes are model values, and a checksum has two digits in base `Base`.

### Machine

`sim_t::step` with several harts, and what a hart shares with others.  `hart[p]` has
privilege, mstatus, mie, mip, mideleg, medeleg and the reservation of hart p; `cpu`
has `current_proc`, `current_step` and the place in `processor_t::step`, so that
a slice is a behaviour of its own and the host, gdb and interactive steps come
between slices only.  There is an action per kind of instruction (`lr`, `sc`,
stores to memory and to devices, CSR writes, `ecall`, `mret`, `sret`), and one for an
interrupt that `take_interrupt` finds.  A hart executes any instruction of its code
at any time; addresses are in double words, memory has `memsz` of them, and its
contents are left out.  A hart enters Debug Mode for the debug interrupt or for
dcsr.halt, which the option `--halted` sets (scenario `Halted`).
`frames` (the traps that wait for their return), `late` (instructions since an
interrupt was due), `lastLR` and `touched` (whose reserved word somebody else has
stored to) are history.  Single steps and
triggers are in `DebugHart` and `Mmu`.

### CacheSim

The caches that the command line builds: an instruction and a data cache and the
L2 that handles their misses, set associative or, with one set of more than four
ways, fully associative.  `cache[k]` has tags and counters.  `access`, `check_tag` and
`victimize` are the member functions; an access of the hart is one action, with the
write-back and the fill in the order of the code.  The way that the shift register
picks is any way.  `unwritten`, the addresses with a store that no write-back of the
last level has covered, is history.

### DramDevice, DramQueue, Dram

A channel of DRAMSim2.  `DramDevice` has the timing parameters, the address
mappings, bank states and ranks; `DramQueue` is `CommandQueue.cpp`, a function from
queue and bank table to the command that goes out; `Dram` is the controller with
its clients, one action per clock cycle, which is everything that
`MemorySystem::update` does in its order.  There are two clients.  `TraceBasedSim`
offers a transaction in every cycle until it is accepted (`ReadLine`, `RetryLine`,
`EndOfTrace`); it runs a given number of cycles, so a behaviour may end anywhere.
spike's `main` makes a test before it simulates, two reads and 5 cycles and a write
and 45 cycles (`TestCall`, `TestUpdate`); after it the ORAM hands transactions over
(`access`), and nothing calls `update` again.  The fields of an address have the widths
that `dramsim_log2` gives, which name ranks that are not there when the number of ranks
is no power of two; `MappingAssumption` leaves such addresses out.  `waited` counts the
cycles for which transactions have been waiting.  Points in time are kept as cycles that
are left.  `error` is the first of the ERROR exits that was reached.

### FloatFormat, SoftFloat, SoftFloatConvert, Ieee, Fpu

The library's functions, for formats of any size: the code is written twice, for
32 and 64 bits, and a format is a record here.  `FloatFormat` has rounding and
packing, `SoftFloat` the arithmetic, `SoftFloatConvert` conversions and
comparisons.  `Ieee` is the reference: the exact result, rounded once.  The
reciprocals in division and square root come from tables and Newton steps; they
are replaced by every estimate within the error that `primitives.h` states.
`Fpu` has the instructions of F and D with the macros of `decode.h`, the CSRs, FS and
the library's two global variables, for several harts and for an operating system
that saves the registers only when FS is dirty.  Three functions of the library that
no instruction uses (round to integer, conversion towards zero without a rounding mode,
the signaling equality) are called as if they were instructions.

## 3. The runs

Passing runs.  The type invariant of a module is a conjunct of one of its run's
invariants (`CommandsInTime`, `InterruptsTimely`, `TagsUnique`, `FlagsAccrue`,
`BreakpointsAsBelieved`) or a theorem of section 4.

| run | instance | shows |
|---|---|---|
| buffer | capacity 5, two byte values, chunks up to 5 | the buffer is a FIFO of 4 elements; it aborts when data does not fit, or fits exactly and wraps, and never otherwise |
| control | a four instruction loop with `c`, `s`, `?` and the interrupt character, 3 commands; steps and interrupts over a U-mode loop with timer interrupts, an illegal instruction, an ebreak | attaching halts the hart; an interrupt stops it and gdb is told; a step ends in the program, with the two exceptions below |
| registers | `s`, `g`, `m`, `X`, and `p` and `P` of s0, s1, another integer register, pc, a floating-point register, mstatus, mepc, the privilege, a missing CSR and an unknown number, with an access beyond memory; `Z`, `z`, `c` at an address of the loop, repeated too; steps over timer interrupts, mret and an illegal instruction; a U-mode loop with an M-mode timer handler, interrupted and left by clients at any point | reads are true but `p` of s0, faults are reported, a step is one instruction (with `mret`, one more), what the server caches is what the program will find, memory has an ebreak exactly where gdb has a breakpoint or has set one twice, and neither stale operations nor the timer disturb Debug RAM or the program |
| packets | receive buffer 15, send buffer 9, checksums in base 2, six commands, 4 connections, commands and damaged frames | every packet that arrived whole is handled once and in order, replies have true checksums, nobody is dropped, and who waits for an answer gets one as long as debug programs finish |
| oram | 10 lines in buckets of two: 5 blocks, 4 leaves, two entries beyond the path | no block is lost or misplaced; block 4 has no leaf and lines 5 to 9 no block, and the asserts catch them |
| mmu | two levels of tables in 2 pages that also hold the data, 2 device pages, one TLB entry and one instruction cache entry; user, supervisor and machine mode, MPRV on and off, a watchpoint, with and without tracers | whatever changes a translation or a trigger flushes; the dirty bit is never missed; tracers and watchpoints see every access |
| dram | 2 ranks of 2 banks with 2 rows, DDR2 timing scaled down, four combinations of row policy, scheduling and queue structure with 3 transactions of a trace; spike's test and two accesses after it | no ERROR exit, one driver of the data bus, reads see the last write, no refresh is overwritten, no transaction waits for more than 43 cycles of the clock |
| caches | five hierarchies, of direct mapped, two-way and five-way caches, one with data-cache lines longer than those of the L2, with 5 to 7 accesses | no store is lost between the levels, but for the rest of such a long line; no line is held twice |
| machine | two harts that contend for a word under a debugger and a host; one hart with programs of three privileges; two harts that interrupt each other through the devices; harts that start halted; slices of three instructions | a reservation holds only while nobody else stored; MTIP is a level; no interrupt waits for a slice; traps nest and return; S-mode cannot reach M-mode's state; the bus leads where the config string says; harts rotate |
| fpu | formats of 6+2 and 7+10 bits (exponent and fraction), the special values and the boundaries of every case in the code, five rounding modes; streams of two harts, and of one under an operating system | results and flags are those of the reference, but for fmin and fmax of a NaN in rs2; flags accrue in their hart; a clean FS means saved |

`StepStopsInProgram` in the run control has a case that looks wrong in the code
and is not.  If a slice ended right after `dret`, the debug interrupt of a
following interrupt character would enter Debug Mode with `single_step` still
set, and the step would end inside the Debug ROM.  A slice that starts in Debug
Mode has 11 instructions, and the way from the wait loop through any program of
the server to `dret` never takes a multiple of 11, so `dret` is never the last
of a slice.  The mutant with slices of 9 instructions breaks the property; the
comment at the constant does not say that anything depends on it.  Two cases are
wrong, and the property states what happens there: a stepped `ebreak`, and a debug
interrupt that finds a step still to be done because an interrupt of the program was
taken first (both are in the list below).

`HaltedAsTold` holds for sessions without the interrupt character only: see the
crossing stop replies below.

Runs that find a disagreement between the code and what its comments, asserts
or tests say (`findings` in `PROJECT.json` quotes them):

| run | what happens |
|---|---|
| pending_interrupt | with an enabled interrupt pending, the hart goes round in the Debug ROM's exception path and never halts |
| mmu_breakpoint | an instruction that is in the instruction cache runs although a trigger waits for its address |

Smaller disagreements that no run of their own is kept for.  The first group is part of the
passing runs: the property says, as an exception, what the code does instead.

- `StepIsOneInstruction`: a step over `mret` runs two instructions, because
  `advance_pc` leaves the loop of a serializing instruction before the test for a
  finished step;
- `StepStopsInProgram`: a step over an `ebreak` enters Debug Mode twice, once for the
  `ebreak` and once for the step; dpc is then an address of the Debug ROM;
- `StepStopsInProgram`: an interrupt that is taken before the stepped instruction ends the
  call of `step` with the step still to be done; if the interrupt character of gdb comes
  then, the debug interrupt enters Debug Mode and the first instruction of the Debug
  ROM is what is stepped (`execute.cc:65` and 189);
- `ReadsTruthful`: `p` of s0 answers with what the Debug ROM left in s0, misa (`g` and
  `P` handle s0);
- `ReadsTruthful`: a CSR that the hart does not have reads as E03, where a comment
  expects ~0; the property allows either;
- `BreakpointsAsBelieved`: a repeated `Z` for one address saves the ebreak as the
  original instruction, which a `z` then puts back;
- `TlbTruthful`, `IcacheFresh`: with MPRV set, loads and fetches are translated in
  different modes but share `tlb_data`: a refill for one changes where the other goes;
  the properties speak of entries whose access types run in one mode, and of the
  instruction cache while loads run in the mode of fetches;
- `AbortOnlyNearFull`: `append` asserts `<` where `<=` would do for the part behind the
  wrap, and aborts on data that fits exactly;
- `NothingLost`: of a data-cache line that is longer than those of the L2 only the start
  is written back (`cachesim.cc:153`), and the rest is dirty nowhere;
- `OthersCorrect`: fmin and fmax raise nothing when rs2 is a NaN and return rs1, even if
  a signaling NaN is among them; and which of two zeros they return depends on the
  order of the operands, which IEEE 754-2008 permits;
- `AllServed`: what the ORAM hands to the DRAM during a simulation of spike is never
  served, because nothing runs the clock.

The second group shows when an instance is changed, or lies beyond what is modelled:

- a breakpoint, or the end of a step, and the interrupt character may cross: both
  send a stop reply, gdb takes the second for the answer to its next command, and
  the server then writes an old dpc (`HaltedAsTold` with interrupts in a session);
- `==` for `=` in `oramsim.cc`: a block that is brought back stays among the
  evicted, and is there twice;
- a memory read whose reply is longer than `send_buf` aborts in `append`, although
  the announced PacketSize allows it; one of length zero underflows its count;
- `write` aborts when the socket takes nothing (EAGAIN) or the client is gone
  (EPIPE); in `PacketLayer` the socket takes what it gets;
- an interrupt character that comes right after an acknowledgement nobody expects
  waits with it for the next `$`; a `-` of gdb is never answered with a repetition;
- a new client may be sent the end of its predecessor's reply;
- a chain of triggers fires although an earlier part of it does not match
  (`chain_ok` never becomes false); `Mmu` has one trigger;
- dirty lines that leave the L2 are counted and never written to the ORAM, whose
  window is fixed at 4 MB; an access that straddles two lines touches the first;
- a store that matches a trigger with timing 1 and then faults throws its trap out of
  the handler of `trigger_matched_t`, where nothing catches it (`execute.cc:207`);
- the interrupt that is taken is the one with the lowest number, so a delegated
  SSIP goes before MTIP; a CSR write that enables one is followed by a check only
  at the end of the slice or at the next serializing instruction;
- MTIP is clear after reset although mtime has reached mtimecmp (`TimerLevel` starts
  with the first tick); a store to address 0 reaches the device with the highest
  base, because the address is negated;
- a reservation survives Debug Mode in the middle of a slice, which only the
  interactive mode together with gdb can bring about;
- a stash without an entry beyond the path drops a block, silently: no assert
  looks for it (the theorem `NoBlockLost` assumes that there is one);
- `bucketsz` divides the number of blocks and not the block number, so that the
  upper lines of memory end in an assert.

### Bounds

INTERLEAVE is 5000 in the code and 21 here: longer than a Debug Mode slice (11,
as in the code) and long enough for several rounds of the programs' loops, so
that a slice of the program ends at each of its instructions.  What matters of
a program is where it can be stopped; four instructions that change s0 and jump
back give every case.  The number of commands bounds the length of a behaviour:
the state of the server after a command that is answered differs only in its
cached values, so that pairs and triples of commands reach what longer
sequences do.  For the buffer, capacity 5 lets a chunk be split at every place;
for the ORAM, height 2 is the least with a node that is neither root nor leaf,
and two entries beyond the path the least at which the stash can be partly full.
For the mmu, one TLB entry makes every pair of pages collide and the three tags
compete for one translation; two levels are the least with both a pointer and a
superpage.  Page tables and data share their pages, so that a store can change
the translation it has used.

In packets the receive buffer holds two frames and a little more, and both buffers
are small enough for frames and replies to wrap; four events are a
command, a damaged frame, a disconnect and a command of the next client, in any
order.  In dram, a queue of four commands holds two transactions, one row access
before a row is closed makes every policy act, and the refresh period is short
enough for refreshes of both ranks to meet three transactions; queue depths and
periods beyond that repeat these meetings; 43 cycles are the longest any transaction
of the instance waits.  In caches, five ways are the least for
which the code builds the fully associative kind, and six lines fill one.  In
machine, three instructions are the least that let `lr`, something else and `sc`
share a slice; mtime stays at its bound, which is exact because no comparison but
the largest is above it.  In fpu the formats are the smallest in which every
special case of the code exists (subnormals, carries out of the significand, guard
bits on both sides of a tie), and the operands are those at which a case begins or
ends, in all combinations.

### Fairness

Only the simulator is assumed to go on (`WF_vars(Simulator)`): `sim_t::main` is a
loop without a blocking call, and sockets are non-blocking.  The gdb of `SpikeDebug` is never
assumed to do anything.  No fairness is needed between actions of the
simulator, since exactly one of them is possible at a time.  `Machine` has the same
assumption for its whole next-state relation, since `main` never stops.  `PacketLayer`
has it for its server, and adds that bytes that were sent arrive (`SF` of `ReadBytes`).
That the hart finishes the debug program of an operation is not assumed, and the run
pending_interrupt shows that it need not: `Answered` has it as a premise
(`OperationsFinish`) instead.  `Dram` has no fairness, since neither client runs the clock for
ever; `AllServed` bounds the cycles a transaction waits while the clock runs.  `Oram`,
`Mmu`, `CacheSim` and `Fpu` have no liveness.

## 4. The proofs

All proofs are checked by TLAPS with Z3, Zenon and LS4.

`CircularBuffer_proofs`, for every capacity above 1 and every set of chunks:

- `TypeCorrect`: `start` and `end` stay in the array.  `TypeOK` is inductive.
- `Refinement`: `Spec => ImplementsFifo`.  Each operation is shown to map to a
  step of `Fifo`.  The lemmas `ViewFacts`, `WriteBlock` and `TwoBlocks` say what
  writing a block behind `end` does to the contents, with and without a wrap;
  `ConsumeStep` does the same for the front.
- `AbortsOnlyNearFull`: an abort means, and only an abort, that the data does not fit or
  that it fits exactly and wraps; from the same facts about sizes.

`Oram_proofs`, for every tree that satisfies `PathAssumption`, every number of
lines and every stash with at least one entry beyond the path:

- `NoBlockLost`: `BlockIsFound` always holds.  It says nothing about the middle
  of an access, so it is not inductive.  `IndInv` adds that the path entries are
  clear between accesses, and that during one each block is `Kept`: among the
  evicted blocks, or on its path, where the stash stands for the nodes of the
  path that is loaded; only the accessed block may be without a place, until
  `WriteBack` gives it one.  `AncestorShared` (two paths share what is above their
  nearest ancestor) shows that the new place of the accessed block is on its new
  path; that a node has one depth shows that writing one path back spoils no
  other.
- `InvariantHolds`: `IndInv` itself.
- `OwnBlocks`: `NodesHoldOwnBlocks`, without any hypothesis on the stash.  What a
  node holds during an access is what the stash will write back, so `OwnInv` speaks
  of `Held`.  The difficult case is an access that finds its block nowhere on the
  path and gives it a new leaf: a second copy elsewhere would now be on a wrong
  path.  `OwnInv` therefore adds that a block which is in two nodes is among the
  evicted too, where an access meets it first.

The hypothesis of the first two is needed: see the silent drop in section 3.

`Mmu_proofs`, for every page table and memory, every number of levels, every size
of the TLB and the instruction cache, and every set of triggers and tracers:

- `TypeCorrect`: `TypeOK` is inductive.  The interesting part is `spp`, one bit
  wide, which only a trap from below M-mode may write.
- `WatchpointsStaySeen`: from `TagsChecked`, every valid tag has the check flag of
  the current trigger.
- `TracersStaySeeing`: from `NoneTraced`, there are no entries for what a tracer
  wants to see.
- `TlbStaysTruthful`, `DirtyStaysMarked`, `IcacheStaysFresh`: from `CacheInv`, which
  says of array entries what the properties say of addresses, and adds that
  valid tags stand for main memory, and for pages that their access type may use whatever
  the mode of the others.  The argument has two lemmas.  `TranslateSharing`: for
  access types that run in one mode, the kind of an access decides whether a page is
  found but not which, so a refill for one tag is right for another of the same page.
  `TranslateCongruence`: translation depends on the page table only through the entry at
  which the walk ends, so a store or a write of sptbr that keeps those entries keeps
  `synced`.  There is no hypothesis on MPRV: where it makes the access types of an entry
  differ in mode, the first and the third theorem say nothing of it, and the second
  holds all the same.

`TagsChecked`, `NoneTraced` and `CacheInv` are stated over the entries of the arrays,
because a hit for an address says nothing about the entry it shares.

`CacheSim_proofs`, for every hierarchy that satisfies `HierarchiesAssumption`
(what `help()` demands of a geometry, and no more), every sequence of accesses and every choice of victims:

- `StoresKept`: `NothingLost`, with its exception for long lines.  `IndInv` adds that
  every array is `WellFormed`: its
  size follows from the geometry, a line sits in its own set (or anywhere, if the
  cache is fully associative) and is there once.  `Marked` and `Victim` say what
  setting the dirty bit and replacing a line do to the set of dirty lines;
  `AccessOutcome` combines them for one level, and `Handled` for the misses and
  write-backs that a level sends down.  The order in `access` matters: the victim
  is written back to a level that then gets the miss, and that miss may evict the
  line just written.
- `OneCopy`: `TagsUnique`, from `WellFormed`.

`Machine_proofs`, for any number of harts, any length of a slice, any programs that
satisfy `CodeAssumption` (operands that the encoding can hold, and no program
that pokes into the debug module), any host and debugger.  There is one lemma
per action, and it shows that `IndInv` is kept and `GuestConfined` respected.
`IndInv` has five parts:

- `TypeOK`: the modes of all harts are legal, through traps, returns, CSR writes and
  Debug Mode.  `TrapToM`, `TrapToS`, `SetCsr`, `ReturnM` and `ReturnS` say it of the
  functions that change a hart.
- `OnlyOneReserves`: a hart holds a reservation only during its own slice.  This is
  what makes `ReservationHolds` true although a store of another hart, of the host
  or of the debugger never looks at the reservation (`Reservations`).
- `TimerLevel`, inductive with the types (`TimerIsLevel`).  `NewMips` and `BusHarts`
  follow a store through the bus to the registers of another hart.
- `LateInSlice`: instructions that ran late and those left of the step do not fill
  a slice; so a hart reaches the point where it looks for interrupts in time
  (`Timely`).
- `FramesSaved`: a trap that waits for its return still has in mstatus what it saved
  there.  Two frames suffice, since a trap into S-mode from a handler in M-mode is
  impossible and a second one into the same mode overwrites the first
  (`ReturnsRestore`).

`Confinement`, an action property, holds since M-mode state is written only in
M-mode, by a trap into it and by Debug Mode, which acts as M-mode.

`ConfigStringHolds` is `ConfigStringTrue` for any number of harts and any layout that
satisfies `LayoutAssumption`: the registers of the harts end below memory, as they do
in encoding.h for up to 261000 harts.  `HartRegisters` places the pages of the harts
behind the registers of the timer and apart from each other; the bus keeps its
devices under negated bases, and `FindsHart` and `FindsTimer` say that its
lower_bound nevertheless finds the device the address belongs to.  `StoreToIpi` and
`StoreToTimecmp` follow a store there; `StoreReaches` is the converse, in which the
sum of address and key wraps around at most once (`Reduced`).  `StillOrStored` says
that no step but such a store changes a software interrupt or a comparison.

`Fpu_proofs`, for all formats, all operands, all rounding modes, all programs and
any number of harts.  `StreamsAssumption` says that rounding modes have three bits.

- `FlagsStay`: `FlagsAccrue`.  Every function of the library is shown to raise
  nothing but the five flags, from `RoundPackRaises` up to `BinaryRaises`, `ToIntRaises`
  and `CompareRaises`; `ExecuteGood` is then about `set_fp_exceptions`, which moves
  the flags from the shared variable to the hart and clears it.
- `CleanStaysSaved`: `CleanIsSaved`.  An instruction that writes an f register or
  raises a flag has set FS to dirty; one that does neither may leave FS alone.

`IndInv` is the two properties with the types and `Fetched`: an instruction in flight
is one of the stream.

`Dram_proofs`, for any number of ranks and banks, all policies, any depth of the
queues, all sequences of transactions of either client, and all timings that
satisfy `TimingAssumption` (what the parts under `DRAMSim2/ini` have in common: a
command takes one cycle, a row can be read before it may be closed, and the
delays that end a state are not zero).  `MappingAssumption` says that the fields of an
address are masked to their widths; `ClientAssumption` types the client.

- `CommandsArriveInTime`: `CommandsInTime`, hence none of the ERROR exits of
  `Rank.cpp`.  Controller and rank keep separate tables of the same banks.  The
  controller updates its own when a command leaves the queue, the rank when the
  command arrives a cycle later, and a row that closes by itself is closed at
  once in the rank but after a countdown in the controller.  `Covers` relates a bank of
  one table to the same bank of the other, as it is once the command on the bus
  has arrived (`Arrived`): the rank wants at most one cycle more than the
  controller waits, which is the cycle the next command is on the bus.  It is
  not inductive without the countdowns: a closing row (`Closing`) and a refreshing
  bank must not be used before their countdown ends, and `d` says whether the
  controller has counted this cycle already.
- The invariant is followed through the stages of a cycle: `Between` two cycles, `Counted`,
  `Middle` (the bus is empty), `Issued` (the next command has left the queue, and
  `Handed` says that the rank will be ready for it), and `Between` again
  (`Updated`).  `PopGood` says that whatever `CommandQueue::pop` returns is `Sendable` by
  the controller's table, through both schedules, both structures and the
  refresh; `ReadCover`, `WriteCover`, `ActivateCover`, `PrechargeCover` and
  `RefreshCover` say that the two updates for a command match; `Powered` is about
  power-down, where both tables must change in the same cycle.

`DramBus_proofs`, for the same channels, with `BusAssumption` on the timing: the read
latency is at least two cycles, tRTRS at least one, and tRCD - AL longer than a burst.
All parts under `DRAMSim2/ini` satisfy it, the DDR3 part sg25E without a cycle to
spare (tRCD = 5, BL = 8).  It is not a convenience: an access makes the other ranks
wait only where a row is open (`MemoryController.cpp:335`), so a row that is opened
later is kept off the bus by tRCD alone, and with tRCD = 2 or with tRTRS = 0 TLC
finds two bursts that meet in the instance of the run.

- `DataBusKept`: `DataBusExclusive`.  Ranks and controller are lanes with a burst that is
  on the bus and bursts that wait for their turn.  `BusInv` says that the bursts of
  a lane follow each other, that those of two lanes do not overlap, that the bus is
  free RL + BL/2 cycles ahead at the latest, and that the table makes every access
  to an open row wait until the bursts before it have ended; a read that is on the command bus
  already counts although it has no burst yet.  Without the last two parts the
  invariant is not inductive: an activate opens a row whose banks noted nothing.
  `BusAdvances` moves all bursts on by a cycle, `BusMoved` lets the read that arrives join its lane,
  `CommandLater` is what each command adds to the table, and `IssuedBus` puts the
  burst of the next command behind all others.

Only model-checked:

- the liveness properties, which are out of the prover's reach;
- `SpikeDebug`, whose interest is in the exact programs and slice lengths;
- `PacketLayer`: what the server has parsed is a recursive function of the stream of
  bytes, so its properties are inductions over data;
- the rest of `Dram`: `ReadsSeeLastWrite` needs the order of
  all accesses to an address in the queues; `RefreshKept` needs that the queue sends
  a refresh within a period, which is bounded liveness and false for short periods;
- `CorrectlyRounded` and `OthersCorrect` of `Fpu`, which compare with exact
  arithmetic on all values of two small formats.

## 5. What is not modelled, and the plan

Left out for good: the disassembler, option parsing, the ini reader, statistics and
energy of DRAMSim2, the interactive mode beyond the steps it makes and the commit
log (text); integer instructions, which are a line of C++ each; f32_rem and f64_rem,
which nothing calls; the Newton steps of the reciprocal estimates and the variants
of SoftFloat for compilers without 64-bit integers; extensions, an interface with an
example.

Left out so far: hardware breakpoints and tselect, `collect_translation_info_op_t`,
the parsing of packet arguments and the query packets, 32-bit slots; chains and
comparisons of triggers, AMOs as instructions with two accesses; instructions of
several parcels and the decode cache; counters, misa and the vector CSRs; several
DRAM channels and the clock crossing; accesses of the bus other than double words;
the connection of `CacheSim`, `Oram` and `Dram` into one memory system.

In the order in which they should follow:

1. Proofs: `ReadsSeeLastWrite` of `Dram`; `ComparisonsCorrect` for every
   format; a rely-guarantee invariant for `DebugRamExclusive`. For the first, the
   invariant to try has a history of the accesses in the order they were accepted,
   and says that for each address they leave the transaction queue, the command
   queues and the banks in that order; that data on its way to a bank lands before
   the bank's next read; and, with closed pages, that each ACTIVATE stands directly
   before its own access. `UpdateRanks` has to be written without `FlattenSeq`
   first, which is recursive and opaque to the provers.
2. Hardware breakpoints and `collect_translation_info_op_t` as further operations of
   `GdbServer`; `trigger_match` with chains against a reference definition.
3. The memory system: misses of the L2 as accesses of the ORAM, and its paths as
   transactions of the DRAM.
