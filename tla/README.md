# Verification of RISCV-LBIST

The repository adds a logic built-in self-test (LBIST, `src/src/*.vhd`) to the
RI5CY processor (`src/rtl/*.sv`), with the bench around both (`src/tb/core`) and
the scripts, netlists and reports of their synthesis and fault simulation. This
directory holds TLA+ models of its control logic and of the C and C++ code of its
benches, the configurations TLC checks them with, and proofs for TLAPS. Every
definition that stands for code is listed with its lines in `PROJECT.json`. A step
of a hardware model is one rising clock edge; of a software model, one call,
command or instruction.

## The system and what can go wrong in it

| Part | Source | State | Interacts with | What makes it right |
|---|---|---|---|---|
| LBIST sequencer | `bist_controller.vhd` | FSM, two 20-bit counters | drives all of the block; `test_normal` and `go_nogo` to the host | sessions start clean; chains are loaded and unloaded completely; a started session ends |
| Pattern generator | `lfsr.vhd` | 20-bit LFSR | scan inputs | never stuck at zero, maximal period |
| Compactor | `misr.vhd` | 20-bit MISR | scan outputs | one wrong cycle always shows |
| Block | `bist.vhd` | the above | scan chains of the core | only known bits absorbed, each once; verdict right |
| Host, wrapper | `tb_top.sv`, `riscv_wrapper_gate.sv` | reset generator, four flags, gated memory clock | block by three meanings of one wire | stays in step, memory frozen while scanning |
| Fetch | `riscv_prefetch_L0_buffer.sv`, `riscv_L0_buffer.sv`, `riscv_if_stage.sv` | 17 + 5 states, line buffer, kept word | memory by request/grant/answer; ID by ready/valid; jumps | the program's instructions, whole, once, in order |
| Hardware loops | `riscv_hwloop_*.sv` | two counters | fetch and ID | each body runs its count |
| Load-store unit | `riscv_load_store_unit.sv`, parts of `riscv_id_stage.sv`, `riscv_ex_stage.sv` | FSM, attributes, kept word | memory; EX and WB stages | loads return and stores write the right bytes |
| Core control | `riscv_controller.sv`, `riscv_int_controller.sv`, handshakes of IF, ID and EX, part of the CSRs | 17 + 3 states, IF/ID register, operation in EX, status, saved addresses | fetch by `pc_set` and halts; interrupt and debug lines; EX | instructions take effect in program order, and every trap, interrupt and entry to debug mode resumes where it left |
| JTAG server | `src/tb/dm/remote_bitbang`, `SimJTAG.sv` | connection, pins, sampled TDO, tick counter | a debugger by a socket, a test access port by delayed wires | the debugger's commands act as if it held the pins |
| Verilator debug bench | `src/tb/verilator-model/testbench.cpp` | two programs in memory, a flag, three input wires | the core, by memory and `debug_req` | the debugged program does not notice; the hart reports in order and resumes |
| Flexfloat | `src/tb/core/fpnew/tb/flexfloat` | objects (a backend number and a format), rounding mode, hash tables of counters | any program | results are those of the format, counted once each |
| Execution | ALU, multiplier, divider | divider and MULH FSMs | EX | (not modelled) |

The hardware runs on one clock. What is hard there is what can fall into one cycle: a jump with a grant, an answer with the next grant, a
withdrawn request with a clock gate; long fixed sequences whose constants must
fit lengths elsewhere (152 shifts, 10000 vectors); state that outlives the
session or the instruction it belongs to; memories that answer whenever they
like. The software is hard elsewhere: a call that blocks the simulation while a
debugger types or hangs up; a number rounded twice; a hash table that fills; a
ROM that works with its caller's registers. `PROJECT.json` lists each hazard at its line, with the properties that
cover it or the reason none does.

## Modules

**LBIST.** `BistController` is the sequencer: one action per arc of
`change_state`/`chose_state`, outputs as operators of the state, counters with
their strobes, literals (152, 10000, 20 bits) as constants. `ScanTest` is what a
session promises (loads and captures in turn, then the end, then a verdict) and
`BistRefinement` maps the sequencer to it. `Lfsr` and `Misr` are bit vectors of any width (`BitVec`: flip-flop
with synchronous reset and enable, xor). `Bist` connects the three to an external
scan-inserted core: its cells shift, capture an arbitrary `Response`, or run
free; a session may get one captured bit wrong. Its reference signature is a
function of seed, response and error, written without cycles. `ScanFlush`
follows one chain with each cell reduced to where its content came from, so that
chain length and shift count stay parameters; `MCScanFlush` runs it and the
sequencer as one, since a chain moves on the sequencer's own edges. `MisrPair` runs two compactors
side by side. `LbistBench` adds the host of `tb_top.sv` (its four flag bits are
independent, as in the code; later `if`s win), the reset generator and the
memory clock gate; `MCLbistBench` runs it, the block alone under any reset and
request, and the generator at its real size through whole sessions
(`LfsrSessions`), in one run (`studied` says which). `MC*` modules give small instances.

**Load-store unit.** `DataLanes` holds byte enables, rotation, assembly and
extension as operators on four-byte words; `LoadStoreUnit` the FSM (one action
per state and answer), what a grant latches, the EX register with its second
half of a misaligned access, the write-back register, and a memory that performs
what it grants and answers later. `ready`, `gnt` and `rvalid` are chosen anew in
every cycle. A monitor keeps what memory and the written register should hold,
computed by `Stored` and `Loaded` byte by byte, without lanes or halves.
`stalls`, fixed at the start, says whether something else may hold the EX stage;
in this core nothing does, and the states for it are there because the code has
them.

**Fetch.** `L0Prefetch` is the line buffer and the prefetcher, every state of
both, for the 128-bit port the bench and the netlist use. A halfword is
represented by the address it came from, so a register's content tells where
each piece of an instruction was fetched. `HwLoop` is the loop comparator and
its counters. `FetchStage` adds the IF/ID register, ID's ready, jumps at any
time, the memory, and a monitor (`due`, `rounds`, `ordered`) that knows only the
program: instruction sizes, loops and jumps.

**Control.** `CoreControl` has one operator per state of the controller, each
giving the record of outputs of one cycle (next state, halts, the address fetch
is set to, what the CSRs save, the answer to the interrupt controller); `Edge`
applies them to the registers of the controller, the interrupt controller, IF/ID,
EX and the CSRs. An instruction is an address and a class, chosen when fetch
delivers it, so one model covers every program over the classes. `Inputs` are
what the rest of the pipeline may do in a cycle: stall EX, stall ID for a data
hazard, stall a jump on its address. `Hart` is the abstract specification, a
machine without a pipeline: instructions take effect one at a time; a trap, an
interrupt or an entry to debug mode saves the address of the first that has not.
The refinement maps its program counter to the monitor `due` and its status to
the CSRs with the write still in EX (`Written`). `Addresses` is what both know of
addresses.

**JTAG server.** `TapSession` is what a debugger may count on: a test access port
(any states and transitions, as constants) whose pins change with each command,
and reads that return what the port drives. `RemoteBitbang` is the code: the
clock edge that calls `jtag_tick`, the call that accepts a debugger or executes
one command (TDO sampled first, the command waited for, the pins assigned last),
the wires' delay, and the debugger, which sends, reads and hangs up when it
likes. The refinement maps the port to what it will be once the wires settle.

**Verilator debug bench.** `DebugRom` holds both programs of `testbench.cpp` as
sequences of instructions, decoded from the bytes the code writes; a core that
executes one at a time; and `main`, from the loading to the command it leaves.
`clockSpin` is any number of steps, so the request arrives anywhere or is missed.
`RegistersBefore` is the program run on paper: in each register, what the last
instruction to write it left. `MCDebug` runs the two side by
side, one per behaviour.

**Flexfloat.** `Backend` is the native floating-point type at any width, external,
with IEEE rounding and arithmetic on patterns. `FlexFloat` translates each helper
of `flexfloat.c` on bits: the rounding to a format adds a unit in the backend and
cuts. The end of the module computes a format's values and the nearest one to a
rational from the definition of the format, without patterns; that is what the
properties compare with. `FlexStats` is the hash tables, `FlexProgram` a program
that makes and combines objects in any order. A cast may be in place, source and
destination one object: the code then compares and counts with the format it has
just written. Two histories keep such casts apart, `retyped` (how they were
counted; `tally` has everything else) and `unrounded` (the objects left with bits
their format does not have, with their copies and inverses). `FlexClass` is a program on the C++
class: its operators round in the constructor for native numbers, and it counts
in four maps of its own, two of them for what is done as vectorised.
`MCArithmetic` puts both in one run with the two compactors of `MisrPair`.

## What the runs check

| Run | Question | Instance and why it is enough |
|---|---|---|
| `chain_flush` | counters, arcs, progress and refinement of the sequencer under any `resetn` and `test_normal`; is the shift phase long enough, is each response cell absorbed once | 6 shifts, 5 counts of vectors, counters mod 8: both literals are reached over several rounds and a counter that passes its literal is seen before it wraps; a chain as long as one load, the tight case; power-on counters arbitrary, reset at any time |
| `bench` | signature, verdict and patterns bit by bit; host and block from power-on to the printed result; the generator's period | 3 chains (one short, as in the netlist), all initial contents, every single wrong capture; all resets and requests for the block alone, two reset edges with the host; the generator with the source's own width, tap and seed over all 1,530,000 shifts of a session |
| `lsu` | loads, stores, protocol and drain | every load and store at every offset of a word, three in a row, memory at any speed, reset at any time; three because an access meets at most the one before and after it. With the EX stage held at will (states this core never enters), two accesses |
| `fetch` | order, wholeness, loops, requests | three lines (address wraps), five layouts of sizes round the end of a line, two loops apart, nested or ending together, jumps in any cycle to the middle of a line and to its last halfword |
| `control` | order, saved addresses, masks, sleep, single step | all 16 classes, four addresses (a start and three handlers that run into each other; an address off by one or by a jump is another one), requests and stalls at any time |
| `arithmetic` | rounding, arithmetic, encodings, counters; does a difference of two compactors ever vanish by itself | every number of a backend with 4 exponent and 7 fraction bits, in the four modes, into two formats, one with more exponent and one with more fraction: both have denormals and overflow, and they drop six and five bits, enough for ties, double rounding and sticky bits; tables of 2 (and 4) slots with three formats, the third the backend's own, so that they collide and fill; the C++ class with two types, two operators and two counted statements, so that a compound assignment, a result and a conversion meet in one entry, with counting, vectorising and clearing between any two; 4-bit compactors, all pairs and inputs |
| `debug` | the JTAG server against the port; the debug ROM | four commands of any kind, enough for a rising and a falling edge, a read, and a quit or a hang-up between any two; a port of one bit; a delay of one tick as in `tb_test_env.sv`. Both commands, a hart that is the flagged one and one that is not, two stores (the source: 20) before and after the registers are filled |

Five more runs are expected to fail; they are the findings below. Deadlock is
checked except in `bench` (`$finish`). Runs hold two subjects or more where neither
needs the other and a run of its own would only cost time; a variable fixed at the
start (`stalls`, `studied`) says which a behaviour is of.

**Properties worth reading first:** `OnlyKnownAbsorbed`, `CaptureFindsPattern`,
`ResponseUnloaded`, `SignatureIsReference`, `InStep`,
`MemoryFrozenWhileScanning`, `LoadsReturnBytes`, `StoresWriteBytes`,
`InstructionsWhole`, `LoopsCounted`, `ImplementsHart`, `SleepsDrained`,
`ActsAsTap`, `SessionTransparent`, `ArithmeticRounds`, `CountsExact`,
`ClassCountsExact`.

**Fairness.** The sequencer and the bench need only that the clock ticks
(`tb_top.sv:88-93` never stops it). `AccessesDrain` assumes a memory that
eventually grants and answers, and a divider and multiplier that let go of the
EX stage: the bench's memory takes a fixed or a drawn, finite number of cycles.
Fairness is on the environment's choice; the unit itself moves with every edge.
For fetch, progress is checked as a safety property instead: `WaitersHaveAsked`
says a state that waits for a line has asked for it, and a state that waits for
nothing may serve or ask; the temporal form took TLC beyond what a run may take.
The same holds of the controller, whose state space is the largest: it is checked
for safety and for deadlock only.

In `debug` the simulator's next clock edge or call happens if it can (it is one
loop), and so does the core's next instruction and `main`'s next statement;
nothing is assumed of the debugger, whose silence `CommandsServed` does not count
against the server.

**What `control` assumes of its environment.** An interrupt line stays up until
it is acknowledged (`IrqWithdrawn` lifts this), a halt request until debug mode
is entered, and the debugger's program only runs, writes `dcsr` and returns
(`Allowed`). Five more restrictions keep out uses of the debugger in which the
code does skip or repeat an instruction; they are the notes on single step below.

**Each property is paired with a plausible bug** (the definitions marked as
mutations beside the ones they replace) under which the run reports it violated.

## What is proved

TLAPS checks these for every value of the constants that satisfies the named
assumptions, not only for the instances above. An inductive invariant that no run
checks stands with its proof, at the head of the module named.

* `BistControllerProofs` (assuming `LiteralsFit`: literals fit the counters).
  `ControllerInv` says what both counters are in each state. It is needed because
  nothing resets the counters when a session is aborted: only the arcs through
  `reset_state`, `endtest_state` and `evaluate_state` do, so `SessionStartsClean`
  alone is not inductive. From it: types, `CountersBounded`, and that the
  sequencer implements `ScanTest` (safety part; one case per arc).
* `ScanFlushProofs` (`ChainFits`: no chain longer than a load). `FlushInv` adds
  to it what each cell holds after `count_shift` shifts of either phase; from it
  `OnlyKnownAbsorbed`, `CaptureFindsPattern`, `ResponseUnloaded` for any length.
* `BistProofs` (`BlockShape`, `ChainsFit`, `CoreAnswers`, `NoErrorIsNone`,
  `SomeReset`: lengths and widths are positive, no chain is longer than a load, the
  core answers any pattern with a response) puts the three parts of the block and
  its host together, bit by bit. `SessionInv` says what the generator, every cell
  of every chain and the compactor hold after `Shifts` shifts, as functions of
  seed, response and error alone; without what is still in the chains nothing can be
  said of what the compactor takes next. From it `SignatureIsReference` and
  `PatternsFlow` for any width, feedback, chains and core. `VerdictIsRight` needs
  more: the one wrong cell is unloaded in exactly one cycle (`WrongCycle`), and
  from there on the compactor differs from the reference for ever, because the
  shift is injective (`ShiftIsInjective`; `NeverRunsIntoZero` says the same of the
  generator). `BenchInv` relates the host's flag bits to the sequencer's state
  through every reset; from it `InStep`, `MemoryFrozenWhileScanning`,
  `ResultIsRight`, and that the block under this host is the block proved about.
* `ArithmeticProofs`, the compactors (`MisrShape`): two of them that differ never
  agree again on equal inputs, for any width and feedback (equal inputs preserve a
  difference; a difference in one cycle creates one).
* `ArithmeticProofs`, the counters (`FormatsAssumption`, `ClassAssumption`,
  `MaxTypesAssumption`: formats to count in are any that the backend can
  hold and whose widths fit the bytes of a key; the C++ class's leave room for the
  stand-in of zero and are no native types; tables of any size). `FlexInv` says that the
  search for a key in a table ends at the slot the key is in, and that the slot
  counts what the history holds of it; without the first, a key taken later could
  have hidden one taken before. That a new key keeps the others' searches, and
  that every slot is on the way of every key, are lemmas about `Stops`; that
  keys name their formats is one about bytes. From it `CountsExact`: the
  lines printed are what was executed, a cast in place counted as from its new
  format to itself, and a search that does not end means that one of the tables is
  full. `ClassInv` types the four maps of the C++ class; with
  what one statement does to the maps and to the history, `ClassCountsExact`
  follows for any types, operators and program. The run cannot fill the table of
  conversions: which of the two tables a hanging search has filled is the proof's.
* `CoreControlProofs` (interrupt lines stay up until acknowledged,
  `~IrqWithdrawn`: without it the result is false, finding 3). `ControlInv` goes
  state by state: which of ID and EX may hold something, in which mode, what a
  waiting cause is, and where `due` (the instruction a hart would do next) is
  found: in EX, in ID, at the fetch address, or in a saved program counter. It is
  needed because the controller's states mean something only together with what the
  pipeline holds. From it `InOrder`, `SleepsDrained`, `StepsOne`, and the refinement
  `ImplementsHart`: every edge is one step of `Hart` (an instruction, a trap, a
  return, entering or leaving debug mode) or a stutter, for any addresses.
* `LoadStoreUnitProofs` (`AccessAssumption`: accesses well formed, the second
  half's word exists). `BusInv` relates the FSM, the half of the access in EX and
  the answers owed, with or without stalls of EX; from it types, the request
  protocol, `GrantedOnce` (each half of an access is granted once) and
  `StoresWriteBytes`. `CoreInv` adds, where nothing stalls EX, memory between the halves of a store, the first word of a
  load (owed or kept), and the load in write-back; from it `LoadsReturnBytes`. The lemmas
  on lanes show that two partial writes are the whole store and that the kept
  and the answered word assemble to the loaded value.
* `FetchStageProofs` (`LinesAssumption`, `LoopsAssumption`, `AddressesAssumption`:
  two lines or more, loops that software may set up, addresses in memory).
  `FetchInv` goes state by state through the prefetcher: which line the buffer
  holds, awaits or asks for, which word of the line before is kept, and how the
  loops' counters relate to the rounds still to go. It is needed because a buffer
  that is being replaced, and a kept halfword, mean something only with the state
  that will use them; `WaitersHaveAsked` alone is a part of it. Each state's cycle
  is a lemma (`From...`); all meet in one about loops and jumps. From it
  `InstructionsInOrder`, `InstructionsWhole`, `LoopsCounted` and `WaitersHaveAsked`
  for any sizes of instructions, loops, jumps and memory timing.
* `DebugProofs`, the server (`TapAssumption`: the port is a function; any tick delay
  and commands). `InStep` says that between calls the outputs are the library's
  pins, that a settled port has them, and that TDO as sampled is still what the
  port drives when the command comes, because nothing moves during a call. From
  it the refinement `ImplementsTap`: each action is one command of `TapSession`
  or a stutter, whenever the debugger sends or closes.
* `DebugProofs`, the ROM (`DebugRomAssumption`, and `ProgramFits`: the program ends
  below the words it shares memory with, which a large `repeat_factor` would break).
  `RomInv` says at each of the 28 instructions a session may execute where the
  program's `s0` and `a0` are (in place, or in which scratch register), what the
  working registers hold, what was last reported, and from where on a command
  must be there. It is needed because a register is restored from what an earlier
  instruction saved. The two programs are sequences put together from parts; lemmas
  give each word of them, for any number of stores. From it `SessionTransparent`
  and `HandshakeOrdered`, for any hart and moment of the request.

The chains of shifts and cycles in `Bist` are recursive functions. What they
compute is proved by induction over the number of shifts; the induction rule and
the unfolding of such functions (`Induct`, `Recursion`) are derived from the
library's theorem on least elements, since the rules with an operator parameter
cannot be instantiated. No module with theorems uses `RECURSIVE`.

Model-checked only: the generator's period (a fact about one polynomial), all
liveness (TLAPS here has no `ENABLED`, so the fair halves of the refinements stay
with TLC), and the rounding and arithmetic of flexfloat: they rest on powers of
two at widths that are parameters, and the provers evaluate `^` on literals only.

## Findings

1. `second_session`: the compactor is cleared by `resetn` only, so a fault-free
   core fails a second session without a reset (`misr.vhd:25`,
   `bist_controller.vhd:36`).
2. `event_load`: an event load that has been performed is performed again when
   no interrupt follows (`riscv_controller.sv:647`), because the controller leaves
   through the state that replays an interrupted instruction. The comment says
   "no ELW REPLAY". It takes an answer in the cycle after the grant, which is how
   `mm_ram.sv` answers; with a later answer ID is not ready and the replay is
   given up.
3. `irq_withdrawn`: that replay lasts one cycle. When an interrupt line is
   withdrawn while the controller flushes for it, and EX still stalls in that
   cycle, the instruction in ID is lost. The interrupt generator of
   `src/tb/tb_riscv` withdraws its line so.
4. `inf_rounding`: numbers are not always rounded as flexfloat's texts say
   (`flexfloat.c:212`): see the reservations in `ConversionRounds`. A denormal
   whose backend fraction is all ones comes out one unit too high in
   FE_TONEAREST; upwards and downwards, zero becomes the smallest denormal and
   discarded bits of denormals are lost.
5. `in_place_cast`: `ff_cast` gives the object its format before it reads the
   source's (`flexfloat.c:363`), so a cast of an object to itself does not round
   the value and is counted as from the new format to itself. The library's text
   has casts "grouped by source+destination type pairs" (`README.md:49` there).
   The object then has a value its format has not: `ArithmeticRounds` and
   `ObjectsRepresentable` hold of the objects outside `unrounded`.

The Verilator bench as built (no run: it is a matter of constants). `top.sv:79-80`
makes the core hart 0, but `main` leaves its command for hart 0x3e0; and the core
enters debug mode at `DM_HaltAddress` 0x1A110800 (`riscv_core.sv:59`), of which
the bench's memory of 20 address bits keeps 0x10800, while the ROM is loaded at
0xA0800. So the hart never reaches the ROM, although
`src/tb/verilator-model/README.md` lists "Using the debug unit to: Resume" among
what it demonstrates. `DebugRom` enters the ROM where it is and takes both
identifiers; `HartResumes` and `HandshakeOrdered` say what then happens to each.

JTAG. `remote_bitbang.c:136` says "We'll try again the next call", and the header
(line 40) "accept if there is one": both loops in fact wait inside the call. After
a debugger has hung up with nothing on the way, `client_fd` stays open and no
other debugger is accepted; `CommandsServed` promises service to the first only.

Flexfloat. Ties go away from zero (IEEE: to even), and overflow to infinity in
every mode. A signalling NaN may become infinity, and `flexfloat_set_bits` and
`flexfloat_get_bits` are wrong for denormals; the program of the model does
neither. Encodings of 31 bits and more shift an int beyond its width
(`flexfloat.c:83`, `101`); the properties speak of shorter ones (`EncodesInInt`).
An exponent field as wide as the backend's leaves no room for the
stand-in of zero (`Emulated`). `ff_acc` is counted as an inversion. When a table
is full a search does not return, and the assertion meant to notice comes after
the loop (`flexfloat.c:553`). In the C++ class `a += b`
counts an addition twice, once never as vectorised, and the result of every
operator is counted as a conversion from a double; `ClassCountsExact` says how
the numbers printed relate to what was done.

Notes without a run. A session captures 9999 patterns, not the 10000 of the
comment and the report: the last load goes straight to the end of the session.
`riscv_load_store_unit.sv:426` says that a load answered during a stall is
"safely stored already"; for the second half of a misaligned load it is not, but
the core never enters that state (`NeverStalled`, proved). A real session takes 10000 * (152 + 2) + 1 = 1540001 cycles
and a shift phase 153, which the report gives as 1530152 and 152. Errors of
several captures can cancel in the compactor (only errors of one cycle are
excluded). `rounds` is taken from the loop counters again at every jump, so
`LoopsCounted` says nothing of a count lost with the start of a loop that a jump
abandons. A hardware loop of one instruction, or one that starts where another
ends, goes round too often; `LoopsAssumption` excludes them because nothing in
the repository says what software may set up.

Single step (`riscv_controller.sv:554-582`, `918-950`): a halt request during a
step goes to `DBG_TAKEN_IF` and skips the instruction in ID; a step over `wfi` or
`fence.i` may end one instruction late, as `FLUSH_WB` does not look at
`dcsr.step` for them; a step over an event load enters debug mode without saving
an address; a step over an `ebreak` that enters debug mode is a TODO of the
source (line 565). In debug mode, `wfi` and the event load leave through states
that would take an interrupt. The run excludes these five.

## Not modelled

* The core during the test is its scan cells and an arbitrary response; netlists,
  fault lists and scripts are tool output and tool input.
* Control: the cause registers, user mode and `uret`, performance counters,
  the interrupt's identifier, operand forwarding.
* Memory protection: programs run in machine mode, where it passes everything.
  The APU and the FPU are not built (`FPU = 0`).
* Fetch: reset in the middle of a run, writes to the loop registers while a loop
  runs, decompression. LSU: the address adder and the data paths of EX.
* The 32-bit prefetcher and FIFO (not the configuration in use), divider,
  multiplier, APU dispatcher, the bench memory's peripherals: see the plan.
  Decoders and ALU are combinational tables.
* JTAG: a server whose socket cannot be opened (it aborts); the debug module and
  `SimDTM`, whose other halves are not in the repository.
* Verilator bench: the cycles an instruction takes, the printed trace.
* Flexfloat: `FLEXFLOAT_TRACKING`, the casts back to C types, 128-bit backends'
  own arithmetic (a backend is parameters), the C++ class under the directed
  modes (rounding there is `FlexProgram`'s subject).
* `aw_test_macros.h` and `compliance_io.h` are assembler macros of test programs,
  `syscalls.c` is a stub library; the vendored FPU, unit benches and test programs
  have no state of this system's own.
* Hazards seen in what is left out: division by zero and of the most negative
  number rest on one comparison (`riscv_alu_div.sv:103`); the 32-bit prefetcher's
  FIFO writes nothing when full (`riscv_fetch_fifo.sv:270`) and must drop exactly
  one answer after a jump (`riscv_prefetch_buffer.sv:378`); a write to the bench's
  timer loses an acknowledgement of the same cycle (`src/tb/core/mm_ram.sv:363`);
  the interrupt's identifier is latched before the acknowledgement
  (`riscv_int_controller.sv:85`); after the verdict the core resumes from its last
  response, not from reset (`tb_top.sv:181`).

## Plan

What the next work on this project would take, in order:

1. The divider at a small width against division; the multi-cycle
   multiplication; the 32-bit prefetcher and FIFO; the timer of `mm_ram.sv`; the
   interrupt's identifier; user mode and memory errors in `CoreControl`; the APU
   dispatcher.
2. Proofs: `ObjectsRepresentable` for any format, which needs the laws of powers of
   two as lemmas first.
