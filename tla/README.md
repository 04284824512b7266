# AN32: a TLA+ model of the AI-native computer system

TLA+ modules, TLC runs and TLAPS proofs for the AN32 computer: a five-stage RV32IM core with
CapabilityLite protection, an iterative divider, precise traps and a memory-mapped system
block, written in Chisel; the Python interpreter that serves as its golden model; the servers
and pages of the two workbenches through which people use it; and the AgentOS reference monitor.

Paths below are relative to `src/`; `O2` stands for
`objective02-riscv-core/src/main/scala/objective02`, `F1` and `F2` for the `simulator/frontend/src`
of Objectives 1 and 2.

## 1. The system

| part | state | operations | meets |
|---|---|---|---|
| **Pipelined core** `O2/pipeline` | pc, four pipeline registers, x0..x31, c0..c7 | one clock edge: five stages, forwarding, interlocks, flushes, redirects | every other hardware part, in one cycle |
| **Decoder** `O2/decode`, `O2/isa` | none | control signals, legality, operand use | core |
| **ALU, multiplier, branch unit** | none | results as functions of operands | core (EX) |
| **Iterative divider** `O2/execute` | state, count, A/Q/M registers, two signs, two results | accept, compute one bit, done, kill | EX holds for it; MEM kills it |
| **CapabilityLite** `O2/capability` | c0..c7 (two wired roots at reset) | seven derivations and clears, four reads, one authorization check | EX derives, MEM checks, WB writes |
| **Memories, address map** `O2/memory` | data bytes; the program | aligned loads and stores of 1, 2, 4 bytes; fetch | MEM, IF |
| **System MMIO** `O2/system` | counters, hints, current context, SEC_* log, TRAP_* registers | 28 registers; capture and clear a violation; open, nest and close a trap | MEM; redirects IF |
| **Telemetry block** `objective01-digital-logic` | two accumulators, previous result | accumulate switching and multiplier activity | WB, through System MMIO; the bridge's worker |
| **Golden interpreter** `objective02-riscv-core/reference` | architectural state | `step()`: one instruction | compared with the core by the differential runner; runs inside the workbench engine |
| **Single-cycle core** `O2/core` | architectural state | one instruction a cycle | differential runner |
| **Arithmetic structure** `objective01-digital-logic` | none | adders, multipliers, ALU, reversible gates | the core's ALU; the labs imitate it |
| **Objective 1 bridge** `objective01-digital-logic/simulator` | worker process, lock, cached telemetry | start, stop, request, reset | HTTP threads, worker pipe |
| **Objective 1 page** `F1` | inputs, last response, waveform, busy, benchmark loops; one lab or inspector | execute, reset, auto run; the labs' controls | the bridge, over HTTP |
| **Objective 2 engine** `objective02-riscv-core/simulator/backend` | one shared engine around the interpreter | load, assemble, step, run, reset, write, compare | HTTP threads |
| **Objective 2 page** `F2` | selected scenario, last state, editor, oscilloscope; one lab | the toolbar's requests; the labs' controls | the engine, over HTTP |
| **AgentOS monitor** `objective10-agentos` | agents, resources, tokens, revoked, approved, audit log | grant, delegate, revoke, approve, check | callers |
| **Toolchain** `toolchain` | none | encode, decode, disassemble | offline |
| **Specification documents** `spec` | none | contracts for later software | no running code |

What is hard in it, and what makes it correct:

* *Pipeline.* Up to five instructions are under way; three of them can hold the newest value
  of a register, and a trap, a trap return, a taken branch, a load-use interlock, a capability
  interlock and a divider hold may all be wanted in the same cycle. Correct means: every
  instruction uses the values of program order, is executed exactly once, and the result is
  what the interpreter computes.
* *Faults.* A refused capability access or derivation is found while younger instructions
  are behind it, a memory request and a register write of its own are in flight, and the handler
  may fault again. Correct means: the faulting instruction leaves nothing behind but its
  evidence; the evidence of the two records agrees and outlives the handler's mistakes.
* *Capabilities.* Any sequence of derivations is legal. Correct means: nothing derived ever
  exceeds the root it came from.
* *Divider.* It works for 33 cycles on a request that a trap may kill, and the next one may
  start at once. Correct means: its answer is the quotient and remainder of RV32M and belongs to the
  instruction in EX, for every operand, corner cases included, and it always comes.
* *Authority.* Agents are registered, granted tokens, delegate them, are revoked and approved, and
  time passes, in any order. Correct means: what `check` allows goes back to a grant, and
  revoking is final.
* *Servers.* Both workbenches run handlers in threads on shared state. In the bridge of
  Objective 1, requests and answers share one pipe to a worker that may exit; a lock guards it.
  Correct means: every request is answered, with its own answer, and callers see one operation of the device
  per request. The engine of Objective 2 has no lock. Correct can only mean: what overlapping
  requests break, the next request made alone heals.
* *Pages.* A page shows what an answer said when it arrived, while clicks, timers and other answers go on.
  Correct means: when it is quiet it shows what the device holds, nothing stays busy
  forever, and panels are about what was picked.
* *Labs.* They compute in the browser, in JavaScript numbers, what the hardware would. Correct means: they
  agree with it, at the edges of the word too.

`PROJECT.json` lists each hazard at its line with the properties that would catch it.

## 2. Modules

```
An32Word           words, ALU, multiply, divide as RV32M defines it
 └ An32Isa         decoded instructions, control signals, branch and address arithmetic
    └ AddressMap   data memory and window, byte lanes, loads and stores on a memory
       ├ DataMemory ─ CapabilityLite ─ SystemMMIO ─ IterativeDivider
       │   └ PipelinedCore            all of them under one clock edge
       │       └ CoreRefinement       … WITH a refinement mapping to …
       └ Rv32Interpreter              … the golden interpreter (abstract specification)
IterativeDivider ─ DividerPort        the divider alone, with a requester that may kill
SystemMMIO ─ SystemMmioTrace          the system block alone, with a history
AgentOS                               the reference monitor

RtlService                            one shared device, abstractly
 ├ SimulatorBridge                    threads, lock, pipes and worker that implement it
 └ StudioApp                          the Objective 1 page that uses it
WorkbenchEngine ─ WorkbenchApp        the Objective 2 engine without a lock, and its page
ObjectiveOneHardware, LabPage         gates and arithmetic; one lab on screen
 ├ ArithmeticLabs, CircuitInspector   the labs of Objective 1, its circuit inspector
 ├ MachineLabs, MachineViews          the labs of Objective 2 with a state of their own
 └ Labs                               all of them, one open at a time
MC*                                   instances for TLC
*_proofs                              theorems and lemmas
```

The proof modules are `Hardware_proofs` (lemmas that the next three share), `Devices_proofs` (`DividerPort` and
`SystemMmioTrace`), `PipelinedCore_proofs`, `CoreRefinement_proofs`, `Services_proofs` (`AgentOS` and `SimulatorBridge`),
`StudioApp_proofs`, `WorkbenchApp_proofs` and `Labs_proofs`.

**Registers are variables and wires are state functions.** `PipelinedCore` has one variable per
register (`pc`, `ifId`, `idEx`, `exMem`, `memWb`, `regs`, `caps`, and `dmem`, `divider`, and
those of `SystemMMIO`). A wire such as `flushIDEX`, `divHold`, `takePreciseTrap` or
`securityEvent` is a state function with the name it has in the Chisel source, and `Tick` is
one rising edge: one conjunct per register, all reading the values before the edge. That is
Chisel's semantics, and it makes every same-cycle conflict a question of what the
conjuncts say. There is no scheduler: interleaving here means the meeting of stages.

`SystemMMIO` is three groups of registers: `securityLog`, `trap`, and `software` with `perf` and
`telemetry`. `PreciseTrap`, `TrapReturn`, `ReadAccepted` and `Stores` are the block's outputs,
and `SystemMmioTick` is its edge, given the bus request, the security event and the counted
events. `IterativeDivider` is a record of the divider's registers and `DividerTick(start, kill,
…)`, with `Accept` for the first step and `Compute` for one bit.

`Rv32Interpreter` is `step()` of `rv32i_interpreter.py`: one action for each group of
instructions, on architectural state alone. `CoreRefinement` maps the core to it at commit: the
interpreter's registers are the register files with the write of the instruction in WB done,
its memory, log and trap registers are the core's (they change in MEM, when the instruction
commits), and its pc is the address of the oldest instruction that has not committed.
Counters and telemetry depend on timing, so a load of one may give the interpreter any word.
The interpreter fetches the four bytes at its pc. Instructions are records, so what two halves of neighbouring words decode to is the
constant operator `StraddledInstr`, of which nothing is assumed; the core fetches the word around the pc (`InstructionMemory.scala:28`).

`AgentOS` is sequential: an action is a whole call, and a call that raises an exception changes nothing, so it is
no step. `check` catches its exceptions and always records a decision. Dictionaries are functions
whose domains grow. The clock is `now`; `expiresAt = Never` is a token without expiry. The audit
record holds the instant at which the token was looked up; the timestamp of the code is a
second read of the clock a moment later. `granted` is a history variable. What the
model shows as the code's behaviour, whatever one expects: a token granted again under an id keeps the
approval and the revocation of that id; a child stays active when its parent is revoked; registering an
agent again moves its scope.

`SimulatorBridge` is concurrent: FastAPI runs these handlers in a pool of threads, so an action of `Handle(t)` is what one
thread does between two points at which another can see the difference: taking the lock, the poll of the worker, the
write, `readline`, the cache, leaving the lock, and in `reset` the clear that follows. The worker
reads a line, clocks the RTL and answers; it exits at any moment (`WorkerExits`), after which
writing raises an error and reading ends. `Stop` waits for handlers, as the server does before it
runs the end of `lifespan`, and `Start` may follow in the same process, as in `test_app.py`.
The RTL here is the telemetry block; the result of the ALU stands for the operands.

`RtlService` is what the page is promised: callers ask, each request takes effect on one device at one
instant between question and answer, a refused one has no effect, and the device may start afresh while nobody asks.
`SimulatorBridge` implements it (`RefinesService`), and `StudioApp` is built on it instead of on pipes and locks.

`StudioApp` follows React: a handler sets `draft`, and `Render` makes it `shown`; a click renders at once,
an answer or a timer later. What a closure read stays what it was: a call continues with the vector it was sent with,
a benchmark loop with its own position, even after its panel is unmounted. The device is the number of operations it
has executed, which stands for its telemetry. `alone`, `synced`, `crossed` and `autoUsed` are
history variables.

`WorkbenchEngine` is `SimulationEngine` and the handlers of `app.py`, cut where another thread may see the
difference: a program counter per call, one action per group of statements on shared
state, and the encoding of the reply as a step of its own after the handler has returned, because the register dictionaries in the reply are the
engine's own. `WorkbenchApp` adds the page: each handler up to its `await`, and what follows it when the reply is
received, in any order; the network may lose a request or a reply. A program is its length, where it traps and which
registers it stores to: SCHED_HINT, which the user writes too, and TRAP_VECTOR, which engine and interpreter reset to different
values, stand for the MMIO dictionary with one counter.
`alone`, `tidy` and `lastFailed` are history variables.

`Labs` has one variable, `page`, the record of the hooks of the lab on screen: opening another lab mounts it with its
initial state. `ObjectiveOneHardware` is the Chisel arithmetic down to wires (ripple and lookahead adders, Booth recoding,
carry-save tree, ALU, Fredkin and Toffoli gates), against which the labs' own computations are held. Its bitwise
operators (`BitByBit`), sums (`SumBelow`) and numbers on wires (`NumberOn`) are its own, over recursive functions, so that
theorems can be proved about the labs. The capability
playground is compared with `CapabilityLite`'s checker through an INSTANCE.

**Data.** An instruction is a record of decoded fields (`class`, `fn`, `rd`, `rs1`, `rs2`,
`imm`); `Illegal` is the decoder's verdict, and every combination of fields is a possible
instruction for the theorems. Words are `0 .. WordModulus - 1`, where a word has `XLEN` bits and
four byte lanes of `ByteModulus` values: 32 and 2^8 in the code. Bitwise and shift results of
the ALU are the constant operator `LogicAlu`, of which proofs use only that it returns words;
TLC gets its definition.

## 3. Runs

The core's runs use 8-bit words (four 2-bit bytes), five integer registers, four capability registers,
16 bytes of data memory and the whole register map at 128..239. With 8-bit words every carry, sign,
wrap-around and bounds comparison of the 32-bit core has an instance, and the map has, like
the real one, memory at 0, a hole, and a window near the top. Registers x0 to x4 are enough for a
zero register, a trap handler's own register and two or three that carry dependencies; c0 to c3
hold the two roots, a null and the one that programs derive from. Indexes ≥ 4 name capabilities that do not
exist, as 8..31 do in the code. Three or four free instructions fill the stages that can depend on each other.

| run | programs or inputs | shows |
|---|---|---|
| `core` | all sequences of 4 of 8 integer instructions on x3 and x4 (loads, stores, branches, upper immediates; negative values and products in one family, jumps through a register to whole words in the other); all sequences of 3 of 13 capability instructions under three handlers (read the cause; fault again; traps disabled); three pairs of operands (ordinary, overflow, zero) and sequences of 3 of divisions, faults and branches, where the handler divides too | types; operands and capabilities of program order; confinement of capabilities and accesses; faults without effect; log and trap agree; evidence kept; the divider answers the instruction in EX; the core implements the interpreter |
| `core_progress` | sequences of 3 of 5 (or 2 of 7) divisions, derivations and uses of c3, loads and branches, with a handler that divides or faults again; some that loop or fault forever; sequences of 2 of 7 after a jump to half a word | an instruction in EX is only lost to the capability interlock during a hold; the core always goes on retiring or trapping |
| `system_mmio` | every sequence of 5 cycles of 6 bus requests with or without a violation | SEC_* holds the first outstanding violation; DOUBLE_FAULT; an open trap holds its cause |
| `divider` | every dividend, divisors {0, 1, 7, 128, 255}, signed and not, after an answered or killed request | answers are RV32M's, and come in time |
| `agentos` | a manager and a coder, one resource in or out of scope, two token ids, an expiring grant with the right to delegate and one without; one check after any other calls | what is allowed goes back to a grant; revocation is final |
| `bridge` | two threads, three requests (reset; execute with and without effect on either counter), two starts | lock discipline; own responses; the cache is the worker's latest or cleared; every request ends; the bridge implements `RtlService` |
| `studio` | two calls, two benchmark loops, two vectors, three clicks, restarts or failures | when quiet, response, waveform and device agree; waveform numbered without gaps and drawn in order; only a benchmark sequence makes calls cross; busy and sequences end |
| `workbench` | two requests under way, a program that traps and halts within a run and one that does not halt, which store a hint and a trap vector, an empty and a malformed editor; two requests of the user, two other moves, one loss | a request alone leaves display and engine equal; one request at a time keeps the engine's copies equal to the interpreter's, but for TRAP_VECTOR before the first step; the header names the program that runs; the oscilloscope ends with what is displayed |
| `labs` | every control of every lab and the inspector; 8-bit words, 16 operands at the edges | labs agree with the hardware; every panel, probe and schematic is about what was picked |

The bounds: `MaxCycles = 5` (open a trap, nest a fault, clear, fault, clear takes five);
`MaxRequests = 2` in `divider` (one that is answered or killed, and one after it); programs are finite and the model
stops when the pipeline has drained past the end (`Stopped`), where the hardware would go
on counting through empty memory. `MaxTime = 1` (before and after the expiry); `MaxChecks = 1`, or 2 in `quota`: earlier
checks change nothing that a later one reads; two token ids are a parent and a child, or an id used twice. In the bridge,
`MaxRequests = 3` lets a reset meet an execute and one more follow, and two starts let a cache outlive its worker;
its telemetry counters are naturals, far below 32 bits with three requests.

In `studio`, a waveform of two entries (`HistoryLimit`, 20 in the code) overflows at the third operation and
two columns at least (`MinColumns`, 8) are both too many and too few; two sequences of two presets are the fewest that overlap each other
and a click. In `workbench`, `MaxSteps = 2` ends a run before the one program and after the other; two
requests are the fewest that overlap, and the scenario list's own load is a third. The value that both
programs store to SCHED_HINT is not the one the user writes, so that a copy of the wrong one shows, and an instruction that stores is
the first of one program and the second of the other. The runs of `studio`, `workbench` and
`bridge` stop when their bounds are used up, so deadlock is not checked there; in `core`, `labs`, `system_mmio`,
`divider` and `agentos` it is. In `labs`, `Width = 8` has the Booth groups, carry blocks and a Wallace tree of the 32-bit design in small;
three pointer positions are a drag in either direction, and a memory of 64 bytes with capabilities of 0, 4 and
61 bytes has one that ends at, before and after the end of a bar.

The programs of `core`'s divider family write no capability, because a division that is lost (below) leaves
an orphan request behind in the divider, whose answer a later division takes for its own.

**Fairness.** `core_progress` assumes `WF_vars(Clock)`, the clock never stops. In a
synchronous circuit that is the whole of scheduling; no choice inside a cycle is assumed fair.
`bridge` assumes weak fairness of each thread (the operating system runs it when it can go on) and of
the worker's answer (it is a loop without waits of its own, and the model lets it exit instead). A Python lock is not fair; with
finitely many requests the others run out, so weak fairness of `Acquire` is enough, and the run does not show that a thread gets
the lock against an endless stream of requests. A worker that neither answers nor exits holds up everyone, since the code has no timeout.
`studio` assumes that the browser renders what is drafted (`Render`), handles an answer that has arrived
(`Receive` for each call), fires a timer that is due (`Wake` for each loop) and that the service answers each call
(`Serve`, which `EveryRequestEnds` shows of the bridge); the user is not assumed to do anything. A timer of 650 ms is taken to
be long enough for a render. `workbench` has safety properties only.

### Where the code and what is said of it disagree

| run | what TLC shows |
|---|---|
| `lost_division` | A derivation in MEM, a division waiting in EX, a use of the derived capability in ID: the interlock raises `flushIDEX`, which wins over the hold (`PipelineRegisters.scala:120`). The division disappears and its `rd` keeps the old value. `OnlyCapHazardLoses` proves that this is the only such case. |
| `unmapped_load` | A load of an address that is neither memory nor window writes 0 to `rd` in the core and nothing in the interpreter. |
| `quota` | `check` never looks at `uses_remaining`: a token with one use allows any number. Only `delegate` compares quotas, when both tokens have one. |

Smaller differences met on the way, with no run of their own.

In the hardware and the interpreter:

* a taken branch squashed by the trap of the instruction ahead of it is counted as taken, and again when it runs
  after the handler (`PipelinedCore.scala:576`); a load-use pair squashed by a redirect is counted as a stall though nothing waits;
* after a jump to half a word, which JALR and branches allow, the interpreter decodes the four bytes at the pc, parts of two
  neighbouring instructions (`rv32i_interpreter.py:188`), and the RTL the whole word around it (`InstructionMemory.scala:28`); if that
  traps, the interpreter truncates the pc (`rv32i_interpreter.py:158`) and the RTL latches it as it is (`SystemMMIO.scala:171`);
* capability loads and stores with `funct3` 3 or 7 are illegal in the decoder and executed by the interpreter;
* the engine of the workbench resets TRAP_VECTOR to 0x80 (`simulation_engine.py:148`), its interpreter (`rv32i_interpreter.py:133`)
  and the RTL to 0x800: after every load and reset the page shows a vector that no trap would take, until a step copies the interpreter's.
  `CarefulCopiesAgree` says just that of the register;
* an event and the clear of the log in the same cycle are ordered by `SystemMMIO`, and exercised by its unit test, but
  cannot meet in the core, since the faulting instruction is the one that would write (a consequence of `FaultIsolation`).

The programs of `core` stay clear of those between interpreter and RTL; `core_progress` has jumps to half a word, and asks nothing about
the interpreter.

In the servers:

* the cached telemetry of the bridge reads 0 for EDP_CONFIG at the start and after a reset, where the register is always 1
  (`app.py:34`, `app.py:100`);
* the engine attaches the executed instruction's `rd` and data to the WB stage, which shows an older instruction
  (`simulation_engine.py:259`), and never sets the forward and stall signals the pipeline diagram draws.

In the pages:

* the O2 rows of `TelemetryTable.tsx` place the TRAP_* registers at 0x80002100 to 0x80002120, and the form of that table offers
  TRAP_CONTROL at 0x80002104, where `MMIOAddress.scala` and `TrapInspector.tsx` have SEC_* at 0x80002100 and TRAP_CONTROL at 0x80002114;
* the reasons of `TrapInspector.tsx:22` (1 TAG, 2 BOUNDS, 3 INVALID_CAPABILITY, 4 PERMISSION, 5 OFFSET) are not those of
  `SecurityEvent.scala:12` (1 INVALID_CAPABILITY, 2 BOUNDS, 3 to 5 READ, WRITE and EXECUTE permission, 6 MONOTONICITY);
* the card of a valid capability of length 0 shows a range of one byte, the map's heading shows a range whose end is one past
  the last byte where the card's is inclusive, and its bar, clamped at 95 % from the left, misses the bytes beyond;
* the datapath explorer has 20 blocks to click, probes for 4 of them and details for 11; "Reset Probe to ALU" leaves the
  drawer where it was;
* the legend of Lab 3 says that forwarding code 01 is EX/MEM, where the diagram beside it takes 2 for EX/MEM;
* the first Booth group is shifted by −1 (`BoothWallaceVisualizer.tsx:16`);
* the adder lab labels the boxes of its carry chain C4, C8, … C32 and shows the carry into bit 1, 5, … 29 in them
  (`AddersLab.tsx:124`), under a banner that calls the model validated against RTL (`AddersLab.tsx:59`). For 1 + 1 it shows C4 = 1 where
  the adder carries nothing into bit 4. `AddersMatch` compares each box with the carry it does show; `ChainMislabelled` proves
  that every one of the labels is wrong for some operands;
* Reset on the Objective 2 page loads the scenario of the selector, so a custom program is gone (`App.tsx:87`).

## 4. Proofs

For every word width, number of registers, memory map and set of programs that satisfies the named
assumptions (`WidthAssumption`, `LogicAluAssumption`, `RegisterAssumption`, `AddressMapAssumption`,
`RegisterMapAssumption`, `ProgramsAssumption`), with programs over *all* instructions, illegal ones included,
`PipelinedCore_proofs` has:

| theorem | property | argument |
|---|---|---|
| `TypeCorrectness` | `TypeOK` | inductive together with `Counting` (a divider that computes has not counted past XLEN): without it the step that decrements would leave the type |
| `CapabilityConfinement` | `CapConfined` | inductive with the types: one lemma per derivation (`SetBoundsConfined`, `AndPermConfined`, `IncOffsetConfined`), then it travels down the pipeline and into the register file |
| `CapabilityAccessContainment` | `CapAccessContained` | from `CapConfined`: an allowed access is within a capability, which is within a root |
| `FaultIsolation` | `FaultHasNoEffect` | needs `RefusalFits`: a derivation in EX/MEM that carries a violation carries no write, and belongs to an instruction that writes no integer register and makes no memory request |
| `TrapAgreement`, `TrapEvidence` | `TrapAndLogAgree`, `TrapEvidenceKept` | from the two edges of `SystemMMIO` and `FaultIsolation`'s facts |
| `CapabilityOperands` | `CapOperandCurrent` | inductive `CapLatched`: the capability in ID/EX is what the register file holds after WB, and the instruction in MEM does not replace it |
| `OperandForwarding` | `OperandsCurrent` | inductive `OperandInv`: operands in ID/EX are the registers of the moment (`OperandsLatched`), a load in MEM is no producer of them (`LoadsApart`), and the ALU bus of MEM carries what WB will write (`BusCarriesResult`). A division that waits is excluded while its divider is busy: `HoldStarts` shows that it is |
| `OnlyCapHazardLoses` | `LostOnlyByCapHazard` | from the order of flush, hold and step in ID/EX |
| `DividerAnswers` | `DividerAnswersEx` | in every execution that loses no division. Inductive `DividerServesEx`: a busy divider has the division in EX for its client, with `Computing` (below) for the operands of program order while it counts and the quotient and remainder when it is done; nothing valid is in MEM, so nothing can squash that client but a kill of the divider |
| `DividerAnswersProgram` | `DividerAnswersEx` | for a program that satisfies `KeepsDivisions`: nowhere a derivation, a division and a use of the derived capability in three consecutive slots. inductive `InProgramOrder` (each stage holds the instruction at its pc, and the valid instruction behind another is the next one in memory) shows that nothing else loses one |
| `NothingLost` | `NoInstructionLost` | the same programs lose no instruction at all: the property that run `lost_division` violates holds for everything but the sequence that the run shows |

All programs of `core` satisfy `KeepsDivisions`, as do 222 of the 237 of `core_progress`.

**Core and interpreter.** `CoreRefinement_proofs` has

| theorem | property | argument |
|---|---|---|
| `CoreImplementsInterpreter` | `RefinesInterpreter` | for every width and program, in an execution that is `Conforming` throughout. A tick with a valid instruction in MEM is the interpreter's step at it (`TickSteps`, from one lemma for each action of the interpreter), every other tick changes nothing that the mapping sees (`TickStutters`) |

`Conforming` names the ways in which the two differ: a load that is accepted and reaches neither memory nor window (run
`unmapped_load`), a division lost to the interlock (run `lost_division`; excluded for the programs of `KeepsDivisions`), an
instruction that reaches MEM from a pc that is no multiple of four, where the two fetch different instructions, and a pc at the top of the
address space, where the core wraps around. It says nothing of operands, hazards, squashes or timing. TLC finds no violation of it in the programs of `core` (add `INVARIANT Conforming` to
`core.cfg`), so that run checks the refinement without a condition.

The inductive invariant is `RefineInv`. `MemMatches`: the instruction in MEM carries what the interpreter would compute for it from the
registers of that moment, and what is fetched behind it is its successor. `NextFollows`: what is behind EX is the
next instruction in memory, unless EX redirects. `Aligned`: `trap.vector` and `trap.epc` are multiples of four. It stands on
`OperandInv`, `CapLatched`, `DividerServesEx`, `InProgramOrder` and `RefusalFits` of the core; `CapConfined` is needed
because the core compares lengths and offsets where the interpreter compares sums, and those agree only while the sums do not wrap.

`Devices_proofs` is about the two blocks on their own, again for every width and any
requests (`PortAssumption`, `TraceAssumption`):

| theorem | property | argument |
|---|---|---|
| `DividesCorrectly` | `AnswersRequest` | inductive `Computing`: with `c` steps to go there are R, q and rest such that the Q register holds rest·R + q, where R·2^c is the word's modulus, and the dividend's magnitude is (q·M + A)·2^c + rest with A < M. `OneStep` and `QStep` show in the integers that a shift-subtract-restore step keeps this, `SignedResults` that the signs put on at the end make it RV32M's. The provers have no theory of powers; `PowerAssumption` states that 2^(k+1) is twice 2^k, and TLC evaluates it |
| `DividesInTime` | `AnswersInTime` | the clocks waited are XLEN + 1 − `count` while it computes |
| `LogHolds` | `LogHoldsFirstOutstanding` | `EdgeOutstanding`: an edge that clears empties the outstanding violations, and its own joins them; `LogInv` keeps the first of them as a witness, so that the CHOOSE of the property has one value |
| `DoubleFaultHolds` | `DoubleFaultRemembered` | inductive by itself, given what an edge adds to the trace |
| `OpenTrapHolds` | `OpenTrapHoldsItsCause` | `TrapInv` keeps the last opening, and the last write of the return address since, as witnesses |

The components beside the core are proved for any sets of agents, resources, grants and times
(`PolicyAssumption`), of threads and results (`BridgeAssumption`), of calls, loops, vectors and presets
(`StudioAssumption`), and of requests, programs and samples (`EngineAssumption`, `AppAssumption`). `Services_proofs` has the
first six, `StudioApp_proofs` and `WorkbenchApp_proofs` the others:

| theorem | property | argument |
|---|---|---|
| `AuthorityTraced` | `AuthorityFromGrants` | inductive `TokensBacked`: every token is a grant, or was issued under one with the right to delegate, without that right itself. A chain of delegations therefore has length one, and expiry and resource are the grant's |
| `RevocationHolds` | `RevocationFinal` | an id once revoked is in no way active, whatever is granted under it again; every entry `check` adds for it is a refusal |
| `LockDiscipline`, `ResponsesOwn` | `BridgeTypeOK`, `ResponseIsOwn` | inductive `PipeInv`: the one line under way is the request of the thread inside the lock, or the answer to it; `NothingLeft`: a worker that is gone left no request behind |
| `CacheLatest` | `CacheIsLatestOrCleared` | inductive `NewsIsLatest` (telemetry on its way to the cache is the worker's of now) and `CacheFollows` (else somebody is about to set the cache) |
| `BridgeImplementsService` | `RefinesService` | every step of thread or worker maps to a step of `RtlService` or to a stutter, from the invariants above |
| `StudioTypeCorrect` | `StudioTypeOK` | inductive; the waveform's bound holds however many answers one render shows |
| `OnlySequencesCross` | `OnlyAutoRunCrosses` | inductive: without a sequence at most one call is waited for, and the buttons are disabled meanwhile, also in the draft |
| `DisplayLive` | `DisplayIsLive` | inductive `LiveInv`: a call that was alone brings the device of now (`LoneCallsAreLatest`), and what the draft shows stays the device's until another request takes effect (`ResponseInSync`); `ResponsesAreLast` ties the waveform's end to the response |
| `CyclesConsecutive`, `ColumnsInOrder` | `CyclesAreConsecutive`, `ColumnsAreInOrder` | inductive `WaveformsAreRuns`: until calls cross, the waveform on screen numbers a run of operations that ends at some moment, and the draft becomes one that ends now. `ColumnsInOrder` reads labels and tooltips off such a run |
| `ScopeFollows` | `ScopeFollowsDisplay` | inductive `Scope`: while the oscilloscope is open its samples are in order and end with the display, else there are none |
| `CarefulUser` | `CarefulUserSeesEngine` | inductive `AloneInv`: every other call is free, and the copies that a load has made and the reply under way are those of the engine as far as the handler has come (`LoadAt`, `ReplyAt`) |
| `CarefulCopies` | `CarefulCopiesAgree` | inductive `TidyInv`: the same for the statements of each handler that update the interpreter and the copies one by one (`TidyAt`), whatever a program stores; TRAP_VECTOR has its two reset values until the first step and one value from then on (`VectorAgrees`) |
| `SelectorNames` | `SelectorNamesProgram` | inductive `NamesInv`: between the click and the answer the selector is behind or ahead of the engine by what the handler has left to do (`NamedAt`) |

`Labs_proofs` is about the labs one after the other on one screen, for any places of the pointer (`InspectorAssumption`),
positions of the sliders within their range, programs and measurements (`MachineLabsAssumption`), words typed and operations
executed (`OperandAssumption`), sizes of the memory (`MachineViewsAssumption`) and words of 8, 16 or 32
bits (`WidthAssumption`, `PowersAssumption`):

| theorem | property | argument |
|---|---|---|
| `InspectorFollows` | `InspectorFollowsUser` | inductive by itself, once `Mounted` (the screen has the hooks of the lab that is open) holds |
| `ProbeFollows` | `ProbeFollowsClicks` | inductive `ExplorerInv` |
| `ComparisonFollows` | `ComparisonIsOfSelection` | inductive `CompareInv`: an answer is to the request on its way, which is for the program selected unless the selection has moved since. That the pipelined core's track is never the longer one is `RaceWithin`, arithmetic on the percentages |
| `DividerLabDivides` | `DividerShowsQuotient`, a conjunct of `MachineLabsMatchHardware` | inductive `DividerInv` (what is loaded is what the fields hold); `ExpectedIsRv32M` shows that JavaScript's truncating division, with the lab's two special cases, is DIV and REM for all operands that fit a word |
| `PlaygroundShowsAuthority` | `MapCoversAuthority`, a conjunct of `MachineLabsMatchHardware` | inductive `MapInv`: whatever was derived, a capability with a tag ends within the map; `ReachIs` says which bytes the checker then allows |

| `LabsMatch` | `LabsMatchHardware` | inductive `ArithmeticInv` (operands are words, wires and carry bits, the telemetry on screen is the device's), and for each lab a lemma that whatever its hooks hold it shows what the hardware computes: `GatesShown`, `AddersShown`, `AluShown`, `MultipliersShown`, `TelemetryShown` |
| `ChainMislabelled` | | for every group of the adders' carry chain there are operands for which the box shows 1 and the adder's carry into the position on its label is 0: those with the group's lowest bit only |
| `MachineLabsMatch` | `MachineLabsMatchHardware` | the two theorems above for two of its conjuncts; for the third, `BoothAddsUp`, `BoothInv` (the sliders stand in their range) and `BoothShown` |

The arithmetic behind the last two rows:

* *Adders.* `Carry(a, b, c, i)` says in integers whether the positions below `i` carry into it. The ripple
  chain and the chain that the page computes satisfy its recurrence (`RippleIs`, `ShownRippleIs`), and so does, nibble by nibble,
  the lookahead in and over the blocks (`GroupAdds`, `BlockAdds`, `LookaheadIs`); so both adders and the page show the same sum, that
  of two naturals (`RippleAdds`, `HierarchicalAdds`), and each box of the page's chain the adder's carry out of its group's lowest bit.
* *Booth.* `BoothRecodes`: the digits of the recoded multiplier, at their powers of four, are the multiplier itself, up to the sign
  that the last one carries. Hence the rows add up to the product (`RowsAddUp`), and in the Booth lab all rows shown but the first
  (whose window is taken at bit −1) add up to the product less the first.
* *Wallace.* A compressor keeps the sum of its three rows modulo the accumulator (`CompressorAdds`, from the bits); hence a layer does
  (`LayerAdds`), every layer has fewer rows while there are more than two, and the tree's two rows add up to what Booth's do.
* *ALU.* Every operation, its flags and the comparisons on the page (`ResultShown`); the multiplexer stages drawn add up
  to the distance of the shift (`StagesShown`).
* *Telemetry.* The counters stay naturals; each address shown stands for the register that the device reads at it, and a
  meter is monotonic and within its track (`MetersIn`).

Carry chains, sums, layers and trees are recursive functions, so these are inductions. The library's induction theorems take an
operator, which the provers cannot instantiate; `Induction` and `InductionUpTo` state induction for a set instead, and follow from
`WFMin` and `NatLessThanWellFounded`, that every set of naturals but the empty one has a least element. That the recursive functions
exist is proved the same way (`SumExists`, `LayersExist`).

The assumptions on powers (`PowerAssumption` in `IterativeDivider`, `PowersAssumption` in `ObjectiveOneHardware`) are facts that
the provers have no theory for: that 2^(j+k) is the product, and powers of 4 and 16 those of 2. TLC evaluates both. The lemmas that
the hardware's proofs share are in `Hardware_proofs`: words, arithmetic, the divider's shape; instructions, byte lanes,
capabilities, the system block's shape.

Every safety and action property of a passing run is a theorem. Only model-checked:

* liveness (`AlwaysRetires`, `EveryRequestEnds`, `BusyEnds`, `AutoRunEnds`), which is outside the prover's reach;
* the three disagreements of section 3, which are counterexamples.

## 5. Not modelled

* *Single-cycle core*: one combinational step per instruction, base RV32I only, from parts that the pipelined core's
  modules already hold; it shares no state with anything.
* *Bit positions of instructions, immediates, capability packing, the toolchain*: pure functions between bit strings and
  the decoded records the modules start from. A capability is a record with `tag`, `base`, `length`, `offset` and `perms`.
* *Multiplexers and the stages of the barrel shifter*: wiring without arithmetic. Debug and observability ports.
* *Differential runner*: it compares the logs of finished runs; what it samples is `RefinesInterpreter`.
* *Assembler of the workbench*: its syntax; assembly either assembles to a program or is `Malformed`. The list of states the
  engine keeps is read by nothing, and the stage display of a reply is drawing.
* *Pages that only draw*: stage diagrams, register and trap tables, figures and styling; the health probe behind the
  online badge, which decides nothing else.
* *Generated files; documents in `spec`* without code.

Behaviour the model leaves out inside modelled parts: after the last instruction the pc
runs on (the model stops); REV_ENERGY_ACC, BRANCH_CONFIDENCE and EDP_CONFIG read as constants,
since nothing in this design changes them; owners, sessions and resource types of AgentOS, on which no decision depends.

## 6. What would come next

1. **Programs instead of executions**: conditions on a program, as `KeepsDivisions` is one, that imply the rest of
   `Conforming` (no jump to half a word, no load outside the map).
2. **Single-cycle core** as a second implementation of `Rv32Interpreter`, and field encoding and decoding as inverse functions.
3. **The hazards without a property**: the branch that is counted twice, the first Booth group and the token whose parent is
   revoked, each as a statement about when the two sides agree.
