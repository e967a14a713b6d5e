# A TLA+ verification of retroSoC

retroSoC is a system-on-chip in SystemVerilog with a C runtime and a large body of
Python around it: the tools that fetch what it is built from, run its flows, judge
their logs and collect the evidence of a qualification, and the assemblers,
compilers and reference machines of its programmable blocks. Two things are hard to
test in it, and this project models both:

* the **control plane** of the "mini" product: starting and stopping the
  high-performance (HP) side, ownership of engines, stalled targets and the HP
  clock, across five clock domains;
* the **tooling**: programs that are killed, signalled, retried and run beside a
  developer who edits the sources, and the toolchains whose output must run on the
  blocks exactly as its author wrote it.

The modules are checked with TLC on small instances; the central invariants of eight
of them are proved with TLAPS for every value of the constants.

Contents: 1 inventory, 2 modules and their correspondence to the code, 3 runs
and bounds, 4 fairness, 5 proofs, 6 observations on the code and its documents, 7
what is not modelled, 8 plan.

## 1. Inventory

All paths are relative to `src/`.

### 1.1 Control plane

PCLK is the peripheral clock of the low-power (LP) side, AON (REF24) the always-on
24 MHz reference, HP the clock of the data plane, MEM the clock of the memory
targets.

| Component | State | Operations | Interacts with |
|---|---|---|---|
| HP lifecycle controller, `rtl/mini/top/hp_lifecycle_controller.sv` (AON) | sequencer state, release, block, flush, forced-fault flag, stage timer | six states, one step per AON edge | HP_CTRL of sysctrl, resource controller (cache clean), crossbar (idle, block), bridges (flush, busy), all through two-stage synchronizers in `retrosoc.sv` |
| Resource controller, `rtl/mini/top/resource_controller.sv` (PCLK) | per resource: owner, lock, quiesce, reset, fault, handoff count; cache-clean bit | OWNER, CONTROL, FAULT, CACHE_CONTROL writes | resource HAL, data plane (block, block-ack, idle) |
| Resource HAL, `crt/src/hal/resource.c` | local to a call | `rs_resource_set_owner`, `_set_lifecycle`, `_clear_fault`, getters | resource controller registers |
| Data-plane control, `rtl/mini/top/soc_data_plane.sv`, `retrosoc.sv` | GA2D source stop, quiesced, rearm, ready; synchronizers | stop and rearm handshake, idle and ack combination | resource controller, GA2D, crossbar, address gate |
| Address gate, `rtl/mini/top/axi4_address_gate.sv` | pending read/write | admits one burst per direction, holds addresses while stopped | GA2D master, bridge |
| Async AXI4 bridge, `rtl/mini/top/axi4_async_bridge.sv` | five FIFOs, two-sided clear | cross, warm flush | both neighbours, lifecycle controller |
| Data crossbar, `rtl/mini/top/axi4_data_crossbar.sv` (HP) | outstanding counters, routes, arbitration, credits | admit, route, respond, flush | all masters, target guards |
| Target guard, `rtl/mini/top/axi4_target_guard.sv` (HP) | two state machines, address FIFOs, two timers, report register, isolation | forward, time out, report, abort, complete synthetically, isolate, flush | crossbar, target bridge, fault selector |
| PLL sequencer, `rtl/mini/top/pll_rcu_controller.sv` (AON) | sequencer state, timers, root select, LP force, active configuration, sticky fault, response | eleven states | sysctrl through two `cdc_2phase` channels, clock muxes, PLL, data plane (block, idle) |
| Clock tree, `rtl/mini/top/soc_clock_reset_subsystem.sv` | muxes, dividers, monitors, reset synchronizers | combinational root and LP divider choice | PLL sequencer, clock configuration |
| Clock configuration, `rtl/mini/top/clock_config_controller.sv` (AON) | gates, divider, timeout, command handshake | gate, divide, force-safe, clear-fault, timeout commands | sysctrl, PLL sequencer |
| System controller, `rtl/ip/peripheral/sysctrl_core.sv` (PCLK) | HP_CTRL, PLL registers, clock-command registers, fault capture, counters | register writes, channel endpoints | LP software and all of the above |
| Clock HAL, `crt/src/hal/clock.c` | local to a call | `rs_clock_set_frequency`, getters | PLL registers |
| HP mailbox, `rtl/ip/peripheral/apb4_hp_mailbox.sv`, `crt/src/hal/hp_mailbox.c` | message words, doorbells, interrupt flags | send, receive, clear | LP and HP cores |
| DMA core, GA2D and the other engines, `rtl/ip/` | descriptors, channels, pixel pipelines | start, stop, complete | resource controller, data plane |
| Fault selection and crossing, `rtl/mini/top/data_plane_fault_cdc.sv` | selected fault, crossing phase | select, hold, deliver | target guards, crossbar, sysctrl |
| Tiny product, `rtl/tiny` | its own RCU and sysctrl | - | - |

**What is hard here.** Decisions are taken on snapshots: every idle, busy or
acknowledge flag is a two-cycle-old copy from another clock domain. Timeouts race
with the answers they wait for. Responses and pulses cross clock domains without
an identity. One abort or flush serves two directions that are at different
points of their protocols. Software gives up between two register writes.

**What correctness means.** A stop of the HP side tells the truth about what it
drained, never cuts a burst by reset, and flushes what every side sees; an owner
never changes under a burst, and a call that gives up leaves nothing quiesced; every
burst handed to a guard is answered exactly once with exactly its beats, whatever
becomes of the other direction; the HP root is on the PLL only while
the PLL runs the reported configuration, and the status registers agree with it.

### 1.2 Tooling

| Component | State | Operations | Interacts with |
|---|---|---|---|
| Flow runner, `scripts/run_flow.py`, `check_simulation.py`, `run_hp_sim.py` | handlers, child process group, log, result file, verdict file | launch, read lines, marker, terminate, cancel, final write, judge | signals, the child, Make recipes, whoever reads the results |
| Qualification evidence, `scripts/tiny_r2_*.py`, `spi_p*.py`, `ppalite_p*.py`, `piolite_p1.py`, `crypto_p*.py`, `run_npu_*.py`, `npu_p*_report.py`, `run_apu_*.py`, `apu_p9_*.py` | attempt records, `latest.json` pointers, shared build products | capture, build, replay, judge, report, resume, reuse | each other through records on the disk; Make flows; the developer's edits |
| Commercial stage chain, `physical/commercial/scripts/*.py` | per stage: delivered files, verdict, stamp | prepare, run, check, sta scenarios, clean | Make, the RTL archive, batch tools |
| Provisioning, `scripts/setup_*.py`, `install_toolchain.py`, `development_environment.py`, `*liberty*.py`, `bootstrap_*.py` | archives, partial downloads, extracted trees and markers, checkouts, virtual environment, provenance | download with resume, verify, extract, check out, patch, generate | the lock file, servers, Git, all other tools |
| PIO-Lite toolchain and model, `scripts/piolite_{isa,asm,model}.py` | program store bitmap and references, instruction memory, two state machines, flags | assemble, load, unload, publish, configure, start, one clock edge | firmware, RTL tests |
| NPU compiler and executor, `scripts/npu_compiler_p0.py`, `npu_descriptors.py`, `npu_executor.py`, `npu_reference.py` | arena free list, allocations, descriptors, packed weights, arena bytes | lower, place, emit, validate, execute | firmware, RTL tests, qualification |
| APU microcode, `scripts/apu_isa.py`, `apu_mcasm.py`, `apu_interpreter.py` | registers, bit FIFO, DMA port, kernel, loops, return stack, watchdog | assemble, check the image, step, fetch, complete, trap | firmware bundles, RTL tests |
| Microcode generators, benchmarks, register reference, document and topology generators | none between calls | one pure transformation each | the build |

**What is hard here.** A kill between any two writes; a success of yesterday that a
failed run of today leaves in place; sources hashed before or behind the moment they
were compiled; a shared build product replaced by another flow between two looks at
it; a partial download resumed against a lock that moved; a stalled instruction that
must leave no trace; slots and arena blocks that are freed and reused while an old
handle lives on; a machine whose units finish in any order and whose result must not
depend on it.

**What correctness means.** Passed is earned by this run, and a record that passed
names what it was really made from; an installed tree is whole and of the pinned
version, and a repeated setup settles; a stage Make will not run again stems from
the archive there is; what an assembler or compiler accepts runs without the faults
its checks exist to exclude, and computes what the source says.

PROJECT.json lists the hazards of both halves at their lines, with the properties
aimed at each.

## 2. Modules

| Module | Models | Composition |
|---|---|---|
| `HpLifecycle` | the lifecycle controller, one operator per state | - |
| `HpDrain` | the controller under arbitrary inputs, with a history of each stop | EXTENDS HpLifecycle |
| `HpShutdown` | controller + synchronizers + HP_CTRL and CACHE_CONTROL + crossbar admission + one bridge's clear handshake, in AON, PCLK and HP | EXTENDS HpDrain |
| `ResourceController` | one resource slice under any register writes | - |
| `ResourceHandoff` | HAL + resource slice + GA2D source control + address gate + bridge + crossbar + write master, in PCLK and HP | EXTENDS ResourceController |
| `TargetGuard`, `MCTargetGuard` | the guard between a source and a sink that keep books; traffic patterns | - |
| `PllRcu` | the PLL sequencer, the PLL macro and the clock tree | - |
| `ClockSwitch`, `MCClockSwitch` | clock HAL + PLL registers + two channels + force-safe command + sequencer; two scenes | EXTENDS PllRcu |
| `FlowResult` | abstract specification of the result file | - |
| `FlowRunner` | wrapper + child + log checker + drivers | implements FlowResult (INSTANCE ... WITH) |
| `EvidenceSteps` | the vocabulary of the qualification scripts | - |
| `TinyEvidence`, `BlockEvidence`, `NpuEvidence`, `ApuEvidence` | each script as a recipe in that vocabulary | EXTEND EvidenceSteps |
| `EvidenceCampaigns` | which recipes, products and documents meet on one disk | EXTENDS the four |
| `EvidenceFlow` | recipes at work beside edits, outside builds and kills | EXTENDS EvidenceCampaigns |
| `StageChain`, `MCStageChain` | the commercial physical flow | - |
| `Provision` | the setup programs | - |
| `PioIsa`; `PioLite`, `MCPioLite` | instruction set, assembler, allocator; the reference machine | EXTENDS PioIsa |
| `NpuLowering`; `NpuJob`, `MCNpuJob` | lowering and validation; placement, emission, execution | EXTENDS NpuLowering |
| `ApuIsa`; `ApuMachine`, `MCApuMachine` | assembler and image checks; the interpreter | EXTENDS ApuIsa |
| `HpShutdown_proofs`, `ResourceHandoff_proofs`, `TargetGuard_proofs`, `ClockSwitch_proofs`, `FlowRunner_proofs`, `StageChain_proofs`, `PioLite_proofs`, `Provision_proofs` | theorems about the module and those it extends | EXTEND their module and TLAPS |

An operator under a "Variant" or "Mutant" comment, or named `Mut...`, is a plausible
mistake in the definition behind it; PROJECT.json uses these to show that each
property can fail.

**Control plane.** One step is one clock edge of one domain. A register keeps its RTL
name without the `s_`/`_q`; a combinational signal is an operator of the same name;
inputs are quantified with `\E` over what the neighbours can drive. In `HpLifecycle`,
`Clock` is the disjunction of the six states, `EndStage` and `KeepWaiting` the
pattern all timed states share; `HpDrain` adds the history of a stop
(`drain_cycles`, `evidence`). In `HpShutdown`, synchronizers are pairs, a flush empties
`outstanding`, the crossbar's accepted bursts, and `resp_flush`/`req_flush` are the two
halves of a warm flush. `ResourceHandoff` runs `rs_resource_set_owner` one register
access at a time against an engine on the "ga2d" path (address gate, source stop) or
the "dma" path. `TargetGuard`'s `ReadMachine` and `WriteMachine` are the two
always_comb blocks; `mishaps` collects handshakes the neighbours' books do not allow.
`PllRcu`'s `Sequence` is the disjunction of the eleven states; the PLL may gain or
lose lock in any cycle.

**FlowRunner, FlowResult.** An action is what happens between two points at which a
signal may be delivered or the wrapper killed: opening the log, the fork, the return of Popen, each
line read, each stage of the termination, the two writes of a cancellation.
`handlers` is the signal disposition, so a signal before, between and behind the
installation of the handlers is told apart. The child prints lines of three kinds
(ordinary, marker, failure), may ignore SIGTERM and outlives a killed wrapper. Files
remember the run they belong to. The refinement mapping forgets everything but the
result file and whether the work runs.

**Evidence.** A recipe is a sequence of steps, one per effect on the disk or look at
it (hash, build, load, judge, re-check, save, move the pointer, publish); pure checks
are `Try` steps, which may raise. `EvidenceFlow` executes any recipe: one action
`Do...` per kind of step, and `Raise`, `Kill`, `Edit`, `Build` around them. A source
class is a version number, a digest a function from classes to versions, a product
the versions it stems from, a log its exit status, terminal markers, failure text and
faulty sections. `ran` in a record is history: what the command really loaded, which no
script writes down. Versions only grow, so a change that is undone between two hashes
is not seen as none.

**StageChain.** Each tool run is split at its writes (unstamp, wipe, run, check,
stamp); Make resumes at the first missing or older stamp. **Provision.** A setup
program is a sequence of steps of the helpers (`download_file`, `git_checkout`,
extraction, marker, virtual environment, generated view), each split at its writes;
an archive is a sequence of pieces, so a resumed download can mix versions before it
is verified.

**PioLite.** One `Edge` is one PCLK edge of `Machine.step`: both state machines see
the flags and pins of before the edge. Around it are the allocator and the store,
with handles a caller may keep after unloading. **NpuJob.** The graph is built by
`Build`, lowered, placed in the arena, emitted, validated and executed descriptor by
descriptor; a byte holds the name of the value that belongs there, so a wrong offset,
pad, tile or weight order is a wrong name. **ApuMachine.** One step is one
instruction or one fetch cycle; kernels and DMA commands complete any allowed number
of cycles later. `Reading` is the reference: the program as its author reads it, each
instruction complete before the next.

## 3. Runs

| Run | Checks | Distinct states |
|---|---|---|
| `HpShutdown` | ForcedFaultExact, ResetFindsNoBurst, CleanAckIsFresh | 5,861,966 |
| `HpShutdownSlow` | FlushSeenByEverySide, violated (section 6) | - |
| `ResourceHandoff` | HalVerdictIsTrue; HandoffIsQuiet, SourceRearms | 316,669 |
| `TargetGuard` | EveryBurstExact, NoStrayWriteData; EveryBurstCompletes | 44,806 |
| `ClockSwitch` | StatusIsTrue, PllStableInUse; BlockedWhileSwitching, AlwaysReturns, BusyEnds | 297,018 |
| `FlowRunner` | PassedIsEarned, VerdictOfOwnRun; CancelEnds, ResultIsKept | 154,090 |
| `EvidenceFlow` | OneSource, ReportsCohere, OneImage, NoOldSuccess, CleanLog | 677,296 |
| `StageChain` | OneArchive, VerdictIsOwn | 357,802 |
| `PioLite` | StoreCoheres, DriveDisjoint, OnlyOwnFaults, LinkExact | 164,633 |
| `NpuJob` | LiveDisjoint, AcceptedRuns, LayerExact, OutputSurvives | 376,106 |
| `Provision` | ReadyIsWhole, RecordTrue; Settles | 462,570 |
| `ApuMachine` | ControlIsSafe, Exact; Ends | 440,114 |

Every passing run explores its whole state space; none uses symmetry or a state constraint.
Behind the semicolon are action and temporal properties. Each module also defines a
type invariant (`TypeOK`, `RcuTypeOK`, ...), which held whenever it was checked while
the modules were written; those of HpDrain, HpShutdown, ResourceController,
ResourceHandoff, TargetGuard, PllRcu, ClockSwitch, FlowRunner, StageChain and Provision are
theorems.
HpDrain and ResourceController are checked through the compositions
that extend them.

**What they show.** The control-plane runs: a forced fault is recorded exactly when a
stage ended without its evidence, also through real synchronizers; the reset of the HP core
cuts none of its bursts; a clean request is acknowledged by its own answer; ownership
moves only when the engine's path is quiet; guards complete and account for every
burst of a silent target, and the abort of one direction lets no write data of the other
stray; the PLL is never in use unqualified; a switch always
returns and its status is true. `FlowRunner`: neither signals nor kills at any point
produce an unearned success or a verdict from an older log, a cancellation ends, and the wrapper
implements the result file's abstract specification. `EvidenceFlow`: for each
campaign, passed records name products of the sources they claim, reports rest on one
hardware and one image, pointers never expose an old success. The exceptions the code
makes on purpose or by omission are named in EvidenceCampaigns (`Rechecked`,
`Closing`, `HashedLate`, `SameSource`, `TranscriptOnly`, `ResultLines`) and listed in
section 6. `StageChain`: a settled chain stems from one archive and its verdicts are
about the files beside them. `Provision`: success means whole and pinned, and reruns
settle except in the states `Wedged` names. `PioLite`: the store is coherent, accepted
programs fault only on shift counts or by running off their end, a two-machine link
delivers exactly. `NpuJob`:
live tensors never overlap, jobs within the compiler's limits are accepted and run, every layer accumulates the
reference's terms in its order, and the output survives to the end. `ApuMachine`:
accepted images are safe, the result of a job that ends does not depend on how long units
take, the watchdog ends only what waits for ever or works longer than it allows, and every
job ends.

**Bounds.**

* `HpShutdown`: timeout 8, longer than a round trip through the synchronizers, so that
  a stage can end on evidence as well as on its timer; 3 HP edges per AON edge (72 MHz
  against 24 MHz); up to 3 AON edges between PCLK edges, at any spacing. Other ratios are
  the business of the proofs. `HpShutdownSlow` has PCLK at exactly a quarter of AON, one of
  the divider settings of `soc_clock_reset_subsystem.sv:239-264`, and a timeout of 14.
* `ResourceHandoff`: HandoffMax 2; an APB access takes 3 PCLK cycles, which is less than
  the synchronizers and the bridge need, so stale status is read; poll limit 3, so that
  calls both succeed and give up; at most 2 HP edges per PCLK edge.
* `TargetGuard`: timeout 2, bursts of one or two beats, FIFO depth 2. The traffic
  patterns are three reads; two reads with a busy fault mailbox; three writes, with and
  without it; two reads beside a write, a read beside two writes; and a read beside a write
  with a busy mailbox. A target sends the beats it was asked for but may leave the last one
  unmarked. `NoStrayWriteData` is stated for any overlap with a mailbox that is not busy.
  `EveryBurstExact` and `EveryBurstCompletes` are stated for traffic of one direction (and the
  first for a mailbox that is not busy); the code does not keep them beyond that.
* `ClockSwitch`: two scenes. In "any", the sequencer of `PllRcu` under any software:
  selectors 0, 3 and 7, the three divider classes; budgets 2 and 3 with a counter that
  wraps at 3; two qualification cycles. In "driver", the whole of `ClockSwitch` with one
  selector, one budget and at most one force-safe command; the driver polls at most twice,
  so it also gives up.
* `FlowRunner`: two runs in one directory, so that files of an older one lie about; two
  lines, so that a failure text and a marker meet in both orders; exit codes 0, 1, 130.
* `EvidenceFlow`: one edit at any moment, which is enough to separate any two looks at
  the sources; per campaign two to five starts, chosen so that each document can be
  made, made again and reported. Where campaigns of a block share nothing, its front and
  its netlist stages are campaigns of their own.
* `StageChain`: a chain with one stage of each kind, two files each, two archives, three
  invocations. `Provision`: two versions of the lock, archives of two pieces, two
  attempts, one kill, one cut, three moves of the lock (it can go away, come back and go
  away again), one start without --update beside any number with it. Two kills with two
  moves (578,461 states) and with three (1,493,004) pass as well.
* `PioLite`: 8 slots, 3 pins, 4-bit words, FIFO of one word. The scenes are a link with
  either shift direction and unequal dividers, the store with sources that come and go,
  and every program of two instructions over 5 first and 58 second ones, with the entry
  behind the wrap too. `NpuJob`: 2 lanes,
  slices of 4, tiles of at most 2 columns and 4 positions, dimension limit 8 and kernel limit
  3 (16 in the code), with kernels and tensors past both; graphs of up
  to two operators over every kind and geometry, and of up to four over small vectors,
  where the arena reuses freed blocks. `ApuMachine`: 3-bit words, loops of 2,
  FIFO of 2, watchdog 7, one restart; a DMA port of 1, 5 and 9 cycles and kernels of 2 to 8,
  so faster and slower than the watchdog; eight scenes of every program over a menu.

`CHECK_DEADLOCK` is off where the system may stop: a source without bursts, a disk
nobody works on, a program that has ended.

## 4. Fairness

Weak fairness of a clock edge says that the clock runs: REF24 is not gated; PCLK
and HP run while the LP core is awake. Beyond that:

* `ResourceHandoff` assumes that an accepted write is eventually answered, which the
  target guard provides, and that a call in progress makes its next access. The
  latter and the HP edge need strong fairness because the clock-ratio counter
  disables them now and then.
* `TargetGuard` assumes over and over a cycle in which the source is ready for
  responses and supplies the data it owes, the report is taken and the abort
  acknowledged while the target neither accepts nor answers anything new: the
  guard has to complete every burst without the target's help.
* `PllRcu` (scene "any" of `ClockSwitch`) assumes nothing of the PLL and of HP idleness: every
  wait is timed.
  `ClockSwitch` assumes the driver runs once called. Nobody is obliged to call it.
* `FlowRunner`: weak fairness of the wrapper's own steps. The child may run for ever,
  print nothing and ignore SIGTERM; `CancelEnds` rests on the SIGKILL behind it.
* `Provision`: a running program goes on, and the user starts it again with --update
  for as long as it has not succeeded (strong fairness: a start is disabled while the
  program runs). `Settles` is about what reruns can repair.
* `ApuMachine`: the sequencer is clocked. Kernels and DMA finish within the scene's
  latencies, as the interpreter's countdowns do.

The other runs are safety only and state no fairness.

## 5. Proofs

All constants are arbitrary subject to the named assumptions, which say no more than the
code does: `TimeoutAssumption` (any 16-bit value, the width of the input),
`ClockAssumption` (any ratio of HP to AON edges and any range of gaps between PCLK edges),
`HandoffMaxAssumption` and `HandoffAssumption` (any saturation value, poll limit, access
time and clock ratio, either path), `GuardAssumption` (any timeout, burst length, FIFO
depth and traffic), `PllAssumption` and `SwitchAssumption` (selectors in 0..7, a wrapping
counter of any positive range, budgets within it, at least two qualification cycles, as in
the RTL; any poll limit and number of force-safe commands), `FlowAssumption` (any number of
runs and lines, any natural exit codes that include 0), `ChainAssumption` (a chain of any
length that begins with its only input stage, any files), `PioAssumption` and
`SceneAssumption` (up to 32 slots and pins and words of 2 to 32 bits; any sources in the
form the line parser delivers), `ProvisionAssumption` (any number of versions, pieces,
attempts, kills, cuts and moves) and `JobsAssumption` (any of the setup programs the module
models).

* `HpShutdown_proofs`. Of the sequencer alone (`DrainSpec`): `TypeCorrect` by one case per
  state. `DrainInvariant` strengthens the safety properties to `DrainInv`: `OutputInv`
  (block, release and flush are functions of the state), `FaultInv` (the fault flag is set
  exactly when evidence is missing for the stages already passed) and `CycleInv` (cycles
  spent are at most one budget per passed stage plus the running timer). None of the
  properties is inductive alone: the fault flag is judged in Held but earned in the stages
  before. From it follow `ShutdownIsBounded` (four timeouts), `ForcedFaultIsExact` and the
  action property `AdmissionClosedUntilReset`. Of the composition: `ShutdownTypeCorrect`;
  `ShutdownIsDrain`, a refinement by which these results carry over to the real
  synchronizers (`ForcedFaultStaysExact`); and `ResetCutsNoBurst`. Its invariant `PipeInv`
  follows the three synchronizers into HP stage by stage: whichever stage the reset has
  reached, the stages behind it still block admission and carry the flush, or the core is
  already quiet. It has two hypotheses: an HP edge between two AON edges (`MinHp >= 1`, true
  even on the 24 MHz safe clock) and no one-cycle skew between the synchronizers (`~Jitter`).
  The second is needed: section 6.

  The flush is raced through three clock domains by levels that nothing in the RTL waits
  for, so its invariants say how far each level has come and bound the AON edges spent
  before it gets further. All assume `MinHp >= 3` (an HP root of 72 MHz or more against
  REF24), with any `MaxHp` and with or without `Jitter`; the chip ties `TimeoutInput` to 65535
  (`retrosoc.sv:288`).
  `HpSideIsFlushed`: the HP half of the bridge is flushed in every shutdown, for every PCLK
  and every timeout, from `HpSideInv` (`SyncInv`: the command has reached HP two or three HP
  edges after the controller; between two flushes the half is empty).
  `CleanAckStaysFresh` holds for every periodic PCLK, whose edges are either never more than
  two AON edges apart or never fewer (`MaxGap <= 2 \/ MinGap >= 2`), and a timeout that
  leaves it three of them (`TimeoutInput >= 3 * MaxGap + 3`). The two kinds take different
  arguments. With a fast PCLK, `FlushInv`: `RiseInv` (while the command is up the HP half
  fills stage by stage and the PCLK half follows), `FallInv` (once it is withdrawn, a busy the
  controller sees keeps it in FlushWait until the PCLK half is done) and `RestInv` (between
  two flushes no acknowledgement of the cache request survives). With a slow one, `SlowInv`: the
  PCLK half may be missed or late, but the HP half keeps the controller waiting in any case
  (`SlowRise`, `SlowFall`, `SlowRest`), and a PCLK edge while no request is up withdraws the
  acknowledgement (`ReleaseInv`, `AnswerInv`, `SlowCache`). None of this is inductive
  without the others. `FlushSeenByEverySide` holds only with the fast PCLK (lemma
  `FastPclkFlushesBothSides`); at exactly a quarter of AON it is refuted (section 6).
* `ResourceHandoff_proofs`. Of the slice alone (`RcSpec`): `RcTypeCorrect`, `CountIsParity`
  (the parity of the handoff count is the owner until it saturates, with a lemma on parity)
  and `OwnerLockIsSticky`. Of the composition: `HandoffInvariant` proves `HandoffInv`:
  `WriteInv` (where the one write in flight is), `HalInv` (where in a call of the HAL
  quiesce is held), `BlockInv` (when the block request has been sampled in HP) and
  `SampleInv` (an acknowledgement and an idle sample that travel together were taken behind
  the block). The last is what makes a stale status word worth acting on. From it
  `HalTellsTheTruth` and the action property `OwnerChangesQuietly`. `HandoffDrivesSlice` is
  the refinement of `RcSpec`, which gives `HandoffKeepsSlice`.
* `TargetGuard_proofs`. `GuardTypeCorrect`; `WriteDataIsOwn` from `OverlapInv`: with both
  directions in flight and a timeout or a misplaced beat of either isolating the port at any
  moment, no write data reaches the target without a burst it has been told of, as long
  as the mailbox is not busy (section 6 says what happens when it is); and
  `BurstsStayExact` from `GuardInv`, for traffic of one direction, a mailbox that takes a report at
  once and a target that sends no surplus beats but may leave the last one unmarked: `ReadInv` and `WriteInv` say for each state of the two
  machines what the source's and the target's books hold (the served burst, then the FIFO),
  `OfferInv` that a held valid is owed, `RestInv` that a direction without traffic rests,
  and `PromptInv` that without a busy mailbox no report is ever held.
* `ClockSwitch_proofs`. Of the sequencer (`RcuSpec`): `RcuTypeCorrect`; `RcuInvariant`
  proves `RcuInv`, which says for each state what the sequencer knows: in which states HP
  traffic is blocked, where the apply pulse may be, from which state on the PLL runs the
  requested selector, and that a qualified configuration belongs to the running one. From it
  `PllIsStableInUse`, `SwitchIsBlocked` and `FailureIsSticky`. Of the composition:
  `SwitchTypeCorrect`; `SwitchInvariant` adds `RequestInv`, `ReportInv` (the clocks as they
  are stand in PLL_STATUS or in the response on its way there), `BusyInv` (the one request
  is in exactly one place) and `DriverInv` (what the driver reads is the outcome of its own
  request). From it `StatusStaysTrue` - the registers at all times, the HAL's return value only for
  calls that no lost lock or force-safe command disturbs (section 6) - and
  `SwitchKeepsPllStable`.
* `FlowRunner_proofs`. `FlowTypeCorrect`; `FlowInvariant` proves `FlowInv`:
  `ChildInv` (at which points of the wrapper a child can exist and what `process`
  knows of it), `RecordInv` (at which points the result file is of this run, and
  with which status), `Earned` (what the wrapper has seen when it is about to write
  passed), `CodeInv` (which return code goes with it) and `VerdictInv` (a verdict of
  this run rests on a result and a log of this run). It is needed because the
  properties speak of files at rest, while what makes them true is known only at the
  point of the wrapper that writes them. From it `PassIsEarned`, `VerdictIsOfOwnRun`,
  `NoOrphanIsHidden`, `VerdictIsNotReused`, the action property
  `CancellationIsFinal`, and `WrapperKeepsResult`: FlowRunner implements FlowResult,
  proved by mapping the initial state and each action to a step of FlowResult or a
  stutter.
* `StageChain_proofs`. `ChainOneArchive` and `ChainVerdictIsOwn`, with `ChainTypeCorrect`,
  from `ChainInv`: `WorkInv` (Make never works on a stage it holds up to date), `FreshInv`
  (what a stage has written behind settled stages is made from the archive), `JudgedInv` and
  `StaInv` (a verdict counts only once it was written behind the check, over files of this
  run), `StampInv` (a stamp is set over expected files that are all there).
* `PioLite_proofs`. `StoreStaysCoherent` from `StoreInv`: besides coherence itself, every
  allocation - also one whose handle is stale - is the image of a source the assembler
  accepted and lies inside the store. Lemmas say what assembling and relocation do to a word
  (`AcceptedFacts`, `ImageFacts`), and that first fit finds a least free base (`LoadBase`).
  `DriversStayDisjoint` from `StoreInv` and `DriveInv`: each machine enables only its own
  output pins and none when disabled or closing, and two that are started have disjoint
  masks. One lemma per instruction shows that the copy it makes drives only its own pins;
  START compares both masks, and no step changes an image that a configuration names.
  `FaultsStayOwn` adds `FaultInv`: a machine that may still run has its pc in its program, a
  fault means closing, and a fault met with the words in place is a shift count or the end
  of the program. `ImageWords` carries what Program.validate checked through relocation; one
  lemma per instruction shows that a checked word meets no other fault. The attempt at it
  showed that the property, stated first without the end of the program, was too strong: the
  programs of the run all wrapped at their last word. Now the run has the others as well.
* `Provision_proofs`. `Held` is inductive and has four parts. `Types` says what each
  program counter finds in the buffers and on the disk: between the comparison of the
  checksum and the rename nothing changes the buffer or the version the step works for.
  `ProvisionTypeCorrect` and `ArchivesStayVerified` follow from it. `Marks` says which markers
  may be believed: a tree, generated view or environment with a marker is whole and of that
  version, or its replacement was begun, and then the marker does not name the version the
  lock pins. `Work` says what a step finds made by the step before it, and `Progress` that
  while the lock stands still the products of all steps so far are whole. `ReadyStaysWhole`
  follows for all twelve setup programs, for a run whose lock stood still and for products
  that are not `reverted` (section 6): `ProgramShape` lists what the proof needs of a
  recipe, and `ControlStep` shows once for all how the program counter moves along it.
  ReadyIsWhole is not inductive alone: it speaks of a run that has ended, and what it
  promises was made many steps before, or by another run. The attempt showed that the
  exception for a lock that moves back was too narrow (section 6); `past` now holds every
  version the lock has pinned.
  `RecordStaysTrue` from `P7Inv`, which says at each step of the P7 setup which of checkout,
  note and wanted version agree - the lock may move at any of them.

**Only model-checked.**

* The liveness properties (SourceRearms, EveryBurstCompletes, AlwaysReturns, BusyEnds,
  CancelEnds, Settles, Ends): they depend on fairness and ENABLED, out of the prover's reach.
* CleanAckIsFresh of HpShutdown for a PCLK whose gaps range over both sides of two AON
  edges, as in the run (`MinGap` = 0, `MaxGap` = 3): neither argument covers it.
* EvidenceFlow: its properties are about the concrete recipes of the scripts, which the
  campaigns enumerate. LinkExact is about two particular programs, and the type
  invariant of PioLite needs facts about powers of two that take an induction.
* NpuJob and ApuMachine compare with recursive references: what a recursive definition
  computes for every input cannot be proved with the installed provers.

## 6. Observations on the code and its documents

Met while modelling; each names the line it is about. The first is a standing run, which
expects the violation.

**The flush with a slow PCLK** (`HpShutdownSlow`). FlushRequest ends as soon as *any* half of a
bridge is busy (`hp_lifecycle_controller.sv:110`). With PCLK at a quarter of AON, which the
dividers allow, the HP half is busy and done again before PCLK has had an edge: the
controller withdraws the command, and the core is held and reset although the PCLK half was never
flushed, against `docs/lp-hp-architecture.md:136-138`. No fault is recorded. The HP half is
always flushed (`HpSideIsFlushed`), and the cache acknowledgement stays fresh.

**Control plane, against the documentation.**

* "drains accepted traffic" (`docs/axi4-interconnect.md:116`): Quiesce may leave in its
  first cycle on an idle flag sampled before the block took effect
  (`hp_lifecycle_controller.sv:94`); a burst admitted in between is flushed, and no fault
  is recorded. The HP core's own bursts are always over when the core is reset.
* "conservative whole-data-plane idle condition for DMA and I/O resources; this is safe"
  (`docs/ip/resource-controller.md:77`): a write still in the FIFOs of the asynchronous
  bridge is not part of that condition (`soc_data_plane.sv:489`). On the GA2D path, and
  for bursts inside the crossbar, `HandoffIsQuiet` holds.
* "completes the original burst with `SLVERR`" (`docs/lp-hp-architecture.md:131`): when a
  read timeout isolates the target in the cycle in which the last write beat is accepted,
  the write waits for a WLAST already sent (`axi4_target_guard.sv:397`).
* "AUTO/MANUAL division never exceeds 72 MHz" (`docs/lp-hp-architecture.md:58`): the LP
  divider follows the requested selector before the LP root is parked
  (`soc_clock_reset_subsystem.sv:182`). At rest the limit holds.
* "A failed configuration leaves the system on the safe clock"
  (`docs/pll-clock-control.md:14`): responses carry no identity; the one sent for an
  earlier lost lock can be taken for the answer to a new request (`sysctrl_core.sv:365`).
* With `Jitter` = TRUE `ResetFindsNoBurst` fails: release and {block, flush} cross in two
  synchronizers.
* Overlapping directions of one target guard. While the mailbox is busy, a read's blocked
  report freezes the write machine, but write handshakes go on: data may reach the target
  that belongs to no burst it was told of. With a free mailbox and overlap, a read beat accepted in
  Forward in the cycle of the isolation is not counted, and a write response can be given twice.
  `NoStrayWriteData` and `EveryBurstExact` are stated short of these.
* A late read beat while a timeout report waits is not counted; the address of a held
  write report changes when isolation pops the address FIFO
  (`docs/lp-hp-architecture.md:141`). From Idle, a lost lock or force-safe command
  switches the root with traffic open: `BlockedWhileSwitching` names these exceptions.
  `pll_apply_o` is high one cycle after the state in which
  `rtl/mini/dv/sva/rib_protocol_sva.sv:114` expects it. A CLK_TIMEOUT lowered during a
  wait is stepped over; the wait then ends when the counter wraps. Lost locks and
  force-safe commands send responses nobody asked for, which
  `rtl/mini/formal/sysctrl_formal_props.sv:105` assumes away.

**Flow runner.** A signal inside Popen, after the fork and before `process` is bound,
leaves an orphan (the result file says interrupted, nothing pending).

**Evidence.** What a passed record does not say:

* P8's capture does not tie model and firmware to the hashed sources; P7's audit and P3's
  resume overwrite in place; P3's matrix does not compare its digest with the images it
  collects; P10 hashes once more only before its last capture.
* SPI-P2 hashes once and never again, and its "report" stage checks nothing and passes;
  SPI-P3 calls itself "Source-bound" (`scripts/spi_p3.py:2`) and keeps no digest; SPI-P4's
  check judges a transcript only.
* CRYPTO-P0/P1 rtl and synthesis do not hash again (their reports do); CRYPTO-P1 quality
  hashes behind the gates; CRYPTO-P2's report reads statuses only.
* NPU-P0/P5 hash first and never again (P5's report does); NPU-P6 hashes behind the runs
  and leaves the RTL out; its Verilator run loads shards without verifying them; the
  P5 report accepts firmware up to 30 s younger than the start (`npu_p5_report.py:250`).
* APU-P5 hashes at the end of `_compile`; APU-P7 hashes the RTL behind the run and lets a
  subset pass without the accuracy gate; APU-P9 copies six reports one by one and never
  checks that they share a revision; the APU parsers do not look for failure texts.

**Stage chain.** `physical/ecc/scripts/package.py` copies into a directory before it
exists; ECC's `check_outputs` accepts step names whatever their status; a kill of
`clean_stage.py` between a directory and its stamp leaves the stamp believed (`torn`).

**Provisioning.** `Wedged` lists what a rerun cannot get past: a complete `.partial` left
before its rename asks for an unsatisfiable range for ever; a checkout without a commit;
a kill between checkout and submodule update; the patched coremark, whose dirtiness
refuses every --update; a virtual environment killed before ensurepip. The FatFs and SERV
extractions have no marker; the NPU JPEG is checked for presence only. A run
killed while it replaces a product can leave the old marker beside it; when the lock then
moves back to the version that marker names, what is left passes for whole. `reverted` is
this exception of `ReadyIsWhole`; with three moves the lock can come back again later.

**PIO-Lite.** Program.validate refuses a branch out of the program but not a last word that
falls out of it when the wrap ends earlier (`piolite_isa.py:251`); the machine then stops
with PROGRAM_BOUNDS, as `docs/ip/piolite.md:190` says. `RanOff` names the case.

**NPU.** A graph output that a later operator also reads is freed after that operator
(`npu_compiler_p0.py:1188`); `OutputSurvives` is about outputs that end the graph. `_lower_conv2d` and the pool lowering
(`npu_compiler_p0.py:393-440`) do not limit the kernel, the validator does
(`npu_descriptors.py:565`): a kernel wider than 16 is not refused as unsupported but ends
as an internal error. `TooWide` names this case of `AcceptedRuns`, beside `TooLarge`.
**APU.** INPUT_REFILL at the end of the input writes a payload of length zero and faults
imprecisely; frame_commit, job_result and event clobber r0; bundle building and parsing
disagree about the DMA WAIT; a trap keeps 11 bits of its pc. FRAME_COMMIT does not reset
the retired-instruction counter (`apu_interpreter.py:163-173`), though `docs/ip/apu.md:1033`
and `:1066` say so; the model does as the code does, and `Exact` does not compare the
counter. Stalls count toward the watchdog (`docs/ip/apu.md:1043-1046`), so a kernel or a DMA
transfer longer than the watchdog ends a job that would have finished: `Overtime`.

## 7. Not modelled

* Data paths (pixels, audio, crypto, USB, storage, memory timing), the C applications
  and the Tiny product's RTL. FIFO pointers and Gray codes are abstracted to entries that
  become visible after two edges. Metastability is modelled only as a one-cycle delay
  (`Jitter`). Resets other than the HP core's, reads of the GA2D and DMA masters, bursts of
  several beats in ResourceHandoff and, in TargetGuard, a target that sends surplus beats or marks
  an early one and the codes of the responses are left out. HpShutdown leaves out
  `debug_reset_req` (`retrosoc.sv:519`) and a PCLK divider that changes during a shutdown.
  ResourceHandoff leaves out the terms that flush, epoch, clear_busy and the HP reset add to
  a stop (`soc_data_plane.sv:423-425`).
* HP mailbox, fault crossing, crossbar credits and DMA: see the plan.
* Pure generators (APU and NPU microcode and vectors, register reference, topology,
  publications, documentation checks): one transformation of text or numbers without
  state; their arithmetic is out of TLC's reach.
* FlowRunner: two wrappers in one directory at once; torn writes of run_hp_sim's verdict.
* Evidence: numeric acceptance criteria, the contents of archives and netlists, NPU-P6's
  `--reuse`, a change undone between two hashes.
* StageChain: real time (the 2 s tolerance of stamps), tool scripts, doctor.py, batch jobs
  that survive a kill.
* Provision: a kill inside git, concurrent installers, the doctors.
* PioLite: claim and output-mask overrides, initial pin values, tick and stall counters,
  events, timing specifications, the emitted C text.
* NpuJob: quantised arithmetic, the model file parser. ApuMachine: tables (Huffman, table
  loads), transforms, frame synchronisation, checksums, other kernels.

## 8. Plan

1. `HpMailbox`: messages of several words, doorbells and interrupt clearing between two
   cores; no torn message and no lost doorbell under the HAL's protocol.
2. `FaultPath`: fault selector, clock crossing and the capture registers of sysctrl; a
   one-place report buffer as its specification, refined by the crossing.
3. `DataCrossbar`: arbitration, credits and routing. `DmaCore`: channels, descriptors, stop
   and error paths.
4. Composition of `PllRcu` with `HpShutdown`: a quiesce timeout with traffic in flight, and a force-safe
   pulse during a change.
5. Proofs: the flush of HpShutdown at two HP edges per AON edge; the type invariant of PioLite,
   once facts about powers of two can be had.
