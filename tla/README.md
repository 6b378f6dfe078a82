# dau-build: a verification development

`dau-build` generates, builds, flashes and re-programs FPGA shells for a small family of PCIe
boards. Much of the repository turns one description into another and has no behaviour over time.
Three parts do, and they are the ones that can brick a bench, return somebody else's bytes, or put
a number on the wrong design:

* the **hardware plans** (`dau_build/hardware_plan.py`, `programmers.py`, `build_steps.py`): step
  sequences that remove, program, rescan and reset a live PCIe card, under a per-board lock, with
  release steps and a deadman for the way out;
* the **generated shell** (`dau_build/scan_composition.py`): the rules a composition is validated
  by, and the synchronous logic the generator emits for it, in which a host programs a handle
  table, submits jobs and polls a status word while a reader, front stages, lanes and writers run;
* the **build directories** (`vivado_backend.py`, `shell_build.py`, `mm_shell.py`,
  `synthesize_cores.py`, `render_cores.py`, `build_steps.py`): tasks that stage, build, package,
  characterize and flash, whose files outlive the task, the process and the failure that left them.

All line numbers below are of the source tree this development is kept beside.

## 1. Inventory

| component | state | operations | interacts with | what makes it hard | correct means |
|---|---|---|---|---|---|
| hardware plans (`HardwarePlan` and its subclasses, step constructors, programmers) | none: a plan is a list of steps | `compose` of each of the eight plans, refusal of a request | executor | order of steps under a card that loses power, a kernel that hangs | the card is never removed unheld, never rescanned dead, never left unwatched |
| plan executor (`execute_plan_steps`, `_run_plan_steps`) | program counter, failure flag, the `flock` on the board, the step's process | acquire, run or skip a step, fail, interrupt, return | the board, other `dau-build` processes | concurrent processes, spelling of the BDF, interrupts, SIGKILL | one run per board; a failure stops the plan and runs its releases |
| bench (card, endpoint, runtime PM, deadman) | SRAM and flash image, enumerated or not, held or not, armed or not | the effect of every step, partial effects, the kernel's rescan, suspend, deadman, reboot | executor | host-wide side effects under a per-board lock | a reprogrammed board is alive when the run says so, and comes back when it does not |
| shell handle table (`dau_shell_handle_table`) | entries with live bit, base, length, generation; the registered answer | install, free, resolve | register block, gate | free and re-allocation between naming and use | only the granted region answers to a handle |
| shell job path (register block, gate, burst reader, broadcast, tiles, writers, error reset) | some thirty registers | one clock | host, memory | every process runs in every clock; stale results of the last job; errors in mid-batch | done means done; no job meets another's rows |
| fused lane chains | per-lane error and empty-close latches, every stage's batch and status | one clock | job control, writers | close-outs that come in any order; a stage that gives no row starves what is behind it | one close-out per lane and batch, no error swallowed |
| scan composition (`_validate_composition_shape`, the emission, `RegisterLayout`) | none: a composition is a value | accept or refuse a shape, declare nets and bind ports, place registers | what it emits | the rules and the emission are written apart; shapes are tested one by one | every net has one driver and one taker of its width; every register answers alone |
| front stages, shared partitioner, load phase | sticky front errors, words held, ends seen | one beat | reader, lanes | an error that outlives its job; a batch that never gets its end | good jobs saw every word once; the host of every job hears of it |
| sim harness and doubles | RAM, write mux | one clock | job path | write responses routed to lanes | the bench proves the shell it stands for |
| overlay build, shell build, manifests, flash and smoke-test acceptance (`vivado_backend.py`, `shell_build.py`, `build_steps.py`) | work root: scripts, bitstream, manifests, status lines | plan, run a stage, write and validate a manifest, accept an image | executor, file system | stale files of an earlier build, stages that fail half-way, two builds in one work root | what is flashed is what the manifest says was built |
| memory-mapped shell (`mm_shell.py`) | the console log, where the transceiver lanes are | place the lanes, verify them, copy the bitstream, say so | Vivado, packaging | lanes that trade places; a tool that only warns | a project that says it is built has its lanes where the board wants them |
| core synthesis, rendering (`synthesize_cores.py`, `render_cores.py`) | rendered HDL, scripts, reports, an environment variable | render, stage, run Vivado, judge against the registry | core providers, Vivado | files of earlier tasks and processes; edits during a run of half an hour | a report is of the HDL its digest is of; a drift is of the sources |
| platforms, lane sizing (`platforms.py`) | — | validity of a board, the memory it builds with, the lanes that fit | plans, builds | rounding, zero, an overhead that takes everything | the ceiling fits and one more does not |
| artifact bundle, packaging, publish inventory | files and digests | write, verify | builds | — | digests match |
| build spec, build config, CLI, simulation profiles, SystemVerilog parser, tile contract | — | parsing, validation, emission | — | — | — |
| CAM (`dau_build/sv`) | its cells | write, lookup | — | — | lookup finds what was written |

How they interact. A hardware task composes a plan from a request and the host's facts and gives
it to the executor; every step is a process that acts on the board or the host. Several
`dau-build` processes share the host, its boards, one `/sys/bus/pci/rescan` and one deadman; they
share nothing else but the lock files. Inside a shell all parts share one clock; the host reaches
them only through single-outstanding AXI-Lite accesses.

## 2. Plan

1. **Hardware plans** (done): `HardwarePlans` (plans as data) → `PlanExecutor` (control, over any
   number of runs) with the abstract `BoardOwnership` → `HardwareSession` (what the steps do to
   the bench, composed with the executor) → `PlanExecutorProofs`, `HardwareSessionProofs`.
2. **Shell job path** (done): `HandleTable` → `ShellJob` (composes table, gate, reader, lanes and
   host, one action per clock) with the abstract `JobGate` → `ShellJobProofs`.
3. **Fused lanes** (done): `FusedLane`, a lane with a chain of stages, silent and
   draining, its status glue and its writer over several jobs, with the abstract `OneCloseOut`:
   the one status per batch that `ShellJob` assumes of a lane → `FusedLaneProofs`.
4. **Scan feed** (done): `ScanShape`, the shapes that are accepted and the wires they get →
   `RegisterMap`, the register window → `ScanFeed`, the row stream of every accepted shape over
   several jobs → `ScanFeedProofs`.
5. **Build provenance** (done): `BuildRoot`, the directory and its tasks → `OverlayBuild`,
   `ProjectBuild` and `CoreSynthesis`, the three ways to fill it → `BuildProvenance` →
   `BuildProvenanceProofs`.
6. **Sizing** (done): `PlatformSizing` → `PlatformSizingProofs`.
7. **Vivado contract** (done): `VivadoContract`, what staging writes of itself and what validation
   holds it to → `VivadoContractProofs`.
8. **Left**: the write mux and the RAM of the simulation harness; the CAM; the digests of artifact
   bundles.

Abstract specifications: `BoardOwnership` (stated, refined, proved), `JobGate` (stated, refined,
proved), `OneCloseOut` (stated, refined, proved).

## 3. Modules

| module | models | correspondence |
|---|---|---|
| `HardwarePlans` | the plans and the requests that are refused | a plan is the sequence of its step names; argument strings are abstracted |
| `BoardOwnership` | what a board lock promises | owner of every board; acquire and release |
| `PlanExecutor` | `execute_plan_steps`, `_run_plan_steps` | one action per branch of the loop (`StartStep`, `SkipStep`, `StepSucceeds`, `StepFails`, `CleanupStepEnds`, `Return`), `Acquire` for the flock, `Interrupt` for Ctrl-C and for a kill, and the environment's `OrphanEnds`, `Reboot` |
| `HardwareSession` | the card, the endpoint, the path hold, the deadman | extends the executor: a step's completion has the effect of its name, a failing or interrupted step any part of it |
| `PlanExecutorProofs`, `HardwareSessionProofs` | — | theorems about the executor, and about the bench |
| `HandleTable` | `dau_shell_handle_table` | `Program` and `Resolve` are its two always blocks |
| `ShellJob` | the job path of the generated top | every action is one clock: a host access (`NoAccess`, `ProgramEntry`, `NameJob`, `Submit`, `Poll`) conjoined with `Datapath`, or `Reset`; primed variables are registers, unprimed operators wires with the names of the Verilog |
| `JobGate` | what a job's handle promises | grants, the job that was asked for, its verdict, the region it reads |
| `ShellJobProofs` | — | theorems about the job path |
| `OneCloseOut` | what a lane owes its record writer | batch, failure and close-out of one lane |
| `FusedLane` | a lane with chain stages | every action is one clock: `Lane` is the glue, the stages and the writer; `Submit`, `Refuse`, `Finish`, `Run`, `After` say what the job control does in that clock |
| `FusedLaneProofs` | — | theorems about the lane |
| `ScanShape` | `_validate_composition_shape`, the row grid, the nets that are emitted and the ports bound to them | one operator per rule of the validation; `Drivers`, `Takers`, `Wire` are the emission |
| `RegisterMap` | `RegisterLayout` and the register block's cases | a register is a name, a lane and an offset; `Selected` is the case statement |
| `ScanFeed` | the row stream of a generated top | one action per unit's beat, close-out or refusal, and per act of the host; how wide a beat is comes from `ScanShape` |
| `ScanFeedProofs` | — | theorems about shapes, the register window and the row stream |
| `BuildRoot` | a build directory: bitstream, packaged manifest, running tasks; what flash accepts | a task is the sequence of its steps |
| `OverlayBuild` | staging, the overlay and the build session of Vivado, validation | one action per staged file, per part of the generated Tcl that leaves something behind, and one for each way to fail there |
| `ProjectBuild` | the shell project's script, the placement of the lanes, packaging | the same |
| `CoreSynthesis` | `render-cores`, `synthesize-cores`, `handoff-cores` | a Vivado run is read, ended, parsed; a task stops at any of them |
| `BuildProvenance` | — | a directory of any of the three kinds over any sequence of tasks, and the properties |
| `BuildProvenanceProofs` | — | theorems about what is packaged, flashed, placed and reported |
| `PlatformSizing` | `platforms.py`: validity, memory, `fits`, `min_lanes_for_full_rate`, `max_lanes` | functions; an operator that raises has its refusal beside it |
| `PlatformSizingProofs` | — | theorems about them |
| `VivadoContract` | `vivado_backend.py`: the manifests, the command plan, the overlay script, the recorded commands, and their validation | functions of a request; a validator is the predicate that it returns no error |
| `VivadoContractProofs` | — | theorems about them |
| `MCPlanExecutor`, `MCHardwareSession`, `MCShellJob`, `MCFusedLane`, `MCScanFeed`, `MCBuildProvenance` | — | constants for TLC; the last one also evaluates the sizing over small boards and the contract over small projects |

Operators with a comment "Mutated" or "A mutant" in the modules are faulty variants of the
definition they precede, kept to show that each property fails when that code is wrong.

### What the executor model abstracts

A BDF has two spellings of one board when they differ in case (`SpellingAssumption`), and all runs
look for the lock in one directory: a BDF without its domain, which no code refuses, or another
`XDG_RUNTIME_DIR` (`hardware_plan.py:836-845`) is another lock file, and outside the theorems. A run
that is interrupted (Ctrl-C: `subprocess.run` kills the process it started, waits for it a moment,
and unwinds) or killed alone drops its lock in that step, and its step process may have ended with
it or not.

### What the shell model abstracts

The reader's and writer's clocks follow the doubles in `dau_build/tests/sv/scan_sim`; the number
of beats is any number, memory latency any latency. A read error flushes the batch's `last`, as
`scan_composition.py:1528` says of the real reader (the double, whose RAM has no errors, does
not). A tile is where its batch is: it may fail at any row and, unless `OneStatus`, any number of
times. The four staging registers of an entry and the four registers of a job are each written in
one access. The write mux, the counters and the debug taps are left out; codes are names.

### What the lane model abstracts

A stage is three things: what it took of its batch, what it gave of it, and its status. Beats move
along the whole chain in one clock, in any pattern the handshakes allow, so a stage may be
combinational or hold its rows as long as it likes; it may give many rows for one or none. Where
the lane contract (docstrings of `TileInstance` and `LaneTile`) is silent, the model takes the
weakest reading under which the glue works, and names it:

* `Late`: a draining stage says how it closed in the clock of its last row or a clock later; a stage
  of `Late` may take longer, up to the clock of the next `job_start`, and that status may be an
  error. What the source says of the last case (`scan_composition.py:785-789`) is
  `LateErrorIsReported`. An error between the lane's close-out and the next `job_start` is latched,
  and the start of that job clears the latch unread: no job reports it, and `OneCloseOut` asks for
  nothing else ("comes too late"). An error in the clock of `job_start` that meets a latch already
  set, by a second late stage, is cleared with it: the capture needs the latch down
  (`scan_composition.py:808`). So `raised` in the refinement is an error that meets no other. A
  success later than `job_start` would close the next job empty, which is the reason for the bound.
  Late, or in good time, the model's `Submit` waits for it: a host takes many clocks over its next
  job.
* `QuietError`: the terminal tile holds `status_error` low while its `status_valid` is low. An
  empty close has no pending status behind it, and the mux then passes the terminal's wire: with
  `QuietError = FALSE` an empty close that went well is reported as an error.
* A stage that failed throws the rest of its batch away, so that nothing of it follows the error.

The partition filter of a lane is one more silent stage. `job_start` and the units' start fall in
one clock, as they do without a handle table. A refused job raises `length_fail` a clock behind
`job_start`, and with it `job_done`; the lanes are reset only if `job_done` rises (`prev_done`).
`LaneEnds` is fair to a stage that has its whole batch, and lets it drop a row it holds: a lane that
carries a late error, whose draining stages close well and whose terminal keeps a row for ever, is
outside it.

### What the scan feed abstracts

A composition is the parameters, widths and bindings the validation looks at; names, ports beyond
the row stream and the check of a tile against its parsed source are left out. The stream is
counted, not carried: a unit holds so many 64-bit words, and a beat moves as many as the narrower
of the two ports bound to its net lets through, which is what dropping bits silently comes to. An
action is one unit's step and the units take them in any order their valid and ready allow; how
registers and units share a clock is `ShellJob`'s question, and what a lane does with its rows is
`FusedLane`'s. The RTL of the front stages and the partitioner is not in the repository: they are
modelled from how the top binds them and what its comments say of them (the gearbox holds back its
last record, a refused batch gets no `last`, the status is one clock long). The host polls or, when
it reads an error of a job that is not done, gives up; it submits `Retries` jobs behind a front
error before it resets.

`ScanShape` bounds records to 4 KiB (`Grids`). An image to load reaches its tiles on the way the
rows take; what a loaded tile does with it is not modelled.

### What the provenance model abstracts

A file is absent, empty (its writer was stopped behind the truncation) or has the content of some
version; the staged texts, the paths and the keys of a manifest other than what it is of and its
status are left out here (`VivadoContract` has them). The two reports and the session log are one
file. A step fails at any point between what it leaves behind, and a task that is killed fails in
its step: a Vivado that outlives its task is a second task. `builds` and `staged` are history: which
bytes are of which build. Of Vivado it is assumed that an implementation run that ends well has
written its bitstream, and that a project builds what is in it. With a relative work root the
packaged path of the bitstream is resolved a second time, against the manifest's directory, and
flash refuses; an empty key=value manifest passes `validate-vivado-artifacts` but nothing is
packaged from it.

In `VivadoContract` a text is a value and a manifest a function from its keys, which is what the
code makes of the lines. Paths into a bundle are compared by the file they lead to, as the code
resolves both sides; all others are compared as they are written. Where the code looks for a text
in another (`cd <root>`), what is found is that text or one that goes on from it: `Longer` says
which do. Scripts and lines that a plan has are found, ones that it has not are not. The
stream-job constants and the selected module, which are written and never read back, are left out,
and so is a definition whose items share a key with the contract (`DefinitionIsApart`).

A core is its module, its dependencies, whether it is generated or a package, what parameters it
accepts and the points it was measured at; its text is the version it was written or rendered of. A
registry, a request and a digest are values; two digests agree when all the texts in the closure
do. What Vivado measures of a text that has not changed, at the coordinates it was measured at, is
the registered number; of anything else, that number or another. `run` is history as well: what a
run read, and whether anybody edited it meanwhile. A lane's place is one site; the hook's per-lane
messages and the order of the cells in the design are left out.

The properties of core synthesis have two conditions of this kind: nobody edits the HDL between
Vivado's reading and the digest (without it TLC breaks `ReportIsTrue`), and no two cores
share a module, for scripts and reports are named by the module (`MCRegistry` has no such pair;
with one that a request selects TLC breaks `ReportIsTrue`).

Two things the code leaves to its user are conditions of the properties, as the field `clean` of a
build: nobody builds behind a staging that failed, and nobody edits the HDL while a build of it
runs. Without the first TLC breaks `BuiltManifestIsTrue` (the overlay is written before the
manifest, so a staging that stops between them leaves the new design under the old name); without
the second it breaks `FlashedIsTrue` (`shell_build_manifest` digests the sources after the build).
Tasks of one directory take no lock: with a second slot `FlashedIsTrue` breaks.

## 4. Runs

| run | configuration | shows |
|---|---|---|
| `executor` | 2 runs, 2 boards, one BDF in two spellings, failures, interrupts and kills that may leave the step behind, reboots | the lock, the prefix rule, the releases, the refinement of `BoardOwnership`; every run gets the lock and ends |
| `executor_orphan` | as `executor` (violation) | a step process outlives the lock of a run interrupted or killed |
| `session` | 2 runs, one hot-plug board, good and dead images, no step outlasts its run | power, deadman window, rescans, live endpoint on success |
| `session_killed` | 1 run of any plan, dead images that hang the rescan, the run may be interrupted or killed and its step go on | the deadman brings the board back |
| `session_deadman` | 2 boards (violation) | a disarm is host-wide, the lock is per board |
| `shell_table` | 1 entry, 2 generations, ids in and out of range, lengths on and off the grid, 1 lane | the promise, the row grid, done, the late reset |
| `shell_lanes` | no table, 2 lanes, tiles that fail as often as they like | clean starts, the reset, whole batches |
| `shell_live` | 2 lanes behind a table, one status per batch | every job ends |
| `shell_eager` | host polls as soon as its write is answered (violation) | done of the last job in the clock of `handle_go` |
| `fused_lane` | a draining stage that may be late, a silent one, the terminal tile | one close-out per batch, no failure swallowed, a late error reported, clean starts, every job ends |
| `scan_feed` | the 39 that are accepted of 960 candidate shapes, lengths on and off every grid, read errors, refusals, resets | the wires fit, good jobs saw every word once, clean starts, no whole job refused, every host hears |
| `provenance` | 2 versions, 2 builds, 3 boards, 5 cores, 8 requests, one task at a time, every step failing part-way | what flash and smoke-test accept is a finished build of what its manifest says, with its lanes placed; what is reported of a core is true of its sources. With it TLC evaluates what `PlatformSizing` and `VivadoContract` say over small inputs |

Bounds. The executor's and the session's runs need two runs to contend and two boards to interfere;
a run is one invocation, so a waiter is overtaken at most once. Every plan is in the requests of
`session_killed`, the ones that reprogram are in those of `session`. One table entry is enough for a
stale handle (two generations of the slot) and for an id out of range; two lanes are enough for one
lane to fail while another goes on. Lengths are words: 2 and 4 on a grid of 2, 1 off it, entries of
2 and 4. `PollDelay` bounds the only counter of the shell. `fused_lane` has one stage of each kind,
the draining one in front: what it starves or fails is then a silent stage and the terminal. The
safety properties also hold with two draining stages in a row and with the repository's own chain
(draining, silent, draining, terminal: `Terminal = 4`, `Draining = {1, 3}`, `Late = {1}`,
specification `Spec`).
Two builds of two versions give every pair of an old and a new result, and staging, failing and
validating in between is not bounded. The registry of `MCBuildProvenance` has what the rules tell
apart: a tile measured at two points, whose table is generated and takes a package, a generated core
measured at any clock, and a core that names no source for what it depends on; the requests select
one core or two, at a registered clock and another, with parameters that are accepted and not. Three
lanes are the fewest that can trade places in a cycle longer than a swap. `scan_feed` takes every
mix of the fan-outs and front stages over one and two lanes, three bus widths and records of 16 and
24 bytes (a power of two and one that is none); 8, 24, 32 and 48 bytes are one to three records or a
part of one, on and off the beat. One retry behind a front error is one job that must not pass for
good. The boards that the sizing is evaluated over have amounts around every rounding; the theorems
have the rest. The 240 projects that the contract is evaluated over take every pair of an invocation
with no mount root, one that the work root goes on from and one beside it, bundles with a top and
without, without sources and lost, with and without an injected definition and a staging task of
one's own. Deadlock checking is off where runs end for good (the executor and the session) and
where only a bound stops the model (`MaxBuilds`), and on for the shell, the fused lane and the scan
feed.

Fairness. Executor: each run's own steps are weakly fair, as a process that is scheduled, whose
step processes exit, and to which the kernel grants a lock that stays free. Session: only the
deadman fires; no step has to end. Shell: the clock runs (weak); a host that waits polls again and
again (strong, the aperture is busy in between); a read gets its last beat (strong: the length is
finite); tiles take beats, close, and give their status up (weak). Fused lane: the clock runs, the
batch is finite (strong: the reader may pause), a write is answered, a stage that has its whole
batch gives its last row or its status (strong: it may be held up meanwhile), the other lanes end.
Scan feed: each unit's own step is weak, since the clock never stops and a unit that can take a
beat takes it; the host polls, and gives up a job whose error it reads.
No fairness on resets, on the allocator or on submissions.

## 5. Proofs

`PlanExecutorProofs` proves for any runs, boards, spellings and plans: types, `RunExclusion`,
`OverlapNeedsOrphan`, `StepsNeedTheirPrefix`, `FailedRunReleases`, and the refinement of
`BoardOwnership`. The inductive invariant ties the lock's holder to the program counters, and the
set of started steps to the counter and the failure flag: the properties alone say nothing of a run
that is about to start a step.
`OverlapIsAnOrphan` rests on `ChildInv`: the run of a step process that is alive is inside its plan,
or was interrupted or killed.

`ShellJobProofs` proves for any lanes, entries, words and host inputs: types (`ShellTypes`);
`DoneMeansDone`, from the assumption that there is no table or the host waits three clocks
(`Patient`) — TLC's `shell_eager` shows the assumption is needed; and `TableKeepsPromise`, the
refinement of `JobGate`, in which a job is judged by the handle, generation and length that the host
wrote and by the grants of that clock, and by nothing else, from a table, such a host, and a host
that leaves a waiting job's registers alone — with `StagesEarly = TRUE` TLC breaks `GridEnforced`,
so that one is needed too. The inductive invariant `Control` says where a job is (start pulse,
table, go pulse, units, or over), that it is in one place only, and how many clocks it can be in the
first three; the step lemma `ControlTicks` is shared by all host actions, and `DoneIsQuiet` is used
inside the induction, since what the host does next depends on what it reads. From `Control` follow
`GridEnforced` (`GridIsEnforced`; with a table again only behind such a host), whose invariant
`Graded` keeps the verdict on a length until the units read it, and, with `Batches`, the three
properties of the lanes for any number of them: `JobsStartClean`, `ResetTakesNoRow`,
`GoodLanesAreWhole`. `Batches` says where a batch may still be: nowhere before the units start; in
every lane together with a unit that runs or is done; and behind a job that failed only until the
reset that is on its way. `HasLast` ties a lane that is closing to the reader: a tile closes on the
last beat only, so the reader is through or on that beat, which the lane has taken.

`HardwareSessionProofs` proves first that a session is an execution of `PlanExecutor`
(`SessionIsExecutor`, with no assumption), so that the executor's invariants hold of it. Its own
theorems have conditions, named at the top of the module, and section 6 has the behaviours that
break the property without them:

| theorem | property | of which hosts |
|---|---|---|
| `PathIsHeldAcrossReprogram` | `CardStaysPowered` | any boards, if a board's patterns match it alone (`PathsApart`) |
| `RecoveryRunsItsImageFirst` | `RecoveryRescansGood` | these, if a recovery holds the path or its bridges keep power (`RecoveriesHold`) |
| `RiskyWindowIsCovered` | `WindowIsCovered` | any boards, if the sram-program runs are all for one (`OneSramBoard`): the host has one deadman |
| `EndpointsAreNeverStale` | `NoStaleEndpoint` | one board (`OneBoard`), since a rescan is host-wide; endpoints spelled as sysfs does (`Spelled`); every plan but the bare build-and-program (`NoBareBuild`), which removes nothing |
| `SuccessMeansAlive` | `SuccessIsAlive` | one board, endpoints spelled so, and no second device of its id (`IdsApart`) |

All assume that no step goes on working when its run was interrupted or killed (`NoneOutlasts`: the
orphan would act beside the next run). All
but the third assume that every request names its endpoint (`Locked`, or `Spelled`, which implies
it), since a plan without one runs without a lock; an sram-program cannot be composed without one
(`SoleSram`). The assumptions are about requests and hosts, never about states. The argument is the
same each time. A lemma about the composed plan says what comes before what (`HoldsFirst`,
`RemovesFirst`, `ProgramsFirst`, `SramOrder`, `OnlySramArms`), the executor says that a step has
started only if all before it have succeeded, and the invariant (`HoldInv`, `RecoverInv`,
`DeadmanInv`, `RemovedInv`, `LiveInv`) says what is true of the card once they have. That it stays
so between two steps is where the lock comes in: whatever else moves (another run's step, a suspend,
the deadman, a reboot) is shown to leave this board's card alone or to end its run.

`FusedLaneProofs` proves for any chain of stages, silent and draining, with any of the draining ones
late: the inductive invariant (`LaneInvariant`), and from it types and `StartsFresh`, with no
assumption; and from `QuietError` the refinement of `OneCloseOut` (`LaneKeepsOneCloseOut`), in which
a job begins as failed when an error is raised in the clock of its `job_start`. "What the lane model
abstracts" above says what breaks without `QuietError`. The invariant is about the place where a
batch is: while the lane runs and no draining stage has failed, its end is in exactly the stages
that everything in front of is through with, what lies behind a stage that has given nothing is at
rest, and an empty close is latched only once every stage is through. A stage that is through may
still owe a late status (`Gone`), but nothing else of a job is left when the next one starts.

`ScanFeedProofs` proves of every composition, with no assumption but its type: a shape that is
accepted gets nets with one driver and one taker of their width (`AcceptedIsCoherent`), feeds its
lanes whole words, and brings an image to load to every lane unchanged (`AcceptedLoadsWhole`); a
length the gate lets pass is whole beats (`GateHoldsBeats`), and none of whole records and beats is
refused (`GateTakesWholeJobs`), which rests on the arithmetic of powers of two up to `Grids`; and
up to 118 lanes every register answers alone (`RegistersAnswerAlone`), while with 119 a lane's
window runs into the debug registers (`OneLaneTooMany`). It carries the first over to
every state of the row stream (`ShapesFit`, `WholeJobsTaken`: the invariant is that the composition
is one that is generated and that `length_fail` follows the gate), and proves its types
(`FeedTypes`), for which the invariant must say that the reader is always a whole number of beats
from its end, as the gate lets nothing else pass.

Its deepest theorems are `GoodJobsAreWhole` (`GoodJobSawEverything`) and `BatchesStartFresh`
(`StartsFresh`), of every composition with any number of lanes and with no further assumption.
`FlowInv` says that a job is either fresh, streaming or closing. While it streams the batch's end is
with one unit, the units before that one are empty, and the words balance: what the reader has sent
is what the front stages and the partitioner hold and what the lanes have counted, scaled by what a
front stage makes of a word. Under a partitioner the lanes' words add up, under a broadcast each
lane has them all. While it closes, all of them have arrived, or a torn row spoils every lane. There
is one lemma per action. The words of all lanes are summed by a fold over a set of any size, whose
recursion no prover here can unfold by itself: `SumExists` finds the function the fold chooses, by
taking the smallest set without one (the theorems on well-founded orders give it, without an
operator as parameter), and `SumAdds` and `SumKept` are all that the actions need of it.

`PlatformSizingProofs` proves that exactly the lane counts up to `max_lanes` fit, for every board,
lane and overhead (`CeilingIsExact`), and that a valid board builds with a shared tier
(`MemoryOfValidBoard`).

`BuildProvenanceProofs` proves of overlays and projects `FlashedIsTrue`, `BuiltManifestIsTrue`,
`PackagesWhatIsStaged` and `LanesAreVerified` for any versions, boards, transceivers and number of
builds. It assumes that the tasks of a directory take turns (`OneTask`; with two slots TLC breaks
the first), and of files that what is missing or empty is no content (`FilesAssumption`). The
inductive invariant has one part for each kind of directory. For a work root it says of a running
task what its next step may rely on: the overlay and then the manifest are of the version being
staged; from the overlay session on, the project is the staged design and the status is no longer
"built"; from synthesis on the build's number is of the staged version; from the implementation on
the bitstream is its own. The status line and the packaged manifest then tell the truth because they
are written, or the bitstream replaced under them, at no other point. `IsOf` holds of unclean builds
too, so nothing need be known of what an interrupted staging left.

`HookAlwaysPlaces` is `HookPlacesLanes`: the hook that sets the sites of a board's lanes, one after
the other and over whatever they hold, ends with every lane where the board has it, if the board
lists no lane twice (`LanesPlacedOnce`) and gives real sites (`BoardsAssumption`). The hook is a
fold over the placements; the invariant of the fold, that the lanes placed so far stay placed since
each step only takes a site from a lane that is still to come, is proved by the first placement to
break it.

Of a core synthesis directory it proves `ReportIsTrue`, `JudgesTheRegistry` and `SelectedIsFresh`
for any registry and requests, from `OneTask`, `OneCorePerModule` and, of requests, that they are
sequences of cores (`RequestAssumption`). The invariant follows a run: the plan of the task has the
shape that `StepsOf` gives it, what is staged is of the step's own core and request, what Vivado
read is what is staged and, unless edited, what is there still, and the verdict is that of
`Outcomes`.

`VivadoContractProofs` proves for any request: a staged project passes validation, and again behind
the lines its overlay session appends (`StagedProjectIsAccepted`); once it says it is built, it
passes exactly if the four files it names are there (`BuiltProjectIsAcceptedIfThere`); the plan runs
only scripts that staging wrote exactly if no mount root is given in vain
(`PlanRunsWhatIsWritten`), and such a mount root is refused unless the work root's path goes on from
it (`UnusedMountRootIsRefused`); the recorded stage command writes the backend manifest again but
for the four output files (`ReplayStagesTheSame`). The argument is one lemma, that whatever has run
since, the manifest has the staged value under every key of the contract but the status
(`LeftLike`), and under it one lemma per validator.

Only model-checked: liveness (`EveryRunEnds`, `WedgeSelfRecovers`, `JobEnds`, `LaneEnds`,
`LateErrorIsReported`, `HostHears`), which no prover here takes, and the invariants of the three
runs that end in a violation. Every other property of a run is a theorem. What the theorems rest on
besides their own hypotheses are the assumptions on constants in the modules, which every run
evaluates.

## 6. Disagreements between code and text

Three runs end in a violation on purpose; each is a place where the code and a comment, docstring
or document of the repository disagree, quoted in `PROJECT.json` under `findings`.

One more was found and has no run, since a glance at the plan shows it: `build_and_program_plan`
always runs `vivado-build` (`hardware_plan.py:191-199`), while
`docs/how-to/program-hardware.md:79-82` says of `plans/build-and-program` with a bitstream of one's
own that "it skips staging and the Vivado build".

With a table, a job's length is judged at `job_start` (`scan_composition.py:1451`) and read by the
units at `handle_go` two clocks later, while a generated comment says that "the row grid is enforced
before any unit starts" (`scan_composition.py:2066`): `MCShellJob` with `StagesEarly = TRUE` breaks
`GridEnforced`.

`docs/how-to/program-hardware.md:125-134` says of flash and smoke-test that they "consume the
manifest and verify the bitstream digest before touching the board" and that "both require
`build_status=built` when given a manifest". Flash, given a bitstream of one's own beside a packaged
manifest, checks neither (`build_steps.py:605-606`); smoke-test never compares a digest and cannot
read a packaged manifest (`build_steps.py:641-662`).

A BDF in upper case is the lock's own board (`device_lock_path` folds it,
`hardware_plan.py:850-852`) but no device of sysfs: the tolerant removal (`hardware_plan.py:645`)
removes nothing, and the endpoint stays enumerated over a new configuration. `MCHardwareSession`
with `Requests <- Spelled` breaks `NoStaleEndpoint`.

"A generated core is never synthesized from a stale file" (`render_cores.py:8-10`) holds of cores
that are selected, and `SelectedIsFresh` is about those. One that is only depended on is read as
it lies in the render root: a process that renders and selects `exp` and selects `scan`, whose
`table` an earlier process rendered with another configuration, reads the old table. Without
`Selected(...)` in the property TLC finds that behaviour.

The comment over the fused error latch says that "an error missed here is gone for good: CAPTURE
OUTRANKS the per-job clear" (`scan_composition.py:785-786`). The capture needs the latch down (line
808), the clear does not: two late stages of one lane, the first failing between the lane's
close-out and the next `job_start` and the second in that clock, leave the latch down and no job
reports either. `MCFusedLane` with `Draining = {1, 2}` and `Late = {1, 2}` breaks
`LateErrorIsReported`. The first of the two errors, by itself, is cleared unread as well, which the
comment does not speak of.

Nothing refuses the 119th lane of a composition (`OneLaneTooMany`): its registers and the debug
registers answer at the same offsets.

`docs/how-to/run-a-build.md:61-64` says that validation checks "that the staged plan is internally
consistent". With `vivado_invocation=standard` and a mount root the plan runs driver scripts
(`vivado_backend.py:1054-1058`) that are written only for `source-only`
(`vivado_backend.py:265-266`). Validation refuses it for another reason, that the plan does not
change to the mount root, but looks for that as a text (`vivado_backend.py:975`): with a mount root
above the work root, the usual case, it finds one and accepts. `MountIsFound` is that condition, and
`RunsWhatIsWritten` says when the scripts are missing.

The recorded stage command has no option for the bitstream, the reports and the log, so a replay
gives them their defaults (`ReplayStagesTheSame`). It does stage the shell again, whose
`rsync --delete` (`hardware_plan.py:821`) removes the project manifest from the work root, and
stages an overlay, not a project: the validation that the project manifest records misses the
manifest it is recorded in.

`session_deadman` stands for a family: the lock covers one board and several steps act on the whole
host. The constants of `MCHardwareSession` show the others, two boards each: `Requests <- Both` and
`NoStaleEndpoint` (another run's host-wide rescan brings an endpoint back between its removal and
its programming); `Requests <- Sharing`, `Matches <- Together` and `CardStaysPowered` (a release
drops the hold of every board its patterns match); `Requests <- DeadImage`, `Twins <- Together` and
`SuccessIsAlive` (the endpoint check is answered by another board of the same id). On one board, an
unlocked `thunderbolt-release` (no endpoint in its request) breaks `CardStaysPowered` and
`RecoveryRescansGood`, a recovery without patterns breaks `RecoveryRescansGood` on a card whose
bridges cut its power, and a build-and-program of its own breaks `NoStaleEndpoint`. With two runs of
which one may leave a step behind (`Outlasting = {r1}`), the orphan also breaks `WedgeSelfRecovers`
and `RecoveryRescansGood`; that is `executor_orphan` seen from the bench.

## 7. Not modelled

The components of section 1 that no module names, with the reasons in `PROJECT.json`. Build tasks,
their CLI, the build spec, the simulation profiles and the publish inventory resolve a
configuration or list files and end; the SystemVerilog parser and the tile contract turn syntax
trees into port lists. None of these keeps state that a second call could find wrong, and their
results are compared by the repository's tests. The artifact bundle, the simulation harness and the
CAM have a little, and are what is left of the plan. Of the modelled components left out are: the
wording and naming of all emitted text, the read-back of counters and debug taps, paths and keys of
manifests beyond the ones named above, and the command plans that only a person runs.
