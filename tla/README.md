# riscv-mbt in TLA+

A model of the RISC-V emulator in this repository (MoonBit, one library package
and a few command-line and browser front ends): the parts of it that keep state
and interact, checked with TLC on small instances, and theorems about them that
TLAPS checks for every value of their constants.

## The system

One `Runner` is one hart with its view of the machine. `make_runner` builds a
machine of one; `make_smp_runners` builds several that share RAM, UART, PLIC,
CLINT, block device and the table of LR/SC reservations. Nothing runs in
parallel: the embedder calls `step` on each runner in turn, so that a step is
atomic and harts interleave by whole instructions. The concurrency is that of
the guest's harts, of devices that change state inside another hart's store,
and of the host, which pushes input and loads images between steps.

Around the library stand programs that share state with it or with each other:
the browser page, whose callbacks interleave with fetches and with a person; a
Python probe that runs this page in a headless Chromium, with an HTTP server of
its own; and the tools that write and read the device tree the guest boots with.

| Component | State | Operations | What makes it right |
|---|---|---|---|
| Privileged hart (`riscv_execute`, `riscv_platform`, `riscv_decode`) | privilege, pc, `mstatus`, `mie`, stored `mip`, `mideleg`, `medeleg`, `xtvec`, `xepc` | trap entry, `MRET`/`SRET`, CSR instructions, interrupt choice, `WFI`, `ECALL` | saved contexts survive, privilege rises only through a vector, supervisor views never reach machine state, delegation and enables respected |
| Reservations | per-hart physical range | LR, SC, and every path that writes RAM | an SC succeeds only on an untouched range; loops make progress |
| Sv39 | page tables in RAM, per-hart translation cache, table of remembered page-table pages | walk with A/D update, cached translation, flushes | the cache answers what a walk would |
| virtio-blk | queue in RAM, 16 registers, disk image, per-runner read cache | notify, acknowledge, reset, image load | each request answered once, in order, on current data |
| PLIC | priority, enable, threshold, claimed | claim, complete, register writes | one server per source, no lost signal |
| CLINT and WFI | `mtime`, `mtimecmp[h]`, `msip[h]` | word stores, sampling at each step, fast-forward | no early or missing timer, monotone time |
| UART | queue of input, IER, LCR, output | register reads and writes, host push and clear | input raises its source until read; every byte passes once, in order |
| Bus and dispatch | RAM words | loads and stores by physical address | ranges do not wrap |
| Step, fetch, decode cache, counters | decode cache, `mcycle`, `minstret` | `step`, `FENCE.I` | a cached decode is that of the word fetched; retirement counted once |
| Decoder, integer, FP, vector | registers | pure operations, vector configuration and memory | agreement with the ISA |
| Browser runtime and page (`cmd/browser`, `browser_demo/browser.js`) | runner, console text, running, artifacts; automatic input sent and expected, DOM | init, tick, step, run/pause, reset, load Linux, submit | one console for one runner, input once and after the prompt, a halt that holds |
| Browser Linux probe (`tools/browser_linux_probe.py`) | stage of `main`, server process, dumped DOM | serve, connect, browse under two clocks, clean up, judge | a verdict about this guest; nothing left running |
| Device tree tools (`tools/build_minimal_dtb.py`, `tools/dump_dtb.py`) | structure block, string block, offsets; position of the reader | builder methods, the tree, the reader's loop | what is read is what was described |
| ELF loader, command-line probes, other tools | image; budgets | parse; run and print | ranges |

The hard behaviours, each with its line in `PROJECT.json` under `hazards`:
nested traps and returns in unusual orders; state shared between harts but
cached per runner (translations, page-table pages, disk sectors); reservations
that some write path forgets; level-triggered interrupts acknowledged in one
order and completed in another; indices that wrap; a compare register written
in halves while every hart can move the time; the page's callbacks, which read
the console at one moment and act on it at another, while fetches replace the
guest; a browser, a server and a port that each can fail or be late; two programs
that must agree on padding without sharing code.

## Modules

- `Hart`: one hart. `Step` is `Runner::step` without fetch: `update_timer`
  samples the lines into mip (`SampledMip`), then one of `TakeInterrupt`, an
  exception, a return, or a CSR instruction (`CsrInstr`). Between steps
  `Devices` changes the lines. Status registers
  are sets of bit names, CSR arguments come from small sets; a pc is a label.
  `saved` and its like are history: what the last trap saved.
- `Reservations`: RAM cells, `lr_sc_reserved_*`, and one action for each path
  that writes: `Store`, `Amo`, `Sc`, `DeviceStore` (block device), `VectorStore`,
  `PteUpdate` (A/D bits) and `HostWrite` (`load_program_u64`, `write_memory_bytes`
  and `load_dtb`, which an embedder may call between steps). The last three do not
  invalidate, as in the code; `Bypassed` names the cells they may write, and the
  properties speak of the others.
- `LrScLoop` extends it with guest threads: retry loop and context switch with
  the dummy SC that the comment on `execute_mret` asks of software.
- `Mmu`: `Access` is a miss of `translate_cached` (record the walk, walk, set
  A/D, fill); a hit changes counters only. `Store` is a guest store with the
  `store_touches_known_page_table` flush; `DeviceStore`, `HostStore`,
  `SfenceVma`, `WriteSatp`, `SetContext` are the other ways state changes
  (`load_dtb`, which flushes nothing, has the effect of a `DeviceStore`).
- `DiskSpec`: the abstract block device, a queue of requests and a queue of
  answers. `VirtioBlk`: the device of the code, with `Notify` folding
  `ProcessChain` over the avail ring as `virtio_blk_process_available` does.
  `Plic`: the controller. `DiskPath` composes the two with a driver, and defines
  the refinement mapping: `queue` is the avail ring between `lastAvail` and
  `availIdx`, `done` the used ring between the driver's index and the device's.
- `Timer`: each action is one whole step of a hart (time advances, MTIP and
  MSIP are sampled, an interrupt is taken or an instruction executed).
- `Uart`: the 16550 as operators on its state: `RbrRead`/`AfterRbr`, `WriteThr`,
  `WriteIer` behind the divisor latch, `Iir` with its priority, and the host's
  `PushInput` and `ClearOutput`. `Browser` and `DiskPath` hold its state.
- `Browser`: the runtime and its page. A callback that runs the guest is begun
  (`BeginTick`, `Step`, `Submit`), lets the guest take steps, and ends
  (`EndTick`, `EndRun`) with everything the JavaScript does after the Wasm call;
  other callbacks are one action. `Fetched` is the stretch of `loadLinuxArtifacts`
  from one answer to the next `await`, which is where other callbacks come in.
  Console text is a sequence of tokens for the texts somebody looks for.
- `Probe` extends it with the probe, its server and the stranger who may take the
  port. In a behaviour either a person opens the page or the probe does.
  Outcomes keep apart what the program's exit status merges.
- `Dtb`: `DTBBuilder` and the loop of `dump_dtb`, on a blob that is a function
  from offsets to items; what stands between items cannot be read. `AnyTree` lets
  any program call the builder. `DtbTree`: the calls of `build_minimal_dtb` for
  a command line of the set `CommandLines`, then the dump. A bad initrd range, or
  a number that `struct.pack` has no room for (`Packed`, with the largest numbers
  `Max32` and `Max64`), ends in the exception.
- `MC*`: values for the constants. `MCHart` also puts three instances of `Hart`
  side by side, chosen by `profile`, and `MCReservations` takes any program of
  `Reservations` or the threads of `LrScLoop`, chosen by `program`; its
  `LoopsLoseNothing` and `LoopsProgress` are `NoLostUpdate` and `SomeScSucceeds` of
  that module. `*_proofs`: theorems.
- Operators with an underscore in their name (`Hit_AnyAccess`, ...) are wrong
  variants of the definition that follows. No specification uses them; a
  property is trusted only if replacing the definition by its variant breaks it.

The drivers, idle loops and thread programs are external: they are what the
code's comments, probes and Linux expect, and properties of them are properties
of the code under that use.

## Runs

| Run | Instance | Shows |
|---|---|---|
| `hart` | three profiles: M/S/U with exceptions only; M/S/U with the supervisor external line, delegated or not; M/U with two machine interrupts | contexts, MPRV, privilege, interrupt choice, views, SEIP, modes of the profile |
| `hart_machine_only` (violated) | M only | the reset value of MPP |
| `reservations` | 2 harts, 6 cells; any program with stores of 1, 2 and 4 cells, or 3 threads with a counter mod 2 and 3 switches | reservations; no lost update, progress |
| `reservations_vector` (violated) | one vector cell | vector stores |
| `mmu` | 2 harts, 2 levels, 2 tables, 2 virtual pages in one cache set, 4 contexts | coherence of the cache |
| `mmu_slots` (violated) | both tables in one slot | forgotten page-table page |
| `disk` | 2 harts, 2 sectors, queue of 2, indices mod 4, read-ahead of 2, 4 requests | refinement, service, liveness |
| `disk_smp` (violated) | both harts notify | stale read cache |
| `timer` | 2 harts, words of 4 values, time to 12, 2 sends | deadlines, time, liveness |
| `dtb` | 5 kernel command lines, 9 initrd options, with and without the block device; each number once too large or negative | writer and reader agree, references, bad ranges and numbers |
| `console` | a person with 2 clicks at 2 pages, or a probe with 11 command lines | console and input in order, halt, verdict, clean-up |
| `console_response` (violated) | the documented interactive smoke | the terminal's echo passes for the answer |

Why the bounds are enough. Two harts are the fewest that interact, and every
interaction in the code is between the hart that steps and one other
(`clint_max_harts` is 2). Two levels of tables have a pointer, a leaf and a
superpage, misaligned where the second table is the root; two pages in one cache
set collide; four contexts differ in the mode alone, in SUM alone and in MXR alone,
over pages that a user may read, may only execute, or has no right to. A queue
of two whose indices wrap at four wraps both ways within a few requests, and a
batch can be empty, partial or full. Read-ahead of two covers a hit in the middle of
the cache; the requests are a read and a write that begin in the last sector and go
past the end of the disk, a torn write, and one of a kind the device does not know. Words of four values with deadlines in different high
words give half-written values on either side of both (a guest arms its timer from the unset value only:
its handler disarms first, and cancels no deadline). Three threads on two
harts are needed for a hart to meet another thread's reservation. The kernel
command lines have every length modulo the word size, which is all that padding
depends on, and one is empty. The probe's command lines have each mode, a command
that holds its marker and one that prints what it does not hold, a manifest
without an initrd, a text of `--expect`, and a page that looks at its console at each tick or at every
second one. The named bounds are `MaxSwitches` (context switches), `MaxTime`
(time stands still there), `MaxSends` (software interrupts; one outranks the
timer, so an endless flood of them would starve it), `Modulus` (counter) and
`MaxClicks` (what a person does at the page; two are enough to reset, toggle or
load while a load is on its way, and to submit a line to what results).

Symmetry is used in `mmu` only, on harts, with invariants only.
Deadlock is checked in every run but three: in `dtb` both programs end, and in
`console` and `console_response` the probe exits or a person has clicked all they will.

Fairness. `LoopSpec`, `PathSpec` and `Timer!Spec` assume weak fairness of each
hart's steps: embedders step every runner in turn (the SMP loop in
`riscv_execute_test.mbt:18766-18785` does). The disk path also assumes that the
kernel finishes its boot writes, sets the queue up and notifies after it
submits (or resets). Nothing is assumed about the host, resets or requests. The
supervisor external line is not masked for ever by the guest. `DtbTree!Spec`
assumes that the two programs run to their ends. `Probe!Spec` assumes weak
fairness of `main` and of the clocks that bound what it waits for: the virtual
and the wall time of Chromium, and the five seconds each for the server to answer
and to end; and that a killed process dies. The server may never start and may
ignore its termination, the page and the guest may hang, and the probe must end
all the same.

## Where the code and its documents disagree

Five runs end in a violation; each is a step sequence of the code against a
sentence of the repository, quoted in `PROJECT.json`:

1. `hart_machine_only`: reset leaves MPP = U on an M-only profile; the first
   MRET enters user mode.
2. `reservations_vector`: vector stores do not invalidate reservations.
3. `mmu_slots`: the 256-slot table of page-table pages forgets a page on
   collision without flushing; the hart that later edits that table keeps the
   old translation until an SFENCE.VMA.
4. `disk_smp`: the read cache is per runner, the disk is shared.
5. `console_response`: the browser smoke is documented to require the shell's
   response. The command it types holds the marker, the terminal echoes it, and the
   page halts and the probe reports success on the echo. `ResponseSeen` is the
   documented promise. `VerdictSound` is what holds instead: a guest that *ran* the
   command if the command does not hold its marker, else one that printed its prompt
   and read the command. (The command-line probe's functional smoke prints its marker
   in octal for this reason; the browser probe's types it.)

Seen while modelling, with no sentence of the repository against them, and so
written into the properties as they are:

- The probe checks the combination of its options after it has started the
  server; a usage error leaves the server running. `ProbeEnds` excepts it.
- A trap stops the guest, and the page looks at the console only on ticks of a
  running guest: unless the tick is one of every `syncEveryTicks`, the trap
  never reaches the DOM. In the smoke modes the probe then reports a missing
  text where its exit status for a trap would say more.
- A reset does not cancel a load on its way: artifacts that arrive later are kept,
  and Linux boots if the three it needs arrived after the reset.

## Proofs

These hold for every value of the constants, under the `ASSUME`s of the modules,
which TLC evaluates in every run, and three hypotheses that the theorems name
(`OwnSlots`, `OneRunner` and `MarkerLast`, below).

`Hart_proofs`: the inductive invariant is `HartInv`: types, the status register
never holds an illegal MPP or a misplaced MPRV (`StatusInv`), delegation only
with supervisor mode (`DelegationNeedsS`), modes within the profile when it has
user mode (`ModeInv`), and the stored SEIP bit. `StatusInv` is what makes it
inductive: MPRV is cleared by a return according to MPP, so MPP must be known to
be legal, and the saved context must be known to be the status register's.
One lemma per action; `Typing`, `MprvConfined`, `ContextsKept`, `SeipStored` and
`ModesWithinProfile` follow. The last assumes `HasU`, and `hart_machine_only`
shows that it has to. The three action properties rest on one case distinction
(`StepKinds`): a step is a trap, whose target and saved context `TrapFacts` gives,
or does not raise the privilege and, below M, keeps what belongs to M.
`OnlyTrapsRaise` and `MachineStateKept` follow; `InterruptsPreempt` adds that a
step takes the interrupt it must take first.

`Reservations_proofs`: `Untouched`, from the invariant that `touched` stays
inside the reserved range and meets it only in excepted cells; the core is that
two ranges overlap by their ends exactly when they share a cell. What bypasses the
reservations (vector stores, A/D updates, the embedder) is excepted by cell. The same fact,
read the other way, gives `LostToOverlap`: a reservation that a write ends meets
the range written. `LrScLoop_proofs`: `NoLostUpdates`, from the invariant that a
thread past its LR whose hart still holds the reservation of the counter has read
the counter's current value. These hold for every number of harts, cells, threads
and widths.

`Mmu_proofs`: `CacheCoherent`, `MarksNotHidden` and `AnswersCorrect`, for every
number of harts, levels, tables and pages. The invariant (`EntriesSound`) says of
each entry of a hart that owes no fence that its key still translates to its
address, that its leaf has the marks its access sets, and that *every table on
its walk is in its slot* of the hart's remembered pages. The last part makes it
inductive: a store of this hart to one of these tables finds it remembered and
flushes, a store to another table leaves the walk as it is (`ElsewhereWalk`), and
an A/D update changes no walk (`MarkedWalk`). That `Path`, a recursive function of
the level, exists and is the walk (`DescentExists`, `PathIsWalk`) is an induction on
the level by a least counterexample, since the library's induction rules are out
of reach. The theorems assume `OwnSlots`, that no two page-table pages share a
slot; `mmu_slots` shows what happens without it.

`DiskPath_proofs`, for every queue size, index width, disk, read-ahead, number of
harts and set of requests:

- `HandlersInv` ties the PLIC to the driver: what is claimed is what some handler
  serves, and by one only. `OneServer` follows.
- `DiskInv` describes the rings: the chains between the driver's and the device's
  index are distinct and hold the requests that wait, those in the used ring the
  answers not collected, and together they fit into the queue, by a pigeonhole
  argument on the heads in use. A notification is a fold over the batch; the proof
  unrolls it as a chain of states, one for each request served. `Typing`
  and `NoAnswerMissed` follow.
- `CacheInv`: the read cache is a piece of the disk. `ReadsCurrent` follows.
- `DevicePromised` is the refinement: the boot maps to the abstract device's first
  state, a submission to its `Submit`, a notification to its `Serve` of
  the whole batch, a collected answer to its `Collect`, and all else to a stutter
  or to one of the host's actions, one lemma each.

The last two assume `OneRunner`, that a single runner notifies the device and
loads images, since the read cache belongs to a runner; `disk_smp` shows that two
break it.

`Timer_proofs`: `NotBeforeDeadline`, `SleepSuffices` and `TimeMonotone`. The
invariant says, for each place of the guest's program (the interrupted place,
inside a handler), what the compare register holds there: nothing, the deadline,
or the deadline's high word with the low word at its maximum, which is never
below the deadline. `TimeMonotone` is the theorem of `NoOversleep`: a step moves the
shared time on by one, or is a WFI, whose leap ends before the sleeper's deadline. The
invariant needs `target <= MaxTime` and that interrupts are off
outside those places.

`Dtb_proofs`: for every program of builder calls, with names and values of any
length. The invariant is that a chain of tokens covers the structure block: each
token stands at a multiple of four, has the words and texts it announces right
after it, and the next token, or the end, where the reader's rounding will take
it. `RoundingAgrees` is the heart of it: rounding up a position past aligned data
is padding the data. `StringTableAlwaysSound` and `NeverLost` follow, and, since
`build_minimal_dtb` is such a program (`TreeIsAnyTree`, an implementation of the
open specification `AnyTree`), both conclusions for every command line, also those that end in an exception. The
assumption `TextsAssumption` says that `Texts` holds the names and values of the
tree, and that a value of no bytes is of no texts.

Of that program the same module proves more, `ReadBackHolds` and `TypesHold`. The
invariant (`TreeInv`) gives every call of the builder its place in the structure
block, each call leading to the place of the next (`Chain`, `Written`); the reader
stands at one of these places and has printed the lines of the calls before it,
at the level they leave (`ReadUpTo`). `TokenTurns` is the step: from a call's place
the reader prints the line of that call and goes to the next. Lines are found by
counting (`Rank`, `LineFound`), levels by counting nodes opened and closed; that no
level is ever below zero, and the last is zero, is a property of the calls, built
up node by node (`NestedJoin`, `NestedNode`, `CallsNested`) and carried over to
the counts by a least counterexample (`DepthsAreLevels`).

`ReferencesHold`, the theorem of `ReferencesResolve`, takes up from there: in a whole
dump each line is that of one call (`RankMeets`, `LineSays`), so what the calls set is what the lines show. A sequence
of calls has a census, the phandles it sets and the phandles it names
(`Census`), and provides a controller if a node in it has both a phandle and the
property `interrupt-controller` (`Provided`); both are found for parts put
together and for a node around a body, and so for all calls whatever the options
(`CallsCensus`). That `Owner`, which looks only at depths, finds the node the call
was made in is `OwnerFound`: levels between the two stay above that of the node.

`Probe_proofs`: for every page, command line, line a person may submit and
number of clicks, `Typing`, `OutputKept`, `InputKept` and `HaltHolds`; and
`VerdictHolds` for every command line that satisfies `MarkerLast`. The first
two need types and `Streams` (console and output queue make up what was written,
what was read and the input queue make up what was pushed), since every step of
the guest, tick, fetch and reset moves a token over or starts both sides afresh.
The next two need `Alone`, what a page knows that only its url drives: until
Linux boots, the smoke guest waits for an input that does not come, so nothing
can be sent or expected too early; Linux boots once, so no load is under way when
the page halts; and what is pushed or expected later is not undone.
`VerdictHolds` follows the marker from the guest to the exit status: what the guest
has read is a beginning of the line (`LineInv`), whatever it has written so far is
accounted for by that (`Founded`, `HeardInv`), the DOM and what Chromium dumps
of it show no more than was written (`SeenInv`), and `main` judges that dump
(`MainInv`). `MarkerLast` excludes commands with the marker in the middle: those
are echoed before they are read to their end, and then the promise is false. TLC
checks on the instance that its commands satisfy it. The attempt to prove this
also showed that `Verdict` was written with a `CASE` whose guards overlap, which
leaves its value open; the code's order of tests is now an `IF`/`ELSE` chain.

Only model-checked:

- liveness, which the prover does not treat: `LoopsProgress`,
  `RequestsAnswered`, `TimerExpires`, `WorkGetsDone`, `Completes`, `ProbeEnds`;
- `ProfileModes`, which chooses between three profiles in the MC module (for each
  profile with user mode it is `ModesWithinProfile`).

## Not modelled, and the plan

Left of the plan, in this order:

1. `Fetch`: cross-page and compressed fetch, the decode cache and FENCE.I,
   retirement and the counters (one retirement per instruction; no cached decode outlives its raw
   word). Two listed hazards wait for it.
2. `Vector`: configuration, masks, and memory instructions that check all
   elements before they commit the first.
3. Trap-and-delegate CSRs (TVM, TW, TSR, counters) in `Hart`; sub-word and `mtime`
   stores in `Timer`; ring addresses at the end of RAM in `VirtioBlk`.
4. Proofs: a numbering of lines for any program of builder calls, from a history
   of the calls.

Left out on purpose. Decoder, integer, floating point and the ELF parser are
pure functions of wide words or of one file: nothing connects their calls, and
the repository compares them with reference tests. The command-line probes and
survey tools, `resolve_hot_pcs.py` and `check_doc_links.py` read files and print.
In the page: hot-PC sampling, status and progress texts, and the `smokeInput`
parameter, which no probe uses. Everywhere: the diagnostic counters, addresses as
64-bit numbers (their wrap-around is a listed hazard), and PLIC contexts other
than 0 and 1, which the code never looks at.
