# phase-vm in TLA+

This directory is a verification project for phase-vm: a reversible virtual
machine, the tools that read, run and rewrite its programs (parsers, debugger,
decision journal, optimizer, compiler) and the programs built on the same idea
(a key-value server with undo, a crash-consistent process, rollback netcode,
capsules, arenas, an asset loader over io_uring, allocators, a file system that
can be taken back). The modules are
translated from the source; every definition that models code is listed with
its file and lines in `PROJECT.json` under `map`.

How to run: `tlc -config X.cfg M` for a run of `PROJECT.json`, `tlapm M.tla`
for a proof module.

## 1. The system: components, state, operations

| component | source | state | operations | modelled in |
|---|---|---|---|---|
| instruction set | `src/inst.rs`, `src/state.rs` | register file, word memory | `exec`, `inverse`, `operand_alias` | `PhaseInst` |
| machine | `src/machine.rs` | job stack of an iterator; machine state | `iter_forward`, `iter_reverse`, `run_forward`, `reverse_n`, `reversible_suffix_len`, `leaf_at` | `Machine`; for its callers `LeafRun` |
| static check | `src/lib.rs` | counters of a report | `check` | `Machine` |
| debugger | `src/main.rs` 349-566 | `pos`, machine state, breakpoints | `f b c g br bd` | `Debugger`, `DebuggerHistory`, `SnapshotDebugger` |
| command line | `src/main.rs` | machine state | `run runrev rev roundtrip cipher` | `CommandLine`, `Kernels` |
| decision journal | `src/ctl.rs` | machine state, journal | `forward`, `reverse`, `reverse_checked` | `DecisionJournal` |
| program text | `src/program.rs`, `src/ctl.rs` 48-115 | stack of open blocks | `parse` | `ProgramText` |
| optimizer | `src/opt.rs` | instruction list | `optimize` | `Rewriting` |
| compiler | `src/aot.rs` | generated functions | `codegen`, calls of `phase_fwd` and `phase_rev` | `Rewriting` |
| patch | `src/patch.rs` | lines, running shift | hunk by hunk | `Rewriting` |
| arena | `src/alloc.rs` | buffer, mark stack | `alloc push_mark rollback commit reset` | `Arena`, `ArenaClient` |
| io_uring | `src/uring.rs`, `examples/phase_uring.rs` | rings shared with the kernel, iovecs | `enqueue_read submit wait`; `submit_nops reap` | `IoRing` |
| game loop | `examples/game_alloc.rs` | arenas, assets, a frame | load, wait, frame, end | `AssetLoader` |
| capsules | `src/cap.rs`, `examples/capsule.rs` | an exported state | export, damage, import, go on elsewhere | `Capsule` |
| ETL, batches, images | `examples/phase_etl.rs`, `batch_tx.rs`, `phase_img.rs` | table; accounts; image and journal | parse, A/B sweeps, filter; batch or abort; edit and undo | `Etl`, `BatchTx`, `CommandLine` |
| formulas, cipher, synthesis | `src/pmath.rs`, `src/cipher.rs`, `src/synth.rs` | a kernel and its state; a frontier | compile and run; encrypt and decrypt; search | `Kernels` |
| phase-server | `src/phase_server.rs` | map, undo log, open transaction | `SET GET DEL BEGIN COMMIT ROLLBACK UNDO`, snapshot and load | `KV`, `PhaseServer`, `VersionedStore` |
| phase-guard | `examples/phase_guard.rs` | map, audit chain, generator, two files | unit, capsule write, crash, restart, replay | `PhaseGuard` |
| netcode | `examples/rollback_netcode.rs` | world, input log, tick | delivery, reconciliation, tick | `RollbackNetcode` |
| game allocator | `alloc/galloc/galloc.c` | regions, private and pending lists, headers, one mutex; frames; pools | `ga_alloc ga_aligned ga_free`; frame and pool calls | `GameAlloc`; `GameFrames` |
| phase_alloc | `alloc/phase_alloc.c` | per-thread caches, table of regions | `malloc memalign free realloc`, thread exit | `PhaseAlloc` |
| phase_fuse | `alloc/phase_fuse.c` | undo journal of files | `write truncate unlink create open release`, undo | `PhaseFuse` |
| algebra_alloc, demonstrations | see `PROJECT.json` | | | not modelled, reasons there |

Interactions. Everything above the instruction set runs programs through
`Inst::exec` and takes them back through `Inst::inverse`; the debugger uses
`machine::leaf_at` and `lib::check`, phase-guard uses phase-server's map, its
snapshot text and its digest. phase-server, the debugger and the journal are
sequential; their difficulty is long sequences of legal calls and commands
that stop half way. phase-guard adds crashes; the allocators and phase_fuse add
threads; io_uring adds the kernel; capsules add damage on the way. The game loop
puts three of them together: assets are read through io_uring into an arena,
temporary objects live in another until the end of the frame.

## 2. Modules

`PhaseInst` defines words, instructions, what each reads (`RegOperands`,
`MemOperands`), when it can run (`InRange`: all range checks of `exec` come
before its one write), what it does (`Exec`), what undoes it (`Inverse`) and
which aliasing makes it lossy (`OperandAlias`). The word width and the sizes of
the register file and the memory are constants; `^` and `&` are constant
operators with two laws assumed (`BitLaws`), which TLC evaluates with the real
operators (`MCPhase`).

`Debugger` has one action per prompt command and one action per loop
iteration of `step_fwd`, `cont` and `step_back`, so that a command that faults or
is refused half way is seen where it stops. The nodes of a program appear as
their leaf sequence, which is what `leaf_at` returns. `DebuggerHistory` adds a
history variable (`past`, the state at each earlier position) that no action
reads. `SnapshotDebugger` is the abstract specification: a debugger that keeps a
snapshot per leaf. It is instantiated with `snaps <- past`.

`KV` is the map with its inverse records and its snapshot text. `PhaseServer`
has one action per command; the loops of ROLLBACK and UNDO go one record per
step (`PutBack`) while no other command is accepted, as `handle` holds the map.
`VersionedStore` is the abstract specification: a copy of the whole map per
write. The refinement mapping computes the copies from the map and the log
(`Unwound`).

`PhaseGuard` follows `main` of the example: the reference run, the live run in
batches of `CpEvery` units, the capsule written to `capsule.tmp` in two steps (a
partial file is a file) and renamed, a crash between any two steps, the restart
with its assertions. What `main` keeps across the simulated crash
(`last_cp_unit`, `last_cp_chain`) is kept here too. Where `main` stops the live
run once, at 60 %, the model allows a crash anywhere, as the module comment
claims.

`DecisionJournal` has the walks of `ctl.rs` over `inst`, `rep`, `ifnz` and `wz`
nodes, a caller that runs programs and takes them back in stack order, and one
change of one journal entry. A call is one step: nothing else can run during it, and
what it leaves when it fails is its result. The code's recursion is a function of the
depth of nesting: programs of depth `d` are walked (`ForwardTo[d]`) with what the walk of
depth `d - 1` does to the bodies of their blocks. A walk is steps in order on a
work (state, journal, first fault); after a fault the rest of the steps do nothing, which
is the code's `?`. `MaxDepth` bounds the nesting, which the code does not; the theorems
hold for every value of it.

`Machine` is the iterator of `machine.rs` as the code has it: a stack of jobs,
each a position in a list of nodes or the turns left of a loop, with one action
per turn of `StreamIter::next`. The calls that use it (`run_forward`,
`reverse_n`, `reversible_suffix_len`, `leaf_at`) are what they do with a leaf.
`count_leaves`, the static check and the unrolled program go down the tree level by
level, like the walks of the journal: what a program nested `d` deep counts, reports
or unrolls to is a function of what its bodies do at depth `d - 1` (`CountTo`,
`WalkTo`, `UnrolledTo`; `MaxNesting` bounds the depth). Counts are naturals: the
code's stop at `u64::MAX`, which no program that ends comes near. `passed` (the
states `run_forward` passed through) and `yielded` (the leaves of the current call)
are history variables. `debug`, chosen once, says whether `debug_assert` is compiled in.

`RollbackNetcode` is the server of the example: a tick takes one action, and so
does every tick taken back or simulated again in a reconciliation. The random
inputs and delays of the example are all inputs and all delays; the hash of a
world is the world. A tick is the effect of its straight-line kernel (v += u;
p += v) and not its instructions: that the machine runs and takes back such
programs exactly is what `Machine` and `PhaseInstProofs` are about.

`GameAlloc` has threads that run one call at a time. A stretch of code under the
mutex is one action that ends with the unlock; waiting for the mutex, and what a
thread does to its own lists without it, are actions of their own, so that
another thread comes between. `myid` called with the mutex held is a thread that
waits for it (`wait_self`). Lists threaded through the free blocks are
sequences; addresses are pairs of a region and an index.

`GameFrames` has the other two parts of galloc. Frames are
thread-local, so the model has one thread and its nested frames and marks; a
pool holds its mutex from the first to the last access of a call, so each call is
an action. `PhaseAlloc` is the preloaded `malloc`: a thread that calls `malloc`
touches its own cache only, so this is one action; `free` and `realloc` of what is
in no cache class look into the table under the spin lock and act on what they
found, each critical section a step. The lock-free pending lists cannot be
reached (line 289 returns for every block line 295 would accept), so they are
left out. `mmap` gives the lowest free space. `GameFrames` computes sizes in a
`size_t` (`Word`) and remembers in `wrapped` that one overflowed.

`PhaseFuse` has threads of one request each. The documented start command serves
requests with several threads, and the journal has no lock, so `save_orig`,
`ph_create` and `undo_all` are cut at every access of the journal: the look for the name
(`LookUp`), the slot that is filled (`Fill`), its count (`CountEntry`), the change of
the file. Whether two handlers have been in the journal at once is kept in `raced`:
after that entries share a slot or are counted twice, and the array can be left, so what
follows is not described. `MCFuse` runs the overlay with two threads. `MCNative` runs
the frames, the pools, the malloc and the overlay with one thread, one of
them per behaviour.

`IoRing` has the two rings with their wrapping counters and a kernel (external)
that takes submissions in order, fewer than offered if it likes, and completes
them in any order and at any time. `AssetLoader` is the frame loop of
`game_alloc.rs` over it and over two arenas; the kernel reads the iovecs when it
completes a read and not before, so that a dangling one is seen. `IoRing` also has the
event loop of `phase_uring.rs`, whose operations complete in order. `MCUring` runs one
of the two, and `MCStorage` one of the two or `PhaseGuard`. `Arena` holds the operations of `alloc.rs` on an arena as a record, used
by the loader, the ETL and `ArenaClient` (any client, any order).

`LeafRun` is what the callers of the machine are promised: `run_forward` and
`reverse_n` over the leaves in order, faults and boundaries included (that the
iterators hand out these leaves is shown by the run `reversal`). On it stand `Etl`
(the whole of `main`: parsing, the table, two candidate shifts with rollback, the
filter), `BatchTx`, `Capsule`, `CommandLine` (phase-vm and the image editor) and
`Kernels` (formulas, cipher, synthesis); `MCHosts` runs one of them, or `RollbackNetcode`. `roundtrip` is
its loop over trials: the seed, which overflows in builds that check (`SeedPanics`), a
state drawn, the run and its reversal. A damaged capsule may have a changed part, or be
one that `import` cannot read: it refuses a missing header and panics at a number that
does not parse (`Deface`, `ImportFails`). Their inputs
(files, options, texts, tasks) are enumerated; their steps are the loops of the
source. Hashes are taken to be free of collisions, except that the hash of a state has no border between
registers and memory, as in the code (`Words`).

`ProgramText` has both parsers, line by line, with the same cuts of registers to a
byte and shifts to a word as the code; a token is what it parses to. `Rewriting`
makes one round of `optimize` a step, one hunk of a patch, and the generation and
the two calls of compiled functions. `MCTexts` runs one of them, or `PhaseServer`.

Each module states the parts of what it promises one by one, with the lines they
are about; what a run checks is their conjunction (`HeapSafe`, `PipelineExact` and
the like), so that a violation names the component and TLC's trace the part.

Definitions whose name ends in `Mutant` are bugs put in on purpose: for each
property of each passing run `PROJECT.json` names those that make TLC find the
property violated, one for each part of a conjunction. Nothing refers to them.

## 3. What the runs check

| run | shows | bounds |
|---|---|---|
| `reversal` | debugger: state of the executed prefix (`StateIsPrefix`), refinement of the snapshot debugger (`ImplementsSnapshots`), which goes back over no boundary, commands end (`CommandEnds`); journal: reverse restores state and journal, earlier decisions survive failures (`JournalSafe`); a changed flag is noticed (`FlagDamageDetected`); machine: the job stack streams the unrolled program both ways in bounded space (`StreamSafe`); `reverse_n` lands on a state `run_forward` passed through (`ReverseIsExact`); suffix, check, leaf count and `leaf_at` agree (`WalksAgree`); every call ends (`CallsReturn`) | debugger: all programs of 0-2 leaves over 17 instructions of all kinds, N in {0,1,3}, a breakpoint; journal: 61 programs, nested two deep (`MaxDepth` 2), loops cut at 2 iterations, 2 programs at a time; machine: loops of count 0 to 3 two deep (`MaxNesting` 2), bodies empty and not, 2 calls, with and without debug assertions; 2-bit words, 3 registers and 2 memory words for all three |
| `storage` | rings: iovecs and buffers hold until the kernel is through, temporaries die with their frame (`LoaderSafe`); no submission is written over as long as one call at most was taken in part (`OneShortCallFits`); waits end (`LoopsEnd`); capsules: capsules are never torn or off by one (`CapsuleIsPrefix`), no comparison fails (`CrashConsistent`), restarts end in the finished stream (`RecoveryEnds`) | rings: 3 frames of up to 2 reads for 5 assets in a ring of 2; 11 events in batches of 2 in a ring of 4; counters of 4 bits that wrap; two submissions taken in part; short reads; capsules: all streams of 5 units over 2 keys, capsule every 2 units, 2 crashes |
| `game_alloc` | every block in one place, headers tell the truth, no region is lost from the table (`HeapSafe`); only a thread without a number that frees a small block waits for itself (`OnlyUnnumberedDeadlock`), and while none does calls return (`AllocCallsReturn`) | 2 threads, 2 classes, 2 regions of 2 blocks, 5 calls in any order |
| `fuse` | as long as no two handlers have been in the journal at once, it holds what was there before the session (`FuseSafe`) and undo brings it back (`UndoRestores`) | 2 threads, 2 names, 1 handle, journal of 2 |
| `native` | the same of the journal for one thread, a journal that fills up and failing calls (`FuseSafe`); frame objects never overlap and pools partition (`NoOverlap`); blocks of `phase_alloc` are in one place, are not given to the C library and keep their contents (`MallocSafe`) | journal of 2 for 3 names, 1 failure; frame of 3 grains, nested twice, sizes up to 22 of a `size_t` of 24; pools of 1 and 3; 2 threads, 3 regions of 2 blocks, a table of 2 |
| `hosts` | tables, accounts, arenas, capsules, images and kernels are what their programs say, also after rollbacks, aborts, damage and undo (`PipelineExact`, `BankExact`, `ClientSafe`, `CapsuleMoves`, `PixelsAreJournal`, `CommandsExact`, `KernelsExact`); the search finds a shortest program (`FoundIsShortest`); netcode: the world is the replay of the log at every step (`WorldIsReplay`), the timeline is exact as far as inputs arrived (`ConfirmedExact`), the end is reached and agrees with the reference (`Converges`) | netcode: 2 entities, 3 ticks, delays 0-2, inputs -1 and 0; the others see below |
| `texts` | both parsers read the tree that was written (`TextExact`), and the same one (`ControlExact`); the optimizer keeps the meaning and leaves nothing to remove (`OptimizerExact`); hunks are spliced exactly or refused (`PatchExact`); compiled functions are the kernel and its inverse (`NativeExact`); the server is a refinement of `VersionedStore`, replies included (`ImplementsVersions`) | texts of up to 4 lines; programs of up to 4 instructions on 12 states; files of up to 5 lines, two hunks; kernels of 3 nodes, loops two deep; server: 2 keys, 2 values, 4 records in log and buffer, UNDO of 0, 1, 2, 5 |
| `game_alloc_self_deadlock` | (violation, `NoSelfDeadlock`) a thread without a number frees a small block and waits for itself | as `game_alloc` |
| `fuse_races` | (violation, `JournalHoldsBase`) two handlers in the journal at once lose an original | as `fuse` |
| `native_sizes` | (violation, `OverflowGoesToHeap`) a size near the end of a `size_t` is handed out of the frame | as `native` |
| `uring_short` | (violation, `SubmissionsFit`) two calls that take less than offered, and an entry is written over | as `storage` |
| `roundtrip_trials` | (violation, `OnlyTheProgramStops`) the seed of the third trial overflows | as `hosts` |

`reversal`, `storage`, `native`, `hosts` and `texts` run several programs that share
no state: the first state chooses one, the others stand still, and each keeps its own
fairness.

The type invariants of `DebuggerHistory`, `PhaseServer`, `PhaseGuard` and `RollbackNetcode`,
`NoBackFault`, `BoundaryHolds` (part of the refinement), `NeverDiverges` (part of
`Converges`) and `WindowBounded` are proved (section 5) and are not run by themselves.

Why these bounds are enough to meet the hard cases. Two leaves are needed for a
memory instruction whose address register was changed by the leaf before; two
bits for wrap-around; a memory smaller than the words for addresses out of
range. Two keys and four records let one transaction write a key twice, hide
an older record, and let UNDO stop in the middle of a commit. Five units
with a capsule every second one give two capsules and a tail; two crashes let
one hit the writing of a capsule and the other the replay. A loop limit of two
with counters up to two makes the limit both just reached and passed. Three
ticks with delays up to two let two late inputs of different ticks arrive
together, in both orders relative to a tick, and the last ones after the last
tick. Two regions of two blocks, five calls and two threads let a thread
exhaust its region, take over a pending list another thread is freeing into,
and find no memory left. Any call can be a thread's first, so that the deadlock that
`game_alloc_self_deadlock` shows can happen in `game_alloc` as well, where the properties
say what it needs. The table of regions is kept larger than the number of regions.

`fuse`: two threads can be in any two handlers, and a session ends for the run at the
step that brings a second one into the journal (`CONSTRAINT NotRaced`): both properties
are about sessions up to that step, which TLC still checks, and `fuse_races`, without
the constraint, is about the rest. Two names and contents that are empty, small or above
`MAX_SAVE` are enough for a create, a write and an undo to meet; names and threads are
symmetric. The journal fills up and calls fail in `native`.

`native`: three names and a journal of two make the journal overflow; contents are
empty, small, or above `MAX_SAVE`. Names are symmetric. A table of two for three
regions overflows. Sizes from 18 on wrap for a `size_t` of 24 and a grain of 4, or do with
what the frame has in use.

`hosts`: three trials of `roundtrip` with a seed step of 40 and words of 64, so that,
as in the code, the third overflows; words of six bits, because the accounts must tell
an overdraft (a huge word) from a large balance; files of up to three lines with
every kind of bad one; three transfers between three accounts, so that a batch can
overdraw one and refill it; programs of up to two leaves for the command line;
formulas of up to three links over every operation; up to two rounds of the
cipher; searches over two registers and up to three instructions, for tasks with
and without a solution. The rotations of the pool (1, 7, 13, 31) are taken modulo
the width. `texts`: words of four bits, a register byte of two bits with five
registers, so that a number is cut; eight rounds, with a program that needs four;
hunks in and out of order, past the end, with counts that are wrong.
`storage`: the ring has twice the entries of a batch, so that one call that was taken
in part can be absorbed and two cannot; counters start at zero and just below their end.

Fairness. `Debugger`: a started loop runs on (`WF(Loop)`); the user owes
nothing. `PhaseGuard`: a crashed process is restarted and a restarted one runs
on (`WF(Recover)`); the live run owes nothing, and crashes are bounded, because
a process that is killed for ever recovers never. `Machine`: a call that was made
runs on (`WF(Turn)`). `RollbackNetcode`: `main` is one thread that runs on.
`GameAlloc`: weak fairness per thread for the steps of a call, none for making
calls; the mutex itself need not be fair, since the calls are bounded. `MCUring`:
the program runs on, its spin loops give up after two thousand million turns
(`GiveUp`, `GiveUpReap`), and the kernel ends what it has taken, though what it did
not take never ends: then giving up is the way out of a wait (`LoopsEnd`). All of these are what a scheduler gives a runnable
process. The other runs check safety alone and state no fairness.

`CHECK_DEADLOCK FALSE` is set where the system stops by itself: phase-guard and
the netcode server end, the caller of the journal ends at a failed call, and the
callers of `Machine`, `GameAlloc` and the programs of `native` stop when the bound
on calls is reached (that nobody is stuck inside a call is `CallsReturn` of `Machine` and
`AllocCallsReturn`, but for the deadlock of `GameAlloc`). The programs of `storage`, `hosts` and `texts` end.

## 4. Disagreements with the documentation

Shown by a run:

- `game_alloc_self_deadlock`: the heap is said to be safe for threads (`galloc.h` 4);
  `ga_free` takes the mutex and then calls `myid`, which takes it again when the
  thread has no number (`galloc.c` 83, 93, 40). Only `ga_alloc` of a small block
  gives one (62).
- `fuse_races`: every change is said to be journalled first and undone
  (`phase_fuse.c` 3-5). The start command (10) serves with several threads, and
  nothing locks the journal (34-54, 151-152).
- `native_sizes`: what overflows the frame is said to go to the heap (`galloc.c` 147);
  the sums of 145 and 146 overflow themselves.
- `uring_short`: one `io_uring_enter` is said to send all that was put into the ring
  (`uring.rs` 183, `phase_uring.rs` 3-4); nobody looks at how much was taken (`uring.rs`
  189-193, `phase_uring.rs` 218-221).
- `roundtrip_trials`: `main.rs` 10 asks for 1000 trials; in a build with overflow checks
  the product of line 284 stops the third. The release build of the examples has none.

Read while modelling, and left out of a property by name or in its note:

- `reap` is said to collect completions (`phase_uring.rs` 173); it counts
  the one at the head until it has enough and never moves the head (181-191).
- Marks of an arena are said to grow strictly (`alloc.rs` 24); two marks
  without an allocation between them are equal, and a rollback to one pops both.
- `reverse_n` is said to stop at a leaf that is no bijection
  (`machine.rs` 201-202, 214-215); with debug assertions it panics at an even `mulc`,
  whose inverse is computed first (198, 222).
- `reverse_checked` is said to compare `ifnz` and `wz` with the journal
  and so detect damage (`ctl.rs` 216-217); loop counts are not compared (248-255).
- What the optimizer removes is said to be the identity (`opt.rs` 13);
  `xor r0 r0` twice is not (18-31).
- A conflict is said to leave the file and fail (`patch.rs` 4-6);
  overlapping hunks give an index below zero (117) and a panic.
- Registers are `r0..rN` (`program.rs` 4); their numbers are compared
  with `--regs` and then cut to a byte (53-56, also `main.rs` 121).
- phase-guard: a crash "at any moment" is promised to be survived
  (`phase_guard.rs` 7); before the first capsule the restart panics (129). A
  restart replays every unit from the first (133-137), though lines 9-10 and 155
  say it is not "from scratch".
- `reverse_checked` is said to be `reverse` plus checks (`README.md` 197-198); it
  lacks the alias guard (228 against 167). A branch that changes the register it is
  decided by cannot be checked by it either.
- The optimizer ends after eight rounds, fixed point or not (`opt.rs` 62).
- galloc drops a region silently when its table is full (`galloc.c` 37), after
  which its blocks go to the C library's `free` (84-85), though `galloc.h` 7 says
  the heap does not depend on malloc. When `mmap` of the frame fails,
  `ga_frame_alloc` returns offsets from NULL (138). What a full frame passes to
  the heap is never freed by the end of the frame (148).
- `realloc` of `phase_alloc.c` loses the contents of aligned and foreign blocks,
  whose size it does not know (343-355, 408-411). Its FREE flag is never set on
  the path that is taken (288), so a second `free` of a block is not noticed. The
  cache of a thread that ends is lost.
- `create` of phase_fuse truncates a file that existed and journals it as new
  (`phase_fuse.c` 146-152), so that undo would remove it; the kernel asks for `create`
  of names that do not exist. `open` with O_TRUNC empties a file that is not journalled.
- `ga_pool_create` writes to what `ga_alloc` returned without looking (`galloc.c` 159-163).
- `import` of a capsule panics at a number that does not parse (`cap.rs` 40, 125-129).
- `patch.rs`: a hunk header `-N,0` inserts before line N, not after it; a last line that is empty is lost, an
  emptied file becomes one line feed (157), and `lines` drops carriage returns.
- `cipher.rs` 20 counts 16 leaves in a round; there are 18. The messages of
  `main.rs` for `--key` and `--pt` ask for 16 bytes where 32 are read. The header of
  `phase_img.rs` names commands `ab` and `save`, which do not exist.
- The functions that `aot.rs` generates are handed the length of the memory and do
  not look at it.

## 5. What is proved

All theorems hold for every value of the constants under the assumptions
named in the modules.

`PhaseInstProofs`. `ModInvOddCorrect`: six Newton rounds invert every odd word,
for widths 1 to 64 (each round doubles the number of correct low bits; the
powers of two are a table with the law `2^(j+k) = 2^j * 2^k`). `ExecCancel`: an
invertible instruction that ran leaves a state on which its inverse is in range
and restores the old state. One lemma per family of instructions. Assumed: the
table of powers of two, and that `^` is closed and self-inverse and `&` closed.

`ReversalProofs` is about the three parts that take a program back.

The debugger: the invariant `HistoryTypeOK /\ StateIsPrefix /\ NoBackFault`
is inductive thanks to `ExecCancel`: `StateIsPrefix` alone is what makes a step
back land on the recorded state, and the recorded run is what makes the range
check of the inverse succeed. From it follow `TypeCorrect`, `PrefixCorrect`,
`BackNeverFaults`, `BoundariesHold` and the refinement.

The decision journal: `JournalIsSafe` and `FlagDamageIsDetected`, for every set of programs
of any depth, any limit on loops and any damage. Four facts are said of a step (a
function on works), shown to carry over to steps in order, then to one node from
what its body does, and by induction on the depth to every program. A run and its
reversal keep works works and never write below the entries they found
(`ProgramBoth`). If a run went well, the reversal of what it left brings back state
and journal, and it goes well if the program has an inverse everywhere
(`ProgramInverts`): the entry on top is the last decision made, because a decision is
written after the body it is about, and what is popped is what was pushed. A block cannot
write registers its leaves do not write (`ProgramKeeps`). If all blocks are branches
that spare their register, a reversal that ends without a fault has read the entries the
run wrote (`ProgramNotices`): it meets them in the same order, and the condition after the
body is what it was before. `JournalSafe` is not inductive, as it says nothing of frames
below the last: `CtlInv` adds that every frame kept is of a run that went well, with what it found and
what it left. `JournalAssumption` says what kind of value each constant is.

The machine: `StreamIsSafe`, `RollbackIsExact` and `WalksDoAgree`, for programs of any
depth, any repeat counts, and builds with and without assertions. `LeavesInOrder` is not
inductive: that a prefix was yielded says nothing of what comes next. So a job stack is
read as the leaves it has still to hand out (`Stack`: the rest of the sequence on top,
then the turns left of the loop below it, and so on down), by induction on the depth;
that also bounds its height by two jobs a level. Each turn of the iterator leaves this
reading as it is, and yielding takes its first leaf: what was yielded and what is left
make up the unrolled program (`Streaming`). On that stands what a call has done so far
(`SoFar`): `run_forward` has recorded a run of the first `done` leaves (`RanTo`),
`reverse_n` has undone `done` leaves, all invertible (`LastFree`), and stands where the
run stood before them, so the next inverse is in range (`ExecCancel`). `MachineInv` is
both, with types and what the last call left behind (`LeftBehind`). The recursive walks
are related to the unrolled program by induction on the depth (`CountsAgree`, `WalkIs`),
and the report of the check to the positions that block (`ReportIs`).
`MachineAssumption` says what kind of value each constant is.

`PhaseServerProofs`. `ServerRefinement`: each command is a step of
`VersionedStore` under the mapping `Unwound`, and `PutBack` is a stutter. The
argument is two lemmas: what unwinding gives after a record is pushed
(`UnwindPush`), and that unwinding depends on the oldest record of a key only,
which exists by the well-foundedness of the naturals.

The crash-consistent process (`StorageProofs`). The inductive invariant says that the
live map and chain are the reference's after `drawn = i` units, that the temporary and the
final file are whole capsules of some unit of the reference run (or absent, or
half-written for the temporary one), that the replay follows the reference, and
that the restarted map is the reference's at the capsule or later. Nothing is
assumed of the digest and the chain function but their range: recovery is exact
because it repeats the same computation, not because hashes differ.

`HostProofs` is about the programs that run leaves on the machine and take them back.

Its base is `LeafRun`. A run is a chain of states, one for each leaf, and so is a
reversal; recursive functions are shown to be such chains (`Recursion` of
`PhaseInstProofs`). Because
each inverse cancels its leaf (`ExecCancel`) and no inverse is out of range where its leaf was
not, the reversal goes back along the chain of the run: `ReverseGoesBack` says where `reverse_n`
stops, `ReverseUndoesRun` and `RunUndoesReverse` that the two undo each other when
every leaf has an inverse, for every program, state, size of the machine and word width.

On these rest four specifications. `CommandsGoBack`: what the commands of `main.rs`
print; `roundtrip` may also be stopped by its seed, in builds with overflow checks. `UndoLeavesNoTrace`: the pixels of the image editor are the source with the
journal's edits, since each edit is cancelled by its inverse. `CapsuleLeavesNoTrace`:
a run cut in two goes on to the same end, and whichever part of a capsule was changed on
the way, what host B accepts is what host A sent; the invariant says what a capsule's
sections and its hash tell of the state. `LedgerHolds`: the words of a batch follow the
balances taken as numbers (`Follows`), and since the money and all that a batch can draw
fit in a word, a word above `MaxBal` is a balance below zero (`WordTells`). A batch whose
senders look fine is therefore right in every account (`FineIsTrue`), and a sender who could not
pay on the way was filled up later (`BelowIsSeen`).

What these assume of their constants: `CommandAssumption` and `ImageAssumption` (kinds
only); `CapsuleAssumption`: the program is not empty, every leaf has an inverse (a capsule's
chain is walked backward) and the run over the whole of it comes through from each
boundary state; `BankAssumption`: the balances add up to `MaxBal` at most, and `Transfers + 1`
times that fits in a word (in `batch_tx.rs`: 256 balances of at most 5099, 2^40, 16 and 64
bits). TLC evaluates all four in the runs.

The rollback server of netcode: a tick loads its inputs before it runs, so it depends on
positions and speeds only (`KernelInput`), and taking a simulated tick back with
the same inputs restores them (`KernelCancel`). On these rests the inductive
invariant, `WorldIsReplay` with four additions: how far the two timelines are
recorded in each phase (`Extent`), that the reference is a run on the true
inputs (`RefRight`), that inputs no longer outstanding are in the log
(`LogRight`), and when inputs can still be missing (`Window`). Two runs from one
state with the same inputs are equal (`SameInputsSameRun`, by the least tick at
which they are not), which gives `ConfirmedCorrect` and `ServerNeverDiverges`.
All for any number of entities and ticks, any window, inputs and word width.

`KernelProofs` is about the programs that make the leaves they run, on the same base.

The kernels: `KernelsAreExact`. The state after `n` leaves of a compiled formula has the
first `n` links applied to the input in register 0 and, in the others, the constants the kernel
was given (`LinkLeafRuns`, `KernelRuns`); a link is undone by its inverse because an odd factor has one
(`ModInvOddCorrect`) and rotations of a word add up to its width. The inverse formula is the
inverses in opposite order, so it goes back along the same values (`InverseFollows`); the kernel
itself goes back by `ReverseGoesBack` and stops at the constants' leaves. For the cipher it needs to be known that a round
reads key and counter and leaves the key alone (`KeptByLeaf`) and that the counter tells how many rounds
there were (`Kept`). Both hold for formulas of any length and any number of rounds; assumed
are that factors are odd, as `main` draws them, and that the registers suffice
(`FormulaAssumption`, `CipherAssumption`).

The search: `SearchIsShortest`. That no shorter program does it is not inductive, as it says
nothing of the programs the search skips. The invariant `SynthInv` keeps the set of
entries explored: the states seen are those explored, waiting in the frontier and
coming in the next layer; what an explored entry leads to was seen and does not fulfil
the task; and all layers before the current one are explored. A state reached by a shorter program
is therefore one of those seen (`ClosedReach`), whether or not the program itself was tried. `SynthAssumption` says
what kind of value each constant is, and that words hold the rotations of the pool (31).

The pipeline: `PipelineIsExact`. `PipelineExact` does not say enough of the middle of a
file or of a sweep to be inductive. While lines are read, `ParseInv` adds that the words of
the arena are those of the rows in order and that the ids kept are those of the good lines,
so that a line is refused exactly when it is bad or its id came before (`AcceptedIs`), and
rolling it back leaves the arena as it was (`RefusedIs`). While deltas are swept over the table,
`TableInv` says which of them each row carries (`Carried`) and that the registers hold those
to take back. A sweep over a row is a run of the kernel (`RunFollows`) that adds them to
the row's cells and to no others (`RowsApart`), and the way back is a reversal
(`ReverseUndoesRun`), so undoing A leaves nothing for B to be added to. `CountsInv` says that
the number kept for A is the count of the rows with A on them, by which the winner has
fewer outliers on all rows (`Chosen`), and that with overflow checks no
distance overflowed on the way, which is why a row that is kept is near its targets
(`KeptIsNear`). `EtlAssumption`: targets are non-negative 64-bit integers and so is the tolerance, and
each cell of a file's table has an address; nothing is assumed of the deltas.

`GameAllocProofs`. `HeapSafe` is not inductive: that a block is in one place says
nothing of where it may go next. `HeapInv` adds what the threads are doing
(`Standing`: who holds the mutex, what the argument of the running call is, who has
a number), what regions are (`Carved`: a region that is carved belongs to one class
of one thread, `Alone`: one that is a single block is nobody's arena), what lists
are made of (`Kept`, `Placed`), what the FREE flags say (`Flagged`) and that a region
leaves the table for good (`Leaving`). `BlocksHaveOnePlace` follows for any threads,
classes and regions, whether or not the table overflows. `HeapIsSafe` adds that no
block reaches the C library's `free`, for a table that has room
(`TableSuffices`, the hazard at `galloc.c` 37). `SelfDeadlockIsUnnumbered` is the other
half of the finding of section 4: in whatever order threads call, one that waits for a
mutex it holds is in `ga_free` of a small block and has no number.

`NativeProofs`. `MallocIsSafe`: caches, callers and blocks on their way to be freed
are disjoint, whatever threads pass each other's blocks; the table may overflow, and
what then reaches the C library is told by `overflowed`. `FramesAndPoolsHold`: in a
frame every object lies between the ones before and after it and below `used`,
and every open mark lies between objects; the slots of a pool's list are distinct and,
with those handed out, all of them. `JournalGivesBack` and `UndoGivesBack` say of
`phase_fuse` that the journal holds what was there and that undo brings it
back, for any number of threads, in sessions in which no two handlers have been in the
journal at once (`raced`; the journal has no lock, and `fuse_races` shows what happens
otherwise). The invariant follows each request between the look for its name, the slot,
the count and the change, and `undo_all` from the newest entry down; that at most one
handler is in the journal at a time makes the slot it fills its own (`Alone`). With one
thread (the option `-s`) `raced` never becomes true. The frame theorem says the same of
sizes: it holds until a sum passes the end of a `size_t` (`wrapped`).

Ring and arena (`StorageProofs`). What matters of a ring is what lies between its two counters;
lemmas say that an entry put behind the last one leaves the others alone, wherever
the counters wrap, for any size that divides their range. For the loader, the
invariant `LoaderInv` puts every asset of a frame in one place: offered, taken,
completed or handed over. So the number of completions the caller waits for is the
number of reads, and when it has them no iovec is in use any more
(`ReadsLandInTheirBuffers`). That needs the asset arena to hold all assets
(`AssetsFit`): `game_alloc.rs` asks for 65536 words, and its six assets take 6 times 544
= 3264 at most. `RingIsNotOverrun` is about both programs: as long as `io_uring_enter`
took less than offered once at most, no entry is written over, because the ring of
`phase_uring.rs` has room for a second batch and the later calls take as much as they
add. Neither the code nor the kernel bounds such calls; `uring_short` shows two of them. `ArenaKeepsObjects`: objects of an arena lie one behind the other,
in words, and marks between them.

The named assumptions on constants these proofs use (`GameAllocAssumption`,
`PhaseAllocAssumption`, `FramesAssumption`, `PoolAssumption`, `FuseAssumption`,
`RingAssumption`, `LoaderAssumption`, `ClientAssumption`) say what kind of value each
constant is, that names are distinct, that rings divide their counters' range, and
that no reads are asked for beyond the ring's entries; TLC evaluates them in the runs.

Only model-checked: liveness (`CommandEnds`, `RecoveryEnds`, `CallsReturn`,
`AllocCallsReturn`, `Converges`, `LoopsEnd`), which is out of the prover's reach; and
everything about `ProgramText` and `Rewriting`, whose parsers and passes are recursive
operators over lines and trees.

## 6. Not modelled, and the plan

Next: the theorems about `ProgramText` and `Rewriting`, should their trees be built level
by level like those of the journal and the machine.

Not modelled:

- `alloc/algebra_alloc.c`. A block taken from a free list keeps its FREE flag (165),
  and `compact` (135-151) merges blocks that have it, so that blocks in use are handed
  out again; no property of the allocator would hold of the code as it is.
- `phase_alloc.c`: frames (a block of the heap freed after a frame, or by another
  thread, has no header to be told by), the passthrough mode and the diary.
- `galloc.c`: what `ga_realloc` copies (nothing, for an aligned block: `ga_usable` says
  0). Its calls of `ga_alloc` and `ga_free` are those of a thread that makes both; a
  thread that ends, whose lists are lost, is one that makes no more calls.
- `arx_round` of `pmath.rs`, used by a demonstration; the demonstrations, measurements
  and `typical_*` programs, which add no state of their own; `check` and `bench` of
  the command line, `p`, `pm` and `bl` of the debugger, AUDIT of the server, which
  only print.
- Formatting and wording everywhere; the characters of a token, a hex string or a
  PPM header. The digest of phase-server is a parameter of the models, so its
  weakness (no separator between key and value) is listed as a hazard and not
  checked.
- The C compiler, the kernel's io_uring and the fuse library are external.
