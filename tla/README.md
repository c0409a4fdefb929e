# WasmFX in wasmtime, c10m and TinyGo: a TLA+ verification project

The repository is the artifact of WasmFX: a WebAssembly extension with typed
continuations (`cont.new`, `cont.bind`, `resume`, `suspend`, `resume_throw`,
`barrier`), its reference interpreter, its implementation in wasmtime, and the
programs that use it: the c10m benchmark in three versions, and TinyGo, whose
scheduler a script rewrites to continuations.

## 1. The system and its parts

| Part | Where | Status |
|---|---|---|
| fibers: stackful coroutines, stack switch | `wasmtime/crates/fibre` | modelled (`Fibre`) |
| continuation runtime (libcalls) | `wasmtime/crates/runtime/src/continuation.rs`, `libcalls.rs`, `instance.rs` | modelled (`Continuations`) |
| code emitted for the instructions | `cranelift/wasm/src/code_translator.rs`, `crates/cranelift/src/func_environ.rs`, `compiler.rs` | modelled (`Continuations`) |
| traps and backtraces | `crates/runtime/src/traphandlers*` | partly |
| reference interpreter | `wasm-spec/interpreter/exec/eval.ml` | partly (`ReferenceSemantics`) |
| c10m: driver | `benchmarks/c10m/c10m.c` | modelled (`AsyncDriver`, `AsyncWorkload`) |
| c10m: hand-written workers | `c10m_bespoke.c` | modelled (`BespokeWorkers`) |
| c10m: WasmFX workers | `c10m_wasmfx.wast` | modelled (`WasmfxWorkers`) |
| c10m: fibers over asyncify | `asyncify.c`, `fiber_asyncify.c` | modelled (`FiberWorkers`, `AsyncifyFibers`) |
| Asyncify pass | `binaryen/src/passes/Asyncify.cpp` | partly (`AsyncifyFibers`) |
| TinyGo on WasmFX: queue, scheduler | `tinygo/effects.pl` | partly (`EffectsQueue`, `WasmfxScheduler`) |
| TinyGo scheduler, sleep, timers | `tinygo/src/runtime/scheduler*.go`, `time.go` | partly (`TaskScheduler`, `SleepTimers`) |
| TinyGo channels | `tinygo/src/runtime/chan.go` | modelled (`Channels`) |
| TinyGo sync | `tinygo/src/sync` | partly (`MutexCond`, `RWLock`, `WaitGroup`, `SyncPackage`) |
| validation, formats, scripts, the rest of the vendored projects | | not modelled |

How they interact. `cont.new` allocates a `ContinuationObject`, which owns a
fiber, and boxes a `ContinuationReference` to it. `resume` empties the
reference, stores its operands in a buffer of the object, sets the instance's
`tsp` and switches to the fiber. `suspend` puts its operands in a payload
buffer hung off the vmctx, restores `tsp` from the word the resume left on the
fiber's stack, and switches back. The resumer tests the result of the libcall:
a return collects the results and frees the object; a suspension branches on
the tag to a handler, which boxes a new reference, or traps. A trap anywhere
longjmps to the host frame on the native stack.

On top of this, a c10m worker is a continuation in a table that the driver
resumes twice, and a TinyGo goroutine is a continuation in a queue that the
generated scheduler resumes again and again. Before the rewriting, TinyGo's own
scheduler takes tasks from a run queue, onto which channels, locks, groups,
sleeps and timers put the tasks they wake.

## 2. Modules

### The continuation runtime

**`Fibre`** (crate `wasmtime-fibre`). A stack pointer is the name of the stack
it points into. `saved`, `link` and `parent` are the words at top-0x20, top-8
and top-16 of a fiber stack; `cell` is the `RunResult` in each `Fiber::resume`
frame; `done` is the flag of `Fiber`; `at` says where each stack is in the
crate's code. (The layout comment in `unix.rs` puts the saved stack pointer at
top-16; the code uses top-0x20, and top-16 is the parent word. The model
follows the code.) Each half of an operation, before and after its switch, is
an action: `FiberResume`/`FiberLanded`, `FiberSuspend`/`FiberWoken`,
`FiberNew`, `FiberStart`, `FiberFinish`, `FiberDrop`. `FiberDiscard` is a trap.

**`Continuations`** extends `Fibre` with `continuation.rs` and the emitted
code. An object and its fiber share one identity, which `malloc` may reuse
after `drop_cont_obj`. The wasm program is arbitrary but validated: the running
stack may execute any instruction on any reference with the operand count its
type demands.

| Action | Code |
|---|---|
| `ContNew` | ContNew translation, `cont_new`, `new_cont_ref` |
| `ContBind`, `StoreResumeArgs`, `TagReturns` | ContBind translation, `store_resume_args`, `cont_obj_occupy_next_tag_returns_slots` |
| `Resume` | Resume translation and `resume` up to the switch |
| `Begin`, `Return` | the array-call trampoline around the function |
| `LandYield`, `LandReturn` | the `Err` and `Ok` arms of `resume` |
| `Handle`, `Collect`, `ForwardTrap` | the suspend, return and forwarding blocks |
| `Suspend`, `Woken` | Suspend translation and `suspend`, before and after the switch |
| `StraySuspend` | the same `suspend` when `tsp` is not the running stack |
| `ConsumedTrap`, `Trap`, `Unwind` | traps; the host then calls in again on `Main` |
| `NullContRef` | `unwrap` of a null reference: the process panics |
| `BacktraceLost` | the backtrace walk when `last_wasm_entry_sp` is in another stack |
| `Forget` | the program drops a reference (the runtime leaks the box) |

The process going wrong is a value of `status`, after which only `Stopped`
(stuttering) is possible, so deadlock checking stays on. `nested` is a history
variable: the continuations to which a continuation has returned since they
were last resumed. `StraySuspend` does not model the payload store before the
fault, because nothing runs afterwards.

**`ReferenceSemantics`** is the abstract specification: the reductions of
`eval.ml` over an evaluation context (`frames`), with forwarding, barriers, and
exceptions as far as `resume_throw` needs them (`Throw`, `ResumeThrow`,
`Catch`, `Uncaught`). A barrier block is modelled with no results.

**`ContinuationsRefinement`** maps the state of `Continuations` to that of
`ReferenceSemantics`: the frames are the chain of resumes in progress, a
reference holds the continuation its object stands for, and operands in a
buffer count as delivered once the fiber is entered. `MaxFrames` is 0 there, since
wasmtime has no barriers.

### c10m

**`AsyncDriver`** is `async_wl`, the three loops shared by all versions, call by
call; `count` is a word of width `Word`. **`AsyncWorkload`** gives it workers as
the benchmark means them: the first resume yields the argument, the second
returns 1. It is what each version is shown to implement:

- **`BespokeWorkers`**: a struct per worker and a function that is re-entered
  from its top (`Yield`, `Worker`, `Resumed`).
- **`WasmfxWorkers`**: continuations in a table. References are numbered; one
  that has been resumed is `"dead"`.
- **`FiberWorkers`**: the fibers of `AsyncifyFibers`, at addresses that `malloc`
  may give out again. A resume takes many steps (enter, call, yield, unwind
  frame by frame, return); in the refinement mapping it has not happened until
  it returns.

**`AsyncifyFibers`** is `fiber_asyncify.c` over the code that the Asyncify pass
adds to each function. There is one call stack (`acts`, cut at the calls of
`fiber_resume`); unwinding pops its frames onto the asyncify stack of the fiber
(`saved`), rewinding calls them again. A frame is a call site and one local.
The bound of an asyncify stack is tested where the four API functions test it
and nowhere else. **`Fibers`** is what it implements: fibers that keep their
frames.

**`C10m`** composes all of these. The versions take each call of the driver
together. When the smallest benchmark is over, the program goes on as an
arbitrary client of the fiber library (`AsyncifyNext`): any nesting of resumes,
any calls, yields and frees.

### TinyGo

**`EffectsQueue`** is the table with `$qfront` and `$qback` that `effects.pl`
adds: `EnqueueFits`, `EnqueueGrow`, `EnqueueCompact`, and `EnqueueTrap` when
`table.grow` fails, whose result the code drops. **`Fifo`** is the queue it
implements. **`WasmfxScheduler`** is the generated `$runtime.scheduler` over it:
`Schedule`, `Suspend` (the handler enqueues what suspends), `Return`, and
nested activations, which happen when a goroutine calls the host and the host
calls `resume` or `go_scheduler`.

**`TaskScheduler`** is the run queue of TinyGo's own scheduler and what a step
of the running task may do to it (go on, pause, yield, end, panic). A program
begins where main has started the other tasks and yielded to them, and is over
when main returns (`schedulerDone`). The
facilities over it are modules of their own: **`MutexCond`** (with the window in
`Cond.Wait` between the unlock and the pause), **`RWLock`**, **`WaitGroup`**,
**`Channels`** (ring buffer, stack of blocked operations, select), and
**`SleepTimers`** (delta queue of sleepers, ordered queue of timers, the
scheduler loop step by step, since the clock may move between any two; it is the
loop of WASI, which sleeps in `poll_oneoff` and panics in `waitForEvents`).
**`SyncPackage`** composes the locks and the group, and **`GoRuntime`** all of
them: a program is a list of tasks that call any of the facilities the program
uses. **`SyncClients`** is the sync package in any runtime at all: what tasks do
elsewhere is one action, `Elsewhere`, which may park the task that runs, or
schedule parked tasks, each once, or end the program. It is what the theorems about the
package are stated for; that `GoRuntime` is such a runtime is
`UsesSyncAsClient`.

The linked lists of `internal/task` are sequences in these modules. This is
sound as long as a task is on one list at a time, because all lists share its
`Next` field; that is `TaskInOneList`. A channel value is the number of calls
left when it was sent, so values differ.

`MC*` modules hold the constants of the runs. The proofs are in

| Module | Proves things of |
|---|---|
| `ContinuationsLemmas` | `Fibre`, and the lemmas on `Continuations` part by part |
| `ContinuationsProofs` | `Continuations` |
| `ReferenceProofs` | `ReferenceSemantics` |
| `WorkloadProofs` | `AsyncWorkload`, `BespokeWorkers`, `WasmfxWorkers` |
| `AsyncifyProofs` | `AsyncifyFibers` |
| `AsyncifyRefines` | that `AsyncifyFibers` implements `Fibers` |
| `EffectsQueueProofs` | `EffectsQueue`, `WasmfxScheduler` |
| `SyncProofs` | `SyncClients` |

A definition marked *Mutant* is a plausible
bug; put in the place of the definition that follows it, it makes TLC find the
property named in `PROJECT.json` violated.

## 3. Runs

State counts are distinct states, under the symmetry of a configuration where
it has one.

| Run | Bounds | States | Shows |
|---|---|---|---|
| `fibre` | 3 fibers, 2 yield values | 153,088 | `ContextsConserved`, `CellProtocol`, `DoneGuards`, `FibreInv`, `ReturnsToResumer` |
| `runtime` | 2 objects, 2 references, 2 values; 1 parameter and 1 result; tag with 1 parameter and 2 results | 808,060 | `Linear`, `StoreIsCurrent`, `TspTracksRunning`, `AssertionsHold`, `ContInv`, `ImplementsReference` |
| `reference` | 3 strands, 3 references, 2 tags, at most 4 frames | 19,024 | `OneShot`, `BarrierNeverCaptured` |
| `c10m` | 0, 1, 2, 5 connections, 1 or 2 active; words of 0..10; 2 fiber addresses, asyncify stacks of 4 words, 3 frames | 214,429 | see below |
| `effects` | 4 goroutines, 2 nested activations, growth by 2, limits 1, 5, 20 | 214,859 | see below |
| `go_runtime` | twelve programs of 2 to 4 tasks and 1 to 6 calls; clock up to 3 | 181,731 | see below |

**The runtime.** Three fibers give a chain native -> a -> b with a third fiber
to create, resume or have abandoned meanwhile, and room for an address to be
reused while stale words still name it. Two objects give `runtime` the same
chain; one of them may be running, lost, leaked or freed and allocated again
while the other is used. Two references are what `cont.bind` needs. Two results
of a tag are the least for which operands arrive in two portions, in a buffer
made on demand; two values tell their order apart. The invariants of `runtime`
are proved for any numbers. One tag suffices there because a resume table
may be empty or name it; `reference` has two, so that a suspension passes a
handler for another tag. `MaxFrames` bounds only `Barrier`, the one reduction
that could nest without limit: every other frame uses up a strand.

**`c10m`.** `VerifyPasses`: the count that `verify` compares is right.
`BespokeImplements`, `FxImplements`, `FiberImplements`: each version does, call
by call, what the abstract workload does. `WorkersOwned`: the table of
continuations and the heap hold exactly the workers in use, whatever stale
pointers are left in the store, and none at the end. `ImplementsStackful`: unwinding and rewinding
behave as fibers that keep their frames. `ActiveIsInnermost`: `active_fiber` is
the fiber whose code runs, however resumes nest. `OverflowIsCaught`: no
ordinary code runs while an asyncify stack is past its bound, and nothing traps
but an overflow or a check that is made on a freed stack. `WorkloadEnds` and `SwitchingEnds` are liveness. The sizes include no
connection at all, fewer connections than active ones, and more than twice as
many, so that every loop of `async_wl` runs zero, one and several times and the
index wraps. Asyncify stacks of 4 words overflow at the third frame, so stacks
that fit, fill exactly and overflow all occur.

**`effects`.** `NoHoles`, `TableBounded` and `ImplementsFifo` are about the
queue: entries where they should be and nulls elsewhere, a size within two
growth steps of what is needed, and first-in first-out order through growth and
compaction. `OnePlace`: a continuation is queued once or on the chain of
activations once. `RunsMainToItsEnd`: `run` gets control back only after main
has returned, although each activation also ends on an empty queue.
`EveryoneGetsATurn`: what is queued is resumed, unless the program
ends. The limits make `table.grow` fail at once, fail after some growth, and
never fail.

**`go_runtime`.** `TaskInOneList`: a task is current, or on one list, or ended.
`LocksExclude`: a mutex has one owner; the word of an `RWMutex` counts its
owners. `NobodyWaitsInVain`: no task waits on a channel while its partner waits
there too, on a lock that is free, or on a group at zero. `ChannelIsFifo`:
values arrive in the order sent. `TimeQueuesInOrder`: the delta queue and the
timer queue keep their times. `BroadcastReachesAll`, `ReleasedOnlyAtZero`: what
`Cond.Broadcast` and `WaitGroup` promise. `ReadyTasksRun`: a task that is
scheduled runs, and so does one that is done sleeping, except in the case of
`sleeps_forever` below. `UsesSyncAsClient`: seen from the sync package, channels, sleeps and timers
are only other places where tasks pause, so that what is proved of `SyncClients`
holds here; the tasks that wait on a channel or sleep are the parked ones. The programs give each facility to three or four tasks and combine those
that meet in one program; in two of them tasks may yield without end (`busy`),
so that others have to get their turn in between. The clock goes far enough for two
timers to expire together and for a ticker to fall behind, so that the time left
becomes negative; three sleepers with three durations are inserted before, behind
and between one another.

**Violations.** Six runs are expected to find one. Each checks a sentence of
the repository that the code does not keep.

| Run | What happens |
|---|---|
| `stray_suspend` | a resumes b, b returns, a suspends. `resume` restored nothing on its `Ok` arm, so `tsp` still names b's freed stack. The fibre crate says control goes back "to the original caller of `Fiber::resume`". |
| `no_forwarding` | a suspension that only an outer resume handles traps at the inner one (a TODO in the translation); the proposal's handler contexts skip handlers without the tag. |
| `payload_left` | that trap leaves the payload buffer behind; the next host call finds a buffer where a commented-out assertion expects none. |
| `backtrace` | after a continuation has started and control has left it, `last_wasm_entry_sp` is still in its stack. A trap then walks the trapping stack against it, contrary to the assertion in `trace_through_wasm`. `wasm_backtrace` is on by default. |
| `sleeps_forever` | two timers have expired. The loop takes one per turn; its channel has no receiver, so nothing is to run, and the time left until the second is negative. `sleepTicks` of WASI makes it a `uint64`, and the scheduler sleeps for centuries, also past the end of a task's sleep. The comment says that tasks done sleeping "will be executed soon". |
| `sleep_order` | a task calls `Sleep(2)` at time 0; at time 2, before it is woken, another calls `Sleep(1)`. The delay of the second is compared with that of the first, which counts from the base time of the queue, so the task due at 3 is put before the task due at 2. The header of `scheduler.go` says that sleepers are "in order of when they should be re-activated". |

`runtime` allows the first four to happen. Its
properties hold regardless: in a state where the process has gone wrong nothing
moves any more, and `TspTracksRunning` says in which continuations `tsp` can be
relied on. Undefined behaviour after a stray suspend is not explored further.

**Fairness.** The continuation runtime is a library driven by an arbitrary
program, which may loop or stop: none is assumed there and no liveness is
stated. The programs on top are single threads. For them `Next` as a whole is
weakly fair: the one thread keeps going as long as it can, a task that runs
reaches its next call into the runtime, and time passes. Nothing is assumed
about which task or which branch goes on, so that every turn a task gets is due
to the order of a queue. After the benchmark, only the switching steps of the
fiber library (unwinding and rewinding) are weakly fair, not the client's.

**Stopping.** `c10m` and `go_runtime` do not check for deadlock: a benchmark
ends, a trap ends it, a Go program ends with main or in a panic, and its
scheduler may wait for a time behind the last moment of the clock, or for ever.
The other runs check it.

## 4. Proofs

Checked by TLAPS for every choice of the constants that satisfies the named
assumptions of the modules (distinct marker values, counts that are naturals).

*Fibre.* `FibreInvariant`: `FibreSpec => []FibreInv`. The
properties are not inductive by themselves: that a switch conserves contexts
depends on which context the word at top-0x20 holds. `FibreInv` says it: a
fiber that was resumed and has not switched out holds its resumer's context and
result location; one that has switched out holds its own; only the stack on the
cpu runs client code. From it follow `SwitchConservesContexts`,
`HandshakeHolds`, `DoneIsExact`, `FibreTypeCorrect` and the action property
`SuspendReturnsToResumer`.

*Continuations.* `ContInvariant`: `Spec => []ContInv`, with

- `Linear`: at most one reference to an object, and that object is parked;
- `ResumeInv`: a resume in progress knows its object, and between the switch
  back and the handler that object is the one in the vmctx slot;
- `EnteredInv`: an entered continuation is `Invoked` and the parent word holds
  the `tsp` to restore, unless a nested continuation has returned to its
  resumer;
- `RoomInv`: the buffer in use has room for exactly the operands the
  reference's type still lacks.

They need each other: the accounting of `RoomInv` survives only because
`Linear` excludes a second reference storing into the same buffer. The proof
has one lemma per part (`TypeStep`, `LinearStep`, `ResumeStep`, `EnteredStep`,
`RoomStep`), each with one step per action. From it follow
`RuntimeTypeCorrect`, `ReferencesAreLinear`, `StoreSlotIsCurrent`,
`TspIsTracked` and `NoAssertionFails`.

*Reference semantics.* `RefInvariant`: `RefSpec => []RefInv`. `OneShot` is not
inductive: a capture cuts the context in two, and the halves are disjoint only
if no computation occurs in it twice. `RefInv` adds that (`StrandsNest`: a
computation occurs again only as a barrier within itself, and a barrier is
never captured), that `Main` is outermost, and what is in flight. `Reinstates`,
`CaptureInv` and `DropsFrames` are the lemmas on the three ways a context
changes. From it follow `ContinuationsAreOneShot`, `BarriersStay` and
`RefTypeCorrect`.

*Queue and scheduler of effects.pl.* `QueueWellFormed`: types and `NoHoles`, for
every `QDelta` and limit. `TableIsFifo`: `QueueSpec => ImplementsFifo`. The queue
is a slice of the table; `SliceAppend` and `SliceTake` say what storing at the
back and moving the front do to a slice, and each way through `$enqueue` is one
of them on a table with the same slice. `TableStaysSmall`: `[]TableBounded`, by
counting: the entries are distinct (`QueueDistinct`), so there are at most as many
as continuations. For the scheduler, `GoroutinesInOnePlace` follows from
`SchedInv`: what is queued and what is on the chain of activations is told by where
each goroutine is, the chain has no goroutine twice, and only its last activation is
at the head of its loop. `MainRunsToItsEnd` needs it and that `schedulerDone` tells
of main: when the last activation ends on an empty queue, main is neither queued nor
on the chain. After a trap
(`status`) the queue alone is claimed anything of. `SchedulerIsQueueClient`: the
scheduler uses the queue through its operations only, and `SchedulerQueue`: so
what holds of `QueueSpec` holds under it.

*c10m.* `WorkloadVerifies`: `verify` accepts the count for all sizes, from the
invariant `Counted`, which says what has been counted at each point of the three
loops. `WorkloadOneMidway`: only the worker being served is between its two
resumes. `BespokeRefines`: the hand-written version implements the abstract
workload, and `BespokeVerifies` and `BespokeOneMidway` follow. `FxRefines`: so
does the version with continuations, and `FxVerifies`, `FxTableOwns` follow. Its
invariant `FxInv` says of each slot of the table what the loops have made of its
worker (`Stage`): null, a reference at its entry, one that has yielded, or a dead
one; and that a reference that is not dead is in exactly one slot. The sizes must
satisfy `DriverAssumption`: as many calls as `count`, a machine word, can hold.

*Asyncify.* `ActiveFiber` and `OverflowCaught`, for any fibers, any depth of
frames and any capacity of the asyncify stacks, and `AsyncifyImplements`: unwinding
and rewinding implement fibers that keep their frames. The invariant `AInv` cuts
the one call stack into activations, one per fiber that is resumed and not back
(`CallStack`), and says that only the innermost is ever unwound or rewound
(`FramesOK`); that the frames and the words of the fiber being unwound or rewound
are together the stack it yields with (`SwitchOK`); and that a suspended fiber has
such a stack in its words alone, within the capacity (`FibersOK`); and why a trap
happened (`TrapOK`). The step that
yields decides what is saved: every later step moves one frame between the
two parts of the same stack, which is why the refinement is a stutter there.

*TinyGo's sync package.* About `ClientsSpec`, for any finite set of tasks, any
programs, any bounds on readers and on the counter, and whatever else the runtime
does. `LocksAlwaysExclude`: `[]LocksExclude`. `NobodyWaitsForNothing`: who is
blocked on a lock or a group has a reason. `BroadcastAlwaysReachesAll` and
`AlwaysReleasedAtZero` are the action properties. None of it is inductive: in
these packages a lock is handed over by scheduling a task, and that the task finds itself
the owner when it runs depends on its being on no other list and on the run queue
once. `SyncInv` therefore has four parts:

- `PlaceInv`: a task is in exactly one place, once: on the run queue, on one of the five
  lists of blocked tasks, running, returned, or parked elsewhere;
- `MutexInv`: a task in the middle of `Lock` or `Wait` is blocked there or has been
  scheduled with what it waited for; a task between the unlock and the pause of
  `Wait` is on the stack of early signals or signaled, never both; one task has
  the mutex exactly when it is locked;
- `RWInv`: the same for `RWMutex`, whose word is the number of readers or says
  that there is a writer; readers wait only for a writer;
- `GroupInv`: nobody waits at zero, and the counter is in its range.

Steps are divided by what they do to places (`Sends`: some tasks go to one place,
the others stay) and to the words of the primitives; `SyncInvNext` combines them.
The lemmas on the readers take what they need of cardinalities as a hypothesis,
`Counting`, which `CountingTasks` discharges for a finite set of tasks.

*Only model-checked:*

- everything about fairness and liveness;
- the refinement of the runtime to the reference semantics (its mapping is a
  recursive function over the chain of resumes);
- the fiber version of c10m as a whole (`FiberImplements`, and `WorkersOwned` for
  the heap): of its parts, the fibers and the driver are proved;
- TinyGo's channels, sleep and timers, and with them `UsesSyncAsClient`: the
  module of channels closes and wakes by recursion over lists of operations, and
  the queues of sleepers are sums over prefixes, where each step of a proof would
  be an induction over data.

## 5. Where code and expectations part

Besides the six violation runs, the following came up while modelling. The
models follow the code.

- `eval.ml:370`: `ResumeThrow` reads the operand types of its tag and puts a
  `Throw` of its other index, the continuation type, into the context.
- `effects.pl:137`: the scheduler enqueues whatever suspends, also a goroutine
  that paused in `deadlock()` in order not to come back. Its next turn takes it
  to `panic("unreachable")`; hence the state `"unreachable"` in
  `WasmfxScheduler`.
- `effects.pl:91`: the result of `table.grow` is dropped; `EnqueueTrap`.
- `fiber_asyncify.c:174`: `asyncify_stop_unwind` is called also when the fiber
  returned without a yield, and then checks the bounds of whatever stack was
  used last, which may have been freed.
- `chan.go:105`: when the send of a select is detached, the state of the channel
  becomes empty or buffered without regard to what it is by then: its buffer may
  be full, or it may be closed.
- `scheduler.go:91`: because of what `sleep_order` shows, a sleeper also wakes
  early; `DueWhenAsked` bounds the due time from above only.
- `runtime_wasm_js_scheduler.go:1`: `go_scheduler` and `resume`, which a
  JavaScript host has to call for the scheduler to go on, are built for `wasi`
  only, where the scheduler does not return to wait for them.
- `queue.go:56`: `Queue.Append` of an empty queue loses its own tail. Nothing in
  the runtime calls it.

## 6. Not modelled

- **Vendored projects.** Nearly all of the lines in the repository are upstream
  wasmtime and cranelift, LLVM-facing TinyGo, Binaryen, the WebAssembly
  specification and `wasm-tools`, which the artifact carries without changing
  them. The models cover what the artifact adds, and what that rests on; as a
  share of all lines this is very small.
- **Runtime.** Panics inside a fiber (`RunResult::Panicked`), failure of stack
  allocation, the other architectures' switches; the stack limit that `resume`
  sets to 0, and overflow of the 4096-byte stacks; several instances sharing
  continuations (`tsp` and the slots are per instance); merging of the
  read-only load of the vmctx slot by the optimiser; the signal bits of the
  libcall result; a resume table that names a tag twice. `resume_throw` and
  `barrier` are `todo!()` in wasmtime.
- **Reference interpreter.** Rethrow and Delegate, and all instructions without
  continuations. Validation and the formats: the program is taken to be well
  typed.
- **c10m.** `stack_use`, which only touches memory; failure of `malloc`. How the
  Asyncify pass rewrites each kind of expression: the model has what the pass
  makes of a function, a frame with a call index and locals.
- **effects.pl.** The rewriting itself, which is pattern matching on text.
- **TinyGo.** The links of the linked lists (see `TaskInOneList`). `minSched`,
  which nests the scheduler, is in `WasmfxScheduler` only. The scheduler of a
  JavaScript host. `Once`, `Pool` and `Map`, nil channels, `len` and `cap`. Of
  `task_asyncify.go`, the counterpart of `fiber_asyncify.c`, the switches are
  modelled; the stacks and the checks for their overflow are not.
- The Go size benchmark, build and measurement scripts: no behaviour to model.

The hazards behind these are listed in `PROJECT.json` with a note each.
