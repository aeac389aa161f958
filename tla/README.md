# Formal models of the Nim runtime

This directory holds TLA+ models of the parts of Nim's runtime and standard library that
threads, callbacks or a terminal make hard to test, the TLC configurations that check small
instances of them, and the theorems about them that TLAPS proves. The models are translated from
the source; file names below are relative to `src/`.

## Inventory

| part | source | state | operations | hard behaviour |
|---|---|---|---|---|
| builtin channel | `lib/system/channels_builtin.nim` | ring buffer (`rd`, `wr`, `count`, `mask`, `data`), `lock`, `cond`, `ready` | `open`, `send`, `trySend`, `recv`, `tryRecv`, `peek`, `ready`, `close` | one condition variable for senders and receivers, signals given after the release of the lock, unlocked test of the mask, growth of a rotated ring |
| MPMC channel | `lib/std/channels.nim` | `head`, `tail`, `closed`, two locks, two condition variables, an atomic reference count, a per-thread cache | `send`, `recv`, `trySend`, `tryRecv`, `open`, `close`, `=copy`, `=destroy` | a signal given under another lock than the waiter's test, two handles destroyed at once, a cached channel that is not reset |
| thread pool | `lib/pure/concurrency/threadpool.nim`, `compiler/spawn.nim` | one record and one semaphore per worker, `numSlavesRunning`, `numSlavesWaiting`, `gSomeReady` | `spawn`, `sync`, `blockUntil`, `blockUntilAny`, `awaitAndThen`, `setMaxPoolSize` | claiming a worker by compare and swap, hand-over of arguments, workers that shut down, semaphores destroyed while they are signalled |
| barrier | `lib/pure/concurrency/threadpool.nim` | `entered`, `left`, `interest`, a semaphore | `barrierEnter`, `barrierLeave`, `closeBarrier` | the last leaver races with the closing thread |
| async event loop | `lib/pure/asyncdispatch.nim`, `lib/pure/asyncfutures.nim`, `lib/pure/asyncstreams.nim` | futures and their callbacks, timers, the queue of pending callbacks, descriptors and their readers and writers | `complete`, `fail`, `addCallback`, `poll`, `sleepAsync`, `withTimeout`, `recv`, `send` | callbacks that register callbacks, a timeout racing a result, a descriptor closed while it is being processed |
| line editor | `lib/wrappers/linenoise/linenoise.c`, used by `lib/impure/rdstdin.nim` | the terminal's modes, the line (`buf`, `len`, `pos`), the screen and what the last refresh left (`oldpos`, `maxrows`), the history and its file | `linenoise`, every editing key, completion, hints, history add, save, load and limit, `linenoisePrintKeyCodes` | cursor and screen must agree after every key, the history holds the line being edited, the modes must be restored on every way out |
| cycle collector | `lib/system/orc.nim`, `lib/system/arc.nim` | reference counts, colours, the list of roots | `nimIncRef`, `nimDecRefIsLast*`, `collectCycles`, `GC_partialCollect` | partial collection, destructors that register roots during a collection |
| parallel search | `tools/nimgrep.nim` | two builtin channels, worker threads | search requests, results | a pipeline of bounded work and unbounded results |

The rest of the repository (the compiler's front end, semantic analysis, VM and
code generators, the other garbage collectors, the allocator, the other library
modules, the tools and the test runner) is listed in `PROJECT.json` with the reason
why it is not modelled.

What makes each part correct: a channel is a FIFO queue on which calls take effect at one instant,
and nobody sleeps beside a message; a handle of an MPMC channel never refers to freed memory; a
task's arguments live until the worker has copied them, and no spawner sleeps while a worker stands
ready; a barrier opens when all have left and not before; an awaited operation is known to the
loop exactly once and whoever awaits it is resumed exactly once; the editor's line, cursor, screen and
history say the same.

## Plan

| step | modules | state |
|---|---|---|
| 1 | `MessageQueue` (contract), `Channel`, `ChannelProofs` | modelled, checked, proved |
| 2 | `MpmcChannel` (implements `MessageQueue` too), `MpmcProofs`, `MpmcLifetime`, `MpmcLifetimeProofs` | modelled, checked, proved |
| 3 | `Barrier`, `BarrierProofs` | modelled, checked, proved |
| 4 | `ThreadPool`, `ThreadPoolProofs` | modelled, checked, proved for one spawner; left: flow variables' semaphores, `blockUntilAny`, pinned spawns |
| 5 | `LineHistory`, `LineScreen`, `LineEditor`, `Linenoise`, `LinenoiseProofs` | modelled, checked, proved |
| 6 | `Futures`, `Dispatcher`, `DispatcherProofs`, `DispatcherQueues` | modelled, checked, proved (some for two tasks, see Proofs); left: `and`, `or`, `all`, streams, `AsyncEvent` |
| 7 | `Orc`: trial deletion over a small heap, against reachability as the abstract specification | to do |

Of the safety invariants that the runs check one has no theorem: `LastDoesNotWait` of the pool (see the end of Proofs).

## How the parts interact

Threads share a builtin channel or a handle of an MPMC channel and nothing else; the two kinds
of channel are independent implementations of one contract. The thread pool hands a task to a
worker through the worker's record and two semaphores; the wrapper that the compiler generates
(`compiler/spawn.nim`) runs in the worker. A `parallel` section spawns its tasks through the
same pool and waits for them at a barrier, which the wrapper enters and leaves. The event loop
lives in one thread and meets the others only through descriptors. The line editor is single-threaded
C code that a program calls through `readLineFromStdin`; it meets its surroundings through the
terminal, the history file and the callbacks for completion and hints.

## Modules

In every module a step is a stretch of code between two points where another thread can tell the
difference: an access to shared memory outside a lock, the acquisition of a lock, a critical
section up to its end or to a wait. `pc[t]` says where thread `t` stands; the comment above the set
of its values says what each means. Memory is sequentially consistent. Next to an operator or
action, `Name_Something` is the same definition with a plausible mistake in it, under which a
property has been seen to fail; nothing else uses it.

**`MessageQueue`**, the contract. A queue of messages, the set `busy` of calls that have started and
have not taken effect, and the calls' arguments and results. A call takes effect at one
instant between its start and its return (this is linearizability), a send only while there is
room, a receive with the oldest message. `capacity` is chosen when the channel is made; `exact` says whether `trySend` may fail only on a
full channel: the unlocked tests of a buffered MPMC channel make it fail, or make `tryRecv` fail,
against a state that is gone.

**`Channel`**, `lib/system/channels_builtin.nim`. `rd`, `wr`, `count`, `mask`, `data`, `ready` are the fields
of `RawChannel`; `lock` is the holder of its mutex; the wait set of its one condition variable is the
set of threads at `wait`. `RawSend` and `RawRecv` are `rawSend` and `rawRecv` with the growth of the
buffer; `StartSend`, `StartOther` and `DeadCall` are the unlocked test of `mask`; `SendWait`, `SendStore`
and `SendSignal` are `sendImpl`, whose signal comes after the release of the lock; `RecvWait` and
`RecvTake` are `llRecv`, whose signal comes before; `TryRecvLock` may fail because the lock is
taken. `Close` is `deinitRawChannel`, which destroys the lock while it holds it: the model keeps it
locked for ever, as glibc does. A signal wakes *one* waiter, whoever it is.

**`MpmcChannel`**, `lib/std/channels.nim`. `size` is chosen in `Init` from `Sizes`; `head` and `tail` run over
twice the size. On a buffered channel senders hold `tailLock`, receivers `headLock`; on a channel of one
element both hold `headLock`, and `head` is a flag. `EarlyRead` and `EarlyTest` are the unlocked tests of the
non-blocking operations and of `peek`, which read the two indices one after the other. `MustWait` (the test) and
`Wait` are two steps, because a signal may be given under the other lock between them; `Pass` (the test)
and `Put` or `Take` (the copy and the store of the index) are two, because the other side moves its
index between them. `SignalAndRelease` is the end of all four procs, `FlagTest` and `FlagStore` are `close` and
`open`.

**`MpmcLifetime`**, the same file: `newChannel`, `=copy`, `=destroy` (which loads the counter and
decrements it in two steps) and the per-thread cache of freed channels. A handle belongs to a thread;
a thread copies one of its own handles to an empty one of its own or of another thread, as when it passes
the channel on (`Copy`), or over an occupied one of its own: `CopyOver` counts the
source, the destination is destroyed in its steps while other threads go on, and `Assign` makes it refer to the
channel that `next` remembers.

**`ThreadPool`**, `lib/pure/concurrency/threadpool.nim` and the wrapper of `compiler/spawn.nim`.
`workersData[i]` is a `Worker` record, whose semaphores are their counters; `currentPoolSize`, `minPoolSize`,
`maxPoolSize`, `gSomeReady`, `readyWorker`, `numSlavesRunning`, `numSlavesWaiting`, and the two locks are the
globals of those names. `Top`, `Announce`, `Arrived`, `EnterRunning`, `Wrapper`, `FinishTask`, `LeaveRunning`,
`Exit` are the loop of `slave`. `Spawn` starts `nimSpawn3`; `Select`, `Hand`, `Started` are `selectWorker`, the
same code at five places (`site`); `Advise`, `Min`, `FollowAdvice`, `Create`, `Count` grow or shrink the pool under
`stateLock`; `LockSlaves`, `GrowForSlaves`, `MarkWaiting`, `Unblock`, `UnmarkWaiting` are the workaround for
nested spawns. `StartSync`, `SyncLook`, `SyncReturn` are `sync`; `StartFinish`, `Finish`, `QueueFull`, `Wakeup`,
`Emptied` and `CleanFlowVars` give back the data of an awaited flow variable. The load that
`advice` measures is a choice of answers. `Create` gives the record new semaphores, as `activateWorkerThread` does,
also if the old thread of the record has just died and somebody still holds a token for it. The assertion
`not w.ready` (line 363) after the wait for a task is left out.

**`Barrier`**, the same file. `entered`, `left`, `interest` are the fields of `Barrier`, `counter` that of its
semaphore. The barrier lies on the master's stack, so that a late leaver of one section may
meet the barrier of the next at the same address; the model lets it, for any number of sections.

**`LineHistory`** holds the operations on the history and its file, **`LineScreen`** what the editor writes
and how a VT100 answers: a view is the screen, the cursor and the fields `oldpos` and `maxrows` of the last refresh;
`refreshSingleLine` and `refreshMultiLine` map a view to a view. **`LineEditor`** has one action per key of
`linenoiseEdit`, with the refresh that ends it, and `completeLine` in steps (`pc` is `"complete"` while it waits for
a key). **`Linenoise`** adds the terminal modes (`enableRawMode`, `disableRawMode`, `linenoiseAtExit`), the reader for
a dumb terminal and for a file (`linenoiseNoTTY`, which grows its buffer), loading and saving the history, the
settings between calls, and `linenoisePrintKeyCodes`. A key is handled completely before the next one is
read, as in the code. `tcgetattr` and `tcsetattr` may fail, the terminal may or may not tell its width, the
program may end at any moment between calls. Assumed: characters are printable and one byte and one cell wide,
the prompt is shorter than a row, the screen is followed only if the terminal has told its width, erasing with the
cursor behind the last column erases nothing, writes to the terminal succeed except, at will, the
prompt's and that of a character typed at the end (so `getColumns` puts the cursor back when it can), memory does not run out except in `linenoiseNoTTY`. Erasing behind the last column is where terminals differ: VTE, Konsole and tmux
do as assumed, xterm takes the cursor to be in the last column and would lose the character there when a single
line fills the row. The key 0 (`KEY_NULL`), which would put the terminating character into the line, is left out.

**`Futures`**, `lib/pure/asyncfutures.nim`: `complete`, `fail`, `addCallback`, `callback=` and the queue of callbacks.
Because these procs call each other, they are operators from a state record to a state record; an action of the
dispatcher is the composition that the code runs before it returns to the loop. **`Dispatcher`**,
`lib/pure/asyncdispatch.nim` on Linux with `lib/pure/ioselects/ioselectors_epoll.nim`, and what `asyncmacro.nim` makes of
an async proc. `pc` follows `runOnce`: `adjust` (the timeout), `select` (in `epoll_wait`), `dispatch` with `keys` and `io`
(one key, one callback of the moved-out list at a time), `callbacks` (`processPendingCallbacks`), and `main`, `task` while
the program's own code runs. An async proc is any sequence of operations, each started and awaited or left
alone: `Recv`, `Send`, `sleepAsync`, `WithTimeout`, `AddRead` of a callback of the program's own (`Watcher`), `closeSocket`,
`Return`. `Arrive`, `PeerReads`, `HangUp` and `Tick` are the kernel, the peer and the clock. Timers hold the time
left; equal ones expire in any order. `order` is a history variable. A future that is finished twice is not
refused, as in a release build. Assumed: a message is one unit; socket errors, `EINTR` and polls from within
callbacks are left out.

The modules `MC...` fix small sets of threads, messages, sockets or characters and say what each thread may call. Where
one has a `Bound`, its comment says which part of the state space the run keeps. `MCServedChannel` adds to a channel the
moment after which its use is calm, as the threads of `tools/nimgrep.nim` use it.

## Runs

All runs together take about nine minutes with two workers. Sizes are distinct states.

| run | question and instance | states |
|---|---|---|
| `chan_unlimited` | 2 senders, 2 receivers (one also polls), unlimited, at most 3 messages pending, 2 kinds of message, spurious wakeups. Ring consistent, FIFO, no wakeup lost | 701 k |
| `chan_bounded` | every operation, close at any moment, `maxItems` 2, spurious wakeups, then one sender and one receiver, fair. FIFO and bound; every send returns, a sleeper beside a message wakes | 68 k |
| `chan_shared_cond` | 2 senders, 1 receiver, `maxItems` 1. **Violated**: all sleep with a message in the channel | |
| `mpmc_channel` | 2 senders, 2 receivers, blocking and not, close and open, sizes 1 and 2, fair. FIFO; sleepers of the unbuffered channel wake | 413 k |
| `mpmc_lost_wakeup` | 1 sender, 1 receiver, size 2, fair. **Violated**: the receiver sleeps on beside a message | |
| `life_cache` | 2 handles in each of 2 threads, copied and copied over, 3 addresses, cache of 1. No handle dangles, caches disjoint | 51 k |
| `pool` | 1 spawner, 3 tasks, 3 records: either limits and advice change at will, or a task spawns too, fair. Arguments alive, a spawn ends with its own token, the counters of workers are right, no ready worker unnoticed, the last worker does not wait, `sync` waits, spawns return | 598 k |
| `pool_two_spawners` | 3 tasks, one spawned by a task, 2 records. **Violated**: a spawn ends with another spawn's token | |
| `barrier` | 3 workers, sections of up to 4 tasks without end, fair. `closeBarrier` returns, and only when it should | 19 k |
| `linenoise` | 3 columns, lines of 3 characters, histories of up to 3, single and multi line, hints, completion, all three kinds of input. Line, screen, history, file and modes | 1.5 M |
| `async_loop` | 2 tasks on one socket or one on two, up to 5 futures, receives, sends in parts, sleeps, timeouts, closing, fair. Nothing forgotten, resumed twice, overlooked or misanswered; timeouts answer, messages arrive | 541 k |
| `async_half_close` | the same with one socket. **Violated**: the loop stops watching a socket although a send waits for it | |

Why these bounds are enough for what they are asked. A channel's ring grows at 1, 2 and 4 messages;
three pending messages make it grow from 1 to 2 to 4 at every rotation of the smaller ring, and let it
wrap afterwards. Two threads on each side are what a wakeup needs to reach the wrong one, or be
overtaken. `maxItems` 2 separates "just stopped being full" from "empty". Size 2 is the smallest MPMC
channel with two locks; its indices run through all four values, full and empty at each. Two handles in each thread
let both threads copy one handle over another of the same or of a different channel at once. In the pool a
second record is what lets it grow and shrink, two tasks what lets one record be handed
over twice, a queue of one what makes it fill; three tasks with a parent let a worker
spawn while the main thread does. In the barrier, three workers let one be late from an earlier
section while two race with the master in the present one. Three columns with a prompt of one let a line of
three characters scroll in single line mode and take a second row in multi line mode, with the cursor at, before and
behind the last column; lines of three fill the buffer; a history of three has a line before, at and behind the
slot that is edited; `Space` and one accent tell words, completions and the two kinds of character apart. In the
event loop two tasks on one socket are what lets a callback change the list it is called from, two sockets what
lets a key be stale; a send of two units into room for one comes back once; one tick separates "due" from "not yet", and
the five futures are those of a timeout beside another operation.

Deadlock is checked for the barrier, the line editor and the event loop; elsewhere the program may really stop
(everybody waits for a message that nobody sends, the channel is closed, all tasks are spawned). Symmetry is
used for messages in `chan_unlimited` and for addresses in `life_cache`, which have no liveness properties.

**Fairness.** A thread inside a call takes its next step if that stays enabled
(the scheduler is weakly fair); no thread is obliged to start a call. Locks are not assumed to be
fair. `ServedSpec` adds that, once the use is calm, a receiver calls `recv` again, as the threads of `tools/nimgrep.nim`
do: without it a send to a full channel need not return. In the pool, tasks end. Where a wakeup is owed to somebody
no wakeup is spurious (the unbuffered channel, the calm channel), so that no property holds only thanks to them. The
claims about progress in the channels are of one sender and one receiver (`Channel`) and of the unbuffered
channel (`MpmcChannel`), because beyond that they are false, see below. In the event loop the thread runs and time
passes; the peers owe nothing.

## Proofs

`ChannelProofs` is about any set of messages, any `maxItems`, any set of threads (finite where
cardinalities are needed), any assignment of operations to threads, with or without spurious wakeups.

- `TypeCorrect`, `RingCorrect`: the inductive invariant is
  `IInv == TypeOK /\ RingConsistent /\ LockInv`. `LockInv` says that a thread in a critical section holds the lock,
  and that once the channel is closed nobody is in a critical section: without it, `Close` could run
  beside `SendStore`, which would then store into a freed ring. The growth of the ring is two lemmas, `RawSendShape`
  and `RawRecvShape`, about where the oldest and the next message are.
- `Refines`: `Spec => ImplementsQueue`. `RawSendAppends` and `RawRecvTakesHead` show that the buffer
  read from `rd` on is the queue with a message appended, or without its head, across growth and
  wrapping; then each action is a step of the queue or a stutter.
- `WakeupsKeptUp`: with `maxItems` 0 no wakeup is lost. The invariant adds that only receivers sleep, and
  counts the wakeups under way; each action changes the count of messages and of
  wakeups by at most one.

`MpmcProofs` is about any set of sizes, threads and messages, with or without spurious wakeups.

- `MpmcTyped`, `MpmcRefines`: the inductive invariant is `TypeOK /\ LockInv /\ CallInv /\ MayMove`. `MayMove` is what
  the code asserts after its loops, that a sender which has passed its test still finds room and a receiver a
  message. It holds although the other side moves its index under the other lock, because a receive only makes room and a
  send only brings messages (`HeadMoves`, `TailMoves`), and two threads of one side hold one lock (`LockInv`).
  `PutAppends` and `TakeGetsHead` show that the buffer read from `head` on is the queue, across wrapping.

`MpmcLifetimeProofs` is about any finite set of handles and any set of threads and addresses.

- `LifetimeTyped`, `HandlesNeverDangle`, `CachesStayDisjoint`: while a channel has handles its counter is their
  number less one (`Counted`), where what `=copy` has counted and not yet assigned is a handle too (`Coming`, `Copying`),
  so that a thread that loads 0 has the only one until it has freed the channel
  (`Destroying`, `LastHandle`); a channel in a cache has the counter 0, with which it is handed out again (`CachedAtZero`).

`ThreadPoolProofs` is about any number of records, tasks and spawning threads.

- `CountersRight`: for every program, tasks that spawn included, `numSlavesRunning` and `numSlavesWaiting` are the numbers
  of workers at a task and of those among them that wait for a worker. It is inductive with `PcInv`, where each
  thread may be; the rest is arithmetic of two cardinalities.
- `PoolTyped`: as long as no task spawns (`NotNested`), for any number of spawning threads, the counters stay in
  their ranges and the pool does not outgrow its records. The invariant `FlatInv` says who holds `stateLock` while
  the pool grows, that a worker has a record and a task while it runs one, and, `SizeInv`, that there are no more live threads than
  the pool has records or is about to have. With nested spawns the pool grows on a second path, under another lock, and may
  exceed its records, see below: so the hypothesis.
- `ArgumentsWaitedFor`, `SpawnsItsOwn`, `NobodyStranded`, `SyncWaitsForAll`: with one spawning thread (`OneSpawner`) and
  tasks that do not spawn, a task's arguments live until they are copied, a spawn ends with its own token, no spawner sleeps beside a ready
  worker, and `sync` waits for all. With two spawners the first two are false: `pool_two_spawners`. The invariant
  `AloneInv` follows the one task that is under way: its record, the thread that receives it, its tokens
  (`HandoverInv`, `TokenInv`), the phase of every task (`PhaseInv`), the workers that wait at each record (`WaitInv`)
  and what `sync` has seen so far (`SyncInv`), for which two threads at one record are ruled out by counting (a
  record has at most one live thread, because the live threads are as many as the records).

`LinenoiseProofs` is about any buffer, terminal, history, set of characters and completions that fit.

- `LinenoiseTyped`: every variable keeps its type, and `linenoiseNoTTY` stores within its block (`OtherInv`, `RoomInv`).
- `ExitRestoresModes`: however the program ends, the terminal has the modes it had, unless restoring them failed. `ModeInv`
  relates the terminal's modes, the saved ones and `rawmode`.
- `LoadingRestores`: a history that was saved and is loaded is the same. `LoadInv` says that what is in the
  history and what is still unread make up the lines that were saved.

- `LineStaysConsistent`, `HistoryStaysInBounds`: no operation moves the cursor off the line, lets the line outgrow its buffer
  or the history its limit, or leaves `history_index` pointing outside. The two need each other: a line
  recalled from the history must fit, and the history's slots must exist for as long as a line is edited.
- `OtherSlotsKept`, `RecallIsUndone`: editing changes only the slot of the line being edited, and going to an older line
  and back restores what was typed.
- `ScreenShowsLine`: what is on the screen agrees with the line and the cursor. The hypothesis `Fits` is that the longest line and
  the cursor behind it end above the last row, as the modelled terminal does not scroll. `MarginLeft` excepts a call whose
  terminal did not answer, has just the width that is assumed then, and was left with the cursor at its right margin:
  `getColumns` returns on a failed answer without moving it back (`linenoise.c:299`). Both are needed: TLC finds
  `ScreenShows` violated on a screen of two rows, and with `DefaultCols = Cols`. `ToldWidthShowsLine` says that a
  terminal whose width is not the assumed one needs no exception.
  The invariant `ScreenInv` says more than what is seen: in single line mode which part of the line is shown, and that
  the rows below are empty; in multi line mode that `maxrows` rows are enough for the line, and that the cursor is in the row in which
  the next refresh will look for it from `oldpos`, so that the refresh clears all rows that the last one used and no row
  above. The lemmas go from the terminal's answers (`TextDoes`, `ForwardDoes`) over what a refresh does (`SingleDoes`,
  `MultiDoes`, `ClearScreenDoes`) to the steps of the editor, sorted by how they change the screen (`EditCases`).
  `refreshMultiLine`'s loop over the rows is shown by induction on the number of rows, as for the dispatcher's lists (`UpTo`,
  `Iteration`); the row and column of a position come from the uniqueness of quotient and remainder (`DivUnique`).

`BarrierProofs` is about any finite set of workers and any number of tasks and sections.

- `BarrierTyped`, `BarrierWaits`, `BarrierSignals`: the inductive invariant adds to the properties that
  `entered` exceeds `left` by the number of working tasks (`Accounted`), that a master that waits has set
  `interest` (`Listening`), that a token is there or on its way once nobody works (`TokenComes`) and that a
  sleeping master beside a token is about to be woken (`WakeupComes`). `NoLostSignal` alone is not
  inductive: it does not say why the last leaver must see `interest`.

`DispatcherProofs` and `DispatcherQueues` are about any number of tasks, any finite set of sockets and any bounds.

- `LoopTyped`: `DataInv /\ LoopInv`, the types in a form that is closed under the operators of `Futures`. The first half of the
  module says of each operator what it makes of a state record (`FinishDoes`, `addReadDoes`, `CallAllDoes` and so on); what
  `closeSocket` and `processTimers` do to a whole list is shown by induction from the least number for which it would
  fail (`LeastNumber`, `Iteration`). The second half says of each action what it leaves alone, and sorts the steps by
  what they do to the sockets' lists (`Moves`): most leave them alone (`Quiet`), an operation is asked for (`Asked`),
  a socket is closed (`Shut`), a callback is called (`Tried`), lists are moved out and back (`Relisted`).
- `NothingIsLost`: a pending operation is in exactly one place. `CountInv` counts the places of each operation: its socket's
  lists, and for the key in work `curList` and `newList`. For it to be inductive the lists must be of one kind and one
  socket (`ListInv`), and what processBasicCallbacks holds must be empty when it is not at work (`PlaceInv`).
- `ReceiversServedInTurn`: the futures in a list ascend, and those moved out precede those that came since (`OrderInv`), so
  that the receiver that is called is the first of those still waiting; those that are answered without data
  belong to a socket that will have no more data (`ReceivedInv`).
- `LoopWakesUp`: the interest of a socket is what its lists say, except for the key in work, whose interest is set
  when it is left, from the counts taken when its lists were put back (`WatchedInv`). A key without events has hung
  up, which is the way to `async_half_close` and why the property excepts it. `UntilInv` is about the timeout.
- `NobodyResumedTwice`: the callback that resumes a task is in one place at most, and only while the task waits
  (`WaitersInv`). What each operator does to a callback is said once: it carries it along (`Carries`: `finish` moves the
  callbacks of a future to those that are ready), or puts a new one somewhere (`Joins`). Almost every step then is of one
  kind (`Plain`); those of their own are the await, the return, `withTimeout` and the call of a callback.
- `EveryoneResumed`: it is in one place exactly (`ResumedOnce`), as long as no two tasks have the same latest operation
  (`Unshared`, a hypothesis of the theorem). `HomeInv` says where a callback can be: with the task's latest operation, or with
  a timeout. The hypothesis is needed, as `callback=` forgets other tasks; see below.
- `TwoTasksResumed`: two tasks keep `Unshared`, since only the second has somebody to wait for (`NeverShared`), so `ResumedOnce` holds of them
  without the hypothesis.
- `NoAnswerTooEarly`: no future finishes twice, a timeout is answered "false" only when its sleep has ended, and "true" only if its future
  finished and the sleep had not ended before. `ScheduleInv` relates the order in which futures have finished to the callbacks
  that are still to be called: a callback that answers a timeout is with the future it is about until that one finishes, and then among the
  ready ones (`Placed`), and of two that answer the same timeout the one whose future was first is called first (`InTurn`). The
  sleep is always heard (`Expires`), because the program never sees its future (`OpsIn`) and so cannot forget its
  callback; its timer is there as long as it has not ended, and once (`TimersInv`).
- `TimeoutsTell`: the answer tells which of the two was first (`AnswersTell`), as long as no two tasks have the same latest operation. What
  was missing is that the future is heard too (`AllListen`): another `withTimeout` on it would take its callback away,
  but who set the first is still waiting with that future as its operation (`ReturnInv`), so the second would share it.
  `TwoTimeoutsTell` needs no hypothesis but that there are two tasks at most.
- `LoopNeverIdle`, `TwoTasksNeverIdle`: under the same hypotheses `poll` is never called with nothing to wait for while a task is
  awaited, unless a peer has hung up (`NeverIdle`). The argument takes the first task that has been started and has not ended: it waits for something
  (`AllWait`), which is pending. A timeout or a sleep has a timer, an operation is in the list of its socket, which is open (`ClosedInv`)
  and watched, and a task's future belongs to an earlier task (`MadeInv`), which has ended. The other way to raise, a key whose socket was closed, needs a
  socket closed before its turn though no event was left for it (`HeadInv`).

The assumptions are those stated in the modules (`ConstantsAssumption`, `ThreadsFinite`, `MpmcAssumption` and so on), which
TLC evaluates in the runs. The number of sends pending, of futures and of messages waiting is bounded in the
runs only.

Only model-checked: all liveness, which is out of reach of the proof system, as is `ENABLED`; of the pool
`LastDoesNotWait`, which is claimed for the instance of its run, and everything with tasks that spawn except
`CountersRight`.

`ResumedOnce`, `AnswersTell` and `NeverIdle` are not true for every number of tasks: if two
tasks wait for the same third one, the second one's `withTimeout` takes the place of the first one's callback
(`asyncfutures.nim:272`), which then is never resumed, or answered by its timer only. (With three tasks and eight futures TLC
finds both `AnswersTell` and `NeverIdle` violated.) Hence the hypothesis of those theorems; with two tasks, as in the run, only one can wait
for the other.

## What the runs found

- **`chan_shared_cond`.** On a bounded builtin channel senders and receivers wait on one condition
  variable and each signal wakes one arbitrary waiter. A send's signal may wake another sender,
  which finds the channel full and sleeps again; everybody then sleeps with a message in
  the channel, although `recv` "blocks until a message has arrived"
  (`lib/system/channels_builtin.nim:401`). It takes two threads on one side.
- **`mpmc_lost_wakeup`.** `sendMpmc` signals `notEmptyCond` with `tailLock` held, the receiver tests and waits
  under `headLock` (`lib/std/channels.nim:346`, 392). The signal may fall between test and wait; one send and one
  `recv` are enough for `recv` to sleep for ever. The mirror image holds for `send` on a full
  channel.
- **`pool_two_spawners`.** A worker may run its task to the end and become ready again before its spawner has
  taken the `taskStarted` token (`lib/pure/concurrency/threadpool.nim:152`). A second spawner
  claims the worker, takes that token, and returns while its arguments, on its stack,
  have not been copied.

- **`async_half_close`.** If only a send waits for a socket and the peer, whose buffer is full, shuts down its sending
  side, `epoll_wait` returns a key without events (`EPOLLRDHUP` is always reported). `runOnce` then calls no callback,
  finds no reader and no writer counted, and takes the socket out of epoll with the callback still in `writeList`
  (`lib/pure/asyncdispatch.nim:1326`). The send never finishes; once nothing else is pending `poll` raises.

Met while modelling, and not stated as properties of a run:

- A spawn from a task may deadlock the pool: `nimSpawn3` calls `selectWorker` on a new worker with
  `numSlavesLock` held (line 555); if the new thread is ready in time, the spawner waits for `taskStarted`
  while the worker waits for that lock (line 365) before it can give it. The state is reachable in
  the instance of `pool` (a spawner at `started` holds the lock, its worker is at `arrived`);
  the run's properties are about threads blocked on `gSomeReady`.
- `sync` may return while tasks run when tasks spawn: it looks at the workers one after the other, and a task on
  one that it has yet to look at may spawn on one that it has already passed. `SyncWaits` is claimed for
  tasks that do not spawn.
- After the pool has been shrunk, a record below `currentPoolSize` may have no thread (it stays
  `initialized`), and `sync` spins on it for ever; so does an `await` that must wake it to empty its
  queue. `SpawnReturns` is about spawns only.
- The pool grows under `stateLock` in one place and under `numSlavesLock` in another, so that two threads
  may start the same record. A record may also get a second thread while its first
  is about to end: when a worker counts itself out between the test of `initialized` and the creation, the thread
  is created for the record below the one that was tested.
- `finished` clears the record's `data` while another spawner may be handing over a task through it (line 207).
- `blockUntil` on a flow variable destroys its semaphore when it has the token, although the worker may still
  be about to signal the condition variable (line 53).
- `close` on a builtin channel never releases its lock: a `send`, `trySend` or `peek` that has passed the test of
  `mask` waits for ever. A channel opened again keeps its old `count` unless its memory is cleared.
- `ready` is one flag for all receivers and is false while receivers wait if one of them has just
  left (compare the comment at lines 451-452 of the file).
- In `std/channels` an index that wraps is incremented and then reset. Optimized builds store it once,
  which is what the model does; a build that keeps both stores lets the other side read an index out of
  range. `peek` reads the two indices without a lock, so its assertion (line 127) may fail.
- Two threads that destroy the last two handles at once may both read the counter before
  either decrements it; then nobody frees the channel. `NoDanglingHandle` is about the other direction.
- `freeChannel` puts a channel into the cache as it is: `newChannel` may hand out a channel that still has
  items (the assertion of line 226 fails) or is closed. Two threads may pass the test of the flag in `close` or `open`
  together, so that both calls answer true.
- `blockUntilAny` attaches itself to a flow variable whose semaphore has no token yet (line 282 of
  `threadpool.nim`). The worker looks for such an attachment first and gives the token afterwards (line 221): if the attachment
  comes between the two, nobody wakes `blockUntilAny`.

In the event loop (`lib/pure/asyncdispatch.nim` and `lib/pure/asyncfutures.nim`):

- `callback=` forgets the callbacks added before. `withTimeout`, `or` and `asyncCheck` use it on the future they are
  given, so that two of them on one pending future leave the first without an answer, or with that of its timer.
- `and` may complete successfully although its second future failed, if both finish in one turn (`asyncfutures.nim:450`).
- `poll(-1)` does not wake for timers (line 213); `drain` subtracts the time since its start once per turn (line 1617).
- A stream serves the later of two waiting `read`s first, and when it is completed answers only that one
  (`asyncstreams.nim`, lines 106 to 134).
- A callback of `addRead` that answers false keeps those behind it in the list from being called
  (line 1242); one that raises loses those behind it, and those in front of it that wanted to be called again.
- A key without events for a socket that a callback of the same turn has closed runs into the assertion of
  `updateHandle` (`pc` is `"raised"` in the model).

In the line editor (`lib/wrappers/linenoise/linenoise.c`):

- After a completion, a key from 0x80 on ends the line, since `char` is signed (compare the comment at lines 803 to 805);
  an escape after a completion eats two more bytes.
- Ctrl-C and the end of the input leave the slot of the edited line in the history.
- A completion longer than the buffer is copied truncated but counted in full (line 395); a prompt as wide as the terminal
  makes the scrolling loop run away (line 511); the hint's escape sequence is used uninitialised if there is no
  colour (line 488).
- If restoring the modes fails, the next `enableRawMode` saves the raw modes as the ones to restore.
- A history line that fills the buffer is split in two when it is loaded; `getColumns` may leave the cursor in the last column;
  `linenoisePrintKeyCodes` spins at the end of its input (line 969); loading a file that does not exist gives -1 where
  the comment at line 1186 says 0.

## Not modelled

The cycle collector is the next step of the plan; it is sequential within a thread. Of the modelled files, left
out are: the deep copy of messages and the bytes of items; re-opening a closed builtin channel; pinned
spawns, `blockUntilAny` and the semaphore inside a flow variable; the measurements of
`cpuload.nim`; the event loop's Windows half, its events, signals and processes, `accept`, `connect` and datagrams, `and`, `or`, `all`,
`asyncCheck`, `drain` and streams; the editor's colours and masks and control characters typed as text. nimgrep is
modelled only by how it uses a channel. The compiler is sequential and its correctness is about the meaning of
Nim; the allocator and the older collectors depend on machine layout; `PROJECT.json` lists each
part with its reason.
