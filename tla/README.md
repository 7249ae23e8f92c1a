# A verification development of the Jaci virtual machine

Jaci is a Lua dialect: a parser, a type checker, a bytecode compiler, a virtual machine with an
incremental garbage collector, a native code generator and a task runtime. This directory holds
TLA+ models of the parts in which several activities meet. One is the heap: the incremental collector
with the program that mutates the heap under it, and the hash tables that are its main data structure.
The other is the task runtime: coroutines that an event loop, channels and promises suspend and wake.

## Inventory

| Part | Where | Model |
|---|---|---|
| Collector: marking, incremental table scan, atomic, sweep, full collection, barriers | `VM/src/lgc.cpp`, `lgc.h` | `LuaGC` |
| Heap writes of the interpreter, the C API and the libraries | `lvmexecute.cpp`, `lapi.cpp`, `ltablib.cpp`, `lclass.cpp` | `LuaGC`, `LuaGCUnbarriered` |
| Coroutines, closures, upvalues | `ldo.cpp`, `lcorolib.cpp`, `lstate.cpp`, `lfunc.cpp` | `LuaGC` |
| Interned strings | `lstring.cpp` | `LuaGC` (revival only) |
| Tables | `ltable.cpp` | `LuaTable`, `LuaMap` |
| Native table-store barrier | `CodeGen/src/IrLoweringX64.cpp` | `LuaGCUnbarriered` |
| Task reactor: microtasks, timers, polls, cancellation | `lreactor.cpp` | `Reactor`, `TaskLibUnreferenced` |
| Channels | `ltasklib.cpp` | `TaskChannel`, refining `ChannelQueue` |
| Promises, async, combinators | `lreactor.cpp`, `ltasklib.cpp` | `TaskPromise` |
| The task library as a whole | | `TaskLib` |
| Page allocator, shared native code, module frontend queue, require cache | `lmem.cpp`, `CodeGen/`, `Analysis/src/Frontend.cpp`, `Require/` | not yet |
| Parser, compiler, type analysis, optimiser passes | `Ast/`, `Compiler/`, `Analysis/`, `CodeGen/` | no: sequential transformations of unbounded terms |
| Libraries, FFI, I/O, command line, language server | `VM/src/l*lib.cpp`, `CLI/` | no: pure functions or system calls |

`PROJECT.json` has the complete list, with what is left out of each part.

## The collector: `LuaGC`

An object has a fixed kind. `marked` is its colour, two whites included; `slot`, `nkey`, `nval` and
`meta` are its contents. The collector's lists are sets, since no property depends on the order of
visits. `scan` is the `gcscan*` continuation of a partly traversed table.

`Collector` has one action per state of `gcstep` and per stage of `atomic`; `Mutator` one per kind of
heap access. The program runs only between collector calls: `phase` and `full` block it while
`atomic` and `luaC_fullgc`, which the code never interrupts, take their several steps.

Abstractions:

- Closures, protos, classes and instances share the kind `func`: all are traversed in one go and
  guarded by the forward barrier. The code does a little more in one place: a new instance also gets
  `luaC_barrierfast` once its fields are set (`lclass.cpp:423`), which turns it gray again if it is black.
  A class writes its own tables with the forward barrier, too (`lclass.cpp:329`); each key of them is set
  once, and `newkey` has then notified the scan. Buffers and vectors are userdata without a metatable.
- A chunk of a table scan is one slot; a longer chunk is several steps without a program step.
  Whether a table is scanned at once or in chunks is a free choice, as pacing is not modelled.
- Table sizes are constants; a rehash permutes the nodes. `LuaTable` models sizes.
- A node without a value has no key. Stack slots above `top` do not exist.

## The inductive invariant: `LuaGCInvariant`

`NoDanglingRefs` is not inductive: when the whites flip, it is true afterwards only because everything
reachable was marked before. `IInv` adds what that rests on:

- `PhasesOK`, `ColoursOK`: which states of the collector go together, and which colours each allows.
- `BlackNeverPointsToWhite`, `GrayObjectsAreQueued`: the tri-colour invariant, and that no gray object is
  forgotten.
- `BlackThreadsOK`, `UpvalsOK`, `GrayUpvalsAreOpen`: stacks are exempt from the tri-colour invariant. What
  replaces it is that a white value on the stack of a black thread is in the slot of an open upvalue that
  is tagged, hence marked, hence gray, and a gray upvalue is open; `remarkupvals` visits exactly those.
- `ScanOK`: what lies behind the cursor of a partly scanned table is marked, as far as its weak mode asks.
- `AtomicOK`: what each part of `atomic` leaves done for the parts after it.
- `HeapOK`: free objects are empty, only closures refer to upvalues, a node without a value has no key.
- `ThreadsOK`: every active thread is on the resume chain from the main thread. This is stated over closed
  sets of objects, because a recursive definition of the chain could not be reasoned about.

## Tables: `LuaTable` and `LuaMap`

`LuaTable` has the array part, the nodes with their relative links, `lastfree` (which doubles as the
negated length cache), dead keys, and one traversal with `next`. Insertion, rehash and resize are
operators that follow `ltable.cpp` function by function. `LuaMap` is what a table promises, one action
per operation: `Set(k, v)` changes the entry of `k` and no other, `Drop(C)` those of `C`, `Clear` all,
and `Keep` none. The refinement maps each key to what `luaH_get` returns. Each action of `LuaTable`
records in `op` which of the four it stands for, with its arguments: `luaH_resizearray`, `luaH_clone`,
`luaH_getn`, `luaH_next` and `removeentry` have to keep every entry, a `cleartable` that shrinks the
table all but the cleared ones, and an assignment, of nil as well, all but its own. No guard reads `op`,
so the runs leave it out of the states that TLC tells apart (`VIEW`).

The traversal properties hold as long as only present fields are assigned. They end when the collector
shrinks a weak table of mode `s`: the code promises no order across that.

## The task library: `Reactor`, `TaskChannel`, `TaskPromise`, `TaskLib`

Everything runs on one operating system thread. The hard part is not parallelism but reentrancy: the
loop, `settle_promise` and the library calls resume coroutines, which call the library again before
they give back control. `stack` is the C stack as far as it matters: the task or timer callback that
runs, and below it the loop, the `settle_promise` or the async wrapper that waits for it. A function
that resumes somebody is split into a step before and a step after (`RunMicrotask` and `EndMicrotask`,
`FireTimer` and `EndTimer`, `RunWatcher` and `EndWatcher`, `WakeAwaiter` and `EndAwaiter`,
`RunCallback` and `EndCallback`); what the code keeps in local variables across the call, such as the
time read at the start of a step, the timer that was taken and the list of ready descriptors, is in
`loop`.

| State | Code |
|---|---|
| `status`, `call` | `lua_costatus` of a coroutine; the library call it is suspended in |
| `microtasks`, `active` | `microtasks_`, and the rest of `active_microtasks_` |
| `timers`, `handles` | `timer_heap_`, `TimerHandleData` |
| `watchers` | `io_watchers_` |
| `refs` | how many registry references each coroutine, callback and promise has |
| `leaked` | those of which the code has lost a reference; no guard reads it |
| `buffer`, `send_waiters`, `recv_waiters`, `closed` | `ChannelData` |
| `state`, `awaiting`, `callbacks` | `PromiseData`, the lists from where `settle_promise` is |

What a task computes is left out: while it runs, it makes any of the library calls of its program, in
any order, up to a limit, and may return or fail at any time. `Programs` says which calls a program
makes, and Init picks one. `handed` is only there to state what a channel delivers.

`TaskLib` composes the three parts and states what they promise together. A coroutine is suspended in
one call and must be in the one queue of that call (`OneWakeup`), whichever of the reactor, the channel
and the promises put it there; `RefsBalanced` counts the references of all queues against `refs`.

References are lost in two places, and the model has both. `andThen(f, g)` raises an error when `g` is
no function, after it has taken a reference to `f` (`ltasklib.cpp:194`); `catch` and `finally` always end
there (`and_then_raises`). `task.every` with arguments takes a reference to their table and passes it as
their number (`ltasklib.cpp:1551`; the model counts it on the handle). `RefsBalanced` says that these are
the only ones: nothing else is leaked, and nothing is released twice.

Abstractions:

- Arguments, results and error messages are left out. A failing task is one that returns.
- Descriptors are ready whenever the model likes. A wait has no length; time passes at any moment.
- Whoever waits can yield. `task.wait`, `task.yield`, the polls, `await`, `send` and `recv` enter the
  coroutine into their queue first and call `lua_yield` then, which raises an error where yielding is not
  possible: in a timer callback, in the executor of `task.create`, in a metamethod or comparator that C
  calls. The entry and its reference stay behind and later resume the coroutine from some other wait.
  Programs of the model do not wait in such places; `OneWakeup` would not hold of those that do.
- Delays and intervals are natural numbers. `task.every` with a negative interval makes a timer that
  expires at once, for ever.
- The program resumes only coroutines that it suspended itself. The code does not check this: the entry
  of a queue would stay behind.
- One loop at a time: a task that the loop runs does not call `task.run` or `task.step`.
- `task.cancel` is not called for a coroutine that runs, as `lua_resetthread` requires.

`ChannelQueue` is what a channel promises: values leave in the order in which they were accepted, at
most once, and a closed channel keeps what is in the buffer. The refinement takes the buffer followed by
the values of the waiting senders as the queue. A value handed to a receiver that was cancelled is lost,
and is not counted as accepted.

`TaskLibUnreferenced` adds two things the base model leaves out because they break its properties:
`timer:start` and `timer:reset`, and the capacity of `io_watchers_`.

## Runs

| Run | Bounds | Shows |
|---|---|---|
| `gc_tables` | 2 userdata, 2 array slots, 2 nodes, full collections | stores, insertions, displaced nodes and rehashes race the scan, and `IInv` holds throughout; full collections free all garbage |
| `gc_weak` | table, userdata, string; 1 node; modes "k", "v", "kv" | metatables and weak modes change during a scan; dead strings are revived |
| `gc_roots` | table, function; 1 array slot; mode "v"; full collections | roots and by-value captures without a barrier; full collections end |
| `gc_threads` | coroutine, closure, upvalue, full collections | stacks and shared upvalues change during a cycle, upvalues are closed in the middle of it, and a cycle is abandoned |
| `table_hash` | 4 colliding keys, 1 numeric | chains, displaced nodes, dead keys, traversal |
| `table_map` | 4 numeric keys, 1 other, 2 values | a table implements a map; boundary, length cache, no nested rehash |
| `task` | 3 tasks, 1 timer handle, 2 promises, capacity 1, 2 or 3 calls each | wake-ups, references, the channel and the promises, in nine kinds of programs |
| `task_live` | 2 tasks, capacity 0, 2 to 4 calls each | tasks wake up and the loop ends |
| `gc_sort`, `gc_native_store`, `gc_setupvalue`, `task_refs` | as above | the findings |

A lost object needs one unvisited slot, one visited slot and one white object, so two or three slots
and two userdata are enough for each race. The keys of `table_hash` are chosen so that three share a
main position and the fourth is at home where one of them ends up: only then are there chains of
three and moves out of the middle of a chain. With less collision the runs pass whatever the
collision code does. Every property has a faulty variant of the code (`Faulty variant` in the
modules) that violates it under the same bounds.

In `task` every kind of program has the calls of one part and those it can meet: channels with
cancellation and close, with timer callbacks, with senders that do not wait; timers with cancellation and
stop; polls; a loop that the file itself runs; promise chains with cancellation; async functions with
combinators. Three tasks are needed: one that waits, one that cancels or sends, one that waits behind the
first. Two or three calls each let a task wait, be woken and use the same object again, which is what the
hazards need. A capacity of 1 gives the full and the empty buffer, and `task_live` covers the unbuffered
channel, where sender and receiver meet without a buffer. The clock ends at `MaxTime`: a timer that would
fire later is not scheduled, and repeating timers stop firing there.

The two whites are interchangeable, as are the userdata, the table values, and the tasks, values and
promises of `task`, so those runs use symmetry, except `gc_roots` and `task_live`, which check liveness.

Fairness. `FairSpec` of the collector only asks that a full collection, once begun, keeps taking collector
steps. It is a loop over `gcstep` that nothing interrupts. No fairness is assumed of the incremental
collector. `FairSpec` of the task library asks that the loop and `settle_promise`, when on top of the
stack, go on, as sequential code does; that a running task or callback gives back control in the end, as
cooperative scheduling demands of every program; and that time passes. Nothing is asked of descriptors:
`TasksWakeUp` speaks of polls with a timeout only.

## Findings

In the first three TLC finds an object that the program can reach and the collector frees.

1. `table.sort` swaps slots without a barrier (`ltablib.cpp:417`). The comment there argues that both
   elements stay in the array. That was enough when an array was traversed at once; an incremental
   scan can stand between the two slots.
2. Native table stores test colours only (`IrLoweringX64.cpp:2588`). ADR 0018 says that writes to an
   already scanned slot are caught; the interpreter's macro does that, the emitted code does not.
3. `lua_setupvalue` guards the closure, not the upvalue it writes (`lapi.cpp:1669`). In the run the upvalue
   is black because it was open when its thread was traversed, and was closed afterwards; the closure has
   not been traversed yet.
4. `timer:start` and `timer:reset` enter the callback's reference into the heap a second time
   (`ltasklib.cpp:713`). The cancelled first entry releases it when it expires; the second entry then
   names a free registry slot, or whatever was put there since. `lreactor.h:51` says that an entry holds a
   reference. `task_refs` shows it with one timer that is created, stopped and started.

The property of `task_refs` has a second counterexample, which TLC finds when `RestartPrograms` keeps only
the program that polls. `poll_io` holds an `IOWatcher&` while it resumes the watcher's task
(`lreactor.cpp:496`). When that task polls again, `push_back` may move the watchers; the served watcher is
then not cancelled, and names a task that is not waiting for it. The base model assumes that
`io_watchers_` has room in that moment.

Read in the code, and modelled as they are: `promise:catch` and `promise:finally` push the arguments for
`promise_and_then` above their own, but it reads positions 2 and 3, finds the promise itself at 3 and
raises an error, with the reference lost (`ltasklib.cpp:213`). `task.every` passes its function as the
timer's arguments, so the timer fires without calling anything (`ltasklib.cpp:1551`).

## Proofs

`LuaGCLemmas` has the facts about the model's operators that the proofs about the collector share: what
an object refers to after a write (`Wrote`), what a barrier may do to a colour (`Paint`, `Gentle`), what a
mark of a set of objects gives (`Marks`).

`LuaGCProofs` proves `TypeCorrect`: `Spec => []TypeOK` for every heap, not just the small ones. It
includes that the scan cursor stays within the table and open upvalues within their stack. It assumes
only the named assumptions on the constants. Each group of variables has a lemma per action.

This module and the next four prove `IInv` inductive, in layers, and with it that the collector is safe
for every heap, every program and every interleaving of the two.

`LuaGCProofs` also proves the first layer of `IInv`: `ColoursCorrect` and `PhasesCorrect`. A program
step may mark during a mark phase, turn black objects gray, or make objects current white (`Paint`);
no barrier does more. That keeps the colours right in every phase, so `reallymarkobject` never meets
a dead object and no barrier fires while the collector pauses. `ColoursOK` is not inductive alone: a
barrier on a partly scanned table marks, which is harmless only because a scan is pending in no phase
but marking (`PhasesOK`).

`LuaGCHeapProofs` is about the structure of the heap under the program's steps. `Wrote` says which
references a step may add and where they come from. A program has only values that are alive at hand, so
whatever is alive keeps referring to what is alive (`MutatorStruct`).

`LuaGCMarkProofs` is about the marking invariants under the program's steps (`MutatorMark`), one lemma per
barrier and per kind of write. What a barrier marks, what it turns gray again and what the write changed
are related by `ProgramMarks`; the lemmas `BlackNext`, `QueueNext`, `ThreadsNext` and `ScanNext` turn that
into each part of the invariant.

`LuaGCCollectProofs` does the same for the collector's steps. `MarkingComplete` is the heart of it: when
`atomic` has emptied its lists, whatever a marked object refers to is marked, weak tables apart. From it and
from what `cleartable` leaves in a weak table (`WeakEntries`), `FinishStep` shows that the flip of the whites
condemns nothing that a survivor refers to, and `SweepStep` that the sweep frees only what is condemned.

`LuaGCSafetyProofs` puts the layers together (`InvariantStep`). Its theorems:

| Theorem | States |
|---|---|
| `InvariantCorrect` | `IInv` |
| `NoDanglingRefsCorrect` | nothing alive refers to a condemned or freed object |
| `ReachableObjectsSurviveCorrect` | what the program can reach is never condemned or freed |
| `BlackNeverPointsToWhiteCorrect` | the tri-colour invariant, which the barriers keep |
| `GrayObjectsAreQueuedCorrect` | every gray object is on exactly one list |
| `OrphanUpvalsCorrect` | `clearupvals` closes only upvalues of dead threads |

They hold for any finite or infinite set of objects: nothing in the argument counts. The proofs found that
`IInv` as first written, which TLC had accepted on all runs, was not inductive: it did not say that an open
upvalue holds no value of its own, that a gray upvalue is open, nor that the metatable recorded for a scan is
marked. Runs `gc_tables` and `gc_threads` check the strengthened form.

`TaskChannelProofs` proves `ChannelShapeAlways` and `ChannelImplementsQueue`, for any capacity and any
tasks. `ChannelShape` is inductive by itself, with the types of the channel's variables. The refinement
needs it: a hand-off is a `Pass` of the abstract queue only because a waiting receiver means that the
queue is empty, and a `Close` cuts the queue at the capacity only because senders wait on a full buffer.

`TaskPromiseProofs` proves `PromisesSettleOnce` and `SettledPromisesDrain`. Tasks run in the middle of
`settle_promise`, so the invariant (`PromiseInv`) relates the stack to the promises: a promise that is
being settled has its outcome and is settled by one frame only; a settled promise whose lists are not empty
is being settled; the promise of an async call is pending, and nobody has it, for as long as its wrapper is on the
stack; a promise that does not exist has empty lists and is on no stack. It is proved action by action,
first for pushing, popping and marking a frame in general.

Only model-checked: `FullGCCollectsAllGarbage`, the converse of safety; everything about tables (their
chains are recursive); `OneWakeup`, `RefsBalanced` and the other properties of the reactor, which
count entries of queues; all liveness.

## Not modelled

- The collector's pacing: no property says how long an incremental cycle takes.
- In the task library: nested loops, the explicit resume of a waiting coroutine, the results of promises
  and their references, the collection of promises and channels that are still waited on, the length of
  waits. `PROJECT.json` lists the hazards among them.
- Allocation failure inside `resize` and the error paths of `ldo.cpp`.
- The page allocator and the module cache are sequential; shared native modules and the frontend's queue
  use threads and mutexes and are the next candidates.
- Parser, compiler, type analysis, optimiser and the libraries of pure functions: sequential
  transformations of unbounded terms.

## Plan

1. Prove `FullGCCollectsAllGarbage` for heaps without weak tables.
2. Prove `OneWakeup` and `RefsBalanced` for every program, over counting lemmas for sequences.
3. Nested loops and the resume of waiting coroutines, with what then still holds.
4. Shared native modules and the frontend's queue.
5. Allocation failure inside `resize`, and the coroutine error paths of `ldo.cpp`.
