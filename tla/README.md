# A TLA+ verification project for Tecnix

Tecnix is a fork of Nix that adds dependency-tracked evaluation of the targets
of a monorepo, a fiber-based parallel evaluator, and a persistent evaluation
cache. This project models those three subsystems, and the two parts of Nix
underneath whose concurrency is hardest to test: the local store with its
garbage collector, and the build scheduler. It checks them with TLC on small
instances, and proves the safety properties of dependency tracking, the
executor, the cache, the store and the scheduler with TLAPS for every value of
the constants. Paths are relative to the repository;
`libexpr/` stands for `src/libexpr/`, `libstore/` for `src/libstore/`.

    tlc -workers 2 -config TrackedParallel.cfg MCTrackedEval
    tlapm TrackedEvalProofs.tla

## 1. Inventory

### Components, their state and their operations

| Component | State | Operations |
|---|---|---|
| Values and forcing (`value.hh`, `eval-inline.hh`) | one word per value: thunk, pending, awaited, finished or failed, with the owner's evaluator id | `force`, `finish`, `waitOnThunk`, `notifyWaiters` |
| Dependency tracking (`tecnix/force-value.hh`, `value-hooks.hh`, `source-deps.cc`) | a label (access set) per value; per task a `TrackingContext` with a chain of frames | forcing under tracking, recording an access or a child's label, publishing a label, taking a target's closure |
| Frame stacks (`source-deps.cc`) | one stack of accesses and one of child sets per context, two watermarks per frame | enter, record, publish and collapse, finish, merge an unpublished frame, scopes |
| Access-set graph (`source-deps.cc`) | interned paths and sets, a bounded memo of inputs | intern, flatten |
| Memo, import and scope primops (`primops/tecnix.cc`, `eval.cc`) | results with the set they were computed from | look up, evaluate in a scope, store unless another did |
| Executor (`parallel-eval.cc/.hh`) | queue of items, per worker a ready queue and fiber counts, wait lists per waiter domain, `quit` | spawn, worker loop, suspend, wake, interrupt callback, shutdown |
| Evaluation cache (`tecnix/eval-cache.cc`) | SQLite rows: per shard, per target a bounded history of (closure, payload) candidates; a fingerprint memo per call | lookup, match, merge, upsert |
| Repository accessor (`tecnix/repo-accessor.cc`) | pinned commit, the set of dirty paths | resolve, status, read, fingerprint |
| Target primops (`primops/tecnix.cc`) | module cache | `tecnixTargets` and its cached and dependency variants |
| Local store and collector (`libstore/local-store.cc`, `gc.cc`, `pathlocks.cc`) | valid paths, the store directory with its `.unpacked` markers, path locks; per process a temporary roots file; the GC lock, the roots socket, `tempRoots` and `pending` of a collection | add one or several paths, register, root, `collectGarbage`, delete a path |
| Build scheduler (`libstore/build/`) | goals with the goals they wait for, the `awake` set, four wait lists, the wakeup queue, the children and their slots | the event loop, and per kind of goal what each resumption does |
| Source accessors, git status parsing (`tecnix/source-accessors.cc`) | none of their own | parsing, plumbing |
| Off-fiber calls (`parallel-eval.cc`) | a pool of helper threads | run a blocking call for a suspended fiber |
| The rest of Nix: parser, evaluator, daemon, fetchers, flakes, CLI, C API | | |

### How they interact

A `tecnixTargets` call pins a commit, takes the dirty paths from `git status`,
looks its targets up in the cache, and evaluates the misses: one task per target,
each with a `TrackingContext`, on the executor's fibers or one after another.
All tasks force one shared graph of values, and share the tables of imports and
memoized calls. The only channel between tasks is the set published on a
finished value or with a table entry. When all have been evaluated the
closures are fingerprinted, and stored in one transaction per shard. Fibers
that need a value another evaluator is computing are suspended in a wait list
and handed back to their worker by whoever finishes the value, or by the flush
that an interrupt and the destructor perform.

Recipes written by an evaluation, and outputs written by a build or a
substitution, enter the store through `addToStore` or `addMultipleToStore`
under path locks. Every process roots what it uses in a file of its own, and
tells a running collection through a socket. The scheduler starts builders,
hooks and copying threads, and learns of their end through `waitForInput`.

### What is hard, and what makes each part correct

* Tracking: the interleaving of forces of shared values, races for a thunk,
  failures that pass through several frames, evaluators that do not track.
  Correct: every closure and label equals that of isolated evaluation,
  nothing leaks into another target, outcomes do not depend on the order.
* Frames: all frames share two stacks, an access is suppressed when it is
  already above the watermark, a scope hands its set to the frame below and also
  to the temporary that holds the call's result, which is copied to the value being
  forced when the scope is gone, a finished file is labelled again, exceptions drop
  frames in any of these states, others win the value or the table entry. Correct:
  it is as if each frame had a set of its own, and finished values keep their label.
* Executor: lost wakeups between lock-free `finish` and registration, a fiber in
  two places, suspension after a flush, promises answered by four parties, the
  fiber limit. Correct: no fiber is lost or stranded, everyone is answered
  once, something can always run, shutdown ends.
* Cache: overlapping writers in several processes, dirty overlays, edits while a
  call runs, crashes, unreadable rows, a garbage-collected store, limits.
  Correct: every stored candidate is a proof, an answer equals a fresh
  evaluation, rows are bounded, and writers accumulate.
* Store: a root that arrives while its path is examined or being deleted, a
  process that dies between two writes, a new process with the pid of a dead
  one whose roots file the collector is removing, several path locks at once.
  Correct: what is rooted and was seen valid stays, valid paths are whole and
  closed under references, nobody writes what is being deleted, locks have no cycle.
* Scheduler: a goal that nothing wakes, or two things do; slots that leak when a
  goal is cancelled; failures with and without keep-going and fallback; the same
  path wanted by several goals and by another process. Correct: one wake source per
  goal, no idle slot, inputs valid before a build, and the loop ends.

`PROJECT.json` lists the hazards at the lines where they bite, with the
properties that would catch them.

## 2. Modules

| Module | What it is |
|---|---|
| `TrackedEval` | dependency-tracked forcing of a shared value graph |
| `TrackedEvalProofs` | its theorems |
| `FrameSets` | abstract: one set of paths per tracking frame |
| `FrameStack` | the frames on shared stacks, the access-set graph, scopes, imports and memoized calls; implements `FrameSets` |
| `FrameStackProofs` | lemmas about its operators: the graph, the frames, the invariant's parts |
| `FrameSetsProofs` | its theorems, on a lemma for each action |
| `ParallelEval` | the executor, its fibers, wait lists, interrupts and shutdown |
| `ParallelEvalProofs` | its theorems |
| `EvalCache` | the persistent cache, its use by a call, checkouts and store |
| `EvalCacheProofs` | its theorems |
| `StoreGC` | processes that add, use and root paths, and a collection |
| `StoreGCProofs` | its theorems |
| `BuildScheduler` | the event loop and its goals |
| `BuildSchedulerProofs` | its theorems |
| `MCTrackedEval`, `MCFrameStack`, `MCParallelEval`, `MCEvalCache`, `MCStoreGC`, `MCBuildScheduler` | the instances TLC checks |

### TrackedEval

A node is a value or a task. `Script[n]` lists what evaluating `n` does that
matters: read a path, force a value, force one under `tryEval`. `Deps` and
`Out` are what isolated evaluation computes, the oracle of the design
documents; `OracleAssumption` is its recursion equation, so an instance cannot
choose another oracle, and `MCTrackedEval` computes it by recursion.

| Model | Code |
|---|---|
| `cell`, `owner` | the state and evaluator id in `p0` |
| `label` | the value's `trackedSourceAccessSet` |
| `previous`, `acc`, `top` | the chain of `TrackedSourceDepsFrame`s and what each has recorded |
| `ForceFinished`, `ForcePending`, `ForceThunk` | the three cases of `forceValueTracked` |
| `WinCas`, `LoseCas` | the compare-exchange in `ValueStorage::force` |
| `Resume` | the end of a wait: a success is recorded, a failure is rethrown before it is |
| `Publish`, `Exchange` | the label and the record in the frame below, then the exchange of `p0` in `finish`; two steps, because others may look in between |
| `Start`, `Snapshot` | `evalTargetDependencies` |

An action is what one thread does between two accesses that others can see.
With `Parallel` false one task runs at a time, and a batch ends as
`evalTecnixIndices` does without the executor. Tasks in `Untracked` have no
`TrackingContext`: they record nothing and finish values with no label.

Abstractions: access sets are sets of paths and a frame is a set per node.
`FrameStack` shows that the stacks and the interned graph behind them amount to
that; the two modules are not composed formally.

### FrameStack and FrameSets

`FrameStack` follows one `TrackingContext` (`ctx`: the two stacks and the chain of
frames) while an arbitrary expression reads, forces, throws, catches and
returns. `graph` is `EvalSourceAccessSetGraph`, whose hash chains are lookups
by content. Fixed by the code, and so by the model, is how scopes are used:

| Model | Code |
|---|---|
| `OpenWrap`, `FinishWrap` | `tecnixInternalSourceDepsScope` |
| `OpenResolve`, `StoreResolved`, `ResolveAgain` | `evalFile`, resolution of the path |
| `OpenFile`, `FinishFile`, `CopyCached` | `evalFile`, a new and a cached file |
| `MemoHit`, `OpenMemo`, `StoreMemo` | `tecnixMemoize` |
| `ReturnCall` | `vRes = vCur` at the end of `callFunction` |
| `Return` | any other way an expression ends: a fresh value, or a copy |

A primop writes to `vCur`, a local of `callFunction`, for which no frame is found, so
that the copies and labels it makes publish nothing. `tmp` in the frame of the
calling expression is the label of that temporary. The forced value is published
by `ReturnCall` after the scope has ended, or the expression goes on and the
temporary is dropped. `at` is where the code of a frame stands (in its
expression, before or after the force a scope is for, published), and `arg`
the value that a scope or an import is about. `OtherForces`, `ForceAwaited` and
`OtherStores` are other evaluations, whose sets are inputs.

`ImplementsSets` is `Sets!Spec` with

| `FrameSets` | `FrameStack` |
|---|---|
| `frames[i].acc` | the paths of the entries between the watermarks of frame `i` and of the frame above; nothing is left there once the frame is published |
| `frames[i].open` | frame `i` is not published |
| `label`, `table` | what the ids expand to in the graph |
| `op` | the operation the evaluator asked for (a history variable: without it the abstract specification could explain a lost read as no read) |

The label of the temporary is not part of `FrameSets`: what `ReturnCall` adds
must already be in the set of the frame, or the step is none of `FrameSets`.

`Catch` lets every failure be caught, where `tryEval` catches assertions and
throws only; the frames do not depend on which.

### ParallelEval

One action is one critical section of the executor's state lock or of a
domain mutex, or one atomic access to `p0`. A value's evaluation is the list of
values it forces. `phase` says where an evaluator is in `force`, `waitOnThunk`
or `notifyWaiters`; `lock` is a domain mutex held across a fiber switch
(`suspendFiber` leaves the stack first, and the scheduler registers the fiber
and unlocks). The queue is a set: priorities only choose among
items, and the model allows every choice. The condition variables of the workers may wake
spuriously.

The main thread spawns the batches, forces values on its own stack, waits for
the futures or drops them (`Drops`), and destroys the executor. A user may
interrupt (`MaxInterrupts`), and with `Clears` the front end resets the flag
as `repl.cc:358` does.

### EvalCache

One evaluator is one checkout and, between `Pin` and `Exit`, one process making
one call: `Pin`, `Status`, `LookupShard` for each shard, `Materialize`,
`EvaluateMisses`, `Finalize`, `BeginUpsert` and `CommitUpsert` for each shard,
`Answer`. Each may fail where the code handles a failure (`LookupFails`,
`SkipShard`, `Exit`) and the process may be killed anywhere (`Crash`). The
environment edits and commits files, damages rows, and collects recipes.

Evaluation is a function of the tree (`DepsOf`, `PayloadOf`) that cannot
distinguish trees agreeing on what it read (`EvaluationAssumption`): that is
what exact closures mean, the subject of `TrackedEval`. A path is a file and a fingerprint
is the content it hashes; a directory's fingerprint composes those below it.
A row is unreadable, or a history per target; its size in bytes is abstracted
to the number of targets. The staged content of the index is not distinguished
from the working tree. `Materialize` is one step, although the code queries
the store for the batch and then reads each recipe.

### StoreGC

One action is one system call, transaction or critical section of a process or
of the collector. `disk[p]` is absent, partial or whole; an add takes a step to
start and one to end, so every crash in between leaves a partial path. A
temporary roots file is an inode (`node`) and a name (`link`), because the
collector may remove the name while a process with the same pid creates the file anew.

| Model | Code |
|---|---|
| `CreateTempRootsFile`, `LockTempRootsFile` | `createTempRootsFile` with its retry |
| `TryGCLock`, `Connect`, `ServerInsert`, `ServerAck`, `Disconnected`, `WriteTempRoot` | `addTempRoots` and the thread that serves the socket |
| `CheckValid`, `LockPath`, `Recheck`, `Reuse`, `StartUnpack`, `EndUnpack`, `WriteMarker`, `Register` | `addToStore` and `addMultipleToStore` |
| `GCLock` to `ReadTempRoots` | the start of `collectGarbage`: lock, socket, roots |
| `SweepEntry`, `Visit`, `Expand`, `TopoSort`, `DeleteNext` | `maybeDeleteReferrersClosure`, with `pending` as the handshake |
| `InvalidatePathChecked`, `DeleteMarker`, `DeleteSome`, `DeleteRest` | `deleteFromStore` |
| `FailUnpack`, `Die`, `GCDie` | an exception; the death of a process at any step |

`rely[c]` is a history variable: the paths process `c` rooted and then saw
valid. `RootedKept` is about it.

### BuildScheduler

A goal is its kind and its path; its record is what the coroutine keeps between
two suspensions. One action is one resumption, from one `co_await` to the next, with all
it does to the worker. `EndPass` is the bottom of the loop in `Worker::run`,
`WaitForInput` its poll. `SubstituterAnswers`, `CopyEnds`, `ChildEnds`,
`OtherLocks`, `OtherUnlocks` are the world outside. The maps of goals are weak
pointers: `Held` is what the requested goals and the batch still reach through
strong pointers, defined without recursion as all goals but those that can be cut off,
and a goal that is not held is destroyed, which kills its builder or joins its copying thread (`Joined`).
Keep-going and fallback take both values in every run.

Left out: trampoline goals, content-addressed and impure derivations, repair
and check modes, `preferLocalBuild`'s order among waiting goals, `max-jobs` 0, log
output other than the line that exceeds the limit, interrupts.

## 3. Runs

| Run | Instance | Result |
|---|---|---|
| `TrackedParallel` | 3 parallel targets, 4 shared values of which one throws, uncaught; fairness | passes: exact closures and labels, same outcomes, no contamination, termination |
| `TrackedSequential` | 3 targets in sequence, `tryEval` of failing values | passes: exact closures, exact labels on failed values |
| `FrameStack` | a plain value that may need itself, a file that uses it, one memo key, 2 paths | passes: interning is exact, `ImplementsSets`, finished values keep their labels |
| `ExecutorShutdown` | 2 workers, 2 items and the main thread on 2 values, an interrupt that may be reset, futures that may be dropped | passes: the eight safety properties |
| `ExecutorInterrupt` | 2 items that share a value, one of which may be suspended inside a value it owns, an interrupt, futures that may be dropped, the destructor at any time; fairness | passes: wakeups are justified, something can run, futures fulfilled, shutdown ends |
| `CacheShared` | 2 checkouts, 4 targets in 2 shards, history 2, 2 targets per row, 1 edit, 3 calls, 1 fault | passes: sound candidates, correct answers, bounded rows, accumulation |
| `StoreCollect` | 2 processes, 2 paths, one referring to the other, 2 calls, a collection, a fault | passes: rooted paths kept, valid paths whole and closed, no write to what is deleted, no lock cycle |
| `SchedulerRun` | a derivation with a built and a substituted input, one build slot, a delay; fairness | passes: one wake source, no idle slot, inputs ready, clean exit, the loop ends |
| `TrackedTryWaiter` | `TrackedSequential`'s graph in parallel | `ExactClosures` violated |
| `StoreMarker` | both ways to add one path, 2 faults, no collection | `MarkerVouches` violated |
| `StoreTwoCollections` | a process that roots a path, two collections, no fault | `RootedKept` violated |
| `SchedulerFallback` | a path that is built and also a reference of a substituted one | `FallsBack` violated |

More configurations are kept beside the runs. Six are experiments, six check
the inductive invariants of the proofs:

| Configuration | Instance | Result |
|---|---|---|
| `TrackedMixed.cfg` | 2 tracked targets and an untracked one in parallel, with `tryEval` | passes: no contamination, same outcomes |
| `ExecutorProgress.cfg` | 3 items in 2 batches with one fiber per worker, a value that throws; fairness | passes: something can run, finished values immutable, every future fulfilled |
| `TrackedUseBetweenCalls.cfg` | an untracked force between two tracked calls | `ExactClosures` violated |
| `ExecutorCycle.cfg` | two values forcing each other from two fibers | `SomeoneRuns` violated |
| `ExecutorRepl.cfg` | an interrupt whose flag is reset | `WakeupFinished` violated |
| `CacheEditRace.cfg` | edits while a call runs | `CandidatesSound` violated |
| `TrackedInduction.cfg` | `TrackedSequential`'s instance | passes: the inductive invariant of sequential evaluation |
| `FrameInduction.cfg` | `FrameStack`'s instance with shorter stacks | passes: the inductive invariant of the frames |
| `ExecutorInduction.cfg` | `ExecutorShutdown`'s instance | passes: the inductive invariant of the executor, the chains of forces |
| `CacheInduction.cfg` | `CacheShared`'s instance | passes: the inductive invariant of the cache |
| `StoreInduction.cfg` | two collections that start quietly, each path added one way | passes: the inductive invariant of the store |
| `SchedulerInduction.cfg` | `SchedulerRun`'s instance, without fairness | passes: the inductive invariant of the scheduler |

Bounds, and why they suffice.

* Tracking: the hazards need a value with two consumers, one nested in another,
  and one that fails; the graphs have each.
* Frames: `MaxFrames` 6 is the root, the scope in which a file is forced, the
  file, a wrapper's scope, the value in it, and a scope of that one (a memoized
  call, or a wrapper around the value itself), all at once.
  `MaxAccesses` 2 and `MaxChildren` 3 give duplicates, sets of two, the input memo,
  and entries of three frames side by side. `MaxInputKeys` 3 makes the memo refuse
  an entry. Other evaluations are given a set for the file and the memoized
  call only (`OtherReads`), which reach every place where a set from outside is
  recorded.
* Executor: two workers, two domains (one in `ExecutorInterrupt`, where who waits for whom matters and
  not which mutex), and a fiber limit of 2, or of 1 where it
  binds (`ExecutorInterrupt`, `ExecutorProgress.cfg`); one interrupt reaches every point of a session because it may
  come at any time.
* Cache: three of four targets share a shard that holds two, so the limit is
  reached; the same target is learned on several trees so its history fills;
  three calls by two checkouts give two overlapping writers and a reader.
* Store: a path and its referrer, two calls that may be the two halves of a
  race or a call and its repetition after a crash, a death at any step. Two
  inodes per pid let a process meet the file of its predecessor.
* Scheduler: `a` is built from `b` and `c`; `b` is substituted with references
  `r` and `s`, of which `s` may fail; `c` needs `r` as a source, so two goals want it.
  One build slot and `max-substitution-jobs` 0 (which means 1) make goals wait;
  the delay is a postponed build, a missing build user, or another process that
  holds an output.

`MaxEdits`, `MaxCalls`, `MaxCollections`, `MaxFaults`, `MaxInodes` and
`MaxDelays` bound the environment only. Deadlock is not checked in `CacheShared`,
`CacheEditRace`, `FrameStack` and the store's runs, where nothing is left to do when
these budgets or the stack bounds are spent, nor in the scheduler's, where
`run()` returns; there `Finishes` says that nothing else stops it.

Fairness. `TrackedEval` assumes that a task that can take a step eventually
does; `ParallelEval` the same of each worker thread, the main thread and the interrupt
callback: the operating system's scheduling. `BuildScheduler` assumes that the
event loop runs when it can, that substituters answer, children end (builders
have time-outs), a copy ends when its path's lock is not held by someone else,
and another process eventually unlocks. Nothing is assumed of users, spurious
wakeups, faults, or of a copy that would have to fail before it gets the lock.

### What the violations show

Of the runs:

1. A waiter whose value fails rethrows before it records the value's label
   (`force-value.hh:24`, `:40`). Under `tryEval` it goes on, and its target is
   under-tracked. Sequentially, the same targets are exact (`TrackedSequential`).
2. `addMultipleToStore` trusts a path that stands beside an `.unpacked` marker;
   `addToStore` rewrites the path and leaves the marker of an earlier, interrupted call
   alone. When it is interrupted too, the marker vouches for a partial path
   (`local-store.cc:1360`).
3. `addTempRoots` writes the root to its file after the collection's
   acknowledgement, holding no lock. A second collection that starts in between
   knows the root from neither place (`gc.cc:157`).
4. Destroying a cancelled substitution goal joins its thread on the event loop's
   thread. When the thread waits for the path lock of a build in the same worker,
   neither ends (`substitution-goal.cc:361`).

Of the experiments:

5. The value graph of a tracked call stays in the module cache, and code between
   two calls may finish parts of it untracked, with an empty label, which the next
   call trusts (`tecnix.cc:594`, `value-hooks.hh:98`).
6. `canStartFiber`'s comment argues that something can always run; it does not
   cover values that force each other, which suspend two fibers for ever where one
   evaluator reports infinite recursion (`parallel-eval.cc:909`).
7. `waitOnThunk` asserts that a resumed fiber finds its value finished unless it
   observes the interrupt; the repl resets the flag, perhaps before the fiber runs
   (`parallel-eval.cc:947`, `repl.cc:358`).
8. Closures are fingerprinted after evaluation; a dirty file edited in between is
   stored with a payload that was not evaluated from it (`tecnix.cc:1124`).

## 4. Proofs

Each proof module rests on the `ASSUME`s of its model only, unless a theorem
names a hypothesis. A property speaks of what users see and is seldom
inductive: the conjuncts of the inductive invariant are defined at the end of
the model, beside the properties, so that TLC can check them.

### TrackedEvalProofs

For all tasks, values, paths and scripts, from `ConstantsAssumption` and
`OracleAssumption`:

| Theorem | States |
|---|---|
| `InvariantHolds` | `Spec => [](TypeOK /\ ChainInv /\ ProgressInv /\ SoundInv)` |
| `TypeCorrect` | `Spec => []TypeOK` |
| `Uncontaminated` | `Spec => []NoContamination` |
| `OutcomePreserved` | `Spec => []SameOutcome` |
| `ClosuresExact` | with every task tracked and no caught failure, `Spec => [](ExactClosures /\ LabelsExact)` |
| `SequentialClosuresExact`, `FailuresLabelled` | with every task tracked and one task at a time, `Spec => []ExactClosures`, `Spec => []FailedLabelsExact` |
| `ValuesLabelled` | with every task tracked, and no caught failure or one task at a time, `Spec => []LabelsExact` |

* `ChainInv`: the pending values a task owns form one chain from its root frame
  to its top, each stopped at the step that forces the next. It is what makes a
  record land in the right frame, and keeps two tasks' frames apart.
* `ProgressInv`: a node has passed only steps that isolated evaluation passes, and
  an exception in flight is the outcome of the step its node stands at.
  Outcomes follow when a node ends.
* `SoundInv`: a frame or label holds at most its node's isolated closure.
* `CompleteInv`: a frame holds the dependencies of each step passed, a
  successful value's label all of them. It needs every task to track and either
  no caught failure, or `SoloInv` and `FailedInv`: with one task at a
  time nobody loses a race or is woken by another's failure, so a failure is
  passed on with all that was read. `TrackedTryWaiter` and
  `TrackedUseBetweenCalls.cfg` show that neither assumption can be dropped.

### FrameStackProofs and FrameSetsProofs

For all paths, values, expressions, other evaluations and bounds, from
`FrameConstants` (plain values, files, the memo key and `None` are distinct, and sets
read elsewhere are finite):

| Theorem | States |
|---|---|
| `FrameInvariant` | `Spec => []FrameInv` |
| `InterningExact` | `Spec => []InternExact` |
| `StacksImplementSets` | `Spec => ImplementsSets` |
| `FinishedNeverRelabelled` | `Spec => FinishedStable` |

`FrameStackProofs` is about operators: what interning a path or a set adds to
the graph and leaves alone (`Extended`: ids never change their meaning), what
recording, collapsing and truncating do to the set of each frame, and that each
part of the invariant survives them. `FrameSetsProofs` has one lemma per action,
which shows that the action keeps `FrameInv` and is a step of `FrameSets`, or a
stutter, under the mapping; `ActionStep` and `AnyStep` put them together.

* `GraphInv`: no path and no set has two ids, sets are of known paths, and each
  memoised input has the union it stands for. `CtxIds` and `IdInv`: stacks,
  labels and tables hold ids of the graph.
* `Shape`: which code entered which frame and where both stand. A published frame is
  the top one.
* `Levels`: watermarks rise from frame to frame and stay within the stacks, and
  a published frame has nothing above its own. It is what makes the entries
  between two watermarks one frame's.
* `AccInv`: what the set of a frame owes to the labels it holds (`Collects`). The label of
  the temporary is part of the set of its frame, since the scope handed the same
  set down when it ended: hence `vRes = vCur` adds nothing to what the
  value's frame collected. The label of the value that a scope or an import forced is part of the
  set too, and the scope of a wrapper or a file holds nothing else
  (`Forced`: from when on). So the id interned for an imported file's scope is the
  one the file has, and `FinishedNeverRelabelled` follows with `GraphInv`.
* `CellInv`: each value is forced by one frame at most, and is pending until that frame
  is published. Without it a value could be labelled while its label is in use.

That `FrameSets` holds for any number of frames and any bound is what
`TrackedEval` relies on when it gives every node a set of its own.

### ParallelEvalProofs

For all workers, items, values, domains, scripts and limits, from
`ExecutorAssumption`:

| Theorem | States |
|---|---|
| `InvariantHolds` | `Spec => []Inv` |
| `TypeCorrect`, `FibersCounted`, `FiberInOnePlace` | `Spec => []TypeOK`, `[]FiberAccounting`, `[]OnePlace` |
| `WakeupsNotLost`, `NobodyStranded` | `Spec => []NoLostWakeup`, `[]NotStranded` |
| `WorkersExitClean`, `PromisesAnswered`, `AnsweredOnce` | `Spec => []ExitClean`, `[]AllAnswered`, `PromisesOnce` |
| `WakeupsHaveReason` | if `Clears` is false, `Spec => []WakeupFinished` |
| `SomethingCanRun` | if a ranking of the nodes exists in which what a node forces ranks below it, `Spec => []SomeoneRuns` |

* `StackInv` and `ForceInv` say whose the nodes on a stack are and what an
  evaluator knows of the value it forces: a step of one evaluator leaves the
  others' positions alone, and cells only move forward.
* `QueueInv` and `PlaceInv` give each live fiber one place; `SlotInv` and
  `PromiseInv` tie the counts and the promises to it.
* `SwitchInv`: a fiber between `waitOnThunk` and its registration holds the
  domain mutex while its value is awaited or its finisher still has to take
  that mutex. Without it `NoLostWakeup` is not inductive: registration is the
  step that could lose the wakeup.
* `FlushInv`: once `quit` is set, nothing registers in a domain the destructor has left.
* `ReasonInv`, for `WakeupsHaveReason`: a fiber taken from a wait list has a
  reason to run. `ExecutorRepl.cfg` shows what a reset of the flag does to it.
* `Chained`, for `SomethingCanRun`: the values an evaluator has begun form one
  chain that descends in rank. If nobody could run, take the blocked evaluator whose
  value ranks lowest; the value's owner is blocked too, at a lower rank.
  `ExecutorCycle.cfg` has a cyclic graph and violates the property.

### EvalCacheProofs

For all evaluators, targets, shards, paths, trees and limits, from
`CacheAssumption` and `EvaluationAssumption`:

| Theorem | States |
|---|---|
| `TypeCorrect`, `CandidatesAccumulate` | `Spec => []TypeOK`, `Spec => Accumulates` |
| `StoredCandidatesSound`, `AnswersCorrect`, `HistoriesBounded` | if `EditsRace` is false, `Spec => []CandidatesSound`, `[]ServedCorrect`, `[]HistoryBounded` |

`CallInv` and `LockInv` say which variables mean something at each point of a
call, and that at most one transaction is open and has read the current row;
`CandidatesAccumulate` follows. `ExactInv` says that memo, snapshot and
results of a call agree with the tree it sees, and `AnswerInv` what has been
answered when. An edit during the call breaks `ExactInv`, hence the hypothesis, and
`CacheEditRace.cfg`. The proofs about `Displace` need the kept positions of a
history in increasing order; their existence is shown by induction on a
length, as the least counterexample of a set of naturals.

### StoreGCProofs

For all processes, paths, references, jobs and budgets, from the assumptions of the model:

| Theorem | States |
|---|---|
| `TypeCorrect`, `DatabaseClosed`, `LocksNeverCycle` | `Spec => []TypeOK`, `[]ValidClosed`, `[]NoLockCycle` |
| `WritersAlone`, `RootsStayValid` | `Spec /\ [][QuietStart]_vars => []WriterAlone`, `[]KeptInv` |
| `ValidIsComplete`, `RootedPathsKept` | if no path is added both by `addToStore` and by `addMultipleToStore`, `Spec /\ [][QuietStart]_vars => []ValidComplete`, `[]RootedKept` |
| `FirstCollection` | if `MaxCollections` is at most 1, `Spec => [](WriterAlone /\ KeptInv)` |

`QuietStart` says that when a collection starts, no process stands between the
acknowledgement of an earlier collection and the write of its root
(`StoreTwoCollections` is that race), and every open roots file has its name
(a collection that removes the file of a dead process by name may hit the
file of a new process with that pid). The hypothesis on the two ways to add is
what `StoreMarker` violates.

* `ProcInv`, `LockInv`: where a process is and which locks it holds. A process
  acquires the locks of a batch in order, which excludes cycles.
* `RootInv`, `ServerInv`, `SweepInv`: what processes have rooted, whom the socket's
  thread serves, what the sweep has collected.
* `ScanInv`: from its start on, a collection knows or will find every root in a file
  or about to be written. `DeleteInv`: what is being deleted is in no file and
  nobody is about to write it. Together they give `KeptInv`.
* `KindInv`, `DiskInv`: what is marked, written or registered is whole.

### BuildSchedulerProofs

For all paths, derivations, references, requested goals, substituters and
slot limits, from `SchedulerConstants` and `TopAreGoals` (callers ask for derivations
and paths, never for the inner goals):

| Theorem | States |
|---|---|
| `InvariantHolds` | `Spec => []IInv` |
| `TypeCorrect` | `Spec => []TypeOK` |
| `InputsAreReady` | `Spec => []InputsReady` |
| `NoSlotIdle` | `Spec => []NoIdleSlot` |
| `RunExitsClean` | `Spec => []ExitClean` |
| `WakesOnce` | if references and inputs can be ranked so that each leads to a lower rank, `Spec => []OneWakeSource` |

Every resumption of every kind of goal has one of four shapes (`Step`): the goal
suspends, awaits others, ends, or throws. `WorkStep` shows this for the eighteen
resumptions, and the invariant is proved for the shapes, for the end of a pass
(`Passes`), the poll (`Polls`), and what runs beside the loop.

* `GoalInv`: what a goal of each kind may wait for at each point; all it points
  to exists. A resolution goal whose map of inputs differs from its waitees
  was cut loose by a failure, without keep-going.
* `QueueInv`, `SlotInv`: the worker's sets hold goals that exist, a child in a slot
  is a build, a copy, or a copy being joined, and the counters count them.
* `WakeInv`: every goal has one source of its next resumption.
* `ReadyInv`: what a goal waited for and has not failed is achieved. `InputsReady` is not inductive
  without it: validity has to travel from the waitee that ends through the waiter that counts failures.
* `HeldInv`: whom the requested goals hold. A failure without keep-going lets go
  of the goals its waiters wait for, which may stay around until the pass ends with their
  children running. Unless the failure is on its way to a requested goal
  (`Doom`: a held goal that will fail when it is resumed), only path goals, whose
  copies are joined, can be let go of; with keep-going nobody is. When the worker
  goes to sleep everyone is held. That is why every child's goal is alive when the
  worker polls, and why nothing is left when `run()` ends.
* `IdleInv`: a worker that goes to sleep woke no slot waiter, so the slots they
  wait for are taken.

`Held` is a greatest cut, and the proofs about it give a smaller cut each time
(`HeldGrows`, `HeldRestrict`, `KeptHeld`). That a sleeping worker has something
to poll for needs the ranking: if nothing was running, all goals would wait for
others, and the one of least rank could not. Store paths and derivations are
named by what they refer to, which excludes cycles.

### Only model-checked

Liveness (`Termination`, `Fulfilled`, `ShutdownEnds`, `Finishes`): the prover
does no fairness reasoning. Every other property of a passing run is stated by
a theorem, under the hypotheses listed with it.

## 5. Not modelled

The modules cover the code whose correctness depends on the order of steps. That is a
small share of the repository's 180 thousand lines: the rest is an
interpreter with its builtins, fetchers, file formats, the command line and I/O,
which are sequential, tested by examples, and have no state a model would
explore.

* The parser and evaluator proper: a sequential interpreter, present as scripts
  (`TrackedEval`) or as an arbitrary expression (`FrameStack`).
* Garbage collection of the heap: reachability depends on C++ stack layout.
* Tracking: labels of values nobody forces (`publishCopiedValueDependencies`) other than
  the result of a call, a tracked call inside another, the module cache, and
  the label that `prepareTrackedResolveFunction` gives to a resolver after its scope
  (`tecnix.cc:1042`): the resolver is shared and may be finished already, and its
  scope reads more than the resolver, so `FinishedStable` is not claimed for it.
* Executor: off-fiber calls. Interrupts that hit the loser of a race for a
  thunk: `force` waits inside the `try` whose handler marks the value failed
  (`eval-inline.hh:126`, `:146`), so a finished value can be overwritten.
  `ParallelEval` has these steps; `FinishedImmutable` is therefore checked without
  interrupts (`ExecutorProgress.cfg`).
* Repository accessor: directory fingerprints, symlinks, status parsing.
* Store: collections of given paths and the edges of `keep-outputs` and
  `keep-derivations`; the links directory and its cleanup; optimisation and
  verification; markers and temporary directories as entries of the sweep; the
  cache of path infos of a process, which is not invalidated by another's collection
  (`store-api.cc:525`). A path lock is a mutex, its lock file is left out.
* Scheduler: as listed with the module.
* Daemon, fetchers, flakes, command line, C API: clients of the parts above, or I/O.

## 6. Plan

Done: `TrackedEval`, `ParallelEval`, `EvalCache`, `StoreGC` and `BuildScheduler`
with their proofs, `FrameStack` with its refinement of `FrameSets`.

Next modules, in order:

1. Off-fiber calls as part of `ParallelEval`.
2. `RepoAccessor`: the overlay by path and directory, fingerprints;
   `EvalCache`'s fingerprints as its abstraction.
3. The resolver's module cache, with `TrackedEval`'s labels.
4. `TargetsCall`, composing `TrackedEval`'s closures with `EvalCache`.

Next theorem: that `TrackedEval`'s labels are those of `FrameSets`, once a module
composes the two.
