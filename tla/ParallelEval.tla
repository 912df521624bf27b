------------------------------ MODULE ParallelEval ------------------------------
(***************************************************************************)
(* The parallel evaluator (parallel-eval.cc, ValueStorage::force): worker  *)
(* threads run work items on fibers pinned to them; a fiber that forces a  *)
(* value another evaluator owns is parked in the wait list of the value's  *)
(* waiter domain and put back on its owner's ready queue when the value is *)
(* finished, on an interrupt or on shutdown.  The main thread spawns the   *)
(* items, forces values itself (blocking on the domain's condition         *)
(* variable), waits for the futures or drops them, and finally destroys    *)
(* the executor.                                                           *)
(*                                                                         *)
(* One action is one critical section of the state lock or of a domain     *)
(* mutex, or one atomic access to p0.  A node is a value, an item or the   *)
(* main thread; Needs[n] lists the values evaluating n forces, in order.   *)
(***************************************************************************)
EXTENDS Naturals, Sequences, FiniteSets

CONSTANTS
  Worker, Item, Main, Signal,   \* Signal: the interrupt callback's thread
  Value, Domain,
  DomainOf,      \* DomainOf[v]: the waiter domain v hashes to
  Needs,         \* Needs[n]: what evaluating node n forces
  Raises,        \* values whose own expression throws an ordinary error
  Batches,       \* the items of each spawn() call, in order
  MaxFibers,     \* maxFibersPerWorker
  MaxInterrupts, \* bound: how often the user interrupts
  Drops,         \* whether the main thread may drop its futures (prim_parallel)
  Clears         \* whether the front end resets the interrupt flag (repl)

Evaluator == Item \cup {Main}
Node == Value \cup Evaluator
Flusher == {Main, Signal}
NoOne == "nobody"

ASSUME ExecutorAssumption ==
  /\ DomainOf \in [Value -> Domain]
  /\ Needs \in [Node -> Seq(Value)]
  /\ Raises \subseteq Value
  /\ Batches \in Seq(SUBSET Item)
  /\ \A j, k \in DOMAIN Batches : j # k => Batches[j] \cap Batches[k] = {}
  /\ IsFiniteSet(Item) /\ Main \notin Item /\ Signal \notin Evaluator
  /\ Value \cap Evaluator = {} /\ NoOne \notin Evaluator \cup Worker
  /\ MaxFibers \in Nat \ {0} /\ MaxInterrupts \in Nat
  /\ Drops \in BOOLEAN /\ Clears \in BOOLEAN

VARIABLES
  cell,        \* Value::p0: thunk, pending, awaited, ok, or failed with a kind
  owner,       \* the evaluator id in p0
  previous,    \* the node that was forcing a value when it became pending
  pc,          \* the next value a node forces
  top,         \* the node an evaluator is evaluating
  phase,       \* where an evaluator is in force / waitOnThunk / notifyWaiters
  exc,         \* the exception an evaluator is propagating ("ok": none)
  lost,        \* whether it waits because it lost the race for a thunk
  promise,     \* the state of an item's promise
  queue,       \* State::queue, the items not started
  home,        \* Fiber::owner
  ready,       \* Worker::readyFibers
  sleeping,    \* Worker::sleeping
  live,        \* Worker::nrLiveFibers
  wstate,      \* where a worker thread is in its loop
  cur,         \* the fiber a worker runs
  finished,    \* the worker loop's local `finished'
  lock,        \* who holds a domain's mutex across a fiber switch
  waiters,     \* WaiterDomain::waiters, by value
  cv,          \* whether the main thread's condition variable was notified
  woken,       \* the fibers an actor has extracted and must re-enqueue
  toFlush,     \* domains a flushWaiters() call has yet to visit
  callback,    \* whether the interrupt callback is running
  quit, interrupted, interrupts,
  mainpc,      \* where the main thread is
  spawned      \* spawn() calls made so far

evalVars == <<cell, owner, previous, pc, top, phase, exc, lost, promise>>
schedVars == <<queue, home, ready, sleeping, live, wstate, cur, finished>>
waitVars == <<lock, waiters, cv, woken, toFlush, callback>>
envVars == <<quit, interrupted, interrupts, mainpc, spawned>>
vars == <<evalVars, schedVars, waitVars, envVars>>

Failed == {"error", "interrupted"}
Finished == {"ok"} \cup Failed

Init ==
  /\ cell = [v \in Value |-> "thunk"]
  /\ owner = [v \in Value |-> Main]
  /\ previous = [v \in Value |-> v]
  /\ pc = [n \in Node |-> 1]
  /\ top = [e \in Evaluator |-> e]
  /\ phase = [e \in Evaluator |-> "eval"]
  /\ exc = [e \in Evaluator |-> "ok"]
  /\ lost = [e \in Evaluator |-> FALSE]
  /\ promise = [i \in Item |-> "none"]
  /\ queue = {}
  /\ home = [i \in Item |-> NoOne]
  /\ ready = [w \in Worker |-> <<>>]
  /\ sleeping = [w \in Worker |-> FALSE]
  /\ live = [w \in Worker |-> 0]
  /\ wstate = [w \in Worker |-> "loop"]
  /\ cur = [w \in Worker |-> NoOne]
  /\ finished = [w \in Worker |-> FALSE]
  /\ lock = [d \in Domain |-> NoOne]
  /\ waiters = [v \in Value |-> {}]
  /\ cv = FALSE
  /\ woken = [a \in Evaluator \cup {Signal} |-> {}]
  /\ toFlush = [f \in Flusher |-> {}]
  /\ callback = FALSE
  /\ quit = FALSE /\ interrupted = FALSE /\ interrupts = 0
  /\ mainpc = "spawn" /\ spawned = 0

--------------------------------------------------------------------------------
(* A fiber runs only on its worker, the main thread only while it forces.  *)
Running(e) ==
  IF e = Main THEN mainpc = "force"
  ELSE home[e] # NoOne /\ wstate[home[e]] = "run" /\ cur[home[e]] = e

Cur(e) == Needs[top[e]][pc[top[e]]]
AtForce(e) ==
  Running(e) /\ phase[e] = "eval" /\ exc[e] = "ok" /\ pc[top[e]] <= Len(Needs[top[e]])

(* force() of a finished value returns, or rethrows the stored exception.  *)
Forced(e, outcome) ==
  /\ pc' = [pc EXCEPT ![top[e]] = IF outcome = "ok" THEN @ + 1 ELSE @]
  /\ exc' = [exc EXCEPT ![e] = outcome]

(* Mutant: the interrupt flag is not looked at, only `quit'.               *)
MustUnwindOnQuit(e) == e # Main /\ quit

(* checkInterrupt(): on a worker, interruptCheck reports `quit'.           *)
MustUnwind(e) == interrupted \/ (e # Main /\ quit)

ForceFinished(e) ==
  /\ AtForce(e) /\ cell[Cur(e)] \in Finished
  /\ Forced(e, cell[Cur(e)])
  /\ UNCHANGED <<cell, owner, previous, top, phase, lost, promise, schedVars, waitVars, envVars>>

(* force() reads p0 and, for a thunk, tries to swap it for pending.        *)
ForceUnfinished(e) ==
  /\ AtForce(e) /\ cell[Cur(e)] \notin Finished
  /\ phase' = [phase EXCEPT ![e] = IF cell[Cur(e)] = "thunk" THEN "cas" ELSE "lock"]
  /\ UNCHANGED <<cell, owner, previous, pc, top, exc, lost, promise, schedVars, waitVars, envVars>>

(* Mutant: a plain store instead of the compare-and-exchange.              *)
StoreSucceeds(v) == TRUE

(* The compare-and-exchange succeeds while the value is still a thunk.     *)
CasSucceeds(v) == cell[v] = "thunk"

WinCas(e) ==
  /\ Running(e) /\ phase[e] = "cas" /\ CasSucceeds(Cur(e))
  /\ cell' = [cell EXCEPT ![Cur(e)] = "pending"]
  /\ owner' = [owner EXCEPT ![Cur(e)] = e]
  /\ previous' = [previous EXCEPT ![Cur(e)] = top[e]]
  /\ top' = [top EXCEPT ![e] = Cur(e)]
  /\ phase' = [phase EXCEPT ![e] = "eval"]
  /\ UNCHANGED <<pc, exc, lost, promise, schedVars, waitVars, envVars>>

LoseCas(e) ==
  /\ Running(e) /\ phase[e] = "cas" /\ ~CasSucceeds(Cur(e))
  /\ IF cell[Cur(e)] \in Finished
     THEN /\ Forced(e, cell[Cur(e)])
          /\ phase' = [phase EXCEPT ![e] = "eval"]
          /\ UNCHANGED lost
     ELSE /\ phase' = [phase EXCEPT ![e] = "lock"]
          /\ lost' = [lost EXCEPT ![e] = TRUE]
          /\ UNCHANGED <<pc, exc>>
  /\ UNCHANGED <<cell, owner, previous, top, promise, schedVars, waitVars, envVars>>

(* The evaluator polls the flags while it evaluates.                       *)
PollInterrupt(e) ==
  /\ Running(e) /\ phase[e] = "eval" /\ exc[e] = "ok" /\ MustUnwind(e)
  /\ exc' = [exc EXCEPT ![e] = "interrupted"]
  /\ UNCHANGED <<cell, owner, previous, pc, top, phase, lost, promise, schedVars, waitVars, envVars>>

(***************************************************************************)
(* waitOnThunk.  Under the domain mutex the value is marked awaited, or    *)
(* found finished.  An evaluator that owns it itself has an infinite       *)
(* recursion.  A fiber passes the shutdown guard and switches to the       *)
(* scheduler still holding the mutex; the main thread waits on the         *)
(* condition variable, which releases it.                                  *)
(***************************************************************************)
WaitReturns(e, outcome) ==
  /\ Forced(e, outcome)
  /\ phase' = [phase EXCEPT ![e] = "eval"]
  /\ lost' = [lost EXCEPT ![e] = FALSE]

(* An exception out of a wait after a lost race leaves through the handler *)
(* of force(), which marks the value failed.                               *)
WaitThrows(e, kind) ==
  /\ exc' = [exc EXCEPT ![e] = kind]
  /\ phase' = [phase EXCEPT ![e] = IF lost[e] THEN "fail" ELSE "eval"]
  /\ UNCHANGED <<pc, lost>>

(* Mutant: a fiber suspends without looking at the flags first.            *)
NoGuard(e) == FALSE

ShutdownGuard(e) == e # Main /\ MustUnwind(e)

(* Mutant: the domain mutex is released before the switch.                 *)
HeldByNobody(e) == NoOne

(* Who holds the domain mutex during the wait.                             *)
HeldBy(e) == IF e = Main THEN NoOne ELSE e

WaitOnThunk(e) ==
  LET v == Cur(e) d == DomainOf[v] IN
    /\ Running(e) /\ phase[e] = "lock" /\ lock[d] = NoOne
    /\ \/ /\ cell[v] \in Finished
          /\ WaitReturns(e, cell[v])
          /\ UNCHANGED <<cell, lock, cv>>
       \/ /\ cell[v] \notin Finished /\ (owner[v] = e \/ ShutdownGuard(e))
          /\ cell' = [cell EXCEPT ![v] = "awaited"]
          /\ WaitThrows(e, IF owner[v] = e THEN "error" ELSE "interrupted")
          /\ UNCHANGED <<lock, cv>>
       \/ /\ cell[v] \notin Finished /\ owner[v] # e /\ ~ShutdownGuard(e)
          /\ cell' = [cell EXCEPT ![v] = "awaited"]
          /\ phase' = [phase EXCEPT ![e] = IF e = Main THEN "cvwait" ELSE "switch"]
          /\ lock' = [lock EXCEPT ![d] = HeldBy(e)]
          /\ cv' = IF e = Main THEN FALSE ELSE cv
          /\ UNCHANGED <<pc, exc, lost>>
    /\ UNCHANGED <<owner, previous, top, promise, schedVars, waiters, woken, toFlush, callback, envVars>>

(* runFiber after the switch: register in the wait list, then unlock.      *)
Register(i) ==
  LET v == Cur(i) w == home[i] IN
    /\ Running(i) /\ phase[i] = "switch"
    /\ waiters' = [waiters EXCEPT ![v] = @ \cup {i}]
    /\ lock' = [lock EXCEPT ![DomainOf[v]] = NoOne]
    /\ phase' = [phase EXCEPT ![i] = "suspended"]
    /\ wstate' = [wstate EXCEPT ![w] = "loop"]
    /\ cur' = [cur EXCEPT ![w] = NoOne]
    /\ UNCHANGED <<cell, owner, previous, pc, top, exc, lost, promise, queue, home, ready, sleeping,
                   live, finished, cv, woken, toFlush, callback, envVars>>

(* The fiber runs again: it observes quit or the interrupt, or the value.  *)
Resumed(i) ==
  /\ Running(i) /\ phase[i] = "suspended"
  /\ \/ MustUnwind(i) /\ WaitThrows(i, "interrupted")
     \/ ~MustUnwind(i) /\ cell[Cur(i)] \in Finished /\ WaitReturns(i, cell[Cur(i)])
  /\ UNCHANGED <<cell, owner, previous, top, promise, schedVars, waitVars, envVars>>

(* The main thread's condition variable was notified: look again.          *)
CvWake ==
  LET v == Cur(Main) IN
    /\ Running(Main) /\ phase[Main] = "cvwait" /\ cv /\ lock[DomainOf[v]] = NoOne
    /\ \/ cell[v] # "awaited" /\ WaitReturns(Main, cell[v])
       \/ cell[v] = "awaited" /\ interrupted /\ WaitThrows(Main, "interrupted")
       \/ cell[v] = "awaited" /\ ~interrupted /\ UNCHANGED <<pc, exc, phase, lost>>
    /\ cv' = FALSE
    /\ UNCHANGED <<cell, owner, previous, top, promise, schedVars, lock, waiters, woken, toFlush, callback, envVars>>

(***************************************************************************)
(* ValueStorage::finish: the exchange of p0 takes no lock; if the value    *)
(* was awaited its waiters are extracted under the domain mutex and then   *)
(* put back on their owners' ready queues one by one.                      *)
(***************************************************************************)
Outcome(e) == IF exc[e] # "ok" THEN exc[e] ELSE IF top[e] \in Raises THEN "error" ELSE "ok"

ExprEnded(e) ==
  Running(e) /\ phase[e] = "eval" /\ (exc[e] # "ok" \/ pc[top[e]] > Len(Needs[top[e]]))

(* The value an evaluator is finishing: the one it evaluates, or the one   *)
(* it waited for when the exception came.                                  *)
Subject(e) == IF lost[e] THEN Cur(e) ELSE top[e]

(* Leave the finished value and go on in the node that was forcing it.     *)
Pop(e, outcome) ==
  IF lost[e]
  THEN lost' = [lost EXCEPT ![e] = FALSE] /\ UNCHANGED <<top, pc, exc>>
  ELSE /\ top' = [top EXCEPT ![e] = previous[top[e]]]
       /\ pc' = [pc EXCEPT ![previous[top[e]]] = IF outcome = "ok" THEN @ + 1 ELSE @]
       /\ exc' = [exc EXCEPT ![e] = outcome]
       /\ UNCHANGED lost

(* Mutant: a finisher never takes the slow path.                           *)
NeverNotify(v) == FALSE

(* The exchange returned an awaited p0.                                    *)
MustNotify(v) == cell[v] = "awaited"

FinishValue(e) ==
  LET v == Subject(e) IN
    /\ \/ ExprEnded(e) /\ top[e] \in Value
       \/ Running(e) /\ phase[e] = "fail"
    /\ cell' = [cell EXCEPT ![v] = Outcome(e)]
    /\ IF MustNotify(v)
       THEN phase' = [phase EXCEPT ![e] = "notify"] /\ UNCHANGED <<top, pc, exc, lost>>
       ELSE phase' = [phase EXCEPT ![e] = "eval"] /\ Pop(e, Outcome(e))
    /\ UNCHANGED <<owner, previous, promise, schedVars, waitVars, envVars>>

MainWaitsIn(d) == Running(Main) /\ phase[Main] = "cvwait" /\ DomainOf[Cur(Main)] = d

(* Mutant: the wait lists keep the fibers that were handed out.            *)
CopyWaiters(a, vs) ==
  /\ woken' = [woken EXCEPT ![a] = @ \cup UNION {waiters[v] : v \in vs}]
  /\ UNCHANGED waiters

(* Actor a moves the fibers out of the wait lists of some values.          *)
TakeWaiters(a, vs) ==
  /\ woken' = [woken EXCEPT ![a] = @ \cup UNION {waiters[v] : v \in vs}]
  /\ waiters' = [v \in Value |-> IF v \in vs THEN {} ELSE waiters[v]]

NotifyWaiters(e) ==
  LET v == Subject(e) d == DomainOf[v] IN
    /\ Running(e) /\ phase[e] = "notify" /\ lock[d] = NoOne
    /\ TakeWaiters(e, {v})
    /\ cv' = (cv \/ MainWaitsIn(d))
    /\ phase' = [phase EXCEPT ![e] = "enqueue"]
    /\ UNCHANGED <<cell, owner, previous, pc, top, exc, lost, promise, schedVars, lock, toFlush, callback, envVars>>

(* wakeWorker: clears `sleeping' and notifies the worker.                  *)
Wake(ws) == sleeping' = [w \in Worker |-> sleeping[w] /\ w \notin ws]

(* Mutant: the fiber goes to whichever worker.                             *)
EnqueueAnywhere(a, i) ==
  /\ i \in woken[a]
  /\ woken' = [woken EXCEPT ![a] = @ \ {i}]
  /\ \E w \in Worker : ready' = [ready EXCEPT ![w] = Append(@, i)] /\ Wake({w})
  /\ UNCHANGED <<evalVars, queue, home, live, wstate, cur, finished, lock, waiters, cv, toFlush,
                 callback, envVars>>

(* enqueueFiber, in one critical section of the state lock.                *)
EnqueueFiber(a, i) ==
  /\ i \in woken[a]
  /\ woken' = [woken EXCEPT ![a] = @ \ {i}]
  /\ ready' = [ready EXCEPT ![home[i]] = Append(@, i)]
  /\ Wake({home[i]})
  /\ UNCHANGED <<evalVars, queue, home, live, wstate, cur, finished, lock, waiters, cv, toFlush, callback, envVars>>

EnqueueWoken(e) ==
  /\ Running(e) /\ phase[e] = "enqueue"
  /\ \E i \in woken[e] : EnqueueFiber(e, i)

Notified(e) ==
  /\ Running(e) /\ phase[e] = "enqueue" /\ woken[e] = {}
  /\ Pop(e, Outcome(e))
  /\ phase' = [phase EXCEPT ![e] = "eval"]
  /\ UNCHANGED <<cell, owner, previous, promise, schedVars, waitVars, envVars>>

(* The work item returns: its promise is fulfilled; an Interrupted that    *)
(* reaches the top of a fiber sets `quit'.                                 *)
FinishFiber(i) ==
  LET w == home[i] IN
    /\ ExprEnded(i) /\ top[i] = i
    /\ promise' = [promise EXCEPT ![i] = exc[i]]
    /\ quit' = (quit \/ exc[i] = "interrupted")
    /\ phase' = [phase EXCEPT ![i] = "gone"]
    /\ wstate' = [wstate EXCEPT ![w] = "loop"]
    /\ cur' = [cur EXCEPT ![w] = NoOne]
    /\ finished' = [finished EXCEPT ![w] = TRUE]
    /\ UNCHANGED <<cell, owner, previous, pc, top, exc, lost, queue, home, ready, sleeping, live,
                   waitVars, interrupted, interrupts, mainpc, spawned>>

EvalStep(e) ==
  \/ ForceFinished(e) \/ ForceUnfinished(e) \/ WinCas(e) \/ LoseCas(e) \/ PollInterrupt(e)
  \/ WaitOnThunk(e) \/ FinishValue(e) \/ NotifyWaiters(e) \/ EnqueueWoken(e) \/ Notified(e)

--------------------------------------------------------------------------------
(***************************************************************************)
(* Executor::worker: one pass of the inner loop is one critical section.   *)
(* The fiber that ran before is accounted for first.                       *)
(***************************************************************************)
LiveKept(w) == live[w]       \* mutant: the slot of an ended fiber is not released

LiveNow(w) == IF finished[w] THEN live[w] - 1 ELSE live[w]

CanStartFiber(n) == n < MaxFibers

(* Ready fibers are resumed before anything else, also on shutdown.        *)
ResumeReady(w) ==
  /\ wstate[w] = "loop" /\ ready[w] # <<>>
  /\ cur' = [cur EXCEPT ![w] = Head(ready[w])]
  /\ ready' = [ready EXCEPT ![w] = Tail(@)]
  /\ live' = [live EXCEPT ![w] = LiveNow(w)]
  /\ finished' = [finished EXCEPT ![w] = FALSE]
  /\ wstate' = [wstate EXCEPT ![w] = "run"]
  /\ UNCHANGED <<evalVars, queue, home, sleeping, waitVars, envVars>>

(* A fresh item gets a fiber, unless its stack cannot be allocated.        *)
StartItem(w) ==
  /\ wstate[w] = "loop" /\ ready[w] = <<>> /\ ~quit /\ CanStartFiber(LiveNow(w))
  /\ live' = [live EXCEPT ![w] = LiveNow(w) + 1]
  /\ \E i \in queue :
       /\ queue' = queue \ {i}
       /\ home' = [home EXCEPT ![i] = w]
       /\ \/ /\ cur' = [cur EXCEPT ![w] = i]
             /\ wstate' = [wstate EXCEPT ![w] = "run"]
             /\ finished' = [finished EXCEPT ![w] = FALSE]
             /\ UNCHANGED <<phase, promise>>
          \/ /\ promise' = [promise EXCEPT ![i] = "error"]
             /\ phase' = [phase EXCEPT ![i] = "gone"]
             /\ finished' = [finished EXCEPT ![w] = TRUE]
             /\ UNCHANGED <<cur, wstate>>
  /\ UNCHANGED <<cell, owner, previous, pc, top, exc, lost, ready, sleeping, waitVars, envVars>>

(* Mutants: the queue is thrown away, or more than the queue is failed.    *)
DropItems == UNCHANGED promise
FailSpawned == promise' = [i \in Item |-> IF promise[i] # "none" THEN "interrupted" ELSE promise[i]]

(* failItems: the promises of items that were never started.               *)
FailItems == promise' = [i \in Item |-> IF i \in queue THEN "interrupted" ELSE promise[i]]

(* Mutant: a worker leaves though fibers of its own are suspended.         *)
ExitOnQuit(w) == quit

MayExit(w) == quit /\ LiveNow(w) = 0

(* Mutant: `quit' is looked at before the ready fibers.                    *)
QuitFirst(w) ==
  /\ wstate[w] = "loop" /\ (quit \/ (ready[w] = <<>> /\ (queue = {} \/ ~CanStartFiber(LiveNow(w)))))
  /\ IF quit THEN FailItems /\ queue' = {} ELSE UNCHANGED <<promise, queue>>
  /\ wstate' = [wstate EXCEPT ![w] = IF MayExit(w) THEN "exited" ELSE "asleep"]
  /\ sleeping' = [sleeping EXCEPT ![w] = ~MayExit(w)]
  /\ live' = [live EXCEPT ![w] = LiveNow(w)]
  /\ finished' = [finished EXCEPT ![w] = FALSE]
  /\ UNCHANGED <<cell, owner, previous, pc, top, phase, exc, lost, home, ready, cur, waitVars, envVars>>

(* On quit the queue is failed, and the worker leaves once it owns no      *)
(* fiber; otherwise, or with nothing it may start, it goes to sleep.       *)
QuitOrSleep(w) ==
  /\ wstate[w] = "loop" /\ ready[w] = <<>>
  /\ quit \/ queue = {} \/ ~CanStartFiber(LiveNow(w))
  /\ IF quit THEN FailItems /\ queue' = {} ELSE UNCHANGED <<promise, queue>>
  /\ wstate' = [wstate EXCEPT ![w] = IF MayExit(w) THEN "exited" ELSE "asleep"]
  /\ sleeping' = [sleeping EXCEPT ![w] = ~MayExit(w)]
  /\ live' = [live EXCEPT ![w] = LiveNow(w)]
  /\ finished' = [finished EXCEPT ![w] = FALSE]
  /\ UNCHANGED <<cell, owner, previous, pc, top, phase, exc, lost, home, ready, cur, waitVars, envVars>>

WakeUp(w) ==
  /\ wstate[w] = "asleep" /\ ~sleeping[w]
  /\ wstate' = [wstate EXCEPT ![w] = "loop"]
  /\ UNCHANGED <<evalVars, queue, home, ready, sleeping, live, cur, finished, waitVars, envVars>>

(* A condition variable may also wake for no reason.                       *)
SpuriousWakeUp(w) ==
  /\ wstate[w] = "asleep" /\ sleeping[w]
  /\ sleeping' = [sleeping EXCEPT ![w] = FALSE]
  /\ wstate' = [wstate EXCEPT ![w] = "loop"]
  /\ UNCHANGED <<evalVars, queue, home, ready, live, cur, finished, waitVars, envVars>>

WorkerStep(w) ==
  \/ ResumeReady(w) \/ StartItem(w) \/ QuitOrSleep(w) \/ WakeUp(w)
  \/ /\ wstate[w] = "run"
     /\ EvalStep(cur[w]) \/ Register(cur[w]) \/ Resumed(cur[w]) \/ FinishFiber(cur[w])

--------------------------------------------------------------------------------
(* Executor::spawn, in one critical section: after quit the promises fail  *)
(* at once; otherwise at most one sleeping worker per item is woken, and   *)
(* only workers that may start a fiber.                                    *)
WakeSets(n) ==
  LET able == {w \in Worker : sleeping[w] /\ CanStartFiber(live[w])} IN
    {ws \in SUBSET able : Cardinality(ws) = n \/ (Cardinality(able) < n /\ ws = able)}

Spawn ==
  /\ mainpc = "spawn" /\ spawned < Len(Batches)
  /\ spawned' = spawned + 1
  /\ LET items == Batches[spawned + 1] IN
       IF quit
       THEN /\ promise' = [i \in Item |-> IF i \in items THEN "interrupted" ELSE promise[i]]
            /\ UNCHANGED <<queue, sleeping>>
       ELSE /\ promise' = [i \in Item |-> IF i \in items THEN "waiting" ELSE promise[i]]
            /\ queue' = queue \cup items
            /\ \E ws \in WakeSets(Cardinality(items)) : Wake(ws)
  /\ mainpc' = "force"
  /\ UNCHANGED <<cell, owner, previous, pc, top, phase, exc, lost, home, ready, live, wstate, cur,
                 finished, waitVars, quit, interrupted, interrupts>>

(* The main thread's own evaluation is over (or unwound); it goes on with  *)
(* the next spawn() call, or with the futures it holds.                    *)
MainForced ==
  /\ mainpc = "force" /\ ExprEnded(Main) /\ top[Main] = Main
  /\ mainpc' = IF spawned < Len(Batches) /\ exc[Main] = "ok" THEN "spawn" ELSE "futures"
  /\ UNCHANGED <<evalVars, schedVars, waitVars, quit, interrupted, interrupts, spawned>>

(* future.get() on every item, unless the futures are dropped; then the    *)
(* destructor sets quit and starts to flush the wait lists.                *)
Destroy ==
  /\ mainpc = "futures"
  /\ Drops \/ \A i \in Item : promise[i] # "waiting"
  /\ quit' = TRUE
  /\ toFlush' = [toFlush EXCEPT ![Main] = Domain]
  /\ mainpc' = "flush"
  /\ UNCHANGED <<evalVars, schedVars, lock, waiters, cv, woken, callback,
                 interrupted, interrupts, spawned>>

(* flushWaiters: domain by domain, then the ready queues.                  *)
FlushDomain(f) ==
  \E d \in toFlush[f] :
    LET vs == {v \in Value : DomainOf[v] = d} IN
      /\ lock[d] = NoOne
      /\ TakeWaiters(f, vs)
      /\ cv' = (cv \/ MainWaitsIn(d))
      /\ toFlush' = [toFlush EXCEPT ![f] = @ \ {d}]
      /\ UNCHANGED <<evalVars, schedVars, lock, callback, envVars>>

Flushed(f) == toFlush[f] = {} /\ woken[f] = {}

FlushStep(f) ==
  FlushDomain(f) \/ (toFlush[f] = {} /\ \E i \in woken[f] : EnqueueFiber(f, i))

(* wakeupAllWorkers.                                                       *)
WakeAll ==
  /\ mainpc = "flush" /\ Flushed(Main)
  /\ Wake(Worker)
  /\ mainpc' = "join"
  /\ UNCHANGED <<evalVars, queue, home, ready, live, wstate, cur, finished, waitVars,
                 quit, interrupted, interrupts, spawned>>

(* The workers are joined; failQueuedItems.                                *)
Join ==
  /\ mainpc = "join" /\ \A w \in Worker : wstate[w] = "exited"
  /\ FailItems /\ queue' = {}
  /\ mainpc' = "destroyed"
  /\ UNCHANGED <<cell, owner, previous, pc, top, phase, exc, lost, home, ready, sleeping, live,
                 wstate, cur, finished, waitVars, quit, interrupted, interrupts, spawned>>

DestroyStep == (mainpc = "flush" /\ FlushStep(Main)) \/ WakeAll \/ Join

MainStep == Spawn \/ EvalStep(Main) \/ CvWake \/ MainForced \/ Destroy \/ DestroyStep

--------------------------------------------------------------------------------
(* SIGINT: the flag is set before the callback flushes the wait lists and  *)
(* wakes all workers.                                                      *)
Interrupt ==
  /\ interrupts < MaxInterrupts /\ mainpc # "destroyed" /\ ~callback
  /\ interrupts' = interrupts + 1 /\ interrupted' = TRUE
  /\ callback' = TRUE
  /\ toFlush' = [toFlush EXCEPT ![Signal] = Domain]
  /\ UNCHANGED <<evalVars, schedVars, lock, waiters, cv, woken, quit, mainpc, spawned>>

CallbackDone ==
  /\ callback /\ Flushed(Signal)
  /\ Wake(Worker)                                   \* wakeupAllWorkers
  /\ callback' = FALSE
  /\ UNCHANGED <<evalVars, queue, home, ready, live, wstate, cur, finished, lock, waiters, cv, woken,
                 toFlush, envVars>>

SignalStep == FlushStep(Signal) \/ CallbackDone

(* The front end's next line: setInterrupted(false) on the main thread.    *)
ClearInterrupt ==
  /\ Clears /\ interrupted /\ mainpc = "futures"
  /\ interrupted' = FALSE
  /\ UNCHANGED <<evalVars, schedVars, waitVars, quit, interrupts, mainpc, spawned>>

Done == mainpc = "destroyed" /\ ~callback /\ UNCHANGED vars

Next ==
  \/ \E w \in Worker : WorkerStep(w) \/ SpuriousWakeUp(w)
  \/ MainStep \/ Interrupt \/ SignalStep \/ ClearInterrupt \/ Done

Spec == Init /\ [][Next]_vars

(* Every thread that can run does, as the operating system schedules them; *)
(* nothing is assumed of spurious wakeups and of the user.                 *)
FairSpec ==
  /\ Spec /\ \A w \in Worker : WF_vars(WorkerStep(w))
  /\ WF_vars(MainStep) /\ WF_vars(SignalStep)
--------------------------------------------------------------------------------
EvalType ==
  /\ cell \in [Value -> {"thunk", "pending", "awaited"} \cup Finished]
  /\ owner \in [Value -> Evaluator]
  /\ previous \in [Value -> Node]
  /\ pc \in [Node -> Nat \ {0}]
  /\ top \in [Evaluator -> Node]
  /\ phase \in [Evaluator -> {"eval", "cas", "lock", "switch", "suspended", "cvwait", "fail",
                              "notify", "enqueue", "gone"}]
  /\ exc \in [Evaluator -> Finished]
  /\ lost \in [Evaluator -> BOOLEAN]
  /\ promise \in [Item -> {"none", "waiting"} \cup Finished]

SchedType ==
  /\ queue \subseteq Item
  /\ home \in [Item -> Worker \cup {NoOne}]
  /\ ready \in [Worker -> Seq(Item)]
  /\ sleeping \in [Worker -> BOOLEAN]
  /\ live \in [Worker -> Nat]
  /\ wstate \in [Worker -> {"loop", "run", "asleep", "exited"}]
  /\ cur \in [Worker -> Item \cup {NoOne}]
  /\ finished \in [Worker -> BOOLEAN]

WaitType ==
  /\ lock \in [Domain -> Item \cup {NoOne}]
  /\ waiters \in [Value -> SUBSET Item]
  /\ woken \in [Evaluator \cup {Signal} -> SUBSET Item]
  /\ toFlush \in [Flusher -> SUBSET Domain]
  /\ {cv, callback} \subseteq BOOLEAN

EnvType ==
  /\ {quit, interrupted} \subseteq BOOLEAN
  /\ interrupts \in 0..MaxInterrupts
  /\ mainpc \in {"spawn", "force", "futures", "flush", "join", "destroyed"}
  /\ spawned \in 0..Len(Batches)

HomeReady == \A w \in Worker : \A k \in DOMAIN ready[w] : home[ready[w][k]] = w

(* The state of the values, the fibers, the workers and the wait lists is  *)
(* well formed; a ready queue holds no fiber of another worker.            *)
TypeOK == EvalType /\ SchedType /\ WaitType /\ EnvType /\ HomeReady

Fibers(w) == {i \in Item : home[i] = w /\ phase[i] # "gone"}

(* nrLiveFibers counts the fibers a worker owns, the one that just ended   *)
(* until the next pass of its loop included, and never exceeds the limit.  *)
FiberAccounting ==
  \A w \in Worker :
    /\ live[w] = Cardinality(Fibers(w)) + (IF finished[w] THEN 1 ELSE 0)
    /\ live[w] <= MaxFibers

(* A fiber is owned by exactly one of: its worker's ready queue (once),    *)
(* its worker running it, one wait list, one thread about to enqueue it.   *)
Places(i) ==
  {<<"ready", k>> : k \in {k \in DOMAIN ready[home[i]] : ready[home[i]][k] = i}}
  \cup {<<"run", w>> : w \in {w \in Worker : wstate[w] = "run" /\ cur[w] = i}}
  \cup {<<"waiting", v>> : v \in {v \in Value : i \in waiters[v]}}
  \cup {<<"woken", a>> : a \in {a \in DOMAIN woken : i \in woken[a]}}

OnePlace ==
  \A w \in Worker : \A i \in Fibers(w) : Cardinality(Places(i)) = 1

(* No lost wakeup (the p0 exchange takes no lock): as long as a fiber is   *)
(* registered for a value, the value is still awaited or its finisher has  *)
(* yet to extract the wait list; the same for the main thread's condition  *)
(* variable, and a worker never sleeps on a fiber that is ready.           *)
FinisherComing(v) == \E e \in Evaluator : phase[e] = "notify" /\ Subject(e) = v

NoLostWakeup ==
  /\ \A v \in Value : waiters[v] # {} => cell[v] = "awaited" \/ FinisherComing(v)
  /\ phase[Main] = "cvwait" => cv \/ cell[Cur(Main)] = "awaited" \/ FinisherComing(Cur(Main))
  /\ \A w \in Worker : sleeping[w] => ready[w] = <<>>

(* The shutdown guard: once the destructor has flushed the wait lists no   *)
(* fiber is registered or about to register (parallel-eval.cc:409-411).    *)
NotStranded ==
  mainpc \in {"join", "destroyed"} =>
    /\ \A v \in Value : waiters[v] = {}
    /\ \A i \in Item : phase[i] # "switch"

(* A worker leaves only when it owns no fiber, so that no fiber stack      *)
(* outlives the executor (parallel-eval.cc:418-423).                       *)
ExitClean ==
  \A w \in Worker : wstate[w] = "exited" => Fibers(w) = {} /\ ready[w] = <<>> /\ live[w] = 0

(* A fiber that is resumed and neither interrupted nor shut down finds the *)
(* value it waited for finished (the assertion in waitOnThunk).            *)
WakeupFinished ==
  \A i \in Item :
    (Running(i) /\ phase[i] = "suspended" /\ ~MustUnwind(i)) => cell[Cur(i)] \in Finished

(* Whenever fibers are suspended, some evaluator can run: waiting for a    *)
(* fiber slot cannot deadlock (the comment on canStartFiber).              *)
CanRun(e) ==
  \/ Running(e) /\ (phase[e] = "cvwait" => cv)
  \/ e \in Item /\ \E w \in Worker : \E k \in DOMAIN ready[w] : ready[w][k] = e
  \/ \E a \in DOMAIN woken : e \in woken[a]

SomeoneRuns == (\E v \in Value : waiters[v] # {}) => \E e \in Evaluator : CanRun(e)

(* Every spawned item's promise is answered before the executor is gone,   *)
(* whichever of fiber, quitting worker, spawn and destructor had it.       *)
AllAnswered ==
  mainpc = "destroyed" =>
    \A k \in 1..spawned : \A i \in Batches[k] : promise[i] \in Finished

(* No promise is answered twice (std::promise would throw).                *)
PromisesOnce ==
  [][\A i \in Item : promise[i] \in Finished => promise'[i] = promise[i]]_vars

(* Without interrupts and shutdown a finished value is never written again *)
(* and only its owner writes it; thunks are the only mutable values.       *)
FinishedImmutable ==
  [][\A v \in Value : cell[v] \in Finished => cell'[v] = cell[v]]_vars

(* Every spawned item is eventually answered, though values are shared,    *)
(* fibers are parked and the number of fibers is limited.                  *)
Fulfilled == \A i \in Item : (promise[i] = "waiting") ~> (promise[i] \in Finished)

(* The destructor always gets through: every worker is woken, unwinds the  *)
(* fibers it owns and is joined.                                           *)
ShutdownEnds == (mainpc = "flush") ~> (mainpc = "destroyed")

--------------------------------------------------------------------------------
(***************************************************************************)
(* The inductive invariant behind the properties.                          *)
(***************************************************************************)

(* A node belongs to the evaluator that won it, from then on: nobody else  *)
(* moves its pc or has it on its stack.                                    *)
Owns(e, n) == n = e \/ (n \in Value /\ cell[n] # "thunk" /\ owner[n] = e)

StackInv ==
  /\ \A e \in Evaluator : Owns(e, top[e])
  /\ \A v \in Value : cell[v] # "thunk" => Owns(owner[v], previous[v])

(* Where an evaluator is in a force, and what it has seen of the value.    *)
Forcing(e) == phase[e] \in {"cas", "lock", "switch", "suspended", "cvwait", "fail"} \/ lost[e]

ForceInv ==
  \A e \in Evaluator :
    /\ Forcing(e) => pc[top[e]] <= Len(Needs[top[e]])
    /\ Forcing(e) /\ phase[e] # "cas" => cell[Cur(e)] # "thunk"
    /\ phase[e] \in {"switch", "suspended", "cvwait"} => cell[Cur(e)] # "pending"
    /\ lost[e] => phase[e] \in {"lock", "switch", "suspended", "cvwait", "fail", "notify", "enqueue"}
    /\ phase[e] = "fail" => lost[e]
    /\ phase[e] \in {"notify", "enqueue"} =>
         cell[Subject(e)] \in Finished /\ (lost[e] \/ top[e] \in Value)
    /\ phase[e] = "cvwait" => e = Main
    /\ phase[e] \in {"switch", "suspended", "gone"} => e # Main
    /\ e = Main /\ mainpc # "force" => phase[e] = "eval"

(* The fibers: where each of them is, in detail.                           *)
Live(i) == home[i] # NoOne /\ phase[i] # "gone"
Ready(i) == \E w \in Worker : \E k \in DOMAIN ready[w] : ready[w][k] = i
Parked(i) == \E v \in Value : i \in waiters[v]
Woken(i) == \E a \in DOMAIN woken : i \in woken[a]

QueueInv ==
  /\ \A w \in Worker : \A j, k \in DOMAIN ready[w] : ready[w][j] = ready[w][k] => j = k
  /\ \A w \in Worker : wstate[w] = "run" => cur[w] \in Item /\ home[cur[w]] = w
  /\ \A i \in Item : \A v \in Value : i \in waiters[v] => v = Cur(i)
  /\ \A i \in Item : \A a, b \in DOMAIN woken : i \in woken[a] \cap woken[b] => a = b

PlaceInv ==
  \A i \in Item :
    /\ Ready(i) \/ Parked(i) \/ Woken(i) => Live(i) /\ phase[i] = "suspended"
    /\ ~(Ready(i) /\ Parked(i)) /\ ~(Ready(i) /\ Woken(i)) /\ ~(Parked(i) /\ Woken(i))
    /\ Running(i) => phase[i] # "gone" /\ ~Ready(i) /\ ~Parked(i) /\ ~Woken(i)
    /\ Live(i) => Running(i) \/ Ready(i) \/ Parked(i) \/ Woken(i)
    /\ home[i] = NoOne => phase[i] = "eval"

(* A fiber between waitOnThunk and its registration keeps the domain mutex,*)
(* and the finisher of its value has yet to take that mutex.               *)
SwitchInv ==
  \A i \in Item : phase[i] = "switch" =>
    /\ lock[DomainOf[Cur(i)]] = i
    /\ cell[Cur(i)] = "awaited" \/ FinisherComing(Cur(i))

(* The destructor's flush: nothing registers in a domain it has left.      *)
FlushInv ==
  /\ mainpc \in {"flush", "join", "destroyed"} =>
       /\ quit
       /\ \A v \in Value : DomainOf[v] \notin toFlush[Main] =>
            waiters[v] = {} /\ \A i \in Item : phase[i] = "switch" => Cur(i) # v
  /\ mainpc # "flush" => toFlush[Main] = {}

(* The slot of a fiber that ended is released in the next pass.            *)
SlotInv == \A w \in Worker : finished[w] => wstate[w] = "loop"

(* An item's promise, from its spawn on.                                   *)
PromiseInv ==
  /\ \A i \in Item :
       /\ i \in queue => promise[i] = "waiting" /\ home[i] = NoOne
       /\ Live(i) => promise[i] = "waiting"
       /\ promise[i] = "waiting" => i \in queue \/ Live(i)
       /\ promise[i] = "none" => home[i] = NoOne
  /\ \A k \in DOMAIN Batches : \A i \in Batches[k] : promise[i] = "none" <=> k > spawned
  /\ mainpc = "destroyed" => queue = {} /\ \A w \in Worker : wstate[w] = "exited"

(* While the interrupt flag is not reset, a fiber taken from a wait list   *)
(* has a reason to run.                                                    *)
ReasonInv ==
  /\ toFlush[Signal] # {} => interrupted
  /\ \A i \in Item : phase[i] = "suspended" /\ ~Parked(i) =>
       MustUnwind(i) \/ cell[Cur(i)] \in Finished

(* The values an evaluator is evaluating, T, are one chain of nested       *)
(* forces from the top of its stack to its root.  `rank' orders the nodes  *)
(* of a value graph without cycles: what a node forces ranks below it.     *)
Alive(e) == (e = Main /\ mainpc = "force") \/ (e \in Item /\ Live(e))

Link(T, rank, e, u) ==
  /\ owner[u] = e /\ cell[u] # "thunk" /\ previous[u] \in T \cup {e}
  /\ rank[top[e]] <= rank[u] /\ rank[u] < rank[previous[u]] /\ rank[u] < rank[e]

Chain(T, rank, e) ==
  /\ top[e] \in T \cup {e}
  /\ \A u \in T : Link(T, rank, e, u)
  /\ \A u, v \in T : /\ rank[u] = rank[v] => u = v
                     /\ rank[u] < rank[v] => rank[previous[u]] <= rank[v]
  /\ T # {} => Alive(e)

(* Every value begun and not finished is on the chain of its owner.        *)
Chained(rank) ==
  \E S \in [Evaluator -> SUBSET Value] :
    /\ \A e \in Evaluator : Chain(S[e], rank, e)
    /\ \A v \in Value : cell[v] \in {"pending", "awaited"} => v \in S[owner[v]]
================================================================================
