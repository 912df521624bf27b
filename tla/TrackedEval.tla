------------------------------ MODULE TrackedEval ------------------------------
(***************************************************************************)
(* Dependency-tracked evaluation of Tecnix targets over one shared value   *)
(* graph (tecnix/force-value.hh, tecnix/value-hooks.hh, source-deps.cc).   *)
(*                                                                         *)
(* Each task evaluates one target under a TrackingContext of its own.  All *)
(* tasks force the same lazily evaluated values; a value is evaluated once *)
(* and carries a label, the set of repository paths its evaluation read,   *)
(* which every later consumer adds to the frame it is forced from.  The    *)
(* closure of a target is what its root frame holds in the end.            *)
(*                                                                         *)
(* A frame is kept per node (a value being forced, or a task's root frame) *)
(* and linked by `previous', as TrackedSourceDepsFrame is: a value is      *)
(* evaluated by at most one task at a time and at most once.  Access sets  *)
(* are plain sets of paths here; their interning is a separate matter.     *)
(***************************************************************************)
EXTENDS Naturals, Sequences

CONSTANTS
  Task,        \* the targets evaluated, each by a task of its own
  NoTask,      \* no owner
  Value,       \* the shared values (thunks at first)
  Path,        \* repository paths
  Script,      \* Script[n]: the steps evaluating node n performs, in order
  Ends,        \* Ends[n]: how n's own expression ends after its last step
  Untracked,   \* tasks that force values with no TrackingContext
  Parallel,    \* the setting tecnix-parallel-dependencies, with eval-cores > 1
  Deps,        \* Deps[n]: the closure of n when it is evaluated in isolation
  Out          \* Out[n]: the outcome of n when it is evaluated in isolation

Node == Value \cup Task

(***************************************************************************)
(* Outcomes.  "throw" is an AssertionError (which ThrownError is), the     *)
(* only kind builtins.tryEval catches; "error" is any other failure.       *)
(***************************************************************************)
Outcome == {"ok", "throw", "error"}
NoExc == "none"
Failure == {"throw", "error"}

(* What an expression does that matters here: read a path of the repo      *)
(* accessor, force another value, or force one under builtins.tryEval.     *)
Step == [op : {"read"}, arg : Path] \cup [op : {"force", "try"}, arg : Value]

ASSUME ConstantsAssumption ==
  /\ Value \cap Task = {}
  /\ Script \in [Node -> Seq(Step)]
  /\ Ends \in [Node -> Outcome]
  /\ Untracked \subseteq Task
  /\ Parallel \in BOOLEAN

(***************************************************************************)
(* The isolated evaluation of a node: it performs its steps in order up to *)
(* the first one that fails and is not caught.                             *)
(***************************************************************************)
Catches(op, outcome) == outcome = "ok" \/ (op = "try" /\ outcome = "throw")

Stops(n, i) == Script[n][i].op # "read" /\ ~Catches(Script[n][i].op, Out[Script[n][i].arg])

StepDeps(n, i) == IF Script[n][i].op = "read" THEN {Script[n][i].arg} ELSE Deps[Script[n][i].arg]

Reached(n) == {i \in DOMAIN Script[n] : \A j \in 1..(i - 1) : ~Stops(n, j)}

(* Deps and Out are what isolated evaluation computes: the oracle every    *)
(* evaluation mode must agree with.                                        *)
ASSUME OracleAssumption ==
  /\ Deps \in [Node -> SUBSET Path]
  /\ Out \in [Node -> Outcome]
  /\ \A n \in Node :
       /\ Deps[n] = UNION {StepDeps(n, i) : i \in Reached(n)}
       /\ (\A i \in DOMAIN Script[n] : ~Stops(n, i)) => Out[n] = Ends[n]
       /\ \A i \in Reached(n) : Stops(n, i) => Out[n] = Out[Script[n][i].arg]

VARIABLES
  cell,        \* Value::p0: "thunk", "pending" (or awaited), or the outcome
  owner,       \* the evaluator id kept in p0 of a pending value
  label,       \* Value::trackedSourceAccessSet
  previous,    \* the frame below the frame forcing a value
  pc,          \* the next step of a node being evaluated
  acc,         \* what the frame of a node has recorded so far
  top,         \* the node whose expression a task is evaluating
  at,          \* where a task is in forceValueTracked
  exc          \* the exception a task is propagating

vars == <<cell, owner, label, previous, pc, acc, top, at, exc>>

Finished == Outcome
Where == {"idle", "run", "cas", "lost", "wait", "publish", "done"}

Init ==
  /\ cell = [v \in Value |-> "thunk"]
  /\ owner = [v \in Value |-> NoTask]
  /\ label = [v \in Value |-> {}]
  /\ previous = [v \in Value |-> v]     \* meaningless until pending
  /\ pc = [n \in Node |-> 1]
  /\ acc = [n \in Node |-> {}]
  /\ top = [t \in Task |-> t]
  /\ at = [t \in Task |-> "idle"]
  /\ exc = [t \in Task |-> NoExc]

Active(t) == at[t] \notin {"idle", "done"}

(* The step a task is about to perform, and the value it forces.           *)
Cur(t) == Script[top[t]][pc[top[t]]]
AtStep(t, ops) ==
  /\ at[t] = "run" /\ exc[t] = NoExc
  /\ pc[top[t]] \in DOMAIN Script[top[t]]
  /\ Cur(t).op \in ops

(* Mutants: a record replaces what the frame holds; a record goes to every *)
(* frame, as with one set for the whole process.                           *)
RecordLast(t, ps) ==
  acc' = [acc EXCEPT ![top[t]] = IF t \in Untracked THEN @ ELSE ps]
RecordEverywhere(t, ps) ==
  acc' = [n \in Node |-> IF t \in Untracked THEN acc[n] ELSE acc[n] \cup ps]

(* recordTrackedSourceAccessSetDependency and recordAccess add to the      *)
(* current frame; without a TrackingContext nothing is recorded.           *)
Record(t, ps) ==
  acc' = [acc EXCEPT ![top[t]] = IF t \in Untracked THEN @ ELSE @ \cup ps]

(* The forced value came back to node n of task t with an outcome: the     *)
(* expression goes on, or the exception goes up.                           *)
Return(t, n, outcome) ==
  LET caught == Catches(Script[n][pc[n]].op, outcome) IN
    /\ pc' = [pc EXCEPT ![n] = IF caught THEN @ + 1 ELSE @]
    /\ exc' = [exc EXCEPT ![t] = IF caught THEN NoExc ELSE outcome]

(***************************************************************************)
(* The tasks of a call run together when parallel dependencies are on and  *)
(* one after the other otherwise.  An untracked force is the main          *)
(* thread's, which is blocked in the call while its tasks run.             *)
(***************************************************************************)
MayStart(t) ==
  \A o \in Task \ {t} :
    Active(o) => Parallel /\ t \notin Untracked /\ o \notin Untracked

Start(t) ==
  /\ at[t] = "idle" /\ MayStart(t)
  /\ at' = [at EXCEPT ![t] = "run"]
  /\ UNCHANGED <<cell, owner, label, previous, pc, acc, top, exc>>

Read(t) ==
  /\ AtStep(t, {"read"})
  /\ Record(t, {Cur(t).arg})
  /\ pc' = [pc EXCEPT ![top[t]] = @ + 1]
  /\ UNCHANGED <<cell, owner, label, previous, top, at, exc>>

(***************************************************************************)
(* forceValueTracked.  The first look at the value decides the branch.     *)
(***************************************************************************)
ForceFinished(t) ==
  /\ AtStep(t, {"force", "try"})
  /\ cell[Cur(t).arg] \in Finished
  /\ Record(t, label[Cur(t).arg])
  /\ Return(t, top[t], cell[Cur(t).arg])
  /\ UNCHANGED <<cell, owner, label, previous, top, at>>

ForcePending(t) ==
  /\ AtStep(t, {"force", "try"})
  /\ cell[Cur(t).arg] = "pending"
  /\ at' = [at EXCEPT ![t] = "wait"]
  /\ UNCHANGED <<cell, owner, label, previous, pc, acc, top, exc>>

ForceThunk(t) ==
  /\ AtStep(t, {"force", "try"})
  /\ cell[Cur(t).arg] = "thunk"
  /\ at' = [at EXCEPT ![t] = "cas"]
  /\ UNCHANGED <<cell, owner, label, previous, pc, acc, top, exc>>

(* The compare-and-exchange of ValueStorage::force.  The winner evaluates  *)
(* the expression in a frame of its own; the frame of a loser stays empty. *)
WinCas(t) ==
  LET v == Cur(t).arg IN
    /\ at[t] = "cas" /\ cell[v] = "thunk"
    /\ cell' = [cell EXCEPT ![v] = "pending"]
    /\ owner' = [owner EXCEPT ![v] = t]
    /\ previous' = [previous EXCEPT ![v] = top[t]]
    /\ top' = [top EXCEPT ![t] = v]
    /\ at' = [at EXCEPT ![t] = "run"]
    /\ UNCHANGED <<label, pc, acc, exc>>

LoseCas(t) ==
  /\ at[t] = "cas" /\ cell[Cur(t).arg] # "thunk"
  /\ at' = [at EXCEPT ![t] = "lost"]
  /\ UNCHANGED <<cell, owner, label, previous, pc, acc, top, exc>>

(* Mutant: a waiter never records the label of what it waited for.         *)
ResumeForgets(outcome) == FALSE

(* The value another evaluator owned has finished.  force() returns and    *)
(* the label is recorded, or force() rethrows the stored exception before  *)
(* recordPublishedDependencies is reached.                                 *)
ResumeRecords(outcome) == outcome = "ok"

Resume(t) ==
  LET v == Cur(t).arg IN
    /\ at[t] \in {"wait", "lost"} /\ cell[v] \in Finished
    /\ Record(t, IF ResumeRecords(cell[v]) THEN label[v] ELSE {})
    /\ Return(t, top[t], cell[v])
    /\ at' = [at EXCEPT ![t] = "run"]
    /\ UNCHANGED <<cell, owner, label, previous, top>>

(***************************************************************************)
(* ValueStorage::finish: the hook stores the label and collapses the frame *)
(* into the one below, and only then p0 makes the value visible.  A failed *)
(* expression finishes the same way, with a Failed payload.                *)
(***************************************************************************)
(* Mutants: no handler finishes a value whose expression throws; the       *)
(* exception is not looked at; it is stored though there is none.          *)
EndedNormally(t) == at[t] = "run" /\ exc[t] = NoExc /\ pc[top[t]] \notin DOMAIN Script[top[t]]
OwnOutcome(t) == Ends[top[t]]
RawOutcome(t) == exc[t]

ExprEnded(t) == at[t] = "run" /\ (exc[t] # NoExc \/ pc[top[t]] \notin DOMAIN Script[top[t]])

ExprOutcome(t) == IF exc[t] # NoExc THEN exc[t] ELSE Ends[top[t]]

(* Mutant: only a value that evaluates publishes its label.                *)
PublishSuccess(t) ==
  LET v == top[t] IN
    /\ ExprEnded(t) /\ v \in Value
    /\ label' = [label EXCEPT ![v] = IF t \in Untracked \/ ExprOutcome(t) # "ok" THEN {} ELSE acc[v]]
    /\ acc' = [acc EXCEPT ![previous[v]] = @ \cup acc[v]]
    /\ at' = [at EXCEPT ![t] = "publish"]
    /\ UNCHANGED <<cell, owner, previous, pc, top, exc>>

Publish(t) ==
  LET v == top[t] IN
    /\ ExprEnded(t) /\ v \in Value
    /\ label' = [label EXCEPT ![v] = IF t \in Untracked THEN {} ELSE acc[v]]
    /\ acc' = [acc EXCEPT ![previous[v]] = @ \cup acc[v]]
    /\ at' = [at EXCEPT ![t] = "publish"]
    /\ UNCHANGED <<cell, owner, previous, pc, top, exc>>

Exchange(t) ==
  LET v == top[t] IN
    /\ at[t] = "publish"
    /\ cell' = [cell EXCEPT ![v] = ExprOutcome(t)]
    /\ top' = [top EXCEPT ![t] = previous[v]]
    /\ Return(t, previous[v], ExprOutcome(t))
    /\ at' = [at EXCEPT ![t] = "run"]
    /\ UNCHANGED <<owner, label, previous, acc>>

(* The root frame is left: its closure is snapshotted, or the call fails.  *)
Snapshot(t) ==
  /\ ExprEnded(t) /\ top[t] = t
  /\ at' = [at EXCEPT ![t] = "done"]
  /\ exc' = [exc EXCEPT ![t] = ExprOutcome(t)]
  /\ UNCHANGED <<cell, owner, label, previous, pc, acc, top>>

TaskNext(t) ==
  \/ Start(t) \/ Read(t)
  \/ ForceFinished(t) \/ ForcePending(t) \/ ForceThunk(t)
  \/ WinCas(t) \/ LoseCas(t) \/ Resume(t)
  \/ Publish(t) \/ Exchange(t) \/ Snapshot(t)

AllDone == \A t \in Task : at[t] = "done"

Next == (\E t \in Task : TaskNext(t)) \/ (AllDone /\ UNCHANGED vars)

Spec == Init /\ [][Next]_vars

(* Every evaluator thread that can run does: the executor's workers are    *)
(* scheduled by the operating system.                                      *)
FairSpec == Spec /\ \A t \in Task : WF_vars(TaskNext(t))

--------------------------------------------------------------------------------
(* The state of the graph, the frames and the tasks is well formed.        *)
TypeOK ==
  /\ cell \in [Value -> {"thunk", "pending"} \cup Outcome]
  /\ owner \in [Value -> Task \cup {NoTask}]
  /\ label \in [Value -> SUBSET Path]
  /\ previous \in [Value -> Node]
  /\ pc \in [Node -> Nat \ {0}]
  /\ acc \in [Node -> SUBSET Path]
  /\ top \in [Task -> Node]
  /\ at \in [Task -> Where]
  /\ exc \in [Task -> {NoExc} \cup Outcome]

(* No cross-target contamination: however the tasks interleave, a value's  *)
(* label and a target's closure hold nothing that evaluating it alone      *)
(* would not read (guardrails.md, "No cross-target contamination").        *)
NoContamination ==
  /\ \A v \in Value : cell[v] \in Finished => label[v] \subseteq Deps[v]
  /\ \A t \in Task : at[t] = "done" => acc[t] \subseteq Deps[t]

(* No under-tracking: the closure snapshotted for a target that evaluates  *)
(* is exactly the one isolated evaluation records, whatever other targets  *)
(* were forcing the same values (guardrails.md, "must agree").             *)
ExactClosures ==
  \A t \in Task \ Untracked : (at[t] = "done" /\ exc[t] = "ok") => acc[t] = Deps[t]

(* The moment a value can be observed as successfully finished it already  *)
(* carries its complete label (the order of finish in value.hh).           *)
LabelsExact == \A v \in Value : cell[v] = "ok" => label[v] = Deps[v]

(* Failed values as well: a consumer that catches the failure depends on   *)
(* everything that was read on the way to it.                              *)
FailedLabelsExact == \A v \in Value : cell[v] \in Failure => label[v] = Deps[v]

(* Sharing and interleaving never change what a value or a target          *)
(* evaluates to.                                                           *)
SameOutcome ==
  /\ \A v \in Value : cell[v] \in Finished => cell[v] = Out[v]
  /\ \A t \in Task : at[t] = "done" => exc[t] = Out[t]

(* Every target is eventually evaluated or fails, for acyclic values: no   *)
(* evaluator waits for ever on a value another one owns.                   *)
Termination == \A t \in Task : <>(at[t] = "done")

--------------------------------------------------------------------------------
(***************************************************************************)
(* The inductive invariant behind these properties, in four parts.         *)
(***************************************************************************)
Pending(v) == v \in Value /\ cell[v] = "pending"
Forces(n, v) ==
  /\ pc[n] \in DOMAIN Script[n] /\ Script[n][pc[n]].op # "read" /\ Script[n][pc[n]].arg = v

(* The frames of a task form one chain from its root frame to its top      *)
(* frame; each is stopped at the step that forces the one above.           *)
TaskChain(t) ==
  /\ at[t] = "idle" => top[t] = t /\ exc[t] = NoExc
  /\ Active(t) => top[t] = t \/ (Pending(top[t]) /\ owner[top[t]] = t)
  /\ at[t] \in {"cas", "lost", "wait"} => exc[t] = NoExc /\ Forces(top[t], Cur(t).arg)
  /\ at[t] = "publish" =>
       top[t] \in Value /\ (exc[t] # NoExc \/ pc[top[t]] \notin DOMAIN Script[top[t]])

FrameChain(v) ==
  Pending(v) =>
    /\ owner[v] \in Task
    /\ previous[v] # top[owner[v]]
    /\ previous[v] = owner[v] \/ (Pending(previous[v]) /\ owner[previous[v]] = owner[v])
    /\ Forces(previous[v], v)

ChainInv == (\A t \in Task : TaskChain(t)) /\ (\A v \in Value : FrameChain(v))

(* Every node is evaluated as in isolation, step by step: it never goes    *)
(* past a step that stops it, and a propagating exception is the outcome   *)
(* of the step its node stands at.                                         *)
ProgressInv ==
  /\ \A n \in Node : /\ pc[n] \in 1..(Len(Script[n]) + 1)
                     /\ \A i \in 1..(pc[n] - 1) : ~Stops(n, i)
  /\ \A t \in Task : Active(t) /\ exc[t] # NoExc =>
       /\ Forces(top[t], Cur(t).arg) /\ Stops(top[t], pc[top[t]])
       /\ exc[t] = Out[Cur(t).arg]
  /\ \A v \in Value : cell[v] \in Finished => cell[v] = Out[v]
  /\ \A t \in Task : at[t] = "done" =>
       exc[t] = Out[t] /\ (exc[t] = "ok" => pc[t] = Len(Script[t]) + 1)

(* A frame or a label never holds more than the node's isolated closure.   *)
SoundInv ==
  /\ \A n \in Node : acc[n] \subseteq Deps[n]
  /\ \A v \in Value : label[v] \subseteq Deps[v]

(* A frame holds the dependencies of every step its node has passed, and   *)
(* a value that finished successfully all of them.                         *)
CompleteInv ==
  /\ \A n \in Node : \A i \in 1..(pc[n] - 1) : StepDeps(n, i) \subseteq acc[n]
  /\ \A v \in Value : cell[v] = "ok" => Deps[v] \subseteq label[v]
  /\ \A t \in Task : at[t] = "publish" =>
       label[top[t]] = acc[top[t]] /\ acc[top[t]] \subseteq acc[previous[top[t]]]

(* What ExactClosures and LabelsExact rest on: every evaluator tracks, and *)
(* no value that throws is forced under tryEval.                           *)
NothingCaught ==
  \A n \in Node : \A i \in DOMAIN Script[n] :
    Script[n][i].op = "try" => Out[Script[n][i].arg] # "throw"

(* One task at a time: nobody races for a thunk or waits for another.  A   *)
(* task that waits at all waits for a value it is itself evaluating.       *)
SoloInv ==
  /\ \A t, o \in Task : Active(t) /\ Active(o) => t = o
  /\ \A t \in Task :
       /\ at[t] # "lost"
       /\ at[t] = "cas" => cell[Cur(t).arg] = "thunk"
       /\ at[t] = "wait" => cell[Cur(t).arg] = "pending"

(* Then failures are tracked as successes are: a failed value's label is   *)
(* whole, and so is what a frame holds of the step that threw.             *)
FailedInv ==
  /\ \A v \in Value : cell[v] \in Failure => Deps[v] \subseteq label[v]
  /\ \A t \in Task : Active(t) /\ exc[t] # NoExc => StepDeps(top[t], pc[top[t]]) \subseteq acc[top[t]]
================================================================================
