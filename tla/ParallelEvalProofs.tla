-------------------------- MODULE ParallelEvalProofs --------------------------
(***************************************************************************)
(* Proofs about ParallelEval, for any workers, items, values, domains,     *)
(* expressions and limits.                                                 *)
(***************************************************************************)
EXTENDS ParallelEval, FiniteSetTheorems, SequenceTheorems, NaturalsInduction, TLAPS

(* The steps of an evaluator, fiber or main thread.                        *)
FiberStep(i) == Register(i) \/ Resumed(i) \/ FinishFiber(i)

Acts(e) == EvalStep(e) \/ (e \in Item /\ FiberStep(e)) \/ (e = Main /\ CvWake)

LEMMA Names ==
  /\ Main \in Evaluator /\ Item \subseteq Evaluator /\ Evaluator \subseteq Node /\ Value \subseteq Node
  /\ Main \notin Item /\ Signal \notin Evaluator
  /\ \A e \in Evaluator : e \notin Value
  /\ \A e \in Evaluator : e = Main \/ e \in Item
  /\ NoOne \notin Item /\ NoOne \notin Worker
BY ExecutorAssumption DEF Evaluator, Node

LEMMA CurValue ==
  ASSUME EvalType, NEW e \in Evaluator, pc[top[e]] <= Len(Needs[top[e]])
  PROVE  Cur(e) \in Value
<1>1. top[e] \in Node /\ Needs[top[e]] \in Seq(Value) /\ pc[top[e]] \in Nat \ {0}
  BY ExecutorAssumption DEF EvalType
<1> QED
  BY <1>1 DEF Cur

LEMMA OwnsOne ==
  ASSUME NEW e \in Evaluator, NEW f \in Evaluator, NEW n, Owns(e, n), Owns(f, n) PROVE e = f
BY Names DEF Owns

(* Where the evaluator is when it acts on the value it forces.             *)
LEMMA ForcedValue ==
  ASSUME EvalType, ForceInv, NEW e \in Evaluator, Forcing(e) \/ AtForce(e)
  PROVE  pc[top[e]] <= Len(Needs[top[e]]) /\ Cur(e) \in Value
<1>1. pc[top[e]] <= Len(Needs[top[e]])
  BY DEF ForceInv, AtForce
<1> QED
  BY <1>1, CurValue

LEMMA SubjectValue ==
  ASSUME EvalType, StackInv, ForceInv, NEW e \in Evaluator, lost[e] \/ top[e] \in Value
  PROVE  Subject(e) \in Value /\ cell[Subject(e)] # "thunk"
<1>1. CASE lost[e]
  <2>1. Forcing(e) /\ phase[e] # "cas"
    BY <1>1 DEF Forcing, ForceInv
  <2> QED
    BY <1>1, <2>1, ForcedValue DEF Subject, ForceInv
<1>2. CASE ~lost[e]
  BY <1>2, Names DEF Subject, StackInv, Owns
<1> QED
  BY <1>1, <1>2

--------------------------------------------------------------------------------
(* What one step of an evaluator does to the evaluation state.             *)

(* The value whose cell the step may write.                                *)
CellStep(e) ==
  \/ cell' = cell
  \/ /\ Cur(e) \in Value /\ cell[Cur(e)] = "thunk" /\ cell' = [cell EXCEPT ![Cur(e)] = "pending"]
     /\ phase[e] = "cas"
  \/ /\ Cur(e) \in Value /\ cell[Cur(e)] \notin Finished \cup {"thunk"}
     /\ cell' = [cell EXCEPT ![Cur(e)] = "awaited"] /\ phase[e] = "lock"
  \/ /\ Subject(e) \in Value /\ cell[Subject(e)] # "thunk"
     /\ \E outcome \in Finished : cell' = [cell EXCEPT ![Subject(e)] = outcome]

LEMMA OutcomeType ==
  ASSUME EvalType, NEW e \in Evaluator PROVE Outcome(e) \in Finished
BY DEF EvalType, Outcome, Finished, Failed

LEMMA CellSteps ==
  ASSUME EvalType, StackInv, ForceInv, NEW e \in Evaluator, Acts(e) PROVE CellStep(e)
<1>1. CASE WinCas(e)
  <2>1. Forcing(e) /\ phase[e] = "cas" /\ cell[Cur(e)] = "thunk" /\ cell' = [cell EXCEPT ![Cur(e)] = "pending"]
    BY <1>1 DEF WinCas, Forcing, CasSucceeds
  <2> QED
    BY <2>1, ForcedValue DEF CellStep
<1>2. CASE WaitOnThunk(e)
  <2>1. Forcing(e) /\ phase[e] = "lock"
    BY <1>2 DEF WaitOnThunk, Forcing
  <2>2. Cur(e) \in Value /\ cell[Cur(e)] # "thunk"
    BY <2>1, ForcedValue DEF ForceInv
  <2>3. cell' = cell \/ (cell[Cur(e)] \notin Finished /\ cell' = [cell EXCEPT ![Cur(e)] = "awaited"])
    BY <1>2 DEF WaitOnThunk
  <2> QED
    BY <2>1, <2>2, <2>3 DEF CellStep
<1>3. CASE FinishValue(e)
  <2>1. lost[e] \/ top[e] \in Value
    BY <1>3 DEF FinishValue, ForceInv
  <2>2. cell' = [cell EXCEPT ![Subject(e)] = Outcome(e)]
    BY <1>3 DEF FinishValue
  <2> QED
    BY <2>1, <2>2, SubjectValue, OutcomeType DEF CellStep
<1>4. CASE ForceFinished(e) \/ ForceUnfinished(e) \/ LoseCas(e) \/ PollInterrupt(e) \/ NotifyWaiters(e)
           \/ Notified(e)
  <2>1. cell' = cell
    BY <1>4 DEF ForceFinished, ForceUnfinished, LoseCas, PollInterrupt, NotifyWaiters, Notified
  <2> QED
    BY <2>1 DEF CellStep
<1>5. CASE EnqueueWoken(e) \/ Register(e) \/ Resumed(e) \/ FinishFiber(e) \/ CvWake
  <2>1. cell' = cell
    BY <1>5 DEF EnqueueWoken, EnqueueFiber, Register, Resumed, FinishFiber, CvWake, evalVars
  <2> QED
    BY <2>1 DEF CellStep
<1> QED
  BY <1>1, <1>2, <1>3, <1>4, <1>5 DEF Acts, EvalStep, FiberStep

(* A thunk becomes pending for its winner, an unfinished value awaited, a  *)
(* value that is no thunk finished; nothing else.                          *)
LEMMA CellMonotone ==
  ASSUME EvalType, NEW e \in Evaluator, CellStep(e), NEW v \in Value
  PROVE  /\ cell'[v] \in {"thunk", "pending", "awaited"} \cup Finished
         /\ cell[v] # "thunk" => cell'[v] # "thunk"
         /\ cell[v] \in Finished => cell'[v] \in Finished
         /\ cell[v] = "awaited" => cell'[v] # "pending"
         /\ cell[v] = "thunk" /\ cell'[v] # "thunk" => v = Cur(e) /\ phase[e] = "cas" /\ cell'[v] = "pending"
<1> USE DEF EvalType, Finished, Failed
<1>1. CASE cell' = cell
  BY <1>1
<1>2. ASSUME NEW u \in Value, NEW x, cell' = [cell EXCEPT ![u] = x]
      PROVE  cell'[v] = IF v = u THEN x ELSE cell[v]
  BY <1>2
<1> QED
  BY <1>1, <1>2 DEF CellStep

(* The rest of the evaluation state: only what belongs to the evaluator.   *)
LEMMA EvalAlone ==
  ASSUME EvalType, StackInv, ForceInv, NEW e \in Evaluator, Acts(e), NEW f \in Evaluator, f # e
  PROVE  /\ top'[f] = top[f] /\ phase'[f] = phase[f] /\ lost'[f] = lost[f] /\ exc'[f] = exc[f]
         /\ f \in Item => promise'[f] = promise[f]
<1> USE DEF EvalType
<1>1. CASE ForceFinished(e) \/ ForceUnfinished(e) \/ WinCas(e) \/ PollInterrupt(e)
  BY <1>1 DEF ForceFinished, ForceUnfinished, WinCas, PollInterrupt, Forced
<1>2. CASE LoseCas(e) \/ NotifyWaiters(e)
  BY <1>2 DEF LoseCas, NotifyWaiters, Forced
<1>3. CASE WaitOnThunk(e)
  BY <1>3 DEF WaitOnThunk, WaitReturns, WaitThrows, Forced
<1>4. CASE FinishValue(e)
  BY <1>4 DEF FinishValue, Pop
<1>5. CASE Notified(e)
  BY <1>5 DEF Notified, Pop
<1>6. CASE EnqueueWoken(e) \/ Register(e) \/ FinishFiber(e)
  BY <1>6 DEF EnqueueWoken, EnqueueFiber, Register, FinishFiber, evalVars
<1>7. CASE Resumed(e) \/ (e = Main /\ CvWake)
  BY <1>7 DEF Resumed, CvWake, WaitReturns, WaitThrows, Forced
<1> QED
  BY <1>1, <1>2, <1>3, <1>4, <1>5, <1>6, <1>7 DEF Acts, EvalStep, FiberStep

LEMMA PcAlone ==
  ASSUME EvalType, StackInv, ForceInv, NEW e \in Evaluator, Acts(e), NEW n \in Node, ~Owns(e, n)
  PROVE  pc'[n] = pc[n]
<1> USE DEF EvalType
<1>0. Owns(e, top[e]) /\ n # top[e]
  BY DEF StackInv
<1>1. CASE ForceFinished(e) \/ ForceUnfinished(e) \/ WinCas(e) \/ PollInterrupt(e)
  BY <1>0, <1>1 DEF ForceFinished, ForceUnfinished, WinCas, PollInterrupt, Forced
<1>2. CASE LoseCas(e) \/ NotifyWaiters(e)
  BY <1>0, <1>2 DEF LoseCas, NotifyWaiters, Forced
<1>3. CASE WaitOnThunk(e)
  BY <1>0, <1>3 DEF WaitOnThunk, WaitReturns, WaitThrows, Forced
<1>4. CASE FinishValue(e) \/ Notified(e)
  <2>1. top[e] \in Value /\ ~lost[e] => Owns(e, previous[top[e]]) /\ n # previous[top[e]]
    BY <1>0, Names DEF StackInv, Owns
  <2>2. lost[e] \/ top[e] \in Value
    BY <1>4 DEF FinishValue, Notified, ForceInv
  <2>3. pc' = pc \/ (~lost[e] /\ \E x : pc' = [pc EXCEPT ![previous[top[e]]] = x])
    BY <1>4 DEF FinishValue, Notified, Pop
  <2> QED
    BY <2>1, <2>2, <2>3
<1>5. CASE EnqueueWoken(e) \/ Register(e) \/ FinishFiber(e)
  BY <1>5 DEF EnqueueWoken, EnqueueFiber, Register, FinishFiber, evalVars
<1>6. CASE Resumed(e) \/ (e = Main /\ CvWake)
  BY <1>0, <1>6 DEF Resumed, CvWake, WaitReturns, WaitThrows, Forced
<1> QED
  BY <1>1, <1>2, <1>3, <1>4, <1>5, <1>6 DEF Acts, EvalStep, FiberStep

(* So every other evaluator is where it was.                               *)
LEMMA OthersCur ==
  ASSUME EvalType, StackInv, ForceInv, NEW e \in Evaluator, Acts(e), NEW f \in Evaluator, f # e
  PROVE  Cur(f)' = Cur(f) /\ Subject(f)' = Subject(f) /\ pc'[top'[f]] = pc[top[f]]
<1>1. top'[f] = top[f] /\ lost'[f] = lost[f]
  BY EvalAlone
<1>2. top[f] \in Node /\ ~Owns(e, top[f])
  BY OwnsOne DEF StackInv, EvalType
<1>3. pc'[top[f]] = pc[top[f]]
  BY <1>2, PcAlone
<1> QED
  BY <1>1, <1>3 DEF Cur, Subject

LEMMA ForcedType ==
  ASSUME EvalType, NEW e \in Evaluator, NEW outcome \in Finished, Forced(e, outcome)
  PROVE  pc' \in [Node -> Nat \ {0}] /\ exc' \in [Evaluator -> Finished]
BY DEF EvalType, Forced

LEMMA PopType ==
  ASSUME EvalType, NEW e \in Evaluator, lost[e] \/ top[e] \in Value, Pop(e, Outcome(e))
  PROVE  /\ pc' \in [Node -> Nat \ {0}] /\ exc' \in [Evaluator -> Finished]
         /\ top' \in [Evaluator -> Node] /\ lost' \in [Evaluator -> BOOLEAN]
<1>1. Outcome(e) \in Finished
  BY OutcomeType
<1>2. CASE lost[e]
  BY <1>2 DEF EvalType, Pop
<1>3. CASE ~lost[e]
  <2> DEFINE n == previous[top[e]]
  <2>1. /\ n \in Node /\ top' = [top EXCEPT ![e] = n] /\ exc' = [exc EXCEPT ![e] = Outcome(e)]
        /\ pc' = [pc EXCEPT ![n] = IF Outcome(e) = "ok" THEN @ + 1 ELSE @] /\ lost' = lost
    BY <1>3 DEF EvalType, Pop
  <2> HIDE DEF n
  <2> QED
    BY <1>1, <2>1 DEF EvalType
<1> QED
  BY <1>2, <1>3

LEMMA ActsEvalType ==
  ASSUME EvalType, StackInv, ForceInv, NEW e \in Evaluator, Acts(e) PROVE EvalType'
<1> DEFINE Phases == {"eval", "cas", "lock", "switch", "suspended", "cvwait", "fail",
                      "notify", "enqueue", "gone"}
<1>1. cell' \in [Value -> {"thunk", "pending", "awaited"} \cup Finished]
  <2>1. CellStep(e)
    BY CellSteps
  <2>2. \E u, x : cell' = [cell EXCEPT ![u] = x] \/ cell' = cell
    BY <2>1 DEF CellStep
  <2>3. cell' = [v \in Value |-> cell'[v]]
    BY <2>2 DEF EvalType
  <2> QED
    BY <2>1, <2>3, CellMonotone
<1>2. owner' \in [Value -> Evaluator] /\ previous' \in [Value -> Node]
  <2>1. \/ UNCHANGED <<owner, previous>>
        \/ owner' = [owner EXCEPT ![Cur(e)] = e] /\ previous' = [previous EXCEPT ![Cur(e)] = top[e]]
    <3>1. CASE ForceFinished(e) \/ ForceUnfinished(e) \/ LoseCas(e) \/ PollInterrupt(e)
               \/ WaitOnThunk(e) \/ FinishValue(e) \/ NotifyWaiters(e) \/ EnqueueWoken(e) \/ Notified(e)
      BY <3>1 DEF ForceFinished, ForceUnfinished, LoseCas, PollInterrupt, WaitOnThunk,
                  FinishValue, NotifyWaiters, EnqueueWoken, EnqueueFiber, Notified, evalVars
    <3>2. CASE WinCas(e)
      BY <3>2 DEF WinCas
    <3>3. CASE Register(e) \/ Resumed(e) \/ FinishFiber(e) \/ CvWake
      BY <3>3 DEF Register, Resumed, FinishFiber, CvWake
    <3> QED
      BY <3>1, <3>2, <3>3 DEF Acts, EvalStep, FiberStep
  <2> QED
    BY <2>1 DEF EvalType
<1>3. /\ pc' \in [Node -> Nat \ {0}] /\ exc' \in [Evaluator -> Finished]
      /\ top' \in [Evaluator -> Node] /\ lost' \in [Evaluator -> BOOLEAN]
  <2>1. CASE ForceFinished(e)
    BY <2>1, ForcedType DEF ForceFinished, EvalType
  <2>2. CASE ForceUnfinished(e) \/ PollInterrupt(e)
    BY <2>2 DEF ForceUnfinished, PollInterrupt, EvalType, Finished, Failed
  <2>3. CASE WinCas(e)
    <3>1. Cur(e) \in Value
      BY <2>3, ForcedValue DEF WinCas, Forcing
    <3> QED
      BY <2>3, <3>1, Names DEF WinCas, EvalType
  <2>4. CASE LoseCas(e)
    BY <2>4, ForcedType DEF LoseCas, EvalType
  <2>5. CASE WaitOnThunk(e)
    BY <2>5, ForcedType DEF WaitOnThunk, WaitReturns, WaitThrows, EvalType, Finished, Failed
  <2>6. CASE FinishValue(e)
    <3>1. lost[e] \/ top[e] \in Value
      BY <2>6 DEF FinishValue, ForceInv
    <3>2. UNCHANGED <<top, pc, exc, lost>> \/ Pop(e, Outcome(e))
      BY <2>6 DEF FinishValue
    <3> QED
      BY <3>1, <3>2, PopType DEF EvalType
  <2>7. CASE Notified(e)
    <3>1. lost[e] \/ top[e] \in Value
      BY <2>7 DEF Notified, ForceInv
    <3> QED
      BY <2>7, <3>1, PopType DEF Notified
  <2>8. CASE NotifyWaiters(e) \/ EnqueueWoken(e) \/ Register(e) \/ FinishFiber(e)
    BY <2>8 DEF NotifyWaiters, EnqueueWoken, EnqueueFiber, Register, FinishFiber, EvalType, evalVars
  <2>9. CASE Resumed(e)
    BY <2>9, ForcedType DEF Resumed, WaitReturns, WaitThrows, EvalType, Finished, Failed
  <2>10. CASE e = Main /\ CvWake
    <3>1. Forcing(e) /\ phase[e] = "cvwait"
      BY <2>10 DEF CvWake, Forcing
    <3>2. cell[Cur(e)] # "awaited" => cell[Cur(e)] \in Finished
      BY <3>1, ForcedValue DEF ForceInv, EvalType
    <3> QED
      BY <2>10, <3>2, ForcedType DEF CvWake, WaitReturns, WaitThrows, EvalType, Finished, Failed
  <2> QED
    BY <2>1, <2>2, <2>3, <2>4, <2>5, <2>6, <2>7, <2>8, <2>9, <2>10 DEF Acts, EvalStep, FiberStep
<1>4. phase' \in [Evaluator -> Phases] /\ promise' \in [Item -> {"none", "waiting"} \cup Finished]
  <2> USE DEF EvalType
  <2>1. CASE ForceFinished(e) \/ ForceUnfinished(e) \/ WinCas(e) \/ LoseCas(e) \/ PollInterrupt(e)
    BY <2>1 DEF ForceFinished, ForceUnfinished, WinCas, LoseCas, PollInterrupt
  <2>2. CASE WaitOnThunk(e) \/ Resumed(e) \/ CvWake
    BY <2>2 DEF WaitOnThunk, Resumed, CvWake, WaitReturns, WaitThrows
  <2>3. CASE FinishValue(e) \/ NotifyWaiters(e) \/ EnqueueWoken(e) \/ Notified(e)
    BY <2>3 DEF FinishValue, NotifyWaiters, EnqueueWoken, EnqueueFiber, Notified, evalVars
  <2>4. CASE e \in Item /\ (Register(e) \/ FinishFiber(e))
    BY <2>4 DEF Register, FinishFiber
  <2> QED
    BY <2>1, <2>2, <2>3, <2>4 DEF Acts, EvalStep, FiberStep
<1> QED
  BY <1>1, <1>2, <1>3, <1>4 DEF EvalType

--------------------------------------------------------------------------------
(* The stacks.                                                             *)

OwnsNext(f, n) == n = f \/ (n \in Value /\ cell'[n] # "thunk" /\ owner'[n] = f)

LEMMA OwnsKept ==
  ASSUME EvalType, NEW e \in Evaluator, CellStep(e), NEW f, NEW n, Owns(f, n),
         \A v \in Value : cell[v] # "thunk" => owner'[v] = owner[v]
  PROVE  OwnsNext(f, n)
BY CellMonotone DEF Owns, OwnsNext

LEMMA ActsOwners ==
  ASSUME EvalType, StackInv, ForceInv, NEW e \in Evaluator, Acts(e)
  PROVE  \/ UNCHANGED <<owner, previous>> /\ \A v \in Value : cell[v] = "thunk" => cell'[v] = "thunk"
         \/ WinCas(e)
<1>1. CASE ForceFinished(e) \/ ForceUnfinished(e) \/ LoseCas(e) \/ PollInterrupt(e)
           \/ WaitOnThunk(e) \/ FinishValue(e) \/ NotifyWaiters(e) \/ EnqueueWoken(e) \/ Notified(e)
  <2>1. UNCHANGED <<owner, previous>>
    BY <1>1 DEF ForceFinished, ForceUnfinished, LoseCas, PollInterrupt, WaitOnThunk,
                FinishValue, NotifyWaiters, EnqueueWoken, EnqueueFiber, Notified, evalVars
  <2>2. cell' = cell \/ WaitOnThunk(e) \/ FinishValue(e)
    BY <1>1 DEF ForceFinished, ForceUnfinished, LoseCas, PollInterrupt, NotifyWaiters, EnqueueWoken,
                EnqueueFiber, Notified, evalVars
  <2>3. WaitOnThunk(e) \/ FinishValue(e) => phase[e] # "cas"
    BY DEF WaitOnThunk, FinishValue, ExprEnded
  <2>4. \A v \in Value : cell[v] = "thunk" => cell'[v] = "thunk"
    BY <2>2, <2>3, CellSteps, CellMonotone
  <2> QED
    BY <2>1, <2>4
<1>2. CASE Register(e) \/ Resumed(e) \/ FinishFiber(e) \/ CvWake
  BY <1>2 DEF Register, Resumed, FinishFiber, CvWake
<1> QED
  BY <1>1, <1>2 DEF Acts, EvalStep, FiberStep

LEMMA ActsStackInv ==
  ASSUME EvalType, StackInv, ForceInv, NEW e \in Evaluator, Acts(e) PROVE StackInv'
<1>0. CellStep(e)
  BY CellSteps
<1>1. CASE WinCas(e)
  <2> DEFINE v == Cur(e)
  <2>1. /\ v \in Value /\ cell[v] = "thunk" /\ cell' = [cell EXCEPT ![v] = "pending"]
        /\ owner' = [owner EXCEPT ![v] = e] /\ previous' = [previous EXCEPT ![v] = top[e]]
        /\ top' = [top EXCEPT ![e] = v]
    BY <1>1, ForcedValue DEF WinCas, Forcing, CasSucceeds
  <2> HIDE DEF v
  <2>2. \A u \in Value : cell[u] # "thunk" => owner'[u] = owner[u] /\ previous'[u] = previous[u]
    BY <2>1 DEF EvalType
  <2>3. cell'[v] = "pending" /\ owner'[v] = e /\ previous'[v] = top[e] /\ top'[e] = v
    BY <2>1 DEF EvalType
  <2>4. ASSUME NEW f \in Evaluator PROVE OwnsNext(f, top'[f])
    <3>1. CASE f = e
      BY <2>1, <2>3, <3>1 DEF OwnsNext
    <3>2. CASE f # e
      <4>1. top'[f] = top[f] /\ Owns(f, top[f])
        BY <2>1, <3>2 DEF StackInv, EvalType
      <4> QED
        BY <1>0, <2>2, <4>1, OwnsKept
    <3> QED
      BY <3>1, <3>2
  <2>5. ASSUME NEW u \in Value, cell'[u] # "thunk" PROVE OwnsNext(owner'[u], previous'[u])
    <3>1. CASE u = v
      <4>1. Owns(e, top[e])
        BY DEF StackInv
      <4> QED
        BY <1>0, <2>2, <2>3, <3>1, <4>1, OwnsKept
    <3>2. CASE u # v
      <4>1. cell[u] # "thunk"
        BY <2>1, <2>5, <3>2 DEF EvalType
      <4>2. Owns(owner[u], previous[u]) /\ owner'[u] = owner[u] /\ previous'[u] = previous[u]
        BY <2>2, <4>1 DEF StackInv
      <4> QED
        BY <1>0, <2>2, <4>2, OwnsKept
    <3> QED
      BY <3>1, <3>2
  <2> QED
    BY <2>4, <2>5 DEF StackInv, Owns, OwnsNext
<1>2. CASE UNCHANGED <<owner, previous>> /\ \A v \in Value : cell[v] = "thunk" => cell'[v] = "thunk"
  <2>1. \A f \in Evaluator : \A n : Owns(f, n) => OwnsNext(f, n)
    BY <1>0, <1>2, OwnsKept
  <2>2. ASSUME NEW f \in Evaluator PROVE Owns(f, top'[f])
    <3>1. CASE f # e
      BY <3>1, EvalAlone DEF StackInv
    <3>2. CASE f = e
      <4>1. Owns(e, top[e]) /\ (top[e] \in Value => Owns(e, previous[top[e]]))
        BY Names DEF StackInv, Owns
      <4>2. ~WinCas(e) => top'[e] = top[e] \/ (top[e] \in Value /\ top'[e] = previous[top[e]])
        <5>1. CASE ForceFinished(e) \/ ForceUnfinished(e) \/ LoseCas(e) \/ PollInterrupt(e)
                   \/ WaitOnThunk(e) \/ NotifyWaiters(e) \/ EnqueueWoken(e)
          BY <5>1 DEF ForceFinished, ForceUnfinished, LoseCas, PollInterrupt, WaitOnThunk,
                      NotifyWaiters, EnqueueWoken, EnqueueFiber, evalVars
        <5>2. CASE FinishValue(e) \/ Notified(e)
          BY <5>2 DEF FinishValue, Notified, Pop, ForceInv, EvalType
        <5>3. CASE Register(e) \/ Resumed(e) \/ FinishFiber(e) \/ CvWake
          BY <5>3 DEF Register, Resumed, FinishFiber, CvWake
        <5> QED
          BY <5>1, <5>2, <5>3 DEF Acts, EvalStep, FiberStep
      <4>3. CASE ~WinCas(e)
        BY <3>2, <4>1, <4>2, <4>3
      <4>4. CASE WinCas(e)
        BY <1>2, <4>4, ForcedValue DEF WinCas, Forcing, CasSucceeds, EvalType
      <4> QED
        BY <4>3, <4>4
    <3> QED
      BY <3>1, <3>2
  <2>3. \A v \in Value : cell'[v] # "thunk" => Owns(owner'[v], previous'[v])
    BY <1>2 DEF StackInv
  <2>4. \A v \in Value : owner[v] \in Evaluator
    BY DEF EvalType
  <2>5. \A f \in Evaluator : OwnsNext(f, top'[f])
    BY <2>1, <2>2
  <2>6. \A v \in Value : cell'[v] # "thunk" => OwnsNext(owner'[v], previous'[v])
    BY <1>2, <2>1, <2>3, <2>4
  <2> QED
    BY <2>5, <2>6 DEF StackInv, Owns, OwnsNext
<1> QED
  BY <1>1, <1>2, ActsOwners

--------------------------------------------------------------------------------
(* Where the evaluators are.                                               *)

(* The evaluator has not moved.                                            *)
Stays(f) ==
  /\ top'[f] = top[f] /\ lost'[f] = lost[f]
  /\ pc'[top'[f]] = pc[top[f]] /\ Cur(f)' = Cur(f) /\ Subject(f)' = Subject(f)

CellsGrow ==
  \A v \in Value :
    /\ cell[v] # "thunk" => cell'[v] # "thunk" /\ cell'[v] \in {"pending", "awaited"} \cup Finished
    /\ cell[v] \in Finished => cell'[v] \in Finished
    /\ cell[v] = "awaited" => cell'[v] # "pending"

ForceAt(e) ==
  /\ Forcing(e) => pc[top[e]] <= Len(Needs[top[e]])
  /\ Forcing(e) /\ phase[e] # "cas" => cell[Cur(e)] # "thunk"
  /\ phase[e] \in {"switch", "suspended", "cvwait"} => cell[Cur(e)] # "pending"
  /\ lost[e] => phase[e] \in {"lock", "switch", "suspended", "cvwait", "fail", "notify", "enqueue"}
  /\ phase[e] = "fail" => lost[e]
  /\ phase[e] \in {"notify", "enqueue"} =>
       cell[Subject(e)] \in Finished /\ (lost[e] \/ top[e] \in Value)
  /\ phase[e] = "cvwait" => e = Main
  /\ phase[e] \in {"switch", "suspended", "gone"} => e # Main
  /\ e = Main /\ mainpc # "force" => phase[e] = "eval"

LEMMA ActsCells ==
  ASSUME EvalType, StackInv, ForceInv, NEW e \in Evaluator, Acts(e) PROVE CellsGrow
BY CellSteps, CellMonotone DEF CellsGrow

LEMMA Unmoved ==
  ASSUME NEW f \in Evaluator, top'[f] = top[f], lost'[f] = lost[f], pc'[top[f]] = pc[top[f]]
  PROVE  Stays(f)
BY DEF Stays, Cur, Subject

LEMMA ForceKept ==
  ASSUME EvalType, StackInv, ForceInv, NEW f \in Evaluator, Stays(f), CellsGrow, phase'[f] = phase[f],
         mainpc' = mainpc
  PROVE  ForceAt(f)'
<1>1. ForceAt(f)
  BY DEF ForceInv, ForceAt
<1>2. Forcing(f)' = Forcing(f)
  BY DEF Forcing, Stays
<1>3. Forcing(f) => Cur(f) \in Value
  BY ForcedValue
<1>4. phase[f] \in {"notify", "enqueue"} => Subject(f) \in Value
  BY <1>1, SubjectValue DEF ForceAt
<1>5. phase[f] \in {"switch", "suspended", "cvwait"} => Forcing(f) /\ phase[f] # "cas"
  BY DEF Forcing
<1>6. phase[f] \in {"switch", "suspended", "cvwait"} => cell[Cur(f)] \in {"awaited"} \cup Finished
  BY <1>1, <1>3, <1>5 DEF ForceAt, EvalType
<1>7. phase[f] \in {"switch", "suspended", "cvwait"} => cell'[Cur(f)] # "pending"
  BY <1>3, <1>5, <1>6 DEF CellsGrow, Finished, Failed
<1>8. Forcing(f) /\ phase[f] # "cas" => cell'[Cur(f)] # "thunk"
  BY <1>1, <1>3 DEF ForceAt, CellsGrow
<1>9. phase[f] \in {"notify", "enqueue"} => cell'[Subject(f)] \in Finished
  BY <1>1, <1>4 DEF ForceAt, CellsGrow
<1> QED
  BY <1>1, <1>2, <1>7, <1>8, <1>9 DEF ForceAt, Stays

(* An evaluator that is not in a force has nothing to keep.                *)
LEMMA AtRest ==
  ASSUME NEW e \in Evaluator, phase'[e] = "eval", ~lost'[e] PROVE ForceAt(e)'
BY DEF ForceAt, Forcing

LEMMA ActsMain ==
  ASSUME NEW e \in Evaluator, Acts(e)
  PROVE  mainpc' = mainpc /\ (e = Main => mainpc = "force")
<1>1. CASE EvalStep(e)
  <2>1. CASE ForceFinished(e) \/ ForceUnfinished(e) \/ WinCas(e) \/ LoseCas(e) \/ PollInterrupt(e)
    BY <2>1 DEF ForceFinished, ForceUnfinished, WinCas, LoseCas, PollInterrupt, Running, AtForce, envVars
  <2>2. CASE WaitOnThunk(e)
    BY <2>2 DEF WaitOnThunk, Running, envVars
  <2>3. CASE FinishValue(e) \/ NotifyWaiters(e) \/ EnqueueWoken(e) \/ Notified(e)
    BY <2>3 DEF FinishValue, NotifyWaiters, EnqueueWoken, EnqueueFiber, Notified, Running, ExprEnded, envVars
  <2> QED
    BY <1>1, <2>1, <2>2, <2>3 DEF EvalStep
<1>2. CASE e \in Item /\ FiberStep(e)
  BY <1>2, Names DEF FiberStep, Register, Resumed, FinishFiber, envVars
<1>3. CASE e = Main /\ CvWake
  BY <1>3 DEF CvWake, Running, envVars
<1> QED
  BY <1>1, <1>2, <1>3 DEF Acts

LEMMA PopRests ==
  ASSUME EvalType, NEW e \in Evaluator, Pop(e, Outcome(e)) PROVE ~lost'[e]
BY DEF EvalType, Pop

LEMMA ActorForce ==
  ASSUME EvalType, StackInv, ForceInv, NEW e \in Evaluator, Acts(e) PROVE ForceAt(e)'
<1>0. ForceAt(e)
  BY DEF ForceInv, ForceAt
<1>m. mainpc' = mainpc /\ (e = Main => mainpc = "force")
  BY ActsMain
<1>c. Forcing(e) => Cur(e) \in Value
  BY ForcedValue
<1>1. CASE ForceFinished(e) \/ WinCas(e) \/ PollInterrupt(e)
  <2>1. phase'[e] = "eval" /\ ~lost[e] /\ lost' = lost
    BY <1>0, <1>1 DEF ForceFinished, WinCas, PollInterrupt, AtForce, ForceAt, EvalType
  <2> QED
    BY <2>1, AtRest
<1>2. CASE ForceUnfinished(e)
  <2>1. /\ AtForce(e) /\ UNCHANGED <<cell, pc, top, lost>> /\ phase[e] = "eval"
        /\ phase'[e] = IF cell[Cur(e)] = "thunk" THEN "cas" ELSE "lock"
    BY <1>2 DEF ForceUnfinished, AtForce, EvalType
  <2>2. Cur(e)' = Cur(e) /\ pc[top[e]] <= Len(Needs[top[e]])
    BY <2>1 DEF Cur, AtForce
  <2> QED
    BY <1>0, <1>m, <2>1, <2>2 DEF ForceAt, Forcing
<1>3. CASE LoseCas(e)
  <2>1. CASE cell[Cur(e)] \in Finished
    <3>1. phase'[e] = "eval" /\ ~lost[e] /\ lost' = lost
      BY <1>0, <1>3, <2>1 DEF LoseCas, ForceAt, EvalType
    <3> QED
      BY <3>1, AtRest
  <2>2. CASE cell[Cur(e)] \notin Finished
    <3>1. /\ UNCHANGED <<cell, pc, top>> /\ phase'[e] = "lock" /\ lost'[e] /\ Forcing(e)
          /\ cell[Cur(e)] # "thunk"
      BY <1>3, <2>2 DEF LoseCas, EvalType, Forcing, CasSucceeds
    <3>2. Cur(e)' = Cur(e)
      BY <3>1 DEF Cur
    <3> QED
      BY <1>0, <1>m, <3>1, <3>2 DEF ForceAt, Forcing
  <2> QED
    BY <2>1, <2>2
<1>4. CASE WaitOnThunk(e)
  <2>0. Forcing(e) /\ Cur(e) \in Value /\ phase[e] = "lock"
    BY <1>4, <1>c DEF WaitOnThunk, Forcing
  <2>1. CASE cell[Cur(e)] \in Finished
    <3>1. phase'[e] = "eval" /\ ~lost'[e]
      BY <1>4, <2>1 DEF WaitOnThunk, WaitReturns, EvalType
    <3> QED
      BY <3>1, AtRest
  <2>2. CASE cell[Cur(e)] \notin Finished
    <3>1. /\ cell' = [cell EXCEPT ![Cur(e)] = "awaited"] /\ UNCHANGED <<pc, top, lost>>
          /\ \/ phase' = [phase EXCEPT ![e] = IF lost[e] THEN "fail" ELSE "eval"]
             \/ phase' = [phase EXCEPT ![e] = IF e = Main THEN "cvwait" ELSE "switch"]
      BY <1>4, <2>2 DEF WaitOnThunk, WaitThrows
    <3>2. Cur(e)' = Cur(e) /\ cell'[Cur(e)] = "awaited"
      BY <2>0, <3>1 DEF Cur, EvalType
    <3>3. \/ phase'[e] = IF lost[e] THEN "fail" ELSE "eval"
          \/ phase'[e] = IF e = Main THEN "cvwait" ELSE "switch"
      BY <3>1 DEF EvalType
    <3>4. lost'[e] = lost[e] /\ pc'[top'[e]] = pc[top[e]] /\ top'[e] = top[e]
      BY <3>1
    <3> QED
      BY <1>0, <1>m, <2>0, <3>2, <3>3, <3>4 DEF ForceAt, Forcing
  <2> QED
    BY <2>1, <2>2
<1>5. CASE FinishValue(e)
  <2>1. CASE MustNotify(Subject(e))
    <3>1. /\ cell' = [cell EXCEPT ![Subject(e)] = Outcome(e)] /\ phase' = [phase EXCEPT ![e] = "notify"]
          /\ UNCHANGED <<top, pc, exc, lost>>
      BY <1>5, <2>1 DEF FinishValue
    <3>2. lost[e] \/ top[e] \in Value
      BY <1>0, <1>5 DEF FinishValue, ForceAt
    <3>3. Subject(e) \in Value /\ Outcome(e) \in Finished
      BY <3>2, SubjectValue, OutcomeType
    <3>4. Subject(e)' = Subject(e) /\ Cur(e)' = Cur(e) /\ cell'[Subject(e)] \in Finished /\ phase'[e] = "notify"
      BY <3>1, <3>3 DEF Subject, Cur, EvalType
    <3>5. lost'[e] = lost[e] /\ pc'[top'[e]] = pc[top[e]] /\ top'[e] = top[e]
      BY <3>1
    <3>6. lost[e] => Subject(e) = Cur(e) /\ Forcing(e)
      BY DEF Subject, Forcing
    <3>7. \A x \in Finished : x # "thunk"
      BY DEF Finished, Failed
    <3> QED
      BY <1>0, <1>m, <3>2, <3>4, <3>5, <3>6, <3>7 DEF ForceAt, Forcing
  <2>2. CASE ~MustNotify(Subject(e))
    <3>1. phase' = [phase EXCEPT ![e] = "eval"] /\ Pop(e, Outcome(e))
      BY <1>5, <2>2 DEF FinishValue
    <3> QED
      BY <3>1, PopRests, AtRest DEF EvalType
  <2> QED
    BY <2>1, <2>2
<1>6. CASE Notified(e)
  BY <1>6, PopRests, AtRest DEF Notified, EvalType
<1>7. CASE NotifyWaiters(e)
  <2>1. /\ UNCHANGED <<cell, pc, top, lost>> /\ phase[e] = "notify" /\ phase'[e] = "enqueue"
    BY <1>7 DEF NotifyWaiters, EvalType
  <2>2. Cur(e)' = Cur(e) /\ Subject(e)' = Subject(e)
    BY <2>1 DEF Cur, Subject
  <2> QED
    BY <1>0, <1>m, <2>1, <2>2 DEF ForceAt, Forcing
<1>8. CASE EnqueueWoken(e)
  <2>1. UNCHANGED <<cell, pc, top, lost, phase>>
    BY <1>8 DEF EnqueueWoken, EnqueueFiber, evalVars
  <2>2. Cur(e)' = Cur(e) /\ Subject(e)' = Subject(e)
    BY <2>1 DEF Cur, Subject
  <2> QED
    BY <1>0, <1>m, <2>1, <2>2 DEF ForceAt, Forcing
<1>9. CASE e \in Item /\ Register(e)
  <2>1. UNCHANGED <<cell, pc, top, lost>> /\ phase[e] = "switch" /\ phase'[e] = "suspended"
    BY <1>9 DEF Register, EvalType
  <2>2. Cur(e)' = Cur(e) /\ Subject(e)' = Subject(e)
    BY <2>1 DEF Cur, Subject
  <2> QED
    BY <1>0, <1>m, <2>1, <2>2 DEF ForceAt, Forcing
<1>10. CASE Resumed(e) \/ (e = Main /\ CvWake)
  <2>1. phase[e] \in {"suspended", "cvwait"} /\ cell' = cell /\ top' = top
    BY <1>10 DEF Resumed, CvWake
  <2>2. \/ WaitReturns(e, cell[Cur(e)]) \/ WaitThrows(e, "interrupted")
        \/ UNCHANGED <<pc, exc, phase, lost>>
    BY <1>10 DEF Resumed, CvWake
  <2>3. CASE WaitReturns(e, cell[Cur(e)])
    <3>1. phase'[e] = "eval" /\ ~lost'[e]
      BY <2>3 DEF WaitReturns, EvalType
    <3> QED
      BY <3>1, AtRest
  <2>4. CASE WaitThrows(e, "interrupted")
    <3>1. UNCHANGED <<pc, lost>> /\ phase'[e] = IF lost[e] THEN "fail" ELSE "eval"
      BY <2>4 DEF WaitThrows, EvalType
    <3>2. Cur(e)' = Cur(e)
      BY <2>1, <3>1 DEF Cur
    <3> QED
      BY <1>0, <1>m, <2>1, <3>1, <3>2 DEF ForceAt, Forcing
  <2>5. CASE UNCHANGED <<pc, exc, phase, lost>>
    <3>1. Cur(e)' = Cur(e)
      BY <2>1, <2>5 DEF Cur
    <3> QED
      BY <1>0, <1>m, <2>1, <2>5, <3>1 DEF ForceAt, Forcing
  <2> QED
    BY <2>2, <2>3, <2>4, <2>5
<1>11. CASE e \in Item /\ FinishFiber(e)
  <2>1. phase[e] = "eval" /\ phase'[e] = "gone" /\ lost' = lost
    BY <1>11 DEF FinishFiber, ExprEnded, EvalType
  <2> QED
    BY <1>0, <1>11, <2>1, Names DEF ForceAt, Forcing
<1> QED
  BY <1>1, <1>2, <1>3, <1>4, <1>5, <1>6, <1>7, <1>8, <1>9, <1>10, <1>11 DEF Acts, EvalStep, FiberStep

LEMMA ActsForceInv ==
  ASSUME EvalType, StackInv, ForceInv, NEW e \in Evaluator, Acts(e) PROVE ForceInv'
<1>1. ASSUME NEW f \in Evaluator, f # e PROVE ForceAt(f)'
  <2>1. Stays(f) /\ phase'[f] = phase[f]
    BY <1>1, EvalAlone, OthersCur DEF Stays
  <2> QED
    BY <2>1, ForceKept, ActsCells, ActsMain
<1>2. \A f \in Evaluator : ForceAt(f)'
  BY <1>1, ActorForce
<1> QED
  BY <1>2 DEF ForceInv, ForceAt

--------------------------------------------------------------------------------
(* The other steps: a worker's loop, the flushes, the rest.                *)

LoopStep(w) == ResumeReady(w) \/ StartItem(w) \/ QuitOrSleep(w) \/ WakeUp(w) \/ SpuriousWakeUp(w)

OtherStep ==
  \/ Spawn \/ MainForced \/ Destroy \/ WakeAll \/ Join
  \/ Interrupt \/ CallbackDone \/ ClearInterrupt

Flushes(f) == (f = Main => mainpc = "flush") /\ FlushStep(f)

LEMMA NextSteps ==
  ASSUME QueueInv, Next
  PROVE  \/ \E e \in Evaluator : Acts(e)
         \/ \E w \in Worker : LoopStep(w)
         \/ \E f \in Flusher : Flushes(f)
         \/ OtherStep \/ UNCHANGED vars
<1>1. ASSUME NEW w \in Worker, WorkerStep(w) PROVE LoopStep(w) \/ \E e \in Evaluator : Acts(e)
  <2>1. wstate[w] = "run" => cur[w] \in Item /\ cur[w] \in Evaluator
    BY Names DEF QueueInv
  <2> QED
    BY <1>1, <2>1 DEF WorkerStep, LoopStep, Acts, FiberStep
<1>2. ASSUME MainStep
      PROVE  (\E e \in Evaluator : Acts(e)) \/ (\E f \in Flusher : Flushes(f)) \/ OtherStep
  BY <1>2, Names DEF MainStep, DestroyStep, OtherStep, Flushes, Flusher, Acts
<1>3. SignalStep => (\E f \in Flusher : Flushes(f)) \/ OtherStep
  <2>1. Signal # Main
    BY Names
  <2> QED
    BY <2>1 DEF SignalStep, OtherStep, Flushes, Flusher
<1>4. CASE \E w \in Worker : WorkerStep(w) \/ SpuriousWakeUp(w)
  BY <1>1, <1>4 DEF LoopStep
<1>5. CASE MainStep \/ SignalStep
  BY <1>2, <1>3, <1>5
<1>6. CASE Interrupt \/ ClearInterrupt \/ Done
  BY <1>6 DEF OtherStep, Done
<1> QED
  BY <1>4, <1>5, <1>6 DEF Next

(* None of them touches a value or moves an evaluator.                     *)
LEMMA OthersSteady ==
  ASSUME \/ \E w \in Worker : LoopStep(w)
         \/ \E f \in Flusher : Flushes(f)
         \/ OtherStep
  PROVE  UNCHANGED <<cell, owner, previous, pc, top, exc, lost>>
<1>1. ASSUME NEW w \in Worker, LoopStep(w) PROVE UNCHANGED <<cell, owner, previous, pc, top, exc, lost>>
  BY <1>1 DEF LoopStep, ResumeReady, StartItem, QuitOrSleep, WakeUp, SpuriousWakeUp, evalVars
<1>2. ASSUME NEW f \in Flusher, Flushes(f) PROVE UNCHANGED <<cell, owner, previous, pc, top, exc, lost>>
  BY <1>2 DEF Flushes, FlushStep, FlushDomain, EnqueueFiber, evalVars
<1>3. CASE OtherStep
  BY <1>3 DEF OtherStep, Spawn, MainForced, Destroy, WakeAll, Join, Interrupt, CallbackDone,
              ClearInterrupt, evalVars
<1> QED
  BY <1>1, <1>2, <1>3

LEMMA OthersPhase ==
  ASSUME EvalType, PlaceInv, PromiseInv,
         \/ \E w \in Worker : LoopStep(w)
         \/ \E f \in Flusher : Flushes(f)
         \/ OtherStep
  PROVE  \/ phase' = phase
         \/ \E i \in queue : phase' = [phase EXCEPT ![i] = "gone"]
<1>1. ASSUME NEW w \in Worker, LoopStep(w)
      PROVE  phase' = phase \/ \E i \in queue : phase' = [phase EXCEPT ![i] = "gone"]
  BY <1>1 DEF LoopStep, ResumeReady, StartItem, QuitOrSleep, WakeUp, SpuriousWakeUp, evalVars
<1>2. ASSUME NEW f \in Flusher, Flushes(f) PROVE phase' = phase
  BY <1>2 DEF Flushes, FlushStep, FlushDomain, EnqueueFiber, evalVars
<1>3. CASE OtherStep
  BY <1>3 DEF OtherStep, Spawn, MainForced, Destroy, WakeAll, Join, Interrupt, CallbackDone,
              ClearInterrupt, evalVars
<1> QED
  BY <1>1, <1>2, <1>3

LEMMA OthersPromise ==
  ASSUME EvalType, EnvType,
         \/ \E w \in Worker : LoopStep(w)
         \/ \E f \in Flusher : Flushes(f)
         \/ OtherStep
  PROVE  promise' \in [Item -> {"none", "waiting"} \cup Finished]
<1> USE DEF EvalType, Finished, Failed
<1>1. ASSUME NEW w \in Worker, LoopStep(w) PROVE promise' \in [Item -> {"none", "waiting"} \cup Finished]
  <2>1. CASE QuitOrSleep(w)
    BY <2>1 DEF QuitOrSleep, FailItems, evalVars
  <2>2. CASE ResumeReady(w) \/ StartItem(w) \/ WakeUp(w) \/ SpuriousWakeUp(w)
    BY <2>2 DEF ResumeReady, StartItem, WakeUp, SpuriousWakeUp, evalVars
  <2> QED
    BY <1>1, <2>1, <2>2 DEF LoopStep
<1>2. ASSUME NEW f \in Flusher, Flushes(f) PROVE promise' = promise
  BY <1>2 DEF Flushes, FlushStep, FlushDomain, EnqueueFiber, evalVars
<1>3. CASE Spawn \/ Join
  BY <1>3 DEF Spawn, Join, FailItems
<1>4. CASE OtherStep /\ ~Spawn /\ ~Join
  BY <1>4 DEF OtherStep, MainForced, Destroy, WakeAll, Interrupt, CallbackDone,
              ClearInterrupt, evalVars
<1> QED
  BY <1>1, <1>2, <1>3, <1>4

(* The main thread is at rest whenever it leaves, or is not in, a force.   *)
LEMMA OthersMain ==
  ASSUME ForceInv,
         \/ \E w \in Worker : LoopStep(w)
         \/ \E f \in Flusher : Flushes(f)
         \/ OtherStep
  PROVE  mainpc' = mainpc \/ phase[Main] = "eval"
<1>1. ASSUME NEW w \in Worker, LoopStep(w) PROVE mainpc' = mainpc
  BY <1>1 DEF LoopStep, ResumeReady, StartItem, QuitOrSleep, WakeUp, SpuriousWakeUp, envVars
<1>2. ASSUME NEW f \in Flusher, Flushes(f) PROVE mainpc' = mainpc
  BY <1>2 DEF Flushes, FlushStep, FlushDomain, EnqueueFiber, envVars
<1>3. mainpc # "force" => phase[Main] = "eval"
  BY Names DEF ForceInv
<1>4. CASE OtherStep
  BY <1>3, <1>4 DEF OtherStep, Spawn, MainForced, Destroy, WakeAll, Join, Interrupt, CallbackDone,
              ClearInterrupt, envVars, ExprEnded
<1> QED
  BY <1>1, <1>2, <1>4

LEMMA OthersEval ==
  ASSUME EvalType, EnvType, StackInv, ForceInv, PlaceInv, PromiseInv, queue \subseteq Item,
         \/ \E w \in Worker : LoopStep(w)
         \/ \E f \in Flusher : Flushes(f)
         \/ OtherStep
  PROVE  EvalType' /\ StackInv' /\ ForceInv'
<1>1. UNCHANGED <<cell, owner, previous, pc, top, exc, lost>>
  BY OthersSteady
<1>2. \/ phase' = phase
      \/ \E i \in queue : phase' = [phase EXCEPT ![i] = "gone"]
  BY OthersPhase
<1>3. \A i \in queue : phase[i] = "eval" /\ i \in Evaluator /\ i # Main
  BY Names DEF PlaceInv, PromiseInv
<1>4. promise' \in [Item -> {"none", "waiting"} \cup Finished]
  BY OthersPromise
<1>5. phase' \in [Evaluator -> {"eval", "cas", "lock", "switch", "suspended", "cvwait", "fail",
                                "notify", "enqueue", "gone"}]
  BY <1>2, <1>3 DEF EvalType
<1>6. EvalType'
  BY <1>1, <1>4, <1>5 DEF EvalType
<1>7. StackInv'
  BY <1>1 DEF StackInv, Owns
<1>8. ASSUME NEW f \in Evaluator PROVE ForceAt(f)'
  <2>1. ForceAt(f)
    BY DEF ForceInv, ForceAt
  <2>2. Cur(f)' = Cur(f) /\ Subject(f)' = Subject(f)
    BY <1>1 DEF Cur, Subject
  <2>3. mainpc' = mainpc \/ phase[Main] = "eval"
    BY OthersMain
  <2>4. CASE phase'[f] = phase[f]
    BY <1>1, <2>1, <2>2, <2>3, <2>4 DEF ForceAt, Forcing
  <2>5. CASE phase'[f] # phase[f]
    <3>1. phase[f] = "eval" /\ phase'[f] = "gone" /\ f # Main
      BY <1>2, <1>3, <2>5 DEF EvalType
    <3>2. ~lost'[f]
      BY <1>1, <2>1, <3>1 DEF ForceAt
    <3> QED
      BY <3>1, <3>2 DEF ForceAt, Forcing
  <2> QED
    BY <2>4, <2>5
<1>9. ForceInv'
  BY <1>8 DEF ForceInv, ForceAt
<1> QED
  BY <1>6, <1>7, <1>9

--------------------------------------------------------------------------------
(* What the steps do to the fibers' places.  Most steps move no fiber.     *)

Quiet(e) ==
  /\ Running(e) /\ phase[e] \notin {"gone", "notify"} /\ phase'[e] # "gone"
  /\ UNCHANGED <<queue, home, ready, sleeping, live, wstate, cur, finished, promise>>
  /\ UNCHANGED <<waiters, woken, toFlush, callback, quit, interrupted, interrupts, mainpc, spawned>>
  /\ WaitOnThunk(e) \/ UNCHANGED <<lock, cv>> \/ (e = Main /\ CvWake)

LEMMA ActsKinds ==
  ASSUME EvalType, NEW e \in Evaluator, Acts(e)
  PROVE  \/ Quiet(e)
         \/ EnqueueWoken(e) \/ NotifyWaiters(e)
         \/ e \in Item /\ (Register(e) \/ FinishFiber(e))
<1> USE DEF EvalType
<1>1. CASE ForceFinished(e) \/ ForceUnfinished(e) \/ WinCas(e) \/ PollInterrupt(e)
  BY <1>1 DEF ForceFinished, ForceUnfinished, WinCas, PollInterrupt, AtForce, Quiet,
              schedVars, waitVars, envVars
<1>2. CASE LoseCas(e) \/ FinishValue(e) \/ Notified(e)
  BY <1>2 DEF LoseCas, FinishValue, Notified, ExprEnded, Quiet, schedVars, waitVars, envVars
<1>3. CASE WaitOnThunk(e)
  <2>1. phase'[e] # "gone" /\ phase[e] = "lock" /\ Running(e)
    BY <1>3 DEF WaitOnThunk, WaitReturns, WaitThrows
  <2>2. UNCHANGED <<promise, schedVars, waiters, woken, toFlush, callback, envVars>>
    BY <1>3 DEF WaitOnThunk
  <2> QED
    BY <1>3, <2>1, <2>2 DEF Quiet, schedVars, envVars
<1>4. CASE Resumed(e)
  BY <1>4 DEF Resumed, WaitReturns, WaitThrows, Quiet, schedVars, waitVars, envVars
<1>5. CASE e = Main /\ CvWake
  BY <1>5 DEF CvWake, WaitReturns, WaitThrows, Quiet, schedVars, waitVars, envVars
<1> QED
  BY <1>1, <1>2, <1>3, <1>4, <1>5 DEF Acts, EvalStep, FiberStep

(* Actor a takes fibers out of wait lists, and puts one on a ready queue.  *)
Takes(a, vs) ==
  /\ TakeWaiters(a, vs)
  /\ UNCHANGED <<cell, owner, previous, pc, top, exc, lost, promise>>
  /\ UNCHANGED <<queue, home, ready, sleeping, live, wstate, cur, finished>>
  /\ UNCHANGED <<lock, callback, quit, interrupted, interrupts, mainpc, spawned>>

Actor == Evaluator \cup {Signal}

LEMMA NotifyTakes ==
  ASSUME NEW e \in Evaluator, NotifyWaiters(e) PROVE Takes(e, {Subject(e)})
BY DEF NotifyWaiters, Takes, schedVars, envVars

LEMMA FlushTakes ==
  ASSUME NEW f \in Flusher, FlushDomain(f)
  PROVE  /\ f \in Actor /\ UNCHANGED phase
         /\ \E d \in toFlush[f] : /\ lock[d] = NoOne /\ Takes(f, {v \in Value : DomainOf[v] = d})
                                  /\ cv' = (cv \/ MainWaitsIn(d))
                                  /\ toFlush' = [toFlush EXCEPT ![f] = @ \ {d}]
BY Names DEF FlushDomain, Takes, schedVars, envVars, evalVars, Flusher, Actor

LEMMA RunningHome ==
  ASSUME SchedType, NEW i \in Item, Running(i)
  PROVE  home[i] \in Worker /\ wstate[home[i]] = "run" /\ cur[home[i]] = i
BY Names DEF SchedType, Running

LEMMA WokenHome ==
  ASSUME SchedType, WaitType, PlaceInv, NEW a \in Actor, NEW i \in woken[a]
  PROVE  i \in Item /\ home[i] \in Worker /\ Woken(i) /\ Live(i)
<1>1. i \in Item /\ Woken(i)
  BY DEF WaitType, Actor, Woken
<1> QED
  BY <1>1 DEF PlaceInv, Live, SchedType

LEMMA QuietTypes ==
  ASSUME SchedType, EnvType, HomeReady, NEW e \in Evaluator, Quiet(e)
  PROVE  SchedType' /\ EnvType' /\ HomeReady'
BY DEF SchedType, EnvType, HomeReady, Quiet

LEMMA QuietWaitType ==
  ASSUME EvalType, ForceInv, WaitType, NEW e \in Evaluator, Quiet(e) PROVE WaitType'
<1>1. UNCHANGED <<waiters, woken, toFlush, callback>>
  BY DEF Quiet
<1>2. CASE WaitOnThunk(e)
  <2>1. Cur(e) \in Value /\ DomainOf[Cur(e)] \in Domain
    BY <1>2, ForcedValue, ExecutorAssumption DEF WaitOnThunk, Forcing
  <2>2. lock' = lock \/ lock' = [lock EXCEPT ![DomainOf[Cur(e)]] = HeldBy(e)]
    BY <1>2 DEF WaitOnThunk
  <2>3. HeldBy(e) \in Item \cup {NoOne}
    BY Names DEF HeldBy
  <2>4. cv' \in BOOLEAN
    BY <1>2 DEF WaitOnThunk, WaitType
  <2>5. lock' \in [Domain -> Item \cup {NoOne}]
    BY <2>2, <2>3 DEF WaitType
  <2> QED
    BY <1>1, <2>4, <2>5 DEF WaitType
<1>3. CASE UNCHANGED <<lock, cv>>
  BY <1>1, <1>3 DEF WaitType
<1>4. CASE CvWake
  BY <1>1, <1>4 DEF CvWake, WaitType
<1> QED
  BY <1>2, <1>3, <1>4 DEF Quiet

LEMMA EnqueueTypes ==
  ASSUME SchedType, WaitType, EnvType, HomeReady, PlaceInv, NEW a \in Actor, NEW i \in woken[a],
         EnqueueFiber(a, i)
  PROVE  SchedType' /\ WaitType' /\ EnvType' /\ HomeReady'
<1>1. i \in Item /\ home[i] \in Worker
  BY WokenHome
<1>2. /\ UNCHANGED <<queue, home, live, wstate, cur, finished, lock, waiters, cv, toFlush, callback>>
      /\ UNCHANGED <<quit, interrupted, interrupts, mainpc, spawned>>
      /\ sleeping' = [w \in Worker |-> sleeping[w] /\ w \notin {home[i]}]
      /\ ready' = [ready EXCEPT ![home[i]] = Append(@, i)]
      /\ woken' = [woken EXCEPT ![a] = @ \ {i}]
  BY DEF EnqueueFiber, Wake, envVars
<1>3. ready' \in [Worker -> Seq(Item)]
  BY <1>1, <1>2 DEF SchedType
<1>4. sleeping' \in [Worker -> BOOLEAN]
  BY <1>2
<1>5. woken' \in [Evaluator \cup {Signal} -> SUBSET Item]
  BY <1>2 DEF WaitType
<1>6. HomeReady'
  <2> SUFFICES ASSUME NEW w \in Worker, NEW k \in DOMAIN ready'[w] PROVE home[ready'[w][k]] = w
    BY <1>2 DEF HomeReady
  <2>1. CASE w # home[i]
    BY <1>1, <1>2, <2>1 DEF HomeReady, SchedType
  <2>2. CASE w = home[i]
    <3>1. ready'[w] = Append(ready[w], i) /\ ready[w] \in Seq(Item)
      BY <1>1, <1>2, <2>2 DEF SchedType
    <3>2. k \in 1..(Len(ready[w]) + 1) /\ ready'[w][k] = IF k <= Len(ready[w]) THEN ready[w][k] ELSE i
      BY <1>1, <3>1
    <3>3. CASE k <= Len(ready[w])
      <4>1. k \in DOMAIN ready[w]
        BY <3>1, <3>2, <3>3
      <4> QED
        BY <3>2, <3>3, <4>1 DEF HomeReady
    <3>4. CASE ~(k <= Len(ready[w]))
      BY <2>2, <3>2, <3>4
    <3> QED
      BY <3>3, <3>4
  <2> QED
    BY <2>1, <2>2
<1> QED
  BY <1>2, <1>3, <1>4, <1>5, <1>6 DEF SchedType, WaitType, EnvType

LEMMA TakesTypes ==
  ASSUME SchedType, WaitType, EnvType, HomeReady, NEW a \in Actor, NEW vs \in SUBSET Value, Takes(a, vs),
         toFlush' \in [Flusher -> SUBSET Domain], cv' \in BOOLEAN
  PROVE  SchedType' /\ WaitType' /\ EnvType' /\ HomeReady'
<1>1. waiters' \in [Value -> SUBSET Item]
  BY DEF Takes, TakeWaiters, WaitType
<1>2. woken' \in [Evaluator \cup {Signal} -> SUBSET Item]
  <2>1. UNION {waiters[v] : v \in vs} \subseteq Item
    BY DEF WaitType
  <2> QED
    BY <2>1 DEF Takes, TakeWaiters, WaitType
<1>3. SchedType' /\ EnvType' /\ HomeReady'
  BY DEF Takes, SchedType, EnvType, HomeReady
<1> QED
  BY <1>1, <1>2, <1>3 DEF WaitType, Takes

LEMMA FiniteFibers ==
  ASSUME NEW w PROVE IsFiniteSet(Fibers(w)) /\ Cardinality(Fibers(w)) \in Nat
<1>1. Fibers(w) \subseteq Item /\ IsFiniteSet(Item)
  BY ExecutorAssumption DEF Fibers
<1>2. IsFiniteSet(Fibers(w))
  BY <1>1, FS_Subset
<1> QED
  BY <1>2, FS_CardinalityType

(* A worker that starts a pass owns LiveNow fibers.                        *)
LEMMA LiveNowCounts ==
  ASSUME SchedType, FiberAccounting, NEW w \in Worker
  PROVE  LiveNow(w) = Cardinality(Fibers(w)) /\ LiveNow(w) \in Nat /\ LiveNow(w) <= MaxFibers
<1>1. Cardinality(Fibers(w)) \in Nat /\ live[w] \in Nat /\ finished[w] \in BOOLEAN /\ MaxFibers \in Nat
  BY FiniteFibers, ExecutorAssumption DEF SchedType
<1>2. live[w] = Cardinality(Fibers(w)) + (IF finished[w] THEN 1 ELSE 0) /\ live[w] <= MaxFibers
  BY DEF FiberAccounting
<1> QED
  BY <1>1, <1>2 DEF LiveNow

LEMMA RegisterTypes ==
  ASSUME EvalType, ForceInv, SchedType, WaitType, EnvType, HomeReady, NEW i \in Item, Register(i)
  PROVE  SchedType' /\ WaitType' /\ EnvType' /\ HomeReady'
<1>1. home[i] \in Worker
  BY RunningHome DEF Register
<1>2. Cur(i) \in Value /\ DomainOf[Cur(i)] \in Domain
  BY ForcedValue, Names, ExecutorAssumption DEF Register, Forcing
<1>3. SchedType'
  BY <1>1 DEF Register, SchedType
<1>4. WaitType'
  <2>1. /\ waiters' = [waiters EXCEPT ![Cur(i)] = @ \cup {i}]
        /\ lock' = [lock EXCEPT ![DomainOf[Cur(i)]] = NoOne]
        /\ UNCHANGED <<cv, woken, toFlush, callback>>
    BY DEF Register
  <2> QED
    BY <1>2, <2>1 DEF WaitType
<1>5. EnvType' /\ HomeReady'
  BY DEF Register, EnvType, envVars, HomeReady
<1> QED
  BY <1>3, <1>4, <1>5

LEMMA FinishTypes ==
  ASSUME EvalType, SchedType, WaitType, EnvType, HomeReady, NEW i \in Item, FinishFiber(i)
  PROVE  SchedType' /\ WaitType' /\ EnvType' /\ HomeReady'
<1>1. home[i] \in Worker
  BY RunningHome DEF FinishFiber, ExprEnded
<1>2. SchedType' /\ HomeReady'
  BY <1>1 DEF FinishFiber, SchedType, HomeReady
<1>3. WaitType' /\ EnvType'
  BY DEF FinishFiber, WaitType, EnvType, waitVars
<1> QED
  BY <1>2, <1>3

LEMMA LoopTypes ==
  ASSUME SchedType, WaitType, EnvType, HomeReady, FiberAccounting, PromiseInv, NEW w \in Worker, LoopStep(w)
  PROVE  SchedType' /\ WaitType' /\ EnvType' /\ HomeReady'
<1>0. LiveNow(w) \in Nat /\ ready[w] \in Seq(Item)
  BY LiveNowCounts DEF SchedType
<1>1. WaitType' /\ EnvType'
  <2>1. UNCHANGED <<waitVars, envVars>>
    BY DEF LoopStep, ResumeReady, StartItem, QuitOrSleep, WakeUp, SpuriousWakeUp
  <2> QED
    BY <2>1 DEF waitVars, envVars, WaitType, EnvType
<1>2. CASE ResumeReady(w)
  <2>1. Head(ready[w]) \in Item /\ Tail(ready[w]) \in Seq(Item)
    BY <1>0, <1>2 DEF ResumeReady
  <2>2. SchedType'
    BY <1>0, <1>2, <2>1 DEF ResumeReady, SchedType
  <2>3. \A k \in DOMAIN Tail(ready[w]) : k + 1 \in DOMAIN ready[w] /\ Tail(ready[w])[k] = ready[w][k + 1]
    BY <1>0, <1>2 DEF ResumeReady
  <2>4. HomeReady'
    BY <1>2, <2>3 DEF ResumeReady, HomeReady, SchedType
  <2> QED
    BY <1>1, <2>2, <2>4
<1>3. CASE StartItem(w)
  <2>1. PICK i \in queue : home' = [home EXCEPT ![i] = w] /\ queue' = queue \ {i} /\ (cur' = [cur EXCEPT ![w] = i] \/ cur' = cur)
    BY <1>3 DEF StartItem
  <2>2. /\ live' = [live EXCEPT ![w] = LiveNow(w) + 1] /\ UNCHANGED <<ready, sleeping>>
        /\ ready[w] = <<>>
        /\ finished' = [finished EXCEPT ![w] = FALSE] \/ finished' = [finished EXCEPT ![w] = TRUE]
        /\ wstate' = [wstate EXCEPT ![w] = "run"] \/ wstate' = wstate
    BY <1>3 DEF StartItem
  <2>3. i \in Item /\ home[i] = NoOne
    BY <2>1 DEF PromiseInv, SchedType
  <2>4. queue' \subseteq Item /\ home' \in [Item -> Worker \cup {NoOne}] /\ cur' \in [Worker -> Item \cup {NoOne}]
    BY <2>1, <2>3 DEF SchedType
  <2>5. SchedType'
    <3>1. live' \in [Worker -> Nat]
      BY <1>0, <2>2 DEF SchedType
    <3>2. finished' \in [Worker -> BOOLEAN]
      BY <2>2 DEF SchedType
    <3>3. wstate' \in [Worker -> {"loop", "run", "asleep", "exited"}]
      BY <2>2 DEF SchedType
    <3> QED
      BY <2>2, <2>4, <3>1, <3>2, <3>3 DEF SchedType
  <2>6. ASSUME NEW u \in Worker, NEW k \in DOMAIN ready[u] PROVE home'[ready[u][k]] = u
    <3>1. home[ready[u][k]] = u /\ ready[u][k] \in Item /\ u # NoOne
      BY Names DEF HomeReady, SchedType
    <3> QED
      BY <2>1, <2>3, <3>1 DEF SchedType
  <2> QED
    BY <1>1, <2>2, <2>5, <2>6 DEF HomeReady
<1>4. CASE QuitOrSleep(w) \/ WakeUp(w) \/ SpuriousWakeUp(w)
  <2>1. UNCHANGED <<home, ready, cur>> /\ queue' \subseteq queue
    BY <1>4 DEF QuitOrSleep, WakeUp, SpuriousWakeUp
  <2>2. CASE QuitOrSleep(w)
    <3>1. SchedType'
      BY <1>0, <2>1, <2>2 DEF QuitOrSleep, SchedType
    <3> QED
      BY <1>1, <2>1, <3>1 DEF HomeReady
  <2>3. CASE WakeUp(w) \/ SpuriousWakeUp(w)
    <3>1. SchedType'
      BY <1>0, <2>1, <2>3 DEF WakeUp, SpuriousWakeUp, SchedType
    <3> QED
      BY <1>1, <2>1, <3>1 DEF HomeReady
  <2> QED
    BY <1>4, <2>2, <2>3
<1> QED
  BY <1>2, <1>3, <1>4 DEF LoopStep

LEMMA OtherTypes ==
  ASSUME SchedType, WaitType, EnvType, HomeReady, OtherStep
  PROVE  SchedType' /\ WaitType' /\ EnvType' /\ HomeReady'
<1>1. CASE Spawn
  <2>1. spawned + 1 \in DOMAIN Batches /\ spawned + 1 \in 0..Len(Batches)
    BY <1>1, ExecutorAssumption DEF Spawn, EnvType
  <2>2. Batches[spawned + 1] \subseteq Item
    BY <2>1, ExecutorAssumption
  <2>3. sleeping' \in [Worker -> BOOLEAN]
    BY <1>1 DEF Spawn, Wake, SchedType
  <2>4. queue' \subseteq Item
    BY <1>1, <2>2 DEF Spawn, SchedType
  <2>5. SchedType'
    BY <1>1, <2>3, <2>4 DEF Spawn, SchedType
  <2>6. EnvType'
    BY <1>1, <2>1 DEF Spawn, EnvType
  <2> QED
    BY <1>1, <2>5, <2>6 DEF Spawn, WaitType, HomeReady, waitVars
<1>2. CASE MainForced \/ ClearInterrupt
  BY <1>2 DEF MainForced, ClearInterrupt, SchedType, WaitType, EnvType, HomeReady, schedVars, waitVars
<1>3. CASE Destroy
  BY <1>3 DEF Destroy, SchedType, WaitType, EnvType, HomeReady, schedVars, Flusher
<1>4. CASE Interrupt
  BY <1>4, ExecutorAssumption DEF Interrupt, SchedType, WaitType, EnvType, HomeReady, schedVars, Flusher
<1>5. CASE WakeAll \/ CallbackDone
  BY <1>5 DEF WakeAll, CallbackDone, Wake, SchedType, WaitType, EnvType, HomeReady, waitVars, envVars
<1>6. CASE Join
  BY <1>6 DEF Join, SchedType, WaitType, EnvType, HomeReady, waitVars
<1> QED
  BY <1>1, <1>2, <1>3, <1>4, <1>5, <1>6 DEF OtherStep

--------------------------------------------------------------------------------
(* Every fiber in exactly one place.                                       *)

PlaceAt(i) ==
  /\ Ready(i) \/ Parked(i) \/ Woken(i) => Live(i) /\ phase[i] = "suspended"
  /\ ~(Ready(i) /\ Parked(i)) /\ ~(Ready(i) /\ Woken(i)) /\ ~(Parked(i) /\ Woken(i))
  /\ Running(i) => phase[i] # "gone" /\ ~Ready(i) /\ ~Parked(i) /\ ~Woken(i)
  /\ Live(i) => Running(i) \/ Ready(i) \/ Parked(i) \/ Woken(i)
  /\ home[i] = NoOne => phase[i] = "eval"

Distinct(s) == \A j, k \in DOMAIN s : s[j] = s[k] => j = k
RunAt(w) == wstate[w] = "run" => cur[w] \in Item /\ home[cur[w]] = w
WaitsAt(i) == \A v \in Value : i \in waiters[v] => v = Cur(i)
WokenAt(i) == \A a, b \in DOMAIN woken : i \in woken[a] \cap woken[b] => a = b

LEMMA Rows ==
  /\ PlaceInv <=> \A i \in Item : PlaceAt(i)
  /\ QueueInv <=> /\ \A w \in Worker : Distinct(ready[w]) /\ RunAt(w)
                  /\ \A i \in Item : WaitsAt(i) /\ WokenAt(i)
<1>1. PlaceInv <=> \A i \in Item : PlaceAt(i)
  BY DEF PlaceInv, PlaceAt
<1>2. QueueInv <=> /\ \A w \in Worker : Distinct(ready[w]) /\ RunAt(w)
                   /\ \A i \in Item : WaitsAt(i) /\ WokenAt(i)
  BY DEF QueueInv, Distinct, RunAt, WaitsAt, WokenAt
<1> QED
  BY <1>1, <1>2

LEMMA RowsNext ==
  /\ (\A i \in Item : PlaceAt(i)') => PlaceInv'
  /\ (\A w \in Worker : Distinct(ready'[w]) /\ RunAt(w)') /\ (\A i \in Item : WaitsAt(i)' /\ WokenAt(i)')
       => QueueInv'
<1>1. (\A i \in Item : PlaceAt(i)') => PlaceInv'
  BY DEF PlaceInv, PlaceAt
<1>2. (\A w \in Worker : Distinct(ready'[w]) /\ RunAt(w)') /\ (\A i \in Item : WaitsAt(i)' /\ WokenAt(i)')
       => QueueInv'
  BY DEF QueueInv, Distinct, RunAt, WaitsAt, WokenAt
<1> QED
  BY <1>1, <1>2

(* The fiber has not changed its place.                                    *)
Unplaced(i) ==
  /\ (Ready(i)' <=> Ready(i)) /\ (Parked(i)' <=> Parked(i)) /\ (Woken(i)' <=> Woken(i))
  /\ (Running(i)' <=> Running(i)) /\ home'[i] = home[i]

LEMMA PlaceKept ==
  ASSUME NEW i \in Item, PlaceAt(i), Unplaced(i), phase'[i] = phase[i] PROVE PlaceAt(i)'
BY DEF PlaceAt, Unplaced, Live

LEMMA ReadySame == ASSUME ready' = ready, NEW i PROVE Ready(i)' <=> Ready(i)
BY DEF Ready

LEMMA ParkedSame == ASSUME waiters' = waiters, NEW i PROVE Parked(i)' <=> Parked(i)
BY DEF Parked

LEMMA WokenSame ==
  ASSUME woken' = woken, NEW i PROVE (Woken(i)' <=> Woken(i)) /\ (WokenAt(i) => WokenAt(i)')
BY DEF Woken, WokenAt

LEMMA RunningSame ==
  ASSUME SchedType, UNCHANGED <<home, cur>>, \A w \in Worker : wstate'[w] = "run" <=> wstate[w] = "run", NEW i \in Item
  PROVE  Running(i)' <=> Running(i)
BY Names DEF Running, SchedType

(* Steps that leave the places alone.                                      *)
Still ==
  /\ UNCHANGED <<home, ready, waiters, woken, cur>>
  /\ \A w \in Worker : wstate'[w] = "run" <=> wstate[w] = "run"

LEMMA StillUnplaced ==
  ASSUME SchedType, Still, NEW i \in Item PROVE Unplaced(i)
BY ReadySame, ParkedSame, WokenSame, RunningSame DEF Still, Unplaced

LEMMA StillQueue ==
  ASSUME SchedType, QueueInv, Still, \A i \in Item : Parked(i) => Cur(i)' = Cur(i) PROVE QueueInv'
<1>1. \A w \in Worker : Distinct(ready'[w]) /\ RunAt(w)'
  BY Rows DEF Still, RunAt
<1>2. \A i \in Item : WaitsAt(i)'
  BY Rows DEF WaitsAt, Still, Parked
<1>3. \A i \in Item : WokenAt(i)'
  BY Rows, WokenSame DEF Still
<1> QED
  BY <1>1, <1>2, <1>3, RowsNext

LEMMA QuietPlaces ==
  ASSUME EvalType, StackInv, ForceInv, SchedType, QueueInv, PlaceInv, NEW e \in Evaluator, Acts(e), Quiet(e)
  PROVE  QueueInv' /\ PlaceInv'
<1>1. Still
  BY DEF Quiet, Still
<1>2. ASSUME NEW i \in Item PROVE PlaceAt(i)'
  <2>1. PlaceAt(i) /\ Unplaced(i) /\ i \in Evaluator
    BY <1>1, Rows, StillUnplaced, Names
  <2>2. CASE i # e
    <3>1. phase'[i] = phase[i]
      BY <2>1, <2>2, EvalAlone
    <3> QED
      BY <2>1, <3>1, PlaceKept
  <2>3. CASE i = e
    <3>1. Running(i) /\ phase'[i] # "gone" /\ home[i] # NoOne
      BY <2>3, Names DEF Quiet, Running
    <3> QED
      BY <2>1, <3>1 DEF PlaceAt, Unplaced, Live
  <2> QED
    BY <2>2, <2>3
<1>3. ASSUME NEW i \in Item, Parked(i) PROVE Cur(i)' = Cur(i)
  <2>1. ~Running(i)
    BY <1>3, Rows DEF PlaceAt
  <2>2. i # e /\ i \in Evaluator
    BY <2>1, Names DEF Quiet
  <2> QED
    BY <2>2, OthersCur
<1> QED
  BY <1>1, <1>2, <1>3, StillQueue, RowsNext

LEMMA StillPlaces ==
  ASSUME SchedType, QueueInv, PlaceInv, Still, UNCHANGED <<phase, pc, top>>
  PROVE  QueueInv' /\ PlaceInv'
<1>1. \A i \in Item : Cur(i)' = Cur(i)
  BY DEF Cur
<1>2. \A i \in Item : PlaceAt(i)'
  BY Rows, StillUnplaced, PlaceKept
<1> QED
  BY <1>1, <1>2, StillQueue, RowsNext

(* EnqueueFiber: from a hand to the ready queue of its worker.             *)
LEMMA AppendReady ==
  ASSUME SchedType, HomeReady, NEW i \in Item, home[i] \in Worker, ready' = [ready EXCEPT ![home[i]] = Append(@, i)]
  PROVE  /\ \A j \in Item : Ready(j)' <=> Ready(j) \/ j = i
         /\ ~Ready(i) /\ (\A w \in Worker : Distinct(ready[w])) => \A w \in Worker : Distinct(ready'[w])
<1> DEFINE h == home[i] s == ready[h]
<1>1. s \in Seq(Item) /\ ready'[h] = Append(s, i) /\ \A w \in Worker \ {h} : ready'[w] = ready[w]
  BY DEF SchedType
<1>2. /\ DOMAIN Append(s, i) = 1..(Len(s) + 1) /\ DOMAIN s = 1..Len(s) /\ Len(s) \in Nat
      /\ Append(s, i)[Len(s) + 1] = i /\ \A k \in 1..Len(s) : Append(s, i)[k] = s[k]
  BY <1>1
<1> HIDE DEF h, s
<1>3. h \in Worker /\ s = ready[h]
  BY DEF h, s
<1>4. ASSUME NEW j \in Item PROVE Ready(j)' <=> Ready(j) \/ j = i
  <2>1. \A w \in Worker \ {h} : (\E k \in DOMAIN ready'[w] : ready'[w][k] = j) <=> (\E k \in DOMAIN ready[w] : ready[w][k] = j)
    BY <1>1
  <2>2. (\E k \in DOMAIN ready'[h] : ready'[h][k] = j) <=> (\E k \in DOMAIN ready[h] : ready[h][k] = j) \/ j = i
    <3>1. DOMAIN ready'[h] = 1..(Len(s) + 1) /\ DOMAIN ready[h] = 1..Len(s)
      BY <1>1, <1>2, <1>3
    <3>2. /\ \A k \in 1..Len(s) : ready'[h][k] = ready[h][k]
          /\ ready'[h][Len(s) + 1] = i
      BY <1>1, <1>2, <1>3
    <3>3. \A k : k \in 1..(Len(s) + 1) <=> k \in 1..Len(s) \/ k = Len(s) + 1
      BY <1>2
    <3> QED
      BY <3>1, <3>2, <3>3
  <2> QED
    BY <1>3, <2>1, <2>2 DEF Ready
<1>5. ASSUME ~Ready(i), \A w \in Worker : Distinct(ready[w]), NEW w \in Worker PROVE Distinct(ready'[w])
  <2>1. CASE w # h
    BY <1>1, <1>5, <2>1
  <2>2. CASE w = h
    <3>1. \A k \in 1..Len(s) : s[k] # i
      BY <1>2, <1>3, <1>5 DEF Ready
    <3>2. \A j, k \in 1..Len(s) : s[j] = s[k] => j = k
      BY <1>2, <1>3, <1>5 DEF Distinct
    <3> QED
      BY <1>1, <1>2, <2>2, <3>1, <3>2 DEF Distinct
  <2> QED
    BY <2>1, <2>2
<1> QED
  BY <1>4, <1>5

LEMMA EnqueuePlaces ==
  ASSUME SchedType, WaitType, HomeReady, QueueInv, PlaceInv, NEW a \in Actor, NEW i \in woken[a], EnqueueFiber(a, i)
  PROVE  QueueInv' /\ PlaceInv'
<1>1. i \in Item /\ home[i] \in Worker /\ Woken(i) /\ PlaceAt(i)
  BY WokenHome, Rows
<1>2. /\ UNCHANGED <<phase, pc, top, home, waiters, cur, wstate>>
      /\ ready' = [ready EXCEPT ![home[i]] = Append(@, i)]
      /\ woken' = [woken EXCEPT ![a] = @ \ {i}]
  BY DEF EnqueueFiber, evalVars
<1>3. /\ \A j \in Item : Ready(j)' <=> Ready(j) \/ j = i
      /\ \A w \in Worker : Distinct(ready'[w])
  BY <1>1, <1>2, AppendReady, Rows DEF PlaceAt
<1>4. ASSUME NEW j \in Item PROVE (Woken(j)' <=> Woken(j) /\ j # i) /\ WokenAt(j)'
  <2>1. DOMAIN woken' = DOMAIN woken /\ a \in DOMAIN woken
        /\ \A b \in DOMAIN woken : woken'[b] = IF b = a THEN woken[a] \ {i} ELSE woken[b]
    BY <1>2 DEF WaitType, Actor
  <2>2. WokenAt(j)
    BY Rows
  <2> QED
    BY <2>1, <2>2 DEF Woken, WokenAt
<1>5. \A j \in Item : (Parked(j)' <=> Parked(j)) /\ (Running(j)' <=> Running(j)) /\ Cur(j)' = Cur(j)
  BY <1>2, ParkedSame, RunningSame DEF Cur
<1>6. ASSUME NEW j \in Item PROVE PlaceAt(j)'
  <2>1. PlaceAt(j)
    BY Rows
  <2>2. CASE j # i
    <3>1. Unplaced(j)
      BY <1>2, <1>3, <1>4, <1>5, <2>2 DEF Unplaced
    <3> QED
      BY <1>2, <2>1, <3>1, PlaceKept
  <2>3. CASE j = i
    BY <1>1, <1>2, <1>3, <1>4, <1>5, <2>3 DEF PlaceAt, Live
  <2> QED
    BY <2>2, <2>3
<1>7. \A w \in Worker : RunAt(w)'
  BY <1>2, Rows DEF RunAt
<1>8. \A j \in Item : WaitsAt(j)'
  BY <1>2, <1>5, Rows DEF WaitsAt
<1> QED
  BY <1>3, <1>4, <1>6, <1>7, <1>8, RowsNext

(* From wait lists to a hand.                                              *)
LEMMA TakesPlaces ==
  ASSUME SchedType, WaitType, QueueInv, PlaceInv, NEW a \in Actor, NEW vs \in SUBSET Value, Takes(a, vs),
         \A i \in Item : phase'[i] = phase[i] \/ (Running(i) /\ phase'[i] # "gone")
  PROVE  QueueInv' /\ PlaceInv'
<1> DEFINE Taken(j) == \E v \in vs : j \in waiters[v]
<1>1. /\ UNCHANGED <<pc, top, home, ready, wstate, cur>>
      /\ woken' = [woken EXCEPT ![a] = @ \cup UNION {waiters[v] : v \in vs}]
      /\ waiters' = [v \in Value |-> IF v \in vs THEN {} ELSE waiters[v]]
  BY DEF Takes, TakeWaiters
<1>2. /\ DOMAIN woken' = DOMAIN woken /\ a \in DOMAIN woken
      /\ \A b \in DOMAIN woken \ {a} : woken'[b] = woken[b]
      /\ \A j : j \in woken'[a] <=> j \in woken[a] \/ Taken(j)
  BY <1>1 DEF WaitType, Actor
<1>3. ASSUME NEW j PROVE Taken(j) => Parked(j)
  BY DEF Parked
<1>4. ASSUME NEW j PROVE Woken(j)' <=> Woken(j) \/ Taken(j)
  <2> HIDE DEF Taken
  <2> QED
    BY <1>2 DEF Woken
<1>5. ASSUME NEW j \in Item PROVE Parked(j)' <=> Parked(j) /\ ~Taken(j)
  <2>1. WaitsAt(j)
    BY Rows
  <2> QED
    BY <1>1, <2>1 DEF Parked, WaitsAt
<1>6. \A j \in Item : (Ready(j)' <=> Ready(j)) /\ (Running(j)' <=> Running(j)) /\ Cur(j)' = Cur(j)
  BY <1>1, ReadySame, RunningSame DEF Cur
<1>7. ASSUME NEW j \in Item PROVE WokenAt(j)'
  <2>1. WokenAt(j) /\ (Taken(j) => ~Woken(j))
    BY <1>3, Rows DEF PlaceAt
  <2> HIDE DEF Taken
  <2> QED
    BY <1>2, <2>1 DEF WokenAt, Woken
<1>8. \A j \in Item : WaitsAt(j)'
  BY <1>1, <1>6, Rows DEF WaitsAt
<1>9. \A w \in Worker : Distinct(ready'[w]) /\ RunAt(w)'
  BY <1>1, Rows DEF RunAt
<1>10. ASSUME NEW j \in Item PROVE PlaceAt(j)'
  <2>1. PlaceAt(j) /\ (Taken(j) => Parked(j))
    BY <1>3, Rows
  <2>2. Running(j) => home[j] # NoOne
    BY Names DEF Running
  <2> HIDE DEF Taken
  <2> QED
    BY <1>1, <1>4, <1>5, <1>6, <2>1, <2>2 DEF PlaceAt, Live
<1> QED
  BY <1>7, <1>8, <1>9, <1>10, RowsNext

(* A worker switches to its scheduler: nobody runs there.                  *)
LEMMA RunningStops ==
  ASSUME SchedType, NEW i \in Item, Running(i), home' = home,
         wstate' = [wstate EXCEPT ![home[i]] = "loop"], cur' = [cur EXCEPT ![home[i]] = NoOne]
  PROVE  /\ \A j \in Item : Running(j)' <=> Running(j) /\ j # i
         /\ (\A w \in Worker : RunAt(w)) => \A w \in Worker : RunAt(w)'
<1>1. home[i] \in Worker /\ wstate[home[i]] = "run" /\ cur[home[i]] = i
  BY RunningHome
<1>2. ASSUME NEW j \in Item PROVE Running(j)' <=> Running(j) /\ j # i
  BY <1>1, Names DEF Running, SchedType
<1>3. ASSUME \A w \in Worker : RunAt(w), NEW w \in Worker PROVE RunAt(w)'
  <2>1. wstate'[w] = "run" => w # home[i] /\ wstate[w] = "run" /\ cur'[w] = cur[w]
    BY <1>1 DEF SchedType
  <2> QED
    BY <1>3, <2>1 DEF RunAt
<1> QED
  BY <1>2, <1>3

LEMMA RegisterPlaces ==
  ASSUME EvalType, ForceInv, SchedType, WaitType, QueueInv, PlaceInv, NEW i \in Item, Register(i)
  PROVE  QueueInv' /\ PlaceInv'
<1>1. /\ Running(i) /\ UNCHANGED <<pc, top, home, ready, woken>>
      /\ waiters' = [waiters EXCEPT ![Cur(i)] = @ \cup {i}]
      /\ wstate' = [wstate EXCEPT ![home[i]] = "loop"] /\ cur' = [cur EXCEPT ![home[i]] = NoOne]
      /\ phase' = [phase EXCEPT ![i] = "suspended"]
  BY DEF Register
<1>2. Cur(i) \in Value /\ i \in Evaluator /\ \A j \in Item : j \in Evaluator
  BY ForcedValue, Names DEF Register, Forcing
<1>3. /\ \A j \in Item : Running(j)' <=> Running(j) /\ j # i
      /\ \A w \in Worker : RunAt(w)'
  BY <1>1, RunningStops, Rows
<1>4. \A v \in Value : \A j \in Item : j \in waiters'[v] <=> j \in waiters[v] \/ (v = Cur(i) /\ j = i)
  BY <1>1, <1>2 DEF WaitType
<1>5. ASSUME NEW j \in Item
      PROVE  /\ Parked(j)' <=> Parked(j) \/ j = i
             /\ (Ready(j)' <=> Ready(j)) /\ (Woken(j)' <=> Woken(j)) /\ WokenAt(j)' /\ Cur(j)' = Cur(j)
  <2>1. Parked(j)' <=> Parked(j) \/ j = i
    BY <1>2, <1>4 DEF Parked
  <2>2. Cur(j)' = Cur(j)
    BY <1>1 DEF Cur
  <2> QED
    BY <1>1, <2>1, <2>2, ReadySame, WokenSame, Rows
<1>6. ASSUME NEW j \in Item PROVE WaitsAt(j)'
  <2>1. WaitsAt(j)
    BY Rows
  <2> QED
    BY <1>4, <1>5, <2>1 DEF WaitsAt
<1>7. \A w \in Worker : Distinct(ready'[w])
  BY <1>1, Rows
<1>8. ASSUME NEW j \in Item PROVE PlaceAt(j)'
  <2>1. PlaceAt(j)
    BY Rows
  <2>2. CASE j # i
    <3>1. Unplaced(j) /\ phase'[j] = phase[j]
      BY <1>1, <1>2, <1>3, <1>5, <2>2 DEF Unplaced, EvalType
    <3> QED
      BY <2>1, <3>1, PlaceKept
  <2>3. CASE j = i
    <3>1. phase'[i] = "suspended" /\ home'[i] # NoOne
      BY <1>1, <1>2, Names DEF EvalType, Running
    <3> QED
      BY <1>1, <1>3, <1>5, <2>1, <2>3, <3>1 DEF PlaceAt, Live
  <2> QED
    BY <2>2, <2>3
<1> QED
  BY <1>3, <1>5, <1>6, <1>7, <1>8, RowsNext

LEMMA FinishPlaces ==
  ASSUME EvalType, SchedType, WaitType, QueueInv, PlaceInv, NEW i \in Item, FinishFiber(i)
  PROVE  QueueInv' /\ PlaceInv'
<1>1. /\ Running(i) /\ UNCHANGED <<pc, top, home, ready, woken, waiters>>
      /\ wstate' = [wstate EXCEPT ![home[i]] = "loop"] /\ cur' = [cur EXCEPT ![home[i]] = NoOne]
      /\ phase' = [phase EXCEPT ![i] = "gone"]
  BY DEF FinishFiber, ExprEnded, waitVars
<1>2. \A j \in Item : j \in Evaluator
  BY Names
<1>3. /\ \A j \in Item : Running(j)' <=> Running(j) /\ j # i
      /\ \A w \in Worker : RunAt(w)'
  BY <1>1, RunningStops, Rows
<1>4. ASSUME NEW j \in Item
      PROVE  /\ (Parked(j)' <=> Parked(j)) /\ WaitsAt(j)'
             /\ (Ready(j)' <=> Ready(j)) /\ (Woken(j)' <=> Woken(j)) /\ WokenAt(j)'
  <2>1. Cur(j)' = Cur(j)
    BY <1>1 DEF Cur
  <2>2. WaitsAt(j)'
    BY <1>1, <2>1, Rows DEF WaitsAt
  <2> QED
    BY <1>1, <2>2, ReadySame, ParkedSame, WokenSame, Rows
<1>5. \A w \in Worker : Distinct(ready'[w])
  BY <1>1, Rows
<1>6. ASSUME NEW j \in Item PROVE PlaceAt(j)'
  <2>1. PlaceAt(j)
    BY Rows
  <2>2. CASE j # i
    <3>1. Unplaced(j) /\ phase'[j] = phase[j]
      BY <1>1, <1>2, <1>3, <1>4, <2>2 DEF Unplaced, EvalType
    <3> QED
      BY <2>1, <3>1, PlaceKept
  <2>3. CASE j = i
    <3>1. phase'[i] = "gone" /\ home'[i] # NoOne
      BY <1>1, <1>2, Names DEF EvalType, Running
    <3> QED
      BY <1>1, <1>3, <1>4, <2>1, <2>3, <3>1 DEF PlaceAt, Live
  <2> QED
    BY <2>2, <2>3
<1> QED
  BY <1>3, <1>4, <1>5, <1>6, RowsNext

LEMMA ResumePlaces ==
  ASSUME SchedType, HomeReady, QueueInv, PlaceInv, NEW w \in Worker, ResumeReady(w)
  PROVE  QueueInv' /\ PlaceInv'
<1> DEFINE s == ready[w] i == Head(s)
<1>1. /\ s \in Seq(Item) /\ s # <<>> /\ wstate[w] = "loop"
      /\ UNCHANGED <<phase, pc, top, home, woken, waiters>>
      /\ ready' = [ready EXCEPT ![w] = Tail(s)] /\ cur' = [cur EXCEPT ![w] = i]
      /\ wstate' = [wstate EXCEPT ![w] = "run"]
  BY DEF ResumeReady, SchedType, evalVars, waitVars
<1>2. /\ i \in Item /\ i = s[1] /\ DOMAIN s = 1..Len(s) /\ Len(s) \in Nat /\ 1 \in DOMAIN s
      /\ Tail(s) \in Seq(Item) /\ DOMAIN Tail(s) = 1..(Len(s) - 1)
      /\ \A k \in 1..(Len(s) - 1) : Tail(s)[k] = s[k + 1]
  BY <1>1
<1> HIDE DEF i
<1>3. ready'[w] = Tail(s) /\ \A u \in Worker \ {w} : ready'[u] = ready[u]
  BY <1>1 DEF SchedType
<1>4. home[i] = w /\ Distinct(s)
  BY <1>2, Rows DEF HomeReady
<1>5. ASSUME NEW u \in Worker PROVE Distinct(ready'[u])
  <2>1. CASE u = w
    <3> HIDE DEF s
    <3>1. ASSUME NEW j \in 1..(Len(s) - 1), NEW k \in 1..(Len(s) - 1), s[j + 1] = s[k + 1] PROVE j = k
      <4>1. j + 1 \in DOMAIN s /\ k + 1 \in DOMAIN s
        BY <1>2
      <4> QED
        BY <1>4, <3>1, <4>1 DEF Distinct
    <3>2. Distinct(Tail(s))
      <4> SUFFICES ASSUME NEW j \in DOMAIN Tail(s), NEW k \in DOMAIN Tail(s), Tail(s)[j] = Tail(s)[k]
                   PROVE  j = k
        BY DEF Distinct
      <4>1. j \in 1..(Len(s) - 1) /\ k \in 1..(Len(s) - 1)
        BY <1>2
      <4>2. s[j + 1] = s[k + 1]
        BY <1>2, <4>1
      <4> QED
        BY <3>1, <4>1, <4>2
    <3> QED
      BY <1>3, <2>1, <3>2
  <2>2. CASE u # w
    BY <1>3, <2>2, Rows
  <2> QED
    BY <2>1, <2>2
<1>6. ASSUME NEW j \in Item PROVE Ready(j)' <=> Ready(j) /\ j # i
  <2>1. (\E k \in DOMAIN ready'[w] : ready'[w][k] = j) <=> (\E k \in DOMAIN ready[w] : ready[w][k] = j) /\ j # i
    <3>1. ASSUME NEW k \in DOMAIN Tail(s) PROVE k + 1 \in DOMAIN s /\ Tail(s)[k] = s[k + 1] /\ s[k + 1] # i
      BY <1>2, <1>4 DEF Distinct
    <3>2. ASSUME NEW k \in DOMAIN s, s[k] # i PROVE k - 1 \in DOMAIN Tail(s) /\ Tail(s)[k - 1] = s[k]
      BY <1>2, <3>2
    <3> HIDE DEF s
    <3>3. ready[w] = s
      BY DEF s
    <3>4. CASE j = i
      BY <1>3, <3>1, <3>4
    <3>5. CASE j # i
      <4>1. ASSUME NEW k \in DOMAIN Tail(s), Tail(s)[k] = j PROVE \E m \in DOMAIN s : s[m] = j
        <5>1. k + 1 \in DOMAIN s /\ s[k + 1] = j
          BY <3>1, <4>1
        <5> QED
          BY <5>1
      <4>2. ASSUME NEW k \in DOMAIN s, s[k] = j PROVE \E m \in DOMAIN Tail(s) : Tail(s)[m] = j
        <5>1. k - 1 \in DOMAIN Tail(s) /\ Tail(s)[k - 1] = j
          BY <3>2, <3>5, <4>2
        <5> QED
          BY <5>1
      <4> QED
        BY <1>3, <3>3, <3>5, <4>1, <4>2
    <3> QED
      BY <3>4, <3>5
  <2>2. \A u \in Worker \ {w} : \A k \in DOMAIN ready[u] : ready[u][k] # i
    BY <1>4 DEF HomeReady
  <2> QED
    BY <1>3, <2>1, <2>2 DEF Ready
<1>7. Ready(i)
  BY <1>2 DEF Ready
<1>8. ASSUME NEW j \in Item PROVE Running(j)' <=> Running(j) \/ j = i
  <2>1. home'[j] = home[j] /\ j # Main /\ home[j] \in Worker \cup {NoOne} /\ w # NoOne
    BY <1>1, Names DEF SchedType
  <2>2. wstate'[w] = "run" /\ cur'[w] = i /\ \A u \in Worker \ {w} : wstate'[u] = wstate[u] /\ cur'[u] = cur[u]
    BY <1>1 DEF SchedType
  <2> QED
    BY <1>1, <1>4, <2>1, <2>2 DEF Running
<1>9. ASSUME NEW j \in Item
      PROVE  /\ (Parked(j)' <=> Parked(j)) /\ WaitsAt(j)' /\ (Woken(j)' <=> Woken(j)) /\ WokenAt(j)'
  <2>1. Cur(j)' = Cur(j)
    BY <1>1 DEF Cur
  <2>2. WaitsAt(j)'
    BY <1>1, <2>1, Rows DEF WaitsAt
  <2> QED
    BY <1>1, <2>2, ParkedSame, WokenSame, Rows
<1>10. ASSUME NEW u \in Worker PROVE RunAt(u)'
  <2>1. CASE u = w
    BY <1>1, <1>2, <1>4, <2>1 DEF RunAt, SchedType
  <2>2. CASE u # w
    <3>1. RunAt(u) /\ wstate'[u] = wstate[u] /\ cur'[u] = cur[u]
      BY <1>1, <2>2, Rows DEF SchedType
    <3> QED
      BY <1>1, <3>1 DEF RunAt
  <2> QED
    BY <2>1, <2>2
<1>11. ASSUME NEW j \in Item PROVE PlaceAt(j)'
  <2>1. PlaceAt(j)
    BY Rows
  <2>2. CASE j # i
    <3>1. Unplaced(j)
      BY <1>1, <1>6, <1>8, <1>9, <2>2 DEF Unplaced
    <3> QED
      BY <1>1, <2>1, <3>1, PlaceKept
  <2>3. CASE j = i
    BY <1>1, <1>6, <1>7, <1>8, <1>9, <2>1, <2>3 DEF PlaceAt, Live
  <2> QED
    BY <2>2, <2>3
<1> QED
  BY <1>5, <1>9, <1>10, <1>11, RowsNext

LEMMA StartPlaces ==
  ASSUME EvalType, SchedType, QueueInv, PlaceInv, PromiseInv, NEW w \in Worker, StartItem(w)
  PROVE  QueueInv' /\ PlaceInv'
<1>1. PICK i \in queue :
        /\ home' = [home EXCEPT ![i] = w]
        /\ \/ /\ cur' = [cur EXCEPT ![w] = i] /\ wstate' = [wstate EXCEPT ![w] = "run"]
              /\ phase' = phase
           \/ phase' = [phase EXCEPT ![i] = "gone"] /\ UNCHANGED <<cur, wstate>>
  BY DEF StartItem
<1>2. wstate[w] = "loop" /\ UNCHANGED <<pc, top, ready, woken, waiters>>
  BY DEF StartItem, waitVars
<1>3. i \in Item /\ i \in Evaluator /\ home[i] = NoOne /\ ~Live(i) /\ phase[i] = "eval" /\ w # NoOne
  BY Names DEF PromiseInv, PlaceInv, SchedType, Live
<1>4. ~Ready(i) /\ ~Parked(i) /\ ~Woken(i) /\ ~Running(i)
  BY <1>3, Rows, Names DEF PlaceAt, Running
<1>5. ASSUME NEW j \in Item
      PROVE  /\ (Ready(j)' <=> Ready(j)) /\ (Parked(j)' <=> Parked(j)) /\ (Woken(j)' <=> Woken(j))
             /\ WaitsAt(j)' /\ WokenAt(j)'
  <2>1. Cur(j)' = Cur(j)
    BY <1>2 DEF Cur
  <2>2. WaitsAt(j)'
    BY <1>2, <2>1, Rows DEF WaitsAt
  <2> QED
    BY <1>2, <2>2, ReadySame, ParkedSame, WokenSame, Rows
<1>6. home'[i] = w /\ \A j \in Item \ {i} : home'[j] = home[j]
  BY <1>1, <1>3 DEF SchedType
<1>7. ASSUME NEW j \in Item, j # i PROVE (Running(j)' <=> Running(j)) /\ phase'[j] = phase[j]
  <2>1. home'[j] = home[j] /\ j # Main /\ home[j] \in Worker \cup {NoOne} /\ j \in Evaluator
    BY <1>6, <1>7, Names DEF SchedType
  <2>2. \A u \in Worker \ {w} : wstate'[u] = wstate[u] /\ cur'[u] = cur[u]
    BY <1>1 DEF SchedType
  <2>3. ~(wstate'[w] = "run" /\ cur'[w] = j)
    BY <1>1, <1>2, <1>7 DEF SchedType
  <2>4. phase'[j] = phase[j]
    BY <1>1, <1>7, <2>1 DEF EvalType
  <2> QED
    BY <1>2, <2>1, <2>2, <2>3, <2>4 DEF Running
<1>8. \/ Running(i)' /\ phase'[i] = "eval"
      \/ ~Running(i)' /\ phase'[i] = "gone"
  <2>1. CASE cur' = [cur EXCEPT ![w] = i] /\ wstate' = [wstate EXCEPT ![w] = "run"] /\ phase' = phase
    <3>1. wstate'[w] = "run" /\ cur'[w] = i
      BY <2>1 DEF SchedType
    <3> QED
      BY <1>3, <1>6, <2>1, <3>1, Names DEF Running
  <2>2. CASE phase' = [phase EXCEPT ![i] = "gone"] /\ UNCHANGED <<cur, wstate>>
    <3>1. phase'[i] = "gone"
      BY <1>3, <2>2 DEF EvalType
    <3> QED
      BY <1>2, <1>3, <1>6, <2>2, <3>1, Names DEF Running
  <2> QED
    BY <1>1, <2>1, <2>2
<1>9. ASSUME NEW u \in Worker PROVE Distinct(ready'[u]) /\ RunAt(u)'
  <2>1. Distinct(ready[u]) /\ RunAt(u) /\ ready' = ready
    BY <1>2, Rows
  <2>2. CASE u = w
    <3>1. wstate'[w] = "run" => cur'[w] = i
      BY <1>1, <1>2 DEF SchedType
    <3> QED
      BY <1>3, <1>6, <2>1, <2>2, <3>1 DEF RunAt
  <2>3. CASE u # w
    <3>1. wstate'[u] = wstate[u] /\ cur'[u] = cur[u]
      BY <1>1, <2>3 DEF SchedType
    <3>2. wstate[u] = "run" => cur[u] \in Item /\ home[cur[u]] = u /\ u # NoOne
      BY <2>1, Names DEF RunAt
    <3> QED
      BY <1>3, <1>6, <2>1, <3>1, <3>2 DEF RunAt
  <2> QED
    BY <2>2, <2>3
<1>10. ASSUME NEW j \in Item PROVE PlaceAt(j)'
  <2>1. PlaceAt(j)
    BY Rows
  <2>2. CASE j # i
    <3>1. Unplaced(j) /\ phase'[j] = phase[j]
      BY <1>5, <1>6, <1>7, <2>2 DEF Unplaced
    <3> QED
      BY <2>1, <3>1, PlaceKept
  <2>3. CASE j = i
    BY <1>3, <1>4, <1>5, <1>6, <1>8, <2>3 DEF PlaceAt, Live
  <2> QED
    BY <2>2, <2>3
<1> QED
  BY <1>5, <1>9, <1>10, RowsNext

LEMMA LoopPlaces ==
  ASSUME EvalType, SchedType, HomeReady, QueueInv, PlaceInv, PromiseInv, NEW w \in Worker, LoopStep(w)
  PROVE  QueueInv' /\ PlaceInv'
<1>1. CASE QuitOrSleep(w) \/ WakeUp(w) \/ SpuriousWakeUp(w)
  <2>1. UNCHANGED <<phase, pc, top, home, ready, cur, waiters, woken>>
    BY <1>1 DEF QuitOrSleep, WakeUp, SpuriousWakeUp, evalVars, waitVars
  <2>2. \A u \in Worker : wstate'[u] = "run" <=> wstate[u] = "run"
    BY <1>1 DEF QuitOrSleep, WakeUp, SpuriousWakeUp, SchedType
  <2> QED
    BY <2>1, <2>2, StillPlaces DEF Still
<1> QED
  BY <1>1, ResumePlaces, StartPlaces DEF LoopStep

LEMMA OtherStill ==
  ASSUME OtherStep
  PROVE  UNCHANGED <<cell, pc, top, exc, lost, phase, home, ready, live, finished, wstate, cur, waiters, woken, lock, cv>>
<1>1. CASE Spawn \/ Join
  BY <1>1 DEF Spawn, Join, waitVars
<1>2. CASE MainForced \/ Destroy \/ WakeAll \/ Interrupt \/ CallbackDone \/ ClearInterrupt
  BY <1>2 DEF MainForced, Destroy, WakeAll, Interrupt, CallbackDone, ClearInterrupt, evalVars,
              schedVars, waitVars
<1> QED
  BY <1>1, <1>2 DEF OtherStep

LEMMA OtherPlaces ==
  ASSUME SchedType, QueueInv, PlaceInv, OtherStep PROVE QueueInv' /\ PlaceInv'
<1>1. Still /\ UNCHANGED <<phase, pc, top>>
  BY OtherStill DEF Still
<1> QED
  BY <1>1, StillPlaces

LEMMA FlushPlaces ==
  ASSUME SchedType, WaitType, HomeReady, QueueInv, PlaceInv, NEW f \in Flusher, Flushes(f)
  PROVE  QueueInv' /\ PlaceInv'
<1>1. f \in Actor
  BY Names DEF Flusher, Actor
<1>2. CASE FlushDomain(f)
  <2>1. PICK d \in toFlush[f] : Takes(f, {v \in Value : DomainOf[v] = d})
    BY <1>2, FlushTakes
  <2>2. \A i \in Item : phase'[i] = phase[i]
    BY <1>2, FlushTakes
  <2> QED
    BY <1>1, <2>1, <2>2, TakesPlaces
<1>3. CASE \E i \in woken[f] : EnqueueFiber(f, i)
  BY <1>1, <1>3, EnqueuePlaces
<1> QED
  BY <1>2, <1>3 DEF Flushes, FlushStep

LEMMA ActsPlaces ==
  ASSUME EvalType, StackInv, ForceInv, SchedType, WaitType, HomeReady, QueueInv, PlaceInv,
         NEW e \in Evaluator, Acts(e)
  PROVE  QueueInv' /\ PlaceInv'
<1>1. e \in Actor
  BY DEF Actor
<1>2. CASE EnqueueWoken(e)
  BY <1>1, <1>2, EnqueuePlaces DEF EnqueueWoken
<1>3. CASE NotifyWaiters(e)
  <2>1. Subject(e) \in Value
    BY <1>3, SubjectValue DEF NotifyWaiters, ForceInv
  <2>2. \A i \in Item : phase'[i] = phase[i] \/ (Running(i) /\ phase'[i] # "gone")
    BY <1>3, Names DEF NotifyWaiters, EvalType
  <2> QED
    BY <1>1, <1>3, <2>1, <2>2, NotifyTakes, TakesPlaces
<1> QED
  BY <1>2, <1>3, ActsKinds, QuietPlaces, RegisterPlaces, FinishPlaces

LEMMA ActsTypes ==
  ASSUME EvalType, StackInv, ForceInv, SchedType, WaitType, EnvType, HomeReady, PlaceInv,
         NEW e \in Evaluator, Acts(e)
  PROVE  SchedType' /\ WaitType' /\ EnvType' /\ HomeReady'
<1>1. e \in Actor
  BY DEF Actor
<1>2. CASE EnqueueWoken(e)
  BY <1>1, <1>2, EnqueueTypes DEF EnqueueWoken
<1>3. CASE NotifyWaiters(e)
  <2>1. Subject(e) \in Value
    BY <1>3, SubjectValue DEF NotifyWaiters, ForceInv
  <2>2. cv' \in BOOLEAN /\ toFlush' \in [Flusher -> SUBSET Domain]
    BY <1>3 DEF NotifyWaiters, WaitType
  <2> QED
    BY <1>1, <1>3, <2>1, <2>2, NotifyTakes, TakesTypes
<1>4. CASE Quiet(e)
  BY <1>4, QuietTypes, QuietWaitType
<1> QED
  BY <1>2, <1>3, <1>4, ActsKinds, RegisterTypes, FinishTypes

LEMMA FlushTypes ==
  ASSUME SchedType, WaitType, EnvType, HomeReady, PlaceInv, NEW f \in Flusher, Flushes(f)
  PROVE  SchedType' /\ WaitType' /\ EnvType' /\ HomeReady'
<1>1. f \in Actor
  BY Names DEF Flusher, Actor
<1>2. CASE FlushDomain(f)
  <2>1. PICK d \in toFlush[f] : /\ Takes(f, {v \in Value : DomainOf[v] = d})
                                /\ cv' = (cv \/ MainWaitsIn(d))
                                /\ toFlush' = [toFlush EXCEPT ![f] = @ \ {d}]
    BY <1>2, FlushTakes
  <2>2. cv' \in BOOLEAN /\ toFlush' \in [Flusher -> SUBSET Domain]
    BY <2>1 DEF WaitType
  <2> QED
    BY <1>1, <2>1, <2>2, TakesTypes
<1>3. CASE \E i \in woken[f] : EnqueueFiber(f, i)
  BY <1>1, <1>3, EnqueueTypes
<1> QED
  BY <1>2, <1>3 DEF Flushes, FlushStep

--------------------------------------------------------------------------------
(* The fiber slots of a worker.                                            *)

SlotAt(w) ==
  /\ live[w] = Cardinality(Fibers(w)) + (IF finished[w] THEN 1 ELSE 0) /\ live[w] <= MaxFibers
  /\ finished[w] => wstate[w] = "loop"
  /\ wstate[w] = "exited" => Fibers(w) = {} /\ ready[w] = <<>> /\ live[w] = 0

SlotsInv == FiberAccounting /\ SlotInv /\ ExitClean

LEMMA SlotRows == SlotsInv <=> \A w \in Worker : SlotAt(w)
BY DEF SlotsInv, FiberAccounting, SlotInv, ExitClean, SlotAt

LEMMA SlotRowsNext == (\A w \in Worker : SlotAt(w)') => SlotsInv'
BY DEF SlotsInv, FiberAccounting, SlotInv, ExitClean, SlotAt

LEMMA SlotKept ==
  ASSUME NEW w \in Worker, SlotAt(w), Fibers(w)' = Fibers(w), live'[w] = live[w], finished'[w] = finished[w],
         wstate'[w] = wstate[w], ready'[w] = ready[w]
  PROVE  SlotAt(w)'
BY DEF SlotAt

LEMMA FibersSame ==
  ASSUME home' = home, \A i \in Item : phase'[i] = "gone" <=> phase[i] = "gone", NEW w
  PROVE  Fibers(w)' = Fibers(w)
BY DEF Fibers

LEMMA QuietSlots ==
  ASSUME EvalType, StackInv, ForceInv, SlotsInv, NEW e \in Evaluator, Acts(e), Quiet(e) \/ NotifyWaiters(e)
  PROVE  SlotsInv'
<1>1. UNCHANGED <<home, live, finished, wstate, ready>> /\ phase[e] # "gone" /\ phase'[e] # "gone"
  BY DEF Quiet, NotifyWaiters, schedVars, EvalType
<1>2. \A i \in Item : phase'[i] = "gone" <=> phase[i] = "gone"
  BY <1>1, EvalAlone, Names
<1> QED
  BY <1>1, <1>2, FibersSame, SlotRows, SlotKept, SlotRowsNext

LEMMA EnqueueSlots ==
  ASSUME SchedType, WaitType, PlaceInv, SlotsInv, NEW a \in Actor, NEW i \in woken[a], EnqueueFiber(a, i)
  PROVE  SlotsInv'
<1>1. i \in Item /\ home[i] \in Worker /\ Live(i)
  BY WokenHome
<1>2. /\ UNCHANGED <<home, live, finished, wstate, phase>>
      /\ ready' = [ready EXCEPT ![home[i]] = Append(@, i)]
  BY DEF EnqueueFiber, evalVars
<1>3. ASSUME NEW w \in Worker PROVE SlotAt(w)'
  <2>1. SlotAt(w) /\ Fibers(w)' = Fibers(w)
    BY <1>2, FibersSame, SlotRows
  <2>2. CASE w # home[i]
    BY <1>1, <1>2, <2>1, <2>2, SlotKept DEF SchedType
  <2>3. CASE w = home[i]
    <3>1. i \in Fibers(w)
      BY <1>1, <2>3 DEF Live, Fibers
    <3> QED
      BY <1>2, <2>1, <3>1 DEF SlotAt
  <2> QED
    BY <2>2, <2>3
<1> QED
  BY <1>3, SlotRowsNext

LEMMA RegisterSlots ==
  ASSUME EvalType, SchedType, SlotsInv, NEW i \in Item, Register(i) PROVE SlotsInv'
<1>1. home[i] \in Worker /\ wstate[home[i]] = "run"
  BY RunningHome DEF Register
<1>2. /\ UNCHANGED <<home, live, finished, ready>> /\ wstate' = [wstate EXCEPT ![home[i]] = "loop"]
      /\ phase[i] = "switch" /\ phase' = [phase EXCEPT ![i] = "suspended"]
  BY DEF Register
<1>3. \A j \in Item : phase'[j] = "gone" <=> phase[j] = "gone"
  BY <1>2, Names DEF EvalType
<1>4. ASSUME NEW w \in Worker PROVE SlotAt(w)'
  <2>1. SlotAt(w) /\ Fibers(w)' = Fibers(w)
    BY <1>2, <1>3, FibersSame, SlotRows
  <2>2. wstate'[w] = wstate[w] \/ (wstate[w] = "run" /\ wstate'[w] = "loop")
    BY <1>1, <1>2 DEF SchedType
  <2> QED
    BY <1>2, <2>1, <2>2 DEF SlotAt
<1> QED
  BY <1>4, SlotRowsNext

LEMMA FinishSlots ==
  ASSUME EvalType, SchedType, SlotsInv, NEW i \in Item, FinishFiber(i) PROVE SlotsInv'
<1>1. home[i] \in Worker /\ wstate[home[i]] = "run"
  BY RunningHome DEF FinishFiber, ExprEnded
<1>2. /\ UNCHANGED <<home, live, ready>> /\ wstate' = [wstate EXCEPT ![home[i]] = "loop"]
      /\ finished' = [finished EXCEPT ![home[i]] = TRUE]
      /\ phase[i] = "eval" /\ phase' = [phase EXCEPT ![i] = "gone"]
  BY DEF FinishFiber, ExprEnded
<1>3. ASSUME NEW w \in Worker PROVE SlotAt(w)'
  <2>1. SlotAt(w)
    BY SlotRows
  <2>2. CASE w # home[i]
    <3>1. Fibers(w)' = Fibers(w)
      BY <1>2, <2>2, Names DEF Fibers, EvalType
    <3> QED
      BY <1>1, <1>2, <2>1, <2>2, <3>1, SlotKept DEF SchedType
  <2>3. CASE w = home[i]
    <3>1. i \in Fibers(w) /\ Fibers(w)' = Fibers(w) \ {i}
      BY <1>2, <2>3, Names DEF Fibers, EvalType
    <3>2. Cardinality(Fibers(w)') = Cardinality(Fibers(w)) - 1 /\ Cardinality(Fibers(w)) \in Nat
      BY <3>1, FiniteFibers, FS_RemoveElement
    <3>3. finished'[w] /\ ~finished[w] /\ live'[w] = live[w] /\ wstate'[w] = "loop"
      BY <1>1, <1>2, <2>1, <2>3 DEF SlotAt, SchedType
    <3>4. live[w] = Cardinality(Fibers(w)) /\ live[w] <= MaxFibers
      BY <2>1, <3>2, <3>3 DEF SlotAt
    <3> QED
      BY <3>2, <3>3, <3>4 DEF SlotAt
  <2> QED
    BY <2>2, <2>3
<1> QED
  BY <1>3, SlotRowsNext

LEMMA LoopSlots ==
  ASSUME EvalType, SchedType, PlaceInv, PromiseInv, SlotsInv, NEW w \in Worker, LoopStep(w)
  PROVE  SlotsInv'
<1>0. /\ LiveNow(w) = Cardinality(Fibers(w)) /\ LiveNow(w) \in Nat /\ LiveNow(w) <= MaxFibers
      /\ IsFiniteSet(Fibers(w)) /\ MaxFibers \in Nat
  BY LiveNowCounts, FiniteFibers, ExecutorAssumption DEF SlotsInv
<1>1. CASE ResumeReady(w) \/ QuitOrSleep(w)
  <2>1. UNCHANGED <<home, phase>> /\ live' = [live EXCEPT ![w] = LiveNow(w)] /\ finished' = [finished EXCEPT ![w] = FALSE]
    BY <1>1 DEF ResumeReady, QuitOrSleep, evalVars
  <2>2. \A u \in Worker \ {w} : wstate'[u] = wstate[u] /\ ready'[u] = ready[u]
    BY <1>1 DEF ResumeReady, QuitOrSleep, SchedType
  <2>3. wstate'[w] = "exited" => LiveNow(w) = 0 /\ ready'[w] = <<>>
    BY <1>1 DEF ResumeReady, QuitOrSleep, MayExit, SchedType
  <2>4. ASSUME NEW u \in Worker PROVE SlotAt(u)'
    <3>1. SlotAt(u) /\ Fibers(u)' = Fibers(u)
      BY <2>1, FibersSame, SlotRows
    <3>2. CASE u # w
      BY <2>1, <2>2, <3>1, <3>2, SlotKept DEF SchedType
    <3>3. CASE u = w
      <4>1. live'[w] = LiveNow(w) /\ ~finished'[w]
        BY <2>1 DEF SchedType
      <4>2. LiveNow(w) = 0 => Fibers(w) = {}
        BY <1>0, FS_EmptySet
      <4> QED
        BY <1>0, <2>3, <3>1, <3>3, <4>1, <4>2 DEF SlotAt
    <3> QED
      BY <3>2, <3>3
  <2> QED
    BY <2>4, SlotRowsNext
<1>2. CASE StartItem(w)
  <2>1. PICK i \in queue :
          /\ home' = [home EXCEPT ![i] = w]
          /\ \/ finished' = [finished EXCEPT ![w] = FALSE] /\ phase' = phase
             \/ /\ finished' = [finished EXCEPT ![w] = TRUE] /\ phase' = [phase EXCEPT ![i] = "gone"]
                /\ wstate' = wstate
    BY <1>2 DEF StartItem
  <2>2. /\ live' = [live EXCEPT ![w] = LiveNow(w) + 1] /\ LiveNow(w) < MaxFibers /\ ready' = ready
        /\ wstate[w] = "loop" /\ (wstate' = wstate \/ wstate' = [wstate EXCEPT ![w] = "run"])
    BY <1>2 DEF StartItem, CanStartFiber
  <2>3. i \in Item /\ i \in Evaluator /\ home[i] = NoOne /\ phase[i] = "eval" /\ w # NoOne
    BY Names DEF PromiseInv, PlaceInv, SchedType
  <2>4. ASSUME NEW u \in Worker, u # w PROVE SlotAt(u)'
    <3>1. Fibers(u)' = Fibers(u)
      BY <2>1, <2>3, <2>4, Names DEF Fibers, SchedType, EvalType
    <3>2. live'[u] = live[u] /\ finished'[u] = finished[u] /\ wstate'[u] = wstate[u]
      BY <2>1, <2>2, <2>4 DEF SchedType
    <3> QED
      BY <2>2, <3>1, <3>2, SlotRows, SlotKept
  <2>5. live'[w] = LiveNow(w) + 1 /\ wstate'[w] \in {"loop", "run"} /\ i \notin Fibers(w)
    BY <2>2, <2>3 DEF SchedType, Fibers
  <2>6. CASE finished' = [finished EXCEPT ![w] = FALSE] /\ phase' = phase
    <3>1. Fibers(w)' = Fibers(w) \cup {i}
      BY <2>1, <2>3, <2>6, Names DEF Fibers, SchedType
    <3>2. Cardinality(Fibers(w)') = Cardinality(Fibers(w)) + 1
      BY <1>0, <2>5, <3>1, FS_AddElement
    <3>3. ~finished'[w]
      BY <2>6 DEF SchedType
    <3>4. SlotAt(w)'
      BY <1>0, <2>2, <2>5, <3>2, <3>3 DEF SlotAt
    <3> QED
      BY <2>4, <3>4, SlotRowsNext
  <2>7. CASE /\ finished' = [finished EXCEPT ![w] = TRUE] /\ phase' = [phase EXCEPT ![i] = "gone"]
             /\ wstate' = wstate
    <3>1. Fibers(w)' = Fibers(w)
      BY <2>1, <2>3, <2>7, Names DEF Fibers, SchedType, EvalType
    <3>2. finished'[w] /\ wstate'[w] = "loop"
      BY <2>2, <2>7 DEF SchedType
    <3>3. SlotAt(w)'
      BY <1>0, <2>2, <2>5, <3>1, <3>2 DEF SlotAt
    <3> QED
      BY <2>4, <3>3, SlotRowsNext
  <2> QED
    BY <2>1, <2>6, <2>7
<1>3. CASE WakeUp(w) \/ SpuriousWakeUp(w)
  <2>1. UNCHANGED <<home, phase, live, finished, ready>> /\ wstate' = [wstate EXCEPT ![w] = "loop"] /\ wstate[w] = "asleep"
    BY <1>3 DEF WakeUp, SpuriousWakeUp, evalVars
  <2>2. ASSUME NEW u \in Worker PROVE SlotAt(u)'
    <3>1. SlotAt(u) /\ Fibers(u)' = Fibers(u)
      BY <2>1, FibersSame, SlotRows
    <3>2. wstate'[u] = wstate[u] \/ wstate'[u] = "loop"
      BY <2>1 DEF SchedType
    <3> QED
      BY <2>1, <3>1, <3>2 DEF SlotAt
  <2> QED
    BY <2>2, SlotRowsNext
<1> QED
  BY <1>1, <1>2, <1>3 DEF LoopStep

LEMMA FlushSlots ==
  ASSUME SchedType, WaitType, PlaceInv, SlotsInv, NEW f \in Flusher, Flushes(f) PROVE SlotsInv'
<1>1. f \in Actor
  BY Names DEF Flusher, Actor
<1>2. CASE FlushDomain(f)
  <2>1. UNCHANGED <<home, phase, live, finished, wstate, ready>>
    BY <1>2 DEF FlushDomain, evalVars, schedVars
  <2> QED
    BY <2>1, FibersSame, SlotRows, SlotKept, SlotRowsNext
<1>3. CASE \E i \in woken[f] : EnqueueFiber(f, i)
  BY <1>1, <1>3, EnqueueSlots
<1> QED
  BY <1>2, <1>3 DEF Flushes, FlushStep

LEMMA OtherSlots == ASSUME SlotsInv, OtherStep PROVE SlotsInv'
<1>1. UNCHANGED <<home, phase, live, finished, wstate, ready>>
  BY OtherStill
<1> QED
  BY <1>1, FibersSame, SlotRows, SlotKept, SlotRowsNext

LEMMA ActsSlots ==
  ASSUME EvalType, StackInv, ForceInv, SchedType, WaitType, PlaceInv, SlotsInv, NEW e \in Evaluator, Acts(e)
  PROVE  SlotsInv'
<1>1. e \in Actor
  BY DEF Actor
<1>2. CASE EnqueueWoken(e)
  BY <1>1, <1>2, EnqueueSlots DEF EnqueueWoken
<1> QED
  BY <1>2, ActsKinds, QuietSlots, RegisterSlots, FinishSlots

--------------------------------------------------------------------------------
(* The promises.                                                           *)

PromiseAt(i) ==
  /\ i \in queue => promise[i] = "waiting" /\ home[i] = NoOne
  /\ Live(i) => promise[i] = "waiting"
  /\ promise[i] = "waiting" => i \in queue \/ Live(i)
  /\ promise[i] = "none" => home[i] = NoOne

BatchInv == \A k \in DOMAIN Batches : \A i \in Batches[k] : promise[i] = "none" <=> k > spawned
EndInv == mainpc = "destroyed" => queue = {} /\ \A w \in Worker : wstate[w] = "exited"

LEMMA PromiseRows == PromiseInv <=> (\A i \in Item : PromiseAt(i)) /\ BatchInv /\ EndInv
BY DEF PromiseInv, PromiseAt, BatchInv, EndInv

LEMMA PromiseRowsNext == (\A i \in Item : PromiseAt(i)') /\ BatchInv' /\ EndInv' => PromiseInv'
BY DEF PromiseInv, PromiseAt, BatchInv, EndInv

(* An answered promise is not answered again.                              *)
Once == \A i \in Item : promise[i] \in Finished => promise'[i] = promise[i]

Leaves == \A w \in Worker : wstate[w] = "exited" => wstate'[w] = "exited"

LEMMA BatchItem ==
  ASSUME NEW k \in DOMAIN Batches, NEW i \in Batches[k] PROVE i \in Item
BY ExecutorAssumption

LEMMA PromiseKept ==
  ASSUME PromiseInv, UNCHANGED <<promise, queue, home, spawned>>,
         \A i \in Item : phase'[i] = "gone" <=> phase[i] = "gone",
         mainpc' = "destroyed" => mainpc = "destroyed", Leaves
  PROVE  PromiseInv' /\ Once
<1>1. \A i \in Item : PromiseAt(i)'
  BY PromiseRows DEF PromiseAt, Live
<1>2. BatchInv' /\ EndInv'
  BY PromiseRows DEF BatchInv, EndInv, Leaves
<1> QED
  BY <1>1, <1>2, PromiseRowsNext DEF Once

LEMMA FinishPromise ==
  ASSUME EvalType, SchedType, PlaceInv, PromiseInv, NEW i \in Item, FinishFiber(i) PROVE PromiseInv' /\ Once
<1>1. home[i] \in Worker /\ wstate[home[i]] = "run" /\ Running(i)
  BY RunningHome DEF FinishFiber, ExprEnded
<1>2. /\ UNCHANGED <<queue, home, spawned, mainpc>> /\ promise' = [promise EXCEPT ![i] = exc[i]]
      /\ wstate' = [wstate EXCEPT ![home[i]] = "loop"]
      /\ phase[i] = "eval" /\ phase' = [phase EXCEPT ![i] = "gone"]
  BY DEF FinishFiber, ExprEnded
<1>3. i \in Evaluator /\ Live(i) /\ exc[i] \in Finished
  BY <1>1, <1>2, Names DEF Live, EvalType
<1>4. promise[i] = "waiting" /\ promise'[i] \in Finished /\ \A j \in Item \ {i} : promise'[j] = promise[j]
  BY <1>2, <1>3, PromiseRows DEF PromiseAt, EvalType
<1>5. i \notin queue
  BY <1>1, PromiseRows, Names DEF PromiseAt
<1>6. ASSUME NEW j \in Item PROVE PromiseAt(j)'
  <2>1. PromiseAt(j)
    BY PromiseRows
  <2>2. CASE j # i
    <3>1. phase'[j] = phase[j]
      BY <1>2, <2>2, Names DEF EvalType
    <3> QED
      BY <1>2, <1>4, <2>1, <2>2, <3>1 DEF PromiseAt, Live
  <2>3. CASE j = i
    <3>1. ~Live(i)'
      BY <1>2, <1>3 DEF Live, EvalType
    <3> QED
      BY <1>2, <1>4, <1>5, <2>3, <3>1 DEF PromiseAt, Finished, Failed
  <2> QED
    BY <2>2, <2>3
<1>7. BatchInv'
  <2>1. \A j \in Item : promise'[j] = "none" <=> promise[j] = "none"
    BY <1>4 DEF Finished, Failed
  <2> QED
    BY <1>2, <2>1, BatchItem, PromiseRows DEF BatchInv
<1>8. mainpc # "destroyed"
  BY <1>1, PromiseRows DEF EndInv
<1>9. Once
  BY <1>4 DEF Once, Finished, Failed
<1> QED
  BY <1>2, <1>6, <1>7, <1>8, <1>9, PromiseRowsNext DEF EndInv

LEMMA StartPromise ==
  ASSUME EvalType, SchedType, PlaceInv, PromiseInv, NEW w \in Worker, StartItem(w) PROVE PromiseInv' /\ Once
<1>1. PICK i \in queue :
        /\ home' = [home EXCEPT ![i] = w] /\ queue' = queue \ {i}
        /\ \/ UNCHANGED <<phase, promise>>
           \/ phase' = [phase EXCEPT ![i] = "gone"] /\ promise' = [promise EXCEPT ![i] = "error"]
  BY DEF StartItem
<1>2. UNCHANGED <<mainpc, spawned>> /\ wstate[w] = "loop"
  BY DEF StartItem, envVars
<1>3. i \in Item /\ i \in Evaluator /\ promise[i] = "waiting" /\ phase[i] = "eval" /\ w # NoOne
  BY Names DEF PromiseInv, PlaceInv, SchedType
<1>4. home'[i] = w /\ \A j \in Item \ {i} : home'[j] = home[j] /\ promise'[j] = promise[j] /\ phase'[j] = phase[j]
  BY <1>1, <1>3, Names DEF SchedType, EvalType
<1>5. \/ phase'[i] = "eval" /\ promise'[i] = "waiting"
      \/ phase'[i] = "gone" /\ promise'[i] = "error"
  BY <1>1, <1>3 DEF EvalType
<1>6. ASSUME NEW j \in Item PROVE PromiseAt(j)'
  <2>1. PromiseAt(j)
    BY PromiseRows
  <2>2. CASE j # i
    BY <1>1, <1>4, <2>1, <2>2 DEF PromiseAt, Live
  <2>3. CASE j = i
    BY <1>1, <1>3, <1>4, <1>5, <2>3 DEF PromiseAt, Live
  <2> QED
    BY <2>2, <2>3
<1>7. BatchInv'
  <2>1. \A j \in Item : promise'[j] = "none" <=> promise[j] = "none"
    BY <1>3, <1>4, <1>5
  <2> QED
    BY <1>2, <2>1, BatchItem, PromiseRows DEF BatchInv
<1>8. mainpc # "destroyed"
  BY <1>2, PromiseRows DEF EndInv
<1>9. Once
  BY <1>3, <1>4 DEF Once, Finished, Failed
<1> QED
  BY <1>2, <1>6, <1>7, <1>8, <1>9, PromiseRowsNext DEF EndInv

(* failItems.                                                              *)
LEMMA FailPromise ==
  ASSUME PromiseInv, FailItems, queue' = {}, UNCHANGED <<home, phase, spawned>>
  PROVE  (\A i \in Item : PromiseAt(i)') /\ BatchInv' /\ Once
<1>1. \A i \in Item : promise'[i] = IF i \in queue THEN "interrupted" ELSE promise[i]
  BY DEF FailItems
<1>2. ASSUME NEW i \in Item PROVE PromiseAt(i)'
  <2>1. PromiseAt(i)
    BY PromiseRows
  <2>2. i \in queue => ~Live(i)
    BY <2>1 DEF PromiseAt, Live
  <2> QED
    BY <1>1, <2>1, <2>2 DEF PromiseAt, Live
<1>3. \A i \in Item : i \in queue => promise[i] = "waiting"
  BY PromiseRows DEF PromiseAt
<1>4. BatchInv'
  <2>1. \A j \in Item : promise'[j] = "none" <=> promise[j] = "none"
    BY <1>1, <1>3
  <2> QED
    BY <2>1, BatchItem, PromiseRows DEF BatchInv
<1>5. Once
  BY <1>1, <1>3 DEF Once, Finished, Failed
<1> QED
  BY <1>2, <1>4, <1>5

LEMMA LoopLeaves == ASSUME SchedType, NEW w \in Worker, LoopStep(w) PROVE Leaves
BY DEF LoopStep, ResumeReady, StartItem, QuitOrSleep, WakeUp, SpuriousWakeUp, Leaves, SchedType

LEMMA LoopPromise ==
  ASSUME EvalType, SchedType, PlaceInv, PromiseInv, NEW w \in Worker, LoopStep(w) PROVE PromiseInv' /\ Once
<1>1. CASE ResumeReady(w) \/ WakeUp(w) \/ SpuriousWakeUp(w)
  <2>1. UNCHANGED <<promise, queue, home, phase, spawned, mainpc>>
    BY <1>1 DEF ResumeReady, WakeUp, SpuriousWakeUp, evalVars, envVars
  <2> QED
    BY <2>1, LoopLeaves, PromiseKept
<1>2. CASE QuitOrSleep(w)
  <2>1. UNCHANGED <<home, phase, spawned, mainpc>>
    BY <1>2 DEF QuitOrSleep, envVars
  <2>2. CASE quit
    <3>1. (\A i \in Item : PromiseAt(i)') /\ BatchInv' /\ Once /\ queue' = {}
      BY <1>2, <2>1, <2>2, FailPromise DEF QuitOrSleep
    <3>2. EndInv'
      BY <2>1, <3>1, LoopLeaves, PromiseRows DEF EndInv, Leaves
    <3> QED
      BY <3>1, <3>2, PromiseRowsNext
  <2>3. CASE ~quit
    <3>1. UNCHANGED <<promise, queue>>
      BY <1>2, <2>3 DEF QuitOrSleep
    <3> QED
      BY <2>1, <3>1, LoopLeaves, PromiseKept
  <2> QED
    BY <2>2, <2>3
<1> QED
  BY <1>1, <1>2, StartPromise DEF LoopStep

LEMMA SpawnPromise ==
  ASSUME EvalType, SchedType, EnvType, PromiseInv, Spawn PROVE PromiseInv' /\ Once
<1> DEFINE items == Batches[spawned + 1]
<1>1. /\ spawned \in Nat /\ spawned' = spawned + 1 /\ mainpc' = "force" /\ UNCHANGED <<home, phase>>
      /\ spawned + 1 \in DOMAIN Batches
  BY ExecutorAssumption DEF Spawn, EnvType
<1>2. items \subseteq Item
  BY <1>1, ExecutorAssumption
<1>3. \/ /\ promise' = [i \in Item |-> IF i \in items THEN "interrupted" ELSE promise[i]]
         /\ queue' = queue
      \/ /\ promise' = [i \in Item |-> IF i \in items THEN "waiting" ELSE promise[i]]
         /\ queue' = queue \cup items
  BY DEF Spawn
<1>4. \A i \in items : promise[i] = "none"
  BY <1>1, PromiseRows DEF BatchInv
<1>5. \A j \in DOMAIN Batches : \A i \in Batches[j] : (i \in items <=> j = spawned + 1)
  BY <1>1, ExecutorAssumption
<1>6. DOMAIN Batches \subseteq Nat
  BY ExecutorAssumption
<1> HIDE DEF items
<1>7. ASSUME NEW i \in Item PROVE PromiseAt(i)'
  <2>1. PromiseAt(i)
    BY PromiseRows
  <2>2. Live(i)' <=> Live(i)
    BY <1>1 DEF Live
  <2>3. CASE i \in items
    <3>1. home'[i] = NoOne /\ ~Live(i) /\ i \notin queue
      BY <1>1, <1>4, <2>1, <2>3 DEF PromiseAt
    <3>2. (promise'[i] = "interrupted" /\ queue' = queue) \/ (promise'[i] = "waiting" /\ i \in queue')
      BY <1>3, <2>3
    <3> QED
      BY <2>2, <3>1, <3>2 DEF PromiseAt
  <2>4. CASE i \notin items
    <3>1. promise'[i] = promise[i] /\ (i \in queue' <=> i \in queue) /\ home'[i] = home[i]
      BY <1>1, <1>3, <2>4
    <3> QED
      BY <2>1, <2>2, <3>1 DEF PromiseAt
  <2> QED
    BY <2>3, <2>4
<1>8. ASSUME NEW k \in DOMAIN Batches, NEW i \in Batches[k] PROVE promise'[i] = "none" <=> k > spawned'
  <2>1. i \in Item /\ (i \in items <=> k = spawned + 1) /\ (promise[i] = "none" <=> k > spawned) /\ k \in Nat
    BY <1>5, <1>6, BatchItem, PromiseRows DEF BatchInv
  <2>2. promise'[i] = "none" <=> (promise[i] = "none" /\ i \notin items)
    BY <1>3, <2>1
  <2> QED
    BY <1>1, <2>1, <2>2
<1>9. BatchInv' /\ EndInv'
  BY <1>1, <1>8 DEF BatchInv, EndInv
<1>10. Once
  BY <1>3, <1>4 DEF Once, Finished, Failed
<1> QED
  BY <1>7, <1>9, <1>10, PromiseRowsNext

LEMMA OtherPromise ==
  ASSUME EvalType, SchedType, EnvType, PromiseInv, OtherStep PROVE PromiseInv' /\ Once
<1>1. UNCHANGED <<home, phase, wstate>> /\ Leaves
  BY OtherStill DEF Leaves
<1>2. CASE Join
  <2>1. FailItems /\ queue' = {} /\ spawned' = spawned /\ \A w \in Worker : wstate[w] = "exited"
    BY <1>2 DEF Join
  <2>2. EndInv'
    BY <1>1, <2>1 DEF EndInv
  <2> QED
    BY <1>1, <2>1, <2>2, FailPromise, PromiseRowsNext
<1>3. CASE MainForced \/ Destroy \/ WakeAll \/ Interrupt \/ CallbackDone \/ ClearInterrupt
  <2>1. UNCHANGED <<promise, queue, spawned>> /\ (mainpc' = "destroyed" => mainpc = "destroyed")
    BY <1>3 DEF MainForced, Destroy, WakeAll, Interrupt, CallbackDone, ClearInterrupt, evalVars, schedVars, envVars
  <2> QED
    BY <1>1, <2>1, PromiseKept
<1> QED
  BY <1>2, <1>3, SpawnPromise DEF OtherStep

LEMMA FlushPromise ==
  ASSUME PromiseInv, NEW f \in Flusher, Flushes(f) PROVE PromiseInv' /\ Once
<1>1. UNCHANGED <<promise, queue, home, phase, spawned, mainpc, wstate>>
  BY DEF Flushes, FlushStep, FlushDomain, EnqueueFiber, evalVars, schedVars, envVars
<1> QED
  BY <1>1, PromiseKept DEF Leaves

LEMMA ActsPromise ==
  ASSUME EvalType, StackInv, ForceInv, SchedType, PlaceInv, PromiseInv, NEW e \in Evaluator, Acts(e)
  PROVE  PromiseInv' /\ Once
<1>1. CASE Quiet(e) \/ EnqueueWoken(e) \/ NotifyWaiters(e) \/ (e \in Item /\ Register(e))
  <2>1. UNCHANGED <<promise, queue, home, spawned, mainpc>>
    BY <1>1 DEF Quiet, EnqueueWoken, EnqueueFiber, NotifyWaiters, Register, evalVars, schedVars, envVars
  <2>2. phase[e] # "gone" /\ phase'[e] # "gone"
    BY <1>1 DEF Quiet, EnqueueWoken, EnqueueFiber, NotifyWaiters, Register, evalVars, EvalType
  <2>3. \A i \in Item : phase'[i] = "gone" <=> phase[i] = "gone"
    BY <2>2, EvalAlone, Names
  <2>4. Leaves
    <3>1. CASE wstate' = wstate
      BY <3>1 DEF Leaves
    <3>2. CASE e \in Item /\ Register(e)
      BY <3>2, RunningHome DEF Register, Leaves, SchedType
    <3> QED
      BY <1>1, <3>1, <3>2 DEF Quiet, EnqueueWoken, EnqueueFiber, NotifyWaiters, schedVars
  <2> QED
    BY <2>1, <2>3, <2>4, PromiseKept
<1> QED
  BY <1>1, ActsKinds, FinishPromise

--------------------------------------------------------------------------------
(* The wakeups.                                                            *)

(* A waiter registered for the value will be taken out.                    *)
Comes(v) == cell[v] = "awaited" \/ FinisherComing(v)

(* How an evaluator gets into, and out of, the phases of the handshake.    *)
LEMMA Handshake ==
  ASSUME EvalType, NEW e \in Evaluator, Acts(e)
  PROVE  /\ phase[e] = "notify" => NotifyWaiters(e)
         /\ phase'[e] = "switch" => WaitOnThunk(e)
         /\ phase'[e] = "cvwait" => WaitOnThunk(e) \/ CvWake
         /\ phase'[e] = "suspended" => Register(e)
<1> USE DEF EvalType
<1>1. CASE ForceFinished(e) \/ ForceUnfinished(e) \/ WinCas(e) \/ LoseCas(e) \/ PollInterrupt(e)
  BY <1>1 DEF ForceFinished, ForceUnfinished, WinCas, LoseCas, PollInterrupt, AtForce
<1>2. CASE WaitOnThunk(e)
  BY <1>2 DEF WaitOnThunk, WaitReturns, WaitThrows
<1>3. CASE FinishValue(e) \/ NotifyWaiters(e) \/ EnqueueWoken(e) \/ Notified(e)
  BY <1>3 DEF FinishValue, NotifyWaiters, EnqueueWoken, EnqueueFiber, Notified, ExprEnded, evalVars
<1>4. CASE Register(e) \/ FinishFiber(e)
  BY <1>4 DEF Register, FinishFiber, ExprEnded
<1>5. CASE Resumed(e) \/ (e = Main /\ CvWake)
  BY <1>5 DEF Resumed, CvWake, WaitReturns, WaitThrows
<1> QED
  BY <1>1, <1>2, <1>3, <1>4, <1>5 DEF Acts, EvalStep, FiberStep

(* An awaited value is finished by an evaluator that then notifies.        *)
LEMMA FinishNotifies ==
  ASSUME EvalType, StackInv, ForceInv, NEW e \in Evaluator, Acts(e), NEW v \in Value, cell[v] = "awaited",
         cell'[v] # "awaited"
  PROVE  phase'[e] = "notify" /\ Subject(e)' = v
<1>1. FinishValue(e)
  <2>1. CASE WinCas(e)
    <3>1. Cur(e) # v /\ cell' = [cell EXCEPT ![Cur(e)] = "pending"]
      BY <2>1 DEF WinCas, CasSucceeds
    <3> QED
      BY <3>1 DEF EvalType
  <2>2. CASE WaitOnThunk(e)
    <3>1. cell' = cell \/ cell' = [cell EXCEPT ![Cur(e)] = "awaited"]
      BY <2>2 DEF WaitOnThunk
    <3> QED
      BY <3>1 DEF EvalType
  <2>3. CASE ForceFinished(e) \/ ForceUnfinished(e) \/ LoseCas(e) \/ PollInterrupt(e) \/ NotifyWaiters(e)
             \/ Notified(e)
    BY <2>3 DEF ForceFinished, ForceUnfinished, LoseCas, PollInterrupt, NotifyWaiters, Notified
  <2>4. CASE EnqueueWoken(e) \/ Register(e) \/ Resumed(e) \/ FinishFiber(e) \/ CvWake
    BY <2>4 DEF EnqueueWoken, EnqueueFiber, Register, Resumed, FinishFiber, CvWake, evalVars
  <2> QED
    BY <2>1, <2>2, <2>3, <2>4 DEF Acts, EvalStep, FiberStep
<1>2. cell' = [cell EXCEPT ![Subject(e)] = Outcome(e)]
  BY <1>1 DEF FinishValue
<1>3. Subject(e) = v
  BY <1>2 DEF EvalType
<1>4. phase' = [phase EXCEPT ![e] = "notify"] /\ UNCHANGED <<top, pc, lost>>
  BY <1>1, <1>3 DEF FinishValue, MustNotify
<1> QED
  BY <1>3, <1>4 DEF Subject, Cur, EvalType

LEMMA ComesKept ==
  ASSUME EvalType, StackInv, ForceInv, NEW e \in Evaluator, Acts(e), NEW v \in Value, Comes(v),
         ~(NotifyWaiters(e) /\ Subject(e) = v)
  PROVE  Comes(v)'
<1>1. CASE cell[v] = "awaited"
  BY <1>1, FinishNotifies DEF Comes, FinisherComing
<1>2. CASE FinisherComing(v)
  <2>1. PICK f \in Evaluator : phase[f] = "notify" /\ Subject(f) = v
    BY <1>2 DEF FinisherComing
  <2>2. f # e
    BY <2>1, Handshake
  <2>3. phase'[f] = "notify" /\ Subject(f)' = v
    BY <2>1, <2>2, EvalAlone, OthersCur
  <2> QED
    BY <2>3 DEF Comes, FinisherComing
<1> QED
  BY <1>1, <1>2 DEF Comes

LEMMA ComesSame ==
  ASSUME UNCHANGED <<cell, pc, top, lost>>, \A f \in Evaluator : phase[f] = "notify" => phase'[f] = "notify",
         NEW v, Comes(v)
  PROVE  Comes(v)'
<1>1. \A f \in Evaluator : Subject(f)' = Subject(f)
  BY DEF Subject, Cur
<1> QED
  BY <1>1 DEF Comes, FinisherComing

SwitchAt(i) == phase[i] = "switch" => lock[DomainOf[Cur(i)]] = i /\ Comes(Cur(i))

LEMMA SwitchRows == SwitchInv <=> \A i \in Item : SwitchAt(i)
BY DEF SwitchInv, SwitchAt, Comes

LEMMA SwitchRowsNext == (\A i \in Item : SwitchAt(i)') => SwitchInv'
BY DEF SwitchInv, SwitchAt, Comes

LEMMA LockSteps ==
  ASSUME EvalType, NEW e \in Evaluator, Acts(e)
  PROVE  \/ lock' = lock
         \/ WaitOnThunk(e) /\ lock[DomainOf[Cur(e)]] = NoOne /\ lock' = [lock EXCEPT ![DomainOf[Cur(e)]] = HeldBy(e)]
         \/ /\ e \in Item /\ Register(e) /\ phase[e] = "switch"
            /\ lock' = [lock EXCEPT ![DomainOf[Cur(e)]] = NoOne]
<1>1. CASE Quiet(e)
  <2>1. CASE WaitOnThunk(e)
    BY <2>1 DEF WaitOnThunk
  <2>2. CASE CvWake
    BY <2>2 DEF CvWake
  <2> QED
    BY <1>1, <2>1, <2>2 DEF Quiet
<1>2. CASE EnqueueWoken(e) \/ NotifyWaiters(e) \/ FinishFiber(e)
  BY <1>2 DEF EnqueueWoken, EnqueueFiber, NotifyWaiters, FinishFiber, waitVars
<1>3. CASE e \in Item /\ Register(e)
  BY <1>3 DEF Register
<1> QED
  BY <1>1, <1>2, <1>3, ActsKinds

LEMMA ActsSwitch ==
  ASSUME EvalType, StackInv, ForceInv, WaitType, SwitchInv, NEW e \in Evaluator, Acts(e) PROVE SwitchInv'
<1>1. ASSUME NEW i \in Item, i # e, phase'[i] = "switch" PROVE lock'[DomainOf[Cur(i)']] = i /\ Comes(Cur(i))'
  <2>1. i \in Evaluator /\ phase[i] = "switch" /\ Cur(i)' = Cur(i) /\ i # NoOne
    BY <1>1, Names, EvalAlone, OthersCur
  <2>2. Cur(i) \in Value /\ DomainOf[Cur(i)] \in Domain
    BY <2>1, ForcedValue, ExecutorAssumption DEF Forcing
  <2>3. lock[DomainOf[Cur(i)]] = i /\ Comes(Cur(i))
    BY <2>1, SwitchRows DEF SwitchAt
  <2>4. e \in Item /\ phase[e] = "switch" => lock[DomainOf[Cur(e)]] = e
    BY SwitchRows DEF SwitchAt
  <2>5. lock'[DomainOf[Cur(i)]] = i
    BY <1>1, <2>1, <2>2, <2>3, <2>4, LockSteps DEF WaitType
  <2>6. ~(NotifyWaiters(e) /\ Subject(e) = Cur(i))
    BY <2>1, <2>3 DEF NotifyWaiters
  <2>7. \A v \in Value : v = Cur(i) => Comes(v)'
    BY <2>2, <2>3, <2>6, ComesKept
  <2> QED
    BY <2>1, <2>2, <2>5, <2>7 DEF Comes, FinisherComing
<1>2. ASSUME e \in Item, phase'[e] = "switch" PROVE lock'[DomainOf[Cur(e)']] = e /\ Comes(Cur(e))'
  <2>1. WaitOnThunk(e) /\ e # Main
    BY <1>2, Handshake, Names
  <2>2. Cur(e) \in Value /\ DomainOf[Cur(e)] \in Domain
    BY <2>1, ForcedValue, ExecutorAssumption DEF WaitOnThunk, Forcing
  <2>3. /\ cell' = [cell EXCEPT ![Cur(e)] = "awaited"] /\ UNCHANGED <<pc, top>>
        /\ lock' = [lock EXCEPT ![DomainOf[Cur(e)]] = HeldBy(e)]
    BY <1>2, <2>1 DEF WaitOnThunk, WaitReturns, WaitThrows, EvalType
  <2>4. Cur(e)' = Cur(e)
    BY <2>3 DEF Cur
  <2>5. cell'[Cur(e)] = "awaited" /\ lock'[DomainOf[Cur(e)]] = e
    BY <2>1, <2>2, <2>3 DEF HeldBy, EvalType, WaitType
  <2> QED
    BY <2>4, <2>5 DEF Comes
<1>3. \A i \in Item : SwitchAt(i)'
  BY <1>1, <1>2 DEF SwitchAt
<1> QED
  BY <1>3, SwitchRowsNext

(* The other steps: the phases of the handshake stay.                      *)
LEMMA OthersHandshake ==
  ASSUME EvalType, PlaceInv, PromiseInv, queue \subseteq Item,
         \/ \E w \in Worker : LoopStep(w)
         \/ \E f \in Flusher : Flushes(f)
         \/ OtherStep,
         NEW e \in Evaluator
  PROVE  /\ Cur(e)' = Cur(e) /\ Subject(e)' = Subject(e)
         /\ phase'[e] = phase[e] \/ (phase[e] = "eval" /\ phase'[e] = "gone")
<1>1. UNCHANGED <<pc, top, lost>>
  BY OthersSteady
<1>2. \A i \in queue : phase[i] = "eval" /\ i \in Evaluator
  BY Names DEF PlaceInv, PromiseInv
<1>3. phase'[e] = phase[e] \/ (phase[e] = "eval" /\ phase'[e] = "gone")
  BY <1>2, OthersPhase DEF EvalType
<1> QED
  BY <1>1, <1>3 DEF Cur, Subject

LEMMA OthersComes ==
  ASSUME EvalType, PlaceInv, PromiseInv, queue \subseteq Item,
         \/ \E w \in Worker : LoopStep(w)
         \/ \E f \in Flusher : Flushes(f)
         \/ OtherStep,
         NEW v, Comes(v)
  PROVE  Comes(v)'
<1>1. UNCHANGED <<cell, pc, top, lost>>
  BY OthersSteady
<1>2. \A f \in Evaluator : phase[f] = "notify" => phase'[f] = "notify"
  BY OthersHandshake
<1> QED
  BY <1>1, <1>2, ComesSame

LEMMA OthersLock ==
  ASSUME \/ \E w \in Worker : LoopStep(w)
         \/ \E f \in Flusher : Flushes(f)
         \/ OtherStep
  PROVE  lock' = lock
<1>1. ASSUME NEW w \in Worker, LoopStep(w) PROVE lock' = lock
  BY <1>1 DEF LoopStep, ResumeReady, StartItem, QuitOrSleep, WakeUp, SpuriousWakeUp, waitVars
<1>2. ASSUME NEW f \in Flusher, Flushes(f) PROVE lock' = lock
  BY <1>2 DEF Flushes, FlushStep, FlushDomain, EnqueueFiber
<1> QED
  BY <1>1, <1>2, OtherStill

LEMMA OthersSwitch ==
  ASSUME EvalType, PlaceInv, PromiseInv, SwitchInv, queue \subseteq Item,
         \/ \E w \in Worker : LoopStep(w)
         \/ \E f \in Flusher : Flushes(f)
         \/ OtherStep
  PROVE  SwitchInv'
<1>1. ASSUME NEW i \in Item PROVE SwitchAt(i)'
  <2>1. Cur(i)' = Cur(i) /\ (phase'[i] = "switch" => phase[i] = "switch") /\ lock' = lock
    BY Names, OthersHandshake, OthersLock
  <2>2. SwitchAt(i)
    BY SwitchRows
  <2>3. \A v : v = Cur(i) /\ Comes(v) => Comes(v)'
    BY OthersComes
  <2> QED
    BY <2>1, <2>2, <2>3 DEF SwitchAt, Comes, FinisherComing
<1> QED
  BY <1>1, SwitchRowsNext

WaitersCome == \A v \in Value : waiters[v] # {} => Comes(v)
MainComes == phase[Main] = "cvwait" => cv \/ Comes(Cur(Main))
SleepersIdle == \A w \in Worker : sleeping[w] => ready[w] = <<>>

LEMMA WakeupParts == NoLostWakeup <=> WaitersCome /\ MainComes /\ SleepersIdle
BY DEF NoLostWakeup, WaitersCome, MainComes, SleepersIdle, Comes

LEMMA WakeupPartsNext == WaitersCome' /\ MainComes' /\ SleepersIdle' => NoLostWakeup'
BY DEF NoLostWakeup, WaitersCome, MainComes, SleepersIdle, Comes

LEMMA ActsWaiters ==
  ASSUME EvalType, StackInv, ForceInv, WaitType, SwitchInv, WaitersCome, NEW e \in Evaluator, Acts(e)
  PROVE  WaitersCome'
<1> SUFFICES ASSUME NEW v \in Value, waiters'[v] # {} PROVE Comes(v)'
  BY DEF WaitersCome
<1>1. CASE waiters' = waiters /\ ~NotifyWaiters(e)
  BY <1>1, ComesKept DEF WaitersCome
<1>2. CASE NotifyWaiters(e)
  <2>1. v # Subject(e) /\ waiters'[v] = waiters[v]
    BY <1>2 DEF NotifyWaiters, TakeWaiters
  <2> QED
    BY <2>1, ComesKept DEF WaitersCome
<1>3. CASE e \in Item /\ Register(e)
  <2>1. phase[e] = "switch" /\ ~(NotifyWaiters(e) /\ Subject(e) = v)
    BY <1>3 DEF Register, NotifyWaiters
  <2>2. waiters' = [waiters EXCEPT ![Cur(e)] = @ \cup {e}]
    BY <1>3 DEF Register
  <2>3. v = Cur(e) \/ waiters'[v] = waiters[v]
    BY <2>2 DEF WaitType
  <2>4. Comes(v)
    BY <1>3, <2>1, <2>3, SwitchRows DEF SwitchAt, WaitersCome
  <2> QED
    BY <2>1, <2>4, ComesKept
<1>4. CASE Quiet(e) \/ EnqueueWoken(e) \/ FinishFiber(e)
  <2>1. waiters' = waiters /\ phase[e] # "notify"
    BY <1>4 DEF Quiet, EnqueueWoken, EnqueueFiber, FinishFiber, ExprEnded, waitVars
  <2> QED
    BY <1>1, <2>1 DEF NotifyWaiters
<1> QED
  BY <1>2, <1>3, <1>4, ActsKinds

LEMMA ActsMainComes ==
  ASSUME EvalType, StackInv, ForceInv, WaitType, MainComes, NEW e \in Evaluator, Acts(e) PROVE MainComes'
<1> SUFFICES ASSUME phase'[Main] = "cvwait" PROVE (cv \/ Comes(Cur(Main)))'
  BY DEF MainComes
<1>1. CASE e = Main
  <2>1. WaitOnThunk(Main) \/ CvWake
    BY <1>1, Handshake
  <2>2. CASE WaitOnThunk(Main)
    <3>1. Cur(Main) \in Value
      BY <2>2, ForcedValue, Names DEF WaitOnThunk, Forcing
    <3>2. cell' = [cell EXCEPT ![Cur(Main)] = "awaited"] /\ UNCHANGED <<pc, top>>
      BY <2>2, Names DEF WaitOnThunk, WaitReturns, WaitThrows, EvalType
    <3>3. Cur(Main)' = Cur(Main) /\ cell'[Cur(Main)] = "awaited"
      BY <3>1, <3>2 DEF Cur, EvalType
    <3> QED
      BY <3>3 DEF Comes
  <2>3. CASE CvWake
    <3>1. cell[Cur(Main)] = "awaited" /\ UNCHANGED <<cell, pc, top>>
      BY <2>3, Names DEF CvWake, WaitReturns, WaitThrows, EvalType
    <3>2. Cur(Main)' = Cur(Main)
      BY <3>1 DEF Cur
    <3> QED
      BY <3>1, <3>2 DEF Comes
  <2> QED
    BY <2>1, <2>2, <2>3
<1>2. CASE e # Main
  <2>1. phase[Main] = "cvwait" /\ Cur(Main)' = Cur(Main)
    BY <1>2, Names, EvalAlone, OthersCur
  <2>2. Cur(Main) \in Value /\ Running(Main)
    BY <2>1, ForcedValue, Names DEF Forcing, ForceInv, Running
  <2>3. cv \/ Comes(Cur(Main))
    BY <2>1 DEF MainComes
  <2>4. cv' = cv \/ (NotifyWaiters(e) /\ cv' = (cv \/ MainWaitsIn(DomainOf[Subject(e)])))
    <3>1. CASE Quiet(e)
      BY <1>2, <3>1 DEF Quiet, WaitOnThunk
    <3>2. CASE EnqueueWoken(e) \/ Register(e) \/ FinishFiber(e)
      BY <3>2 DEF EnqueueWoken, EnqueueFiber, Register, FinishFiber, waitVars
    <3>3. CASE NotifyWaiters(e)
      BY <3>3 DEF NotifyWaiters
    <3> QED
      BY <3>1, <3>2, <3>3, ActsKinds
  <2>5. CASE cv
    BY <2>4, <2>5
  <2>6. CASE Comes(Cur(Main))
    <3>1. CASE NotifyWaiters(e) /\ Subject(e) = Cur(Main)
      <4>1. MainWaitsIn(DomainOf[Subject(e)])
        BY <2>1, <2>2, <3>1 DEF MainWaitsIn
      <4>2. cv'
        BY <3>1, <4>1 DEF NotifyWaiters
      <4> QED
        BY <4>2
    <3>2. CASE ~(NotifyWaiters(e) /\ Subject(e) = Cur(Main))
      <4>1. \A v \in Value : v = Cur(Main) => Comes(v)'
        BY <2>6, <3>2, ComesKept
      <4> QED
        BY <2>1, <2>2, <4>1 DEF Comes, FinisherComing
    <3> QED
      BY <3>1, <3>2
  <2> QED
    BY <2>3, <2>5, <2>6
<1> QED
  BY <1>1, <1>2

LEMMA EnqueueSleepers ==
  ASSUME SchedType, WaitType, PlaceInv, SleepersIdle, NEW a \in Actor, NEW i \in woken[a], EnqueueFiber(a, i)
  PROVE  SleepersIdle'
<1>1. i \in Item /\ home[i] \in Worker
  BY WokenHome
<1>2. /\ sleeping' = [w \in Worker |-> sleeping[w] /\ w \notin {home[i]}]
      /\ ready' = [ready EXCEPT ![home[i]] = Append(@, i)]
  BY DEF EnqueueFiber, Wake
<1> QED
  BY <1>1, <1>2 DEF SleepersIdle, SchedType

LEMMA ActsWakeup ==
  ASSUME EvalType, StackInv, ForceInv, SchedType, WaitType, PlaceInv, SwitchInv, NoLostWakeup,
         NEW e \in Evaluator, Acts(e)
  PROVE  NoLostWakeup'
<1>1. WaitersCome' /\ MainComes'
  BY ActsWaiters, ActsMainComes, WakeupParts
<1>2. CASE EnqueueWoken(e)
  <2>1. SleepersIdle'
    BY <1>2, EnqueueSleepers, WakeupParts DEF EnqueueWoken, Actor
  <2> QED
    BY <1>1, <2>1, WakeupPartsNext
<1>3. CASE Quiet(e) \/ NotifyWaiters(e) \/ Register(e) \/ FinishFiber(e)
  <2>1. UNCHANGED <<sleeping, ready>>
    BY <1>3 DEF Quiet, NotifyWaiters, Register, FinishFiber, schedVars
  <2> QED
    BY <1>1, <2>1, WakeupParts, WakeupPartsNext DEF SleepersIdle
<1> QED
  BY <1>2, <1>3, ActsKinds

LEMMA OthersWakeup ==
  ASSUME EvalType, SchedType, WaitType, PlaceInv, PromiseInv, NoLostWakeup,
         \/ \E w \in Worker : LoopStep(w)
         \/ \E f \in Flusher : Flushes(f)
         \/ OtherStep
  PROVE  NoLostWakeup'
<1>1. queue \subseteq Item
  BY DEF SchedType
<1>2. /\ \A v : Comes(v) => Comes(v)'
      /\ (phase'[Main] = "cvwait" => phase[Main] = "cvwait") /\ Cur(Main)' = Cur(Main)
  BY <1>1, Names, OthersComes, OthersHandshake
<1>3. (\A v \in Value : waiters'[v] \subseteq waiters[v]) /\ (cv => cv')
  <2>1. ASSUME NEW w \in Worker, LoopStep(w) PROVE UNCHANGED <<waiters, cv>>
    BY <2>1 DEF LoopStep, ResumeReady, StartItem, QuitOrSleep, WakeUp, SpuriousWakeUp, waitVars
  <2>2. ASSUME NEW f \in Flusher, Flushes(f) PROVE (\A v \in Value : waiters'[v] \subseteq waiters[v]) /\ (cv => cv')
    <3>1. CASE FlushDomain(f)
      <4>1. PICK d \in toFlush[f] : /\ Takes(f, {v \in Value : DomainOf[v] = d}) /\ cv' = (cv \/ MainWaitsIn(d))
        BY <3>1, FlushTakes
      <4>2. \A v \in Value : waiters'[v] \subseteq waiters[v]
        BY <4>1 DEF Takes, TakeWaiters
      <4> QED
        BY <4>1, <4>2
    <3>2. CASE \E i \in woken[f] : EnqueueFiber(f, i)
      BY <3>2 DEF EnqueueFiber
    <3> QED
      BY <2>2, <3>1, <3>2 DEF Flushes, FlushStep
  <2>3. OtherStep => UNCHANGED <<waiters, cv>>
    BY OtherStill
  <2> QED
    BY <2>1, <2>2, <2>3
<1>4. WaitersCome'
  <2> SUFFICES ASSUME NEW v \in Value, waiters'[v] # {} PROVE Comes(v)'
    BY DEF WaitersCome
  <2>1. waiters[v] # {}
    BY <1>3
  <2> QED
    BY <1>2, <2>1, WakeupParts DEF WaitersCome
<1>5. MainComes'
  <2> SUFFICES ASSUME phase'[Main] = "cvwait", ~cv' PROVE Comes(Cur(Main))'
    BY DEF MainComes
  <2>1. Comes(Cur(Main))
    BY <1>2, <1>3, WakeupParts DEF MainComes
  <2>2. \A v : v = Cur(Main) => Comes(v)'
    BY <1>2, <2>1
  <2> QED
    BY <1>2, <2>2 DEF Comes, FinisherComing
<1>6. SleepersIdle'
  <2>0. SleepersIdle
    BY WakeupParts
  <2>1. ASSUME NEW w \in Worker, LoopStep(w) PROVE SleepersIdle'
    <3>1. CASE ResumeReady(w)
      BY <2>0, <3>1 DEF ResumeReady, SleepersIdle, SchedType
    <3>2. CASE StartItem(w) \/ WakeUp(w)
      BY <2>0, <3>2 DEF StartItem, WakeUp, SleepersIdle
    <3>3. CASE QuitOrSleep(w) \/ SpuriousWakeUp(w)
      BY <2>0, <3>3 DEF QuitOrSleep, SpuriousWakeUp, SleepersIdle, SchedType
    <3> QED
      BY <2>1, <3>1, <3>2, <3>3 DEF LoopStep
  <2>2. ASSUME NEW f \in Flusher, Flushes(f) PROVE SleepersIdle'
    <3>1. CASE FlushDomain(f)
      BY <2>0, <3>1 DEF FlushDomain, schedVars, SleepersIdle
    <3>2. CASE \E i \in woken[f] : EnqueueFiber(f, i)
      BY <2>0, <3>2, EnqueueSleepers, Names DEF Actor, Flusher
    <3> QED
      BY <2>2, <3>1, <3>2 DEF Flushes, FlushStep
  <2>3. CASE OtherStep
    <3>1. ready' = ready
      BY <2>3, OtherStill
    <3>2. \A w \in Worker : sleeping'[w] => sleeping[w]
      <4>1. CASE Spawn
        BY <4>1 DEF Spawn, Wake
      <4>2. CASE WakeAll \/ CallbackDone
        BY <4>2 DEF WakeAll, CallbackDone, Wake
      <4>3. CASE MainForced \/ Destroy \/ Join \/ Interrupt \/ ClearInterrupt
        BY <4>3 DEF MainForced, Destroy, Join, Interrupt, ClearInterrupt, schedVars
      <4> QED
        BY <2>3, <4>1, <4>2, <4>3 DEF OtherStep
    <3> QED
      BY <2>0, <3>1, <3>2 DEF SleepersIdle
  <2> QED
    BY <2>1, <2>2, <2>3
<1> QED
  BY <1>4, <1>5, <1>6, WakeupPartsNext

--------------------------------------------------------------------------------
(* The destructor's flush.                                                 *)

FlushRow(v) ==
  DomainOf[v] \notin toFlush[Main] => waiters[v] = {} /\ \A i \in Item : phase[i] = "switch" => Cur(i) # v

Flushing == mainpc \in {"flush", "join", "destroyed"}

LEMMA FlushRows ==
  FlushInv <=> /\ Flushing => quit /\ \A v \in Value : FlushRow(v)
               /\ mainpc # "flush" => toFlush[Main] = {}
BY DEF FlushInv, FlushRow, Flushing

LEMMA FlushRowsNext ==
  (Flushing' => quit' /\ \A v \in Value : FlushRow(v)') /\ (mainpc' # "flush" => toFlush'[Main] = {}) => FlushInv'
BY DEF FlushInv, FlushRow, Flushing

LEMMA ActsFlush ==
  ASSUME EvalType, StackInv, ForceInv, WaitType, FlushInv, NEW e \in Evaluator, Acts(e) PROVE FlushInv'
<1>1. mainpc' = mainpc /\ (Flushing => e # Main)
  BY ActsMain DEF Flushing
<1>2. toFlush' = toFlush /\ (quit => quit')
  <2>1. CASE Quiet(e)
    BY <2>1 DEF Quiet
  <2>2. CASE EnqueueWoken(e)
    BY <2>2 DEF EnqueueWoken, EnqueueFiber, envVars
  <2>3. CASE NotifyWaiters(e) \/ Register(e)
    BY <2>3 DEF NotifyWaiters, Register, envVars
  <2>4. CASE FinishFiber(e)
    BY <2>4 DEF FinishFiber, waitVars
  <2> QED
    BY <2>1, <2>2, <2>3, <2>4, ActsKinds
<1>3. ASSUME Flushing, NEW v \in Value, DomainOf[v] \notin toFlush[Main]
      PROVE  waiters'[v] = {} /\ \A i \in Item : phase'[i] = "switch" => Cur(i)' # v
  <2>1. quit /\ waiters[v] = {} /\ \A i \in Item : phase[i] = "switch" => Cur(i) # v
    BY <1>3, FlushRows DEF FlushRow
  <2>2. waiters'[v] = {}
    <3>1. CASE Quiet(e) \/ EnqueueWoken(e) \/ FinishFiber(e)
      BY <2>1, <3>1 DEF Quiet, EnqueueWoken, EnqueueFiber, FinishFiber, waitVars
    <3>2. CASE NotifyWaiters(e)
      BY <2>1, <3>2 DEF NotifyWaiters, TakeWaiters
    <3>3. CASE e \in Item /\ Register(e)
      <4>1. Cur(e) # v /\ waiters' = [waiters EXCEPT ![Cur(e)] = @ \cup {e}]
        BY <2>1, <3>3 DEF Register
      <4> QED
        BY <2>1, <4>1 DEF WaitType
    <3> QED
      BY <3>1, <3>2, <3>3, ActsKinds
  <2>3. ASSUME NEW i \in Item, phase'[i] = "switch" PROVE Cur(i)' # v
    <3>1. CASE i # e
      <4>1. phase[i] = "switch" /\ Cur(i)' = Cur(i)
        BY <2>3, <3>1, Names, EvalAlone, OthersCur
      <4> QED
        BY <2>1, <4>1
    <3>2. CASE i = e
      <4>1. WaitOnThunk(e) /\ ShutdownGuard(e)
        BY <1>1, <1>3, <2>1, <2>3, <3>2, Handshake DEF ShutdownGuard, MustUnwind
      <4>2. phase'[e] # "switch"
        BY <4>1 DEF WaitOnThunk, WaitReturns, WaitThrows, EvalType
      <4> QED
        BY <2>3, <3>2, <4>2
    <3> QED
      BY <3>1, <3>2
  <2> QED
    BY <2>2, <2>3
<1>4. Flushing' => Flushing
  BY <1>1 DEF Flushing
<1>5. Flushing' => quit' /\ \A v \in Value : FlushRow(v)'
  BY <1>2, <1>3, <1>4, FlushRows DEF FlushRow
<1> QED
  BY <1>1, <1>2, <1>5, FlushRows, FlushRowsNext

(* Steps that register nothing and leave the destructor where it is.       *)
LEMMA FlushKept ==
  ASSUME FlushInv, Flushing' => Flushing, quit => quit', toFlush'[Main] = toFlush[Main],
         mainpc' # "flush" => toFlush[Main] = {},
         \A v \in Value : waiters'[v] \subseteq waiters[v],
         \A i \in Item : Cur(i)' = Cur(i) /\ (phase'[i] = "switch" => phase[i] = "switch")
  PROVE  FlushInv'
<1>1. ASSUME Flushing', NEW v \in Value PROVE FlushRow(v)'
  <2>1. FlushRow(v)
    BY <1>1, FlushRows
  <2> QED
    BY <2>1 DEF FlushRow
<1> QED
  BY <1>1, FlushRows, FlushRowsNext

LEMMA OthersFlush ==
  ASSUME EvalType, ForceInv, SchedType, WaitType, PlaceInv, PromiseInv, SwitchInv, FlushInv,
         \/ \E w \in Worker : LoopStep(w)
         \/ \E f \in Flusher : Flushes(f)
         \/ OtherStep
  PROVE  FlushInv'
<1>1. queue \subseteq Item
  BY DEF SchedType
<1>2. \A i \in Item : Cur(i)' = Cur(i) /\ (phase'[i] = "switch" => phase[i] = "switch")
  BY <1>1, Names, OthersHandshake
<1>3. ASSUME NEW w \in Worker, LoopStep(w) PROVE FlushInv'
  <2>1. UNCHANGED <<waiters, toFlush, mainpc, quit>>
    BY <1>3 DEF LoopStep, ResumeReady, StartItem, QuitOrSleep, WakeUp, SpuriousWakeUp, waitVars, envVars
  <2> QED
    BY <1>2, <2>1, FlushKept, FlushRows DEF Flushing
<1>4. ASSUME NEW f \in Flusher, Flushes(f), \E i \in woken[f] : EnqueueFiber(f, i) PROVE FlushInv'
  <2>1. UNCHANGED <<waiters, toFlush, mainpc, quit>>
    BY <1>4 DEF EnqueueFiber, envVars
  <2> QED
    BY <1>2, <2>1, FlushKept, FlushRows DEF Flushing
<1>5. ASSUME NEW f \in Flusher, Flushes(f), FlushDomain(f) PROVE FlushInv'
  <2>1. PICK d \in toFlush[f] : /\ lock[d] = NoOne /\ Takes(f, {v \in Value : DomainOf[v] = d})
                                /\ toFlush' = [toFlush EXCEPT ![f] = @ \ {d}]
    BY <1>5, FlushTakes
  <2>2. UNCHANGED <<mainpc, quit>> /\ waiters' = [v \in Value |-> IF DomainOf[v] = d THEN {} ELSE waiters[v]]
    BY <2>1 DEF Takes, TakeWaiters
  <2>3. \A v \in Value : waiters'[v] \subseteq waiters[v]
    BY <2>2
  <2>4. CASE f = Main
    <3>1. mainpc = "flush" /\ toFlush'[Main] = toFlush[Main] \ {d}
      BY <1>5, <2>1, <2>4 DEF Flushes, WaitType, Flusher
    <3>2. ASSUME NEW v \in Value PROVE FlushRow(v)'
      <4>1. FlushRow(v) /\ quit
        BY <3>1, FlushRows DEF Flushing
      <4>2. CASE DomainOf[v] # d
        BY <1>2, <2>3, <3>1, <4>1, <4>2 DEF FlushRow
      <4>3. CASE DomainOf[v] = d
        <5>1. waiters'[v] = {}
          BY <2>2, <4>3
        <5>2. \A i \in Item : phase[i] = "switch" => Cur(i) # v
          BY <2>1, <4>3, Names, SwitchRows DEF SwitchAt
        <5> QED
          BY <1>2, <5>1, <5>2 DEF FlushRow
      <4> QED
        BY <4>2, <4>3
    <3> QED
      BY <2>2, <3>1, <3>2, FlushRows, FlushRowsNext DEF Flushing
  <2>5. CASE f # Main
    <3>1. toFlush'[Main] = toFlush[Main]
      BY <2>1, <2>5 DEF WaitType, Flusher
    <3> QED
      BY <1>2, <2>2, <2>3, <3>1, FlushKept, FlushRows DEF Flushing
  <2> QED
    BY <2>4, <2>5
<1>6. CASE OtherStep
  <2>1. waiters' = waiters
    BY <1>6, OtherStill
  <2>2. CASE Destroy
    <3>1. mainpc' = "flush" /\ quit' /\ toFlush'[Main] = Domain
      BY <2>2 DEF Destroy, WaitType, Flusher
    <3>2. \A v \in Value : FlushRow(v)'
      BY <3>1, ExecutorAssumption DEF FlushRow
    <3> QED
      BY <3>1, <3>2, FlushRowsNext
  <2>3. CASE Spawn \/ MainForced \/ WakeAll \/ Join \/ Interrupt \/ CallbackDone \/ ClearInterrupt
    <3>1. quit' = quit /\ (Flushing' => Flushing)
      BY <2>3 DEF Spawn, MainForced, WakeAll, Join, Interrupt, CallbackDone, ClearInterrupt, Flushing, envVars
    <3>2. toFlush'[Main] = toFlush[Main]
      BY <2>3, Names DEF Spawn, MainForced, WakeAll, Join, Interrupt, CallbackDone, ClearInterrupt, waitVars,
                         WaitType, Flusher
    <3>3. mainpc' # "flush" => toFlush[Main] = {}
      BY <2>3, FlushRows DEF Spawn, MainForced, WakeAll, Join, Interrupt, CallbackDone, ClearInterrupt, Flushed, envVars
    <3> QED
      BY <1>2, <2>1, <3>1, <3>2, <3>3, FlushKept
  <2> QED
    BY <1>6, <2>2, <2>3 DEF OtherStep
<1> QED
  BY <1>3, <1>4, <1>5, <1>6 DEF Flushes, FlushStep

--------------------------------------------------------------------------------
(* A fiber that was taken from a wait list has a reason to run, as long as *)
(* nobody resets the interrupt flag.                                       *)

ReasonAt(i) == phase[i] = "suspended" /\ ~Parked(i) => MustUnwind(i) \/ cell[Cur(i)] \in Finished

LEMMA ReasonRows == ReasonInv <=> (toFlush[Signal] # {} => interrupted) /\ \A i \in Item : ReasonAt(i)
BY DEF ReasonInv, ReasonAt

LEMMA ReasonRowsNext == (toFlush'[Signal] # {} => interrupted') /\ (\A i \in Item : ReasonAt(i)') => ReasonInv'
BY DEF ReasonInv, ReasonAt

LEMMA SuspendedValue ==
  ASSUME EvalType, ForceInv, NEW i \in Item, phase[i] = "suspended" PROVE i \in Evaluator /\ Cur(i) \in Value
<1>1. i \in Evaluator
  BY Names
<1>2. Forcing(i)
  BY DEF Forcing
<1> QED
  BY <1>1, <1>2, ForcedValue

LEMMA ActsFlags ==
  ASSUME EvalType, NEW e \in Evaluator, Acts(e)
  PROVE  UNCHANGED <<toFlush, interrupted>> /\ (quit => quit')
<1>1. CASE Quiet(e)
  BY <1>1 DEF Quiet
<1>2. CASE EnqueueWoken(e)
  BY <1>2 DEF EnqueueWoken, EnqueueFiber, envVars
<1>3. CASE NotifyWaiters(e) \/ Register(e)
  BY <1>3 DEF NotifyWaiters, Register, envVars
<1>4. CASE FinishFiber(e)
  BY <1>4 DEF FinishFiber, waitVars
<1> QED
  BY <1>1, <1>2, <1>3, <1>4, ActsKinds

LEMMA ActsReason ==
  ASSUME EvalType, StackInv, ForceInv, WaitType, QueueInv, PlaceInv, ReasonInv, NEW e \in Evaluator, Acts(e)
  PROVE  ReasonInv'
<1>0. UNCHANGED <<toFlush, interrupted>> /\ (quit => quit')
  BY ActsFlags
<1>1. ASSUME NEW i \in Item, i # e, phase'[i] = "suspended", ~Parked(i)' PROVE MustUnwind(i)' \/ cell'[Cur(i)'] \in Finished
  <2>1. i \in Evaluator /\ phase[i] = "suspended" /\ Cur(i)' = Cur(i)
    BY <1>1, Names, EvalAlone, OthersCur
  <2>2. Cur(i) \in Value
    BY <2>1, SuspendedValue
  <2>3. CASE ~Parked(i)
    <3>1. MustUnwind(i) \/ cell[Cur(i)] \in Finished
      BY <2>1, <2>3, ReasonRows DEF ReasonAt
    <3>2. MustUnwind(i) => MustUnwind(i)'
      BY <1>0 DEF MustUnwind
    <3>3. cell[Cur(i)] \in Finished => cell'[Cur(i)] \in Finished
      BY <2>2, ActsCells DEF CellsGrow
    <3> QED
      BY <2>1, <3>1, <3>2, <3>3
  <2>4. CASE Parked(i)
    <3>1. PICK v \in Value : i \in waiters[v] /\ i \notin waiters'[v]
      BY <1>1, <2>4 DEF Parked
    <3>2. v = Cur(i)
      BY <3>1, Rows DEF WaitsAt
    <3>3. NotifyWaiters(e) /\ Subject(e) = v
      <4>1. CASE Quiet(e) \/ EnqueueWoken(e) \/ FinishFiber(e)
        BY <3>1, <4>1 DEF Quiet, EnqueueWoken, EnqueueFiber, FinishFiber, waitVars
      <4>2. CASE NotifyWaiters(e)
        BY <3>1, <4>2 DEF NotifyWaiters, TakeWaiters
      <4>3. CASE Register(e)
        BY <3>1, <4>3 DEF Register, WaitType
      <4> QED
        BY <4>1, <4>2, <4>3, ActsKinds
    <3>4. cell[v] \in Finished /\ cell' = cell
      BY <3>3 DEF NotifyWaiters, ForceInv
    <3> QED
      BY <2>1, <3>2, <3>4
  <2> QED
    BY <2>3, <2>4
<1>2. ASSUME e \in Item, phase'[e] = "suspended" PROVE Parked(e)'
  <2>1. Register(e) /\ phase[e] = "switch"
    BY <1>2, Handshake DEF Register
  <2>2. Cur(e) \in Value
    BY <2>1, ForcedValue DEF Forcing
  <2>3. e \in waiters'[Cur(e)]
    BY <2>1, <2>2 DEF Register, WaitType
  <2> QED
    BY <2>2, <2>3 DEF Parked
<1>3. ASSUME NEW i \in Item PROVE ReasonAt(i)'
  BY <1>1, <1>2 DEF ReasonAt
<1> QED
  BY <1>0, <1>3, ReasonRows, ReasonRowsNext

LEMMA ReasonKept ==
  ASSUME ReasonInv, UNCHANGED <<cell, waiters>>,
         \A i \in Item : Cur(i)' = Cur(i) /\ (phase'[i] = "suspended" => phase[i] = "suspended"),
         quit => quit', interrupted => interrupted', toFlush'[Signal] # {} => interrupted'
  PROVE  ReasonInv'
<1>1. ASSUME NEW i \in Item PROVE ReasonAt(i)'
  <2>1. ReasonAt(i) /\ (Parked(i)' <=> Parked(i))
    BY ReasonRows, ParkedSame
  <2>2. MustUnwind(i) => MustUnwind(i)'
    BY DEF MustUnwind
  <2> QED
    BY <2>1, <2>2 DEF ReasonAt
<1> QED
  BY <1>1, ReasonRowsNext

LEMMA OthersReason ==
  ASSUME Clears = FALSE, EvalType, ForceInv, SchedType, WaitType, QueueInv, PlaceInv, PromiseInv, FlushInv, ReasonInv,
         \/ \E w \in Worker : LoopStep(w)
         \/ \E f \in Flusher : Flushes(f)
         \/ OtherStep
  PROVE  ReasonInv'
<1>1. queue \subseteq Item
  BY DEF SchedType
<1>2. \A i \in Item : Cur(i)' = Cur(i) /\ (phase'[i] = "suspended" => phase[i] = "suspended")
  BY <1>1, Names, OthersHandshake
<1>3. ASSUME NEW w \in Worker, LoopStep(w) PROVE ReasonInv'
  <2>1. UNCHANGED <<waiters, toFlush, interrupted, quit>>
    BY <1>3 DEF LoopStep, ResumeReady, StartItem, QuitOrSleep, WakeUp, SpuriousWakeUp, waitVars, envVars
  <2> QED
    BY <1>2, <2>1, OthersSteady, ReasonKept, ReasonRows
<1>4. ASSUME NEW f \in Flusher, Flushes(f), \E i \in woken[f] : EnqueueFiber(f, i) PROVE ReasonInv'
  <2>1. UNCHANGED <<waiters, toFlush, interrupted, quit>>
    BY <1>4 DEF EnqueueFiber, envVars
  <2> QED
    BY <1>2, <2>1, OthersSteady, ReasonKept, ReasonRows
<1>5. ASSUME NEW f \in Flusher, Flushes(f), FlushDomain(f) PROVE ReasonInv'
  <2>1. PICK d \in toFlush[f] : /\ Takes(f, {v \in Value : DomainOf[v] = d})
                                /\ toFlush' = [toFlush EXCEPT ![f] = @ \ {d}]
    BY <1>5, FlushTakes
  <2>2. UNCHANGED <<cell, quit, interrupted>>
    BY <2>1 DEF Takes
  <2>3. \A i \in Item : MustUnwind(i)
    <3>1. CASE f = Signal
      BY <2>1, <3>1, ReasonRows DEF MustUnwind
    <3>2. CASE f = Main
      BY <1>5, <3>2, Names DEF Flushes, FlushInv, MustUnwind
    <3> QED
      BY <3>1, <3>2 DEF Flusher
  <2>4. \A i \in Item : MustUnwind(i)'
    BY <2>2, <2>3 DEF MustUnwind
  <2>5. toFlush'[Signal] # {} => interrupted
    BY <2>1, ReasonRows DEF WaitType
  <2> QED
    BY <2>2, <2>4, <2>5, ReasonRowsNext DEF ReasonAt
<1>6. CASE OtherStep
  <2>1. UNCHANGED <<cell, waiters>>
    BY <1>6, OtherStill
  <2>2. CASE Destroy
    <3>1. quit' /\ interrupted' = interrupted /\ toFlush'[Signal] = toFlush[Signal]
      BY <2>2, Names DEF Destroy, WaitType, Flusher
    <3> QED
      BY <1>2, <2>1, <3>1, ReasonKept, ReasonRows
  <2>3. CASE Interrupt
    <3>1. quit' = quit /\ interrupted'
      BY <2>3 DEF Interrupt
    <3> QED
      BY <1>2, <2>1, <3>1, ReasonKept
  <2>4. CASE Spawn \/ MainForced \/ WakeAll \/ Join \/ CallbackDone
    <3>1. UNCHANGED <<quit, interrupted, toFlush>>
      BY <2>4 DEF Spawn, MainForced, WakeAll, Join, CallbackDone, waitVars, envVars
    <3> QED
      BY <1>2, <2>1, <3>1, ReasonKept, ReasonRows
  <2>5. ~ClearInterrupt
    BY DEF ClearInterrupt
  <2> QED
    BY <1>6, <2>2, <2>3, <2>4, <2>5 DEF OtherStep
<1> QED
  BY <1>3, <1>4, <1>5, <1>6 DEF Flushes, FlushStep

--------------------------------------------------------------------------------
(* The theorems.                                                           *)

(* Everything together.                                                    *)
Inv ==
  /\ EvalType /\ SchedType /\ WaitType /\ EnvType /\ HomeReady
  /\ StackInv /\ ForceInv /\ QueueInv /\ PlaceInv /\ SlotsInv /\ PromiseInv
  /\ SwitchInv /\ NoLostWakeup /\ FlushInv

LEMMA InitTypes ==
  ASSUME Init PROVE EvalType /\ SchedType /\ WaitType /\ EnvType /\ HomeReady
<1>1. EvalType
  BY Names DEF Init, EvalType, Finished, Failed
<1>2. SchedType
  BY DEF Init, SchedType
<1>3. WaitType
  BY DEF Init, WaitType
<1>4. EnvType
  <2>1. MaxInterrupts \in Nat /\ Len(Batches) \in Nat
    BY ExecutorAssumption
  <2>2. 0 \in 0..MaxInterrupts /\ 0 \in 0..Len(Batches)
    BY <2>1
  <2>3. quit = FALSE /\ interrupted = FALSE /\ interrupts = 0 /\ mainpc = "spawn" /\ spawned = 0
    BY DEF Init
  <2> QED
    BY <2>2, <2>3 DEF EnvType
<1>5. HomeReady
  BY DEF Init, HomeReady
<1> QED
  BY <1>1, <1>2, <1>3, <1>4, <1>5

LEMMA InitInv == ASSUME Init PROVE Inv
<1>1. EvalType /\ SchedType /\ WaitType /\ EnvType /\ HomeReady
  BY InitTypes
<1>2. \A e \in Evaluator : phase[e] = "eval" /\ ~lost[e] /\ top[e] = e
  BY DEF Init
<1>3. StackInv
  BY DEF Init, StackInv, Owns
<1>4. ForceInv
  BY <1>2 DEF ForceInv, Forcing
<1>5. /\ \A i \in Item : ~Ready(i) /\ ~Parked(i) /\ ~Woken(i) /\ home[i] = NoOne /\ ~Running(i) /\ ~Live(i)
      /\ \A i \in Item : phase[i] = "eval"
  BY Names DEF Init, Ready, Parked, Woken, Running, Live
<1>6. QueueInv
  BY DEF Init, QueueInv
<1>7. PlaceInv
  BY <1>5 DEF PlaceInv
<1>8. SlotsInv
  <2>1. ASSUME NEW w \in Worker PROVE SlotAt(w)
    <3>1. Fibers(w) = {}
      BY <1>5, Names DEF Fibers
    <3>2. live[w] = 0 /\ finished[w] = FALSE /\ wstate[w] = "loop"
      BY DEF Init
    <3>3. Cardinality(Fibers(w)) = 0 /\ MaxFibers \in Nat
      BY <3>1, FS_EmptySet, ExecutorAssumption
    <3> QED
      BY <3>2, <3>3 DEF SlotAt
  <2> QED
    BY <2>1, SlotRows
<1>9. PromiseInv
  <2>1. \A i \in Item : PromiseAt(i)
    BY <1>5 DEF Init, PromiseAt
  <2>2. BatchInv
    BY BatchItem, ExecutorAssumption DEF Init, BatchInv
  <2> QED
    BY <2>1, <2>2, PromiseRows DEF EndInv, Init
<1>10. SwitchInv
  BY <1>5 DEF SwitchInv
<1>11. NoLostWakeup
  BY <1>2, Names DEF Init, NoLostWakeup
<1>12. FlushInv
  BY DEF Init, FlushInv, Flusher
<1> QED
  BY <1>1, <1>3, <1>4, <1>6, <1>7, <1>8, <1>9, <1>10, <1>11, <1>12 DEF Inv

LEMMA StutterInv == ASSUME Inv, UNCHANGED vars PROVE Inv' /\ Once
<1> USE DEF vars, evalVars, schedVars, waitVars, envVars
<1>1. EvalType' /\ SchedType' /\ WaitType' /\ EnvType' /\ HomeReady'
  BY DEF Inv, EvalType, SchedType, WaitType, EnvType, HomeReady
<1>2. StackInv'
  BY DEF Inv, StackInv, Owns
<1>3. \A e \in Evaluator : Cur(e)' = Cur(e) /\ Subject(e)' = Subject(e)
  BY DEF Cur, Subject
<1>4. ForceInv'
  BY <1>3 DEF Inv, ForceInv, Forcing
<1>5. QueueInv' /\ PlaceInv'
  BY StillPlaces DEF Inv, Still
<1>6. SlotsInv'
  BY FibersSame, SlotRows, SlotKept, SlotRowsNext DEF Inv
<1>7. PromiseInv' /\ Once
  BY PromiseKept DEF Inv, Leaves
<1>8. \A v : Comes(v) => Comes(v)'
  BY ComesSame
<1>9. SwitchInv'
  <2>1. \A i \in Item : SwitchAt(i)'
    BY <1>3, <1>8, SwitchRows, Names DEF Inv, SwitchAt, Comes, FinisherComing
  <2> QED
    BY <2>1, SwitchRowsNext
<1>10. NoLostWakeup'
  <2>1. WaitersCome' /\ SleepersIdle'
    BY <1>8, WakeupParts DEF Inv, WaitersCome, SleepersIdle
  <2>2. MainComes'
    BY <1>3, <1>8, WakeupParts, Names DEF Inv, MainComes, Comes, FinisherComing
  <2> QED
    BY <2>1, <2>2, WakeupPartsNext
<1>11. FlushInv'
  BY <1>3, FlushKept, FlushRows, Names DEF Inv, Flushing
<1> QED
  BY <1>1, <1>2, <1>4, <1>5, <1>6, <1>7, <1>9, <1>10, <1>11 DEF Inv

LEMMA NextInv == ASSUME Inv, [Next]_vars PROVE Inv' /\ Once
<1>0. FiberAccounting /\ queue \subseteq Item
  BY DEF Inv, SlotsInv, SchedType
<1>1. ASSUME NEW e \in Evaluator, Acts(e) PROVE Inv' /\ Once
  BY <1>1, ActsEvalType, ActsStackInv, ActsForceInv, ActsTypes, ActsPlaces, ActsSlots, ActsPromise,
     ActsSwitch, ActsWakeup, ActsFlush DEF Inv
<1>2. ASSUME NEW w \in Worker, LoopStep(w) PROVE Inv' /\ Once
  BY <1>0, <1>2, OthersEval, LoopTypes, LoopPlaces, LoopSlots, LoopPromise, OthersSwitch, OthersWakeup,
     OthersFlush DEF Inv
<1>3. ASSUME NEW f \in Flusher, Flushes(f) PROVE Inv' /\ Once
  BY <1>0, <1>3, OthersEval, FlushTypes, FlushPlaces, FlushSlots, FlushPromise, OthersSwitch, OthersWakeup,
     OthersFlush DEF Inv
<1>4. CASE OtherStep
  BY <1>0, <1>4, OthersEval, OtherTypes, OtherPlaces, OtherSlots, OtherPromise, OthersSwitch, OthersWakeup,
     OthersFlush DEF Inv
<1>5. CASE UNCHANGED vars
  BY <1>5, StutterInv
<1>6. QueueInv
  BY DEF Inv
<1> QED
  BY <1>1, <1>2, <1>3, <1>4, <1>5, <1>6, NextSteps

(* A live fiber has exactly one place: the disjuncts of PlaceInv exclude   *)
(* each other, and each names one member of Places.                        *)
LEMMA PlacesOne ==
  ASSUME Inv, NEW w \in Worker, NEW i \in Fibers(w) PROVE Cardinality(Places(i)) = 1
<1>1. i \in Item /\ home[i] = w /\ Live(i)
  BY Names DEF Fibers, Live
<1>2. PlaceAt(i) /\ WaitsAt(i) /\ WokenAt(i) /\ Distinct(ready[w])
  BY <1>1, Rows DEF Inv
<1>3. \A k \in DOMAIN ready[w] : ready[w][k] = i => Ready(i)
  BY DEF Ready
<1>4. \A u \in Worker : wstate[u] = "run" /\ cur[u] = i => u = w /\ Running(i)
  BY <1>1, Names, Rows DEF Inv, RunAt, Running
<1>5. \A v \in Value : i \in waiters[v] => Parked(i)
  BY DEF Parked
<1>6. \A a \in DOMAIN woken : i \in woken[a] => Woken(i)
  BY DEF Woken
<1>7. ASSUME NEW x, Places(i) = {x} PROVE Cardinality(Places(i)) = 1
  BY <1>7, FS_Singleton
<1>8. CASE Running(i)
  <2>1. ~Ready(i) /\ ~Parked(i) /\ ~Woken(i) /\ wstate[w] = "run" /\ cur[w] = i
    BY <1>1, <1>2, <1>8, Names DEF PlaceAt, Running
  <2>2. Places(i) = {<<"run", w>>}
    BY <1>1, <1>3, <1>4, <1>5, <1>6, <2>1 DEF Places
  <2> QED
    BY <1>7, <2>2
<1>9. CASE Ready(i)
  <2>1. ~Running(i) /\ ~Parked(i) /\ ~Woken(i)
    BY <1>2, <1>9 DEF PlaceAt
  <2>2. PICK k \in DOMAIN ready[w] : ready[w][k] = i
    BY <1>1, <1>9 DEF Ready, Inv, HomeReady
  <2>3. \A j \in DOMAIN ready[w] : ready[w][j] = i => j = k
    BY <1>2, <2>2 DEF Distinct
  <2>4. Places(i) = {<<"ready", k>>}
    BY <1>1, <1>4, <1>5, <1>6, <2>1, <2>2, <2>3 DEF Places
  <2> QED
    BY <1>7, <2>4
<1>10. CASE Parked(i)
  <2>1. ~Running(i) /\ ~Ready(i) /\ ~Woken(i)
    BY <1>2, <1>10 DEF PlaceAt
  <2>2. PICK v \in Value : i \in waiters[v]
    BY <1>10 DEF Parked
  <2>3. \A u \in Value : i \in waiters[u] => u = v
    BY <1>2, <2>2 DEF WaitsAt
  <2>4. Places(i) = {<<"waiting", v>>}
    BY <1>1, <1>3, <1>4, <1>6, <2>1, <2>2, <2>3 DEF Places
  <2> QED
    BY <1>7, <2>4
<1>11. CASE Woken(i)
  <2>1. ~Running(i) /\ ~Ready(i) /\ ~Parked(i)
    BY <1>2, <1>11 DEF PlaceAt
  <2>2. PICK a \in DOMAIN woken : i \in woken[a]
    BY <1>11 DEF Woken
  <2>3. \A b \in DOMAIN woken : i \in woken[b] => b = a
    BY <1>2, <2>2 DEF WokenAt
  <2>4. Places(i) = {<<"woken", a>>}
    BY <1>1, <1>3, <1>4, <1>5, <2>1, <2>2, <2>3 DEF Places
  <2> QED
    BY <1>7, <2>4
<1> QED
  BY <1>1, <1>2, <1>8, <1>9, <1>10, <1>11 DEF PlaceAt

LEMMA InvNotStranded == ASSUME Inv PROVE NotStranded
<1> SUFFICES ASSUME mainpc \in {"join", "destroyed"}
             PROVE  (\A v \in Value : waiters[v] = {}) /\ \A i \in Item : phase[i] # "switch"
  BY DEF NotStranded
<1>1. toFlush[Main] = {} /\ \A v \in Value : waiters[v] = {} /\ \A i \in Item : phase[i] = "switch" => Cur(i) # v
  BY DEF Inv, FlushInv
<1>2. ASSUME NEW i \in Item, phase[i] = "switch" PROVE Cur(i) \in Value
  BY <1>2, ForcedValue, Names DEF Inv, Forcing
<1> QED
  BY <1>1, <1>2

LEMMA InvAllAnswered == ASSUME Inv PROVE AllAnswered
<1> SUFFICES ASSUME mainpc = "destroyed", NEW k \in 1..spawned, NEW i \in Batches[k] PROVE promise[i] \in Finished
  BY DEF AllAnswered
<1>1. k \in DOMAIN Batches /\ ~(k > spawned)
  BY ExecutorAssumption DEF Inv, EnvType
<1>2. i \in Item
  BY <1>1, BatchItem
<1>3. promise[i] # "none" /\ PromiseAt(i) /\ queue = {} /\ \A w \in Worker : wstate[w] = "exited"
  BY <1>1, <1>2, PromiseRows DEF Inv, BatchInv, EndInv
<1>4. ~Live(i)
  <2>1. SUFFICES ASSUME Live(i) PROVE FALSE
    OBVIOUS
  <2>2. home[i] \in Worker /\ i \in Fibers(home[i])
    BY <1>2, <2>1 DEF Inv, SchedType, Live, Fibers
  <2> QED
    BY <1>3, <2>2 DEF Inv, SlotsInv, ExitClean
<1>5. promise[i] # "waiting" /\ promise[i] \in {"none", "waiting"} \cup Finished
  BY <1>2, <1>3, <1>4 DEF PromiseAt, Inv, EvalType
<1> QED
  BY <1>3, <1>5

(* The inductive invariant.                                                *)
THEOREM InvariantHolds == Spec => []Inv
<1>1. Init => Inv
  BY InitInv
<1>2. Inv /\ [Next]_vars => Inv'
  BY NextInv
<1> QED
  BY <1>1, <1>2, PTL DEF Spec

(* Type correctness; no fiber is on the ready queue of another worker.     *)
THEOREM TypeCorrect == Spec => []TypeOK
<1>1. Inv => TypeOK
  BY DEF Inv, TypeOK
<1> QED
  BY <1>1, InvariantHolds, PTL

(* A worker's count of fibers is right, and within the limit.              *)
THEOREM FibersCounted == Spec => []FiberAccounting
<1>1. Inv => FiberAccounting
  BY DEF Inv, SlotsInv
<1> QED
  BY <1>1, InvariantHolds, PTL

(* Every live fiber is in exactly one place.                               *)
THEOREM FiberInOnePlace == Spec => []OnePlace
<1>1. Inv => OnePlace
  BY PlacesOne DEF OnePlace
<1> QED
  BY <1>1, InvariantHolds, PTL

(* No wakeup is lost between the exchange of p0 and the wait lists.        *)
THEOREM WakeupsNotLost == Spec => []NoLostWakeup
<1>1. Inv => NoLostWakeup
  BY DEF Inv
<1> QED
  BY <1>1, InvariantHolds, PTL

(* No fiber is left in a wait list that the destructor has flushed.        *)
THEOREM NobodyStranded == Spec => []NotStranded
<1>1. Inv => NotStranded
  BY InvNotStranded
<1> QED
  BY <1>1, InvariantHolds, PTL

(* A worker that left owns no fiber.                                       *)
THEOREM WorkersExitClean == Spec => []ExitClean
<1>1. Inv => ExitClean
  BY DEF Inv, SlotsInv
<1> QED
  BY <1>1, InvariantHolds, PTL

(* Once the executor is gone, every promise was answered.                  *)
THEOREM PromisesAnswered == Spec => []AllAnswered
<1>1. Inv => AllAnswered
  BY InvAllAnswered
<1> QED
  BY <1>1, InvariantHolds, PTL

(* No promise is answered twice.                                           *)
THEOREM AnsweredOnce == Spec => PromisesOnce
<1>1. Inv /\ [Next]_vars => [Once]_vars
  BY NextInv
<1>2. [Once]_vars => [\A i \in Item : promise[i] \in Finished => promise'[i] = promise[i]]_vars
  BY DEF Once
<1> QED
  BY <1>1, <1>2, InvariantHolds, PTL DEF Spec, PromisesOnce

(* A resumed fiber that need not unwind finds its value finished, as long  *)
(* as the interrupt flag is not reset between its wakeup and its run.      *)
THEOREM WakeupsHaveReason ==
  ASSUME Clears = FALSE PROVE Spec => []WakeupFinished
<1>1. Init => Inv /\ ReasonInv
  <2>1. Init => ReasonInv
    BY Names DEF Init, ReasonInv, Flusher
  <2> QED
    BY <2>1, InitInv
<1>2. Inv /\ ReasonInv /\ [Next]_vars => (Inv /\ ReasonInv)'
  <2> SUFFICES ASSUME Inv, ReasonInv, [Next]_vars PROVE ReasonInv'
    BY NextInv
  <2>1. ASSUME NEW e \in Evaluator, Acts(e) PROVE ReasonInv'
    BY <2>1, ActsReason DEF Inv
  <2>2. ASSUME \/ \E w \in Worker : LoopStep(w)
               \/ \E f \in Flusher : Flushes(f)
               \/ OtherStep
        PROVE  ReasonInv'
    BY <2>2, OthersReason DEF Inv
  <2>3. CASE UNCHANGED vars
    <3>1. \A i \in Item : Cur(i)' = Cur(i)
      BY <2>3 DEF vars, evalVars, Cur
    <3> QED
      BY <2>3, <3>1, ReasonKept, ReasonRows DEF vars, evalVars, waitVars, envVars
  <2>4. QueueInv
    BY DEF Inv
  <2> QED
    BY <2>1, <2>2, <2>3, <2>4, NextSteps
<1>3. Inv /\ ReasonInv => WakeupFinished
  <2> SUFFICES ASSUME Inv, ReasonInv, NEW i \in Item, Running(i), phase[i] = "suspended", ~MustUnwind(i)
               PROVE  cell[Cur(i)] \in Finished
    BY DEF WakeupFinished
  <2>1. ~Parked(i)
    BY Rows DEF Inv, PlaceAt
  <2> QED
    BY <2>1, ReasonRows DEF ReasonAt
<1> QED
  BY <1>1, <1>2, <1>3, PTL DEF Spec

--------------------------------------------------------------------------------
(* Something can always run, when no value needs itself.  The values an    *)
(* evaluator has begun are a chain (Chained); of the evaluators that wait  *)
(* in a state where nobody can run, take the one whose value ranks lowest: *)
(* the owner of that value waits for a value that ranks lower still.       *)

Ranked(rank) ==
  /\ rank \in [Node -> Nat]
  /\ \A n \in Node : \A k \in DOMAIN Needs[n] : rank[Needs[n][k]] < rank[n]

LEMMA ForcedRank ==
  ASSUME EvalType, ForceInv, NEW rank, Ranked(rank), NEW e \in Evaluator, Forcing(e)
  PROVE  Cur(e) \in Value /\ rank[Cur(e)] < rank[top[e]]
<1>1. pc[top[e]] <= Len(Needs[top[e]]) /\ Cur(e) \in Value
  BY ForcedValue
<1>2. top[e] \in Node /\ pc[top[e]] \in Nat \ {0} /\ Needs[top[e]] \in Seq(Value)
  BY ExecutorAssumption DEF EvalType
<1>3. pc[top[e]] \in DOMAIN Needs[top[e]]
  BY <1>1, <1>2
<1> QED
  BY <1>1, <1>2, <1>3 DEF Ranked, Cur

(* The node an evaluator is in changes by winning a value, or by leaving   *)
(* one that is finished.                                                   *)
LeavesValue(e) ==
  top[e] \in Value /\ top'[e] = previous[top[e]] /\ cell'[top[e]] \in Finished

LEMMA TopSteps ==
  ASSUME EvalType, StackInv, ForceInv, NEW e \in Evaluator, Acts(e)
  PROVE  top'[e] = top[e] \/ LeavesValue(e) \/ WinCas(e)
<1> USE DEF EvalType
<1>1. CASE FinishValue(e)
  <2>1. CASE ~lost[e] /\ ~MustNotify(Subject(e))
    <3>1. Subject(e) = top[e] /\ top[e] \in Value
      BY <1>1, <2>1 DEF FinishValue, Subject, ForceInv
    <3>2. top'[e] = previous[top[e]]
      BY <1>1, <2>1, <3>1 DEF FinishValue, Pop
    <3>3. cell'[top[e]] \in Finished
      BY <1>1, <3>1, OutcomeType DEF FinishValue
    <3> QED
      BY <3>1, <3>2, <3>3 DEF LeavesValue
  <2>2. CASE lost[e] \/ MustNotify(Subject(e))
    BY <1>1, <2>2 DEF FinishValue, Pop
  <2> QED
    BY <2>1, <2>2
<1>2. CASE Notified(e)
  <2>1. CASE ~lost[e]
    <3>1. Subject(e) = top[e] /\ top[e] \in Value /\ cell[top[e]] \in Finished
      BY <1>2, <2>1 DEF Notified, Subject, ForceInv
    <3>2. top'[e] = previous[top[e]] /\ cell' = cell
      BY <1>2, <2>1 DEF Notified, Pop
    <3> QED
      BY <3>1, <3>2 DEF LeavesValue
  <2>2. CASE lost[e]
    BY <1>2, <2>2 DEF Notified, Pop
  <2> QED
    BY <2>1, <2>2
<1>3. CASE ForceFinished(e) \/ ForceUnfinished(e) \/ PollInterrupt(e) \/ LoseCas(e) \/ WaitOnThunk(e)
  BY <1>3 DEF ForceFinished, ForceUnfinished, PollInterrupt, LoseCas, WaitOnThunk
<1>4. CASE NotifyWaiters(e) \/ EnqueueWoken(e) \/ Register(e) \/ FinishFiber(e) \/ Resumed(e) \/ CvWake
  BY <1>4 DEF NotifyWaiters, EnqueueWoken, EnqueueFiber, Register, FinishFiber, Resumed, CvWake, evalVars
<1> QED
  BY <1>1, <1>2, <1>3, <1>4 DEF Acts, EvalStep, FiberStep

(* An evaluator that stops evaluating is at the root of its stack.         *)
StopsAtRoot(f) == Alive(f) => Alive(f)' \/ top[f] = f

LEMMA ActsAlive ==
  ASSUME EvalType, SchedType, StackInv, ForceInv, NEW e \in Evaluator, Acts(e), NEW f \in Evaluator
  PROVE  StopsAtRoot(f)
<1>1. mainpc' = mainpc
  BY ActsMain
<1>2. home' = home
  <2>1. Quiet(e) => home' = home
    BY DEF Quiet
  <2>2. EnqueueWoken(e) \/ NotifyWaiters(e) \/ Register(e) \/ FinishFiber(e) => home' = home
    BY DEF EnqueueWoken, EnqueueFiber, NotifyWaiters, Register, FinishFiber, schedVars
  <2> QED
    BY <2>1, <2>2, ActsKinds
<1>3. f # e => phase'[f] = phase[f]
  BY EvalAlone
<1>4. phase'[e] = "gone" => phase[e] = "gone" \/ top[e] = e
  <2>1. Quiet(e) => phase'[e] # "gone"
    BY DEF Quiet
  <2>2. EnqueueWoken(e) \/ NotifyWaiters(e) \/ Register(e) => (phase'[e] = "gone" => phase[e] = "gone")
    BY DEF EnqueueWoken, EnqueueFiber, NotifyWaiters, Register, evalVars, EvalType
  <2>3. FinishFiber(e) => top[e] = e
    BY DEF FinishFiber
  <2> QED
    BY <2>1, <2>2, <2>3, ActsKinds
<1> QED
  BY <1>1, <1>2, <1>3, <1>4, Names DEF StopsAtRoot, Alive, Live

LEMMA OthersAlive ==
  ASSUME EvalType, SchedType, PlaceInv, PromiseInv,
         \/ \E w \in Worker : LoopStep(w)
         \/ \E f \in Flusher : Flushes(f)
         \/ OtherStep,
         NEW f \in Evaluator
  PROVE  StopsAtRoot(f)
<1>1. mainpc = "force" => mainpc' = "force" \/ top[Main] = Main
  <2>1. ASSUME NEW w \in Worker, LoopStep(w) PROVE mainpc' = mainpc
    BY <2>1 DEF LoopStep, ResumeReady, StartItem, QuitOrSleep, WakeUp, SpuriousWakeUp, envVars
  <2>2. ASSUME NEW g \in Flusher, Flushes(g) PROVE mainpc' = mainpc
    BY <2>2 DEF Flushes, FlushStep, FlushDomain, EnqueueFiber, envVars
  <2>3. OtherStep => (mainpc = "force" => mainpc' = "force" \/ top[Main] = Main)
    BY DEF OtherStep, Spawn, MainForced, Destroy, WakeAll, Join, Interrupt, CallbackDone,
           ClearInterrupt, envVars
  <2> QED
    BY <2>1, <2>2, <2>3
<1>2. \A i \in Item : i \in queue => ~Live(i)
  BY DEF PromiseInv, Live
<1>3. \A i \in Item : Live(i) => phase'[i] = phase[i]
  BY <1>2, OthersPhase, Names DEF EvalType
<1>4. \A i \in Item : Live(i) => home'[i] = home[i]
  <2>1. ASSUME NEW w \in Worker, LoopStep(w), NEW i \in Item, Live(i) PROVE home'[i] = home[i]
    BY <1>2, <2>1 DEF LoopStep, ResumeReady, StartItem, QuitOrSleep, WakeUp, SpuriousWakeUp, SchedType
  <2>2. ASSUME NEW g \in Flusher, Flushes(g) PROVE home' = home
    BY <2>2 DEF Flushes, FlushStep, FlushDomain, EnqueueFiber, schedVars
  <2>3. OtherStep => home' = home
    BY DEF OtherStep, Spawn, MainForced, Destroy, WakeAll, Join, Interrupt, CallbackDone,
           ClearInterrupt, schedVars
  <2> QED
    BY <2>1, <2>2, <2>3
<1> QED
  BY <1>1, <1>3, <1>4, Names DEF StopsAtRoot, Alive, Live

(* A chain that nobody touches; one that grows; one that shrinks.          *)
LEMMA ChainKept ==
  ASSUME NEW rank, NEW e \in Evaluator, NEW T \in SUBSET Value, Ranked(rank), Chain(T, rank, e),
         top'[e] = top[e], StopsAtRoot(e),
         \A u \in T : owner'[u] = owner[u] /\ previous'[u] = previous[u] /\ cell'[u] # "thunk"
  PROVE  Chain(T, rank, e)'
<1>1. T # {} => Alive(e)'
  <2> SUFFICES ASSUME NEW u \in T, top[e] = e PROVE FALSE
    BY DEF Chain, StopsAtRoot
  <2>1. rank[e] <= rank[u] /\ rank[u] < rank[e] /\ rank[u] \in Nat /\ rank[e] \in Nat
    BY Names DEF Chain, Link, Ranked
  <2> QED
    BY <2>1
<1>2. \A u \in T : Link(T, rank, e, u)'
  BY DEF Chain, Link
<1> QED
  BY <1>1, <1>2 DEF Chain

LEMMA ChainGrows ==
  ASSUME EvalType, NEW rank, NEW e \in Evaluator, NEW T \in SUBSET Value, Ranked(rank), Chain(T, rank, e),
         NEW v \in Value, v \notin T, rank[v] < rank[top[e]], Alive(e)',
         top'[e] = v, owner'[v] = e, previous'[v] = top[e], cell'[v] # "thunk",
         \A u \in T : owner'[u] = owner[u] /\ previous'[u] = previous[u] /\ cell'[u] # "thunk"
  PROVE  Chain(T \cup {v}, rank, e)'
<1> DEFINE U == T \cup {v}
<1>1. \A n \in Node : rank[n] \in Nat
  BY DEF Ranked
<1>2. e \in Node /\ v \in Node /\ top[e] \in Node /\ \A u \in T : u \in Node /\ previous[u] \in Node
  BY Names DEF EvalType
<1>3. \A u \in T : rank[v] < rank[u] /\ rank[top[e]] <= rank[u] /\ rank[u] < rank[e]
  BY <1>1, <1>2 DEF Chain, Link
<1>4. rank[v] < rank[e]
  BY <1>1, <1>2, <1>3 DEF Chain
<1>5. \A u \in U : Link(U, rank, e, u)'
  <2>1. Link(U, rank, e, v)'
    BY <1>1, <1>2, <1>4 DEF Chain, Link
  <2>2. ASSUME NEW u \in T PROVE Link(U, rank, e, u)'
    <3>1. Link(T, rank, e, u)
      BY DEF Chain
    <3> QED
      BY <1>1, <1>2, <1>3, <3>1 DEF Link
  <2> QED
    BY <2>1, <2>2
<1>6. ASSUME NEW u \in U, NEW w \in U
      PROVE  (rank[u] = rank[w] => u = w) /\ (rank[u] < rank[w] => rank[previous'[u]] <= rank[w])
  BY <1>1, <1>2, <1>3 DEF Chain
<1> QED
  BY <1>5, <1>6 DEF Chain

LEMMA ChainShrinks ==
  ASSUME EvalType, NEW rank, NEW e \in Evaluator, NEW T \in SUBSET Value, Ranked(rank), Chain(T, rank, e),
         NEW t \in Value, top[e] = t, top'[e] = previous[t], StopsAtRoot(e),
         \A u \in T : owner'[u] = owner[u] /\ previous'[u] = previous[u] /\ cell'[u] # "thunk"
  PROVE  Chain(T \ {t}, rank, e)'
<1> DEFINE U == T \ {t}
<1>1. \A n \in Node : rank[n] \in Nat
  BY DEF Ranked
<1>2. t # e /\ t \in T
  BY Names DEF Chain
<1>3. e \in Node /\ t \in Node /\ \A u \in T : u \in Node /\ previous[u] \in Node
  BY Names DEF EvalType
<1>4. \A u \in T : Link(T, rank, e, u)
  BY DEF Chain
<1>5. previous[t] \in U \cup {e}
  BY <1>1, <1>2, <1>3, <1>4 DEF Link
<1>6. \A u \in U : rank[t] < rank[u] /\ rank[previous[t]] <= rank[u]
  BY <1>1, <1>2, <1>3, <1>4 DEF Chain, Link
<1>7. ASSUME NEW u \in U PROVE Link(U, rank, e, u)'
  <2>1. previous[u] # t
    BY <1>1, <1>3, <1>4, <1>6 DEF Link
  <2> QED
    BY <1>4, <1>6, <2>1 DEF Link
<1>8. U # {} => Alive(e)'
  BY <1>2 DEF Chain, StopsAtRoot
<1>9. \A u, w \in U : (rank[u] = rank[w] => u = w) /\ (rank[u] < rank[w] => rank[previous'[u]] <= rank[w])
  BY DEF Chain
<1> QED
  BY <1>5, <1>7, <1>8, <1>9 DEF Chain

LEMMA ActsChained ==
  ASSUME EvalType, SchedType, StackInv, ForceInv, NEW e \in Evaluator, Acts(e),
         NEW rank, Ranked(rank), Chained(rank)
  PROVE  Chained(rank)'
<1>1. PICK S \in [Evaluator -> SUBSET Value] :
        /\ \A f \in Evaluator : Chain(S[f], rank, f)
        /\ \A v \in Value : cell[v] \in {"pending", "awaited"} => v \in S[owner[v]]
  BY DEF Chained
<1>2. CellsGrow /\ \A v \in Value : cell'[v] \in {"thunk", "pending", "awaited"} \cup Finished
  BY ActsCells, CellSteps, CellMonotone
<1>3. \A f \in Evaluator : \A u \in S[f] : u \in Value /\ owner[u] = f /\ cell[u] # "thunk"
  BY <1>1 DEF Chain, Link
<1>4. \A f \in Evaluator : StopsAtRoot(f)
  BY ActsAlive
<1>5. \A f \in Evaluator : f # e => top'[f] = top[f]
  BY EvalAlone
<1>6. CASE WinCas(e)
  <2>0. Forcing(e) /\ cell[Cur(e)] = "thunk" /\ Running(e)
    BY <1>6 DEF WinCas, CasSucceeds, Forcing
  <2>1. PICK v \in Value : v = Cur(e)
    BY <2>0, ForcedRank
  <2>2. v \in Value /\ rank[v] < rank[top[e]]
    BY <2>0, <2>1, ForcedRank
  <2> DEFINE R == [S EXCEPT ![e] = @ \cup {v}]
  <2>3. \A f \in Evaluator : v \notin S[f]
    BY <1>3, <2>0, <2>1
  <2>4. /\ top'[e] = v /\ owner'[v] = e /\ previous'[v] = top[e] /\ cell'[v] = "pending"
        /\ \A u \in Value : u # v => owner'[u] = owner[u] /\ previous'[u] = previous[u] /\ cell'[u] = cell[u]
    BY <1>6, <2>1, <2>2 DEF WinCas, EvalType
  <2>5. Alive(e)'
    <3>1. mainpc' = mainpc /\ home' = home /\ phase'[e] = "eval"
      BY <1>6 DEF WinCas, schedVars, envVars, EvalType
    <3> QED
      BY <2>0, <3>1, Names DEF Alive, Live, Running
  <2>6. Chain(S[e] \cup {v}, rank, e)'
    BY <1>1, <1>3, <2>2, <2>3, <2>4, <2>5, ChainGrows
  <2>7. ASSUME NEW f \in Evaluator, f # e PROVE Chain(S[f], rank, f)'
    BY <1>1, <1>3, <1>4, <1>5, <2>3, <2>4, <2>7, ChainKept
  <2>8. R \in [Evaluator -> SUBSET Value] /\ R[e] = S[e] \cup {v} /\ \A f \in Evaluator : f # e => R[f] = S[f]
    BY <2>2
  <2>9. \A f \in Evaluator : Chain(R[f], rank, f)'
    BY <2>6, <2>7, <2>8
  <2>10. ASSUME NEW u \in Value, cell'[u] \in {"pending", "awaited"} PROVE u \in R[owner'[u]]
    <3>1. CASE u = v
      BY <2>4, <2>8, <3>1
    <3>2. CASE u # v
      <4>1. u \in S[owner[u]] /\ owner'[u] = owner[u] /\ owner[u] \in Evaluator
        BY <1>1, <2>4, <2>10, <3>2 DEF EvalType
      <4> QED
        BY <2>8, <4>1
    <3> QED
      BY <3>1, <3>2
  <2> QED
    BY <2>8, <2>9, <2>10 DEF Chained
<1>7. CASE ~WinCas(e)
  <2>1. UNCHANGED <<owner, previous>> /\ \A v \in Value : cell[v] = "thunk" => cell'[v] = "thunk"
    BY <1>7, ActsOwners
  <2>2. \A f \in Evaluator : \A u \in S[f] : owner'[u] = owner[u] /\ previous'[u] = previous[u] /\ cell'[u] # "thunk"
    BY <1>2, <1>3, <2>1 DEF CellsGrow
  <2>3. \A v \in Value : cell'[v] \in {"pending", "awaited"} => v \in S[owner'[v]]
    BY <1>1, <1>2, <2>1 DEF CellsGrow, EvalType, Finished, Failed
  <2>4. CASE top'[e] = top[e]
    <3>1. \A f \in Evaluator : Chain(S[f], rank, f)'
      BY <1>1, <1>4, <1>5, <2>2, <2>4, ChainKept
    <3> QED
      BY <2>3, <3>1 DEF Chained
  <2>5. CASE LeavesValue(e)
    <3>0. PICK t \in Value : t = top[e]
      BY <2>5 DEF LeavesValue
    <3> DEFINE R == [S EXCEPT ![e] = @ \ {t}]
    <3>1. Chain(S[e] \ {t}, rank, e)'
      BY <1>1, <1>4, <2>2, <2>5, <3>0, ChainShrinks DEF LeavesValue
    <3>2. ASSUME NEW f \in Evaluator, f # e PROVE Chain(S[f], rank, f)'
      BY <1>1, <1>4, <1>5, <2>2, <3>2, ChainKept
    <3>3. R \in [Evaluator -> SUBSET Value] /\ R[e] = S[e] \ {t} /\ \A f \in Evaluator : f # e => R[f] = S[f]
      OBVIOUS
    <3>4. \A f \in Evaluator : Chain(R[f], rank, f)'
      BY <3>1, <3>2, <3>3
    <3>5. ASSUME NEW u \in Value, cell'[u] \in {"pending", "awaited"} PROVE u \in R[owner'[u]]
      <4>1. u # t
        BY <2>5, <3>0, <3>5 DEF LeavesValue, Finished, Failed
      <4>2. u \in S[owner'[u]] /\ owner'[u] \in Evaluator
        BY <2>1, <2>3, <3>5 DEF EvalType
      <4> QED
        BY <3>3, <4>1, <4>2
    <3> QED
      BY <3>3, <3>4, <3>5 DEF Chained
  <2> QED
    BY <1>7, <2>4, <2>5, TopSteps
<1> QED
  BY <1>6, <1>7

LEMMA OthersChained ==
  ASSUME EvalType, SchedType, PlaceInv, PromiseInv, NEW rank, Ranked(rank), Chained(rank),
         \/ \E w \in Worker : LoopStep(w)
         \/ \E f \in Flusher : Flushes(f)
         \/ OtherStep
  PROVE  Chained(rank)'
<1>1. PICK S \in [Evaluator -> SUBSET Value] :
        /\ \A f \in Evaluator : Chain(S[f], rank, f)
        /\ \A v \in Value : cell[v] \in {"pending", "awaited"} => v \in S[owner[v]]
  BY DEF Chained
<1>2. UNCHANGED <<cell, owner, previous, top>>
  BY OthersSteady
<1>3. \A f \in Evaluator : StopsAtRoot(f)
  BY OthersAlive
<1>4. \A f \in Evaluator : \A u \in S[f] : cell[u] # "thunk"
  BY <1>1 DEF Chain, Link
<1>5. \A f \in Evaluator : Chain(S[f], rank, f)'
  BY <1>1, <1>2, <1>3, <1>4, ChainKept
<1> QED
  BY <1>1, <1>2, <1>5 DEF Chained

(* A nonempty set of naturals has a least element.                         *)
LEMMA LeastRank ==
  ASSUME NEW T \in SUBSET Nat, T # {}
  PROVE  \E n \in T : \A m \in T : n <= m
<1>1. IsWellFoundedOn(OpToRel(<, Nat), Nat)
  BY NatLessThanWellFounded
<1>2. PICK n \in T : \A m \in T : ~(<<m, n>> \in OpToRel(<, Nat))
  BY <1>1, WFMin
<1>3. \A m \in T : ~(m < n)
  BY <1>2 DEF OpToRel
<1> QED
  BY <1>3

Blocked(e) ==
  \/ e \in Item /\ Parked(e)
  \/ e = Main /\ mainpc = "force" /\ phase[Main] = "cvwait"

(* Who is evaluating and cannot run is blocked.                            *)
LEMMA AliveBlocked ==
  ASSUME EvalType, ForceInv, QueueInv, PlaceInv, NEW e \in Evaluator, Alive(e), ~CanRun(e)
  PROVE  Blocked(e) /\ (e = Main => ~cv)
<1>1. CASE e = Main
  BY <1>1, Names DEF Alive, CanRun, Running, Blocked
<1>2. CASE e \in Item
  <2>1. phase[e] # "cvwait" /\ Live(e)
    BY <1>2, Names DEF ForceInv, Alive
  <2>2. ~Running(e) /\ ~Ready(e) /\ ~Woken(e)
    BY <1>2, <2>1 DEF CanRun, Ready, Woken
  <2>3. Parked(e)
    BY <1>2, <2>1, <2>2, Rows DEF PlaceAt
  <2> QED
    BY <1>2, <2>3, Names DEF Blocked
<1> QED
  BY <1>1, <1>2, Names

(* A finisher on its way to the waiters can run.                           *)
LEMMA FinisherRuns ==
  ASSUME EvalType, ForceInv, QueueInv, PlaceInv, NEW f \in Evaluator, phase[f] = "notify"
  PROVE  CanRun(f)
<1>1. Alive(f)
  BY Names, Rows DEF PlaceAt, ForceInv, Alive, Live
<1>2. ~Blocked(f)
  BY Names, Rows DEF Blocked, PlaceAt
<1> QED
  BY <1>1, <1>2, AliveBlocked

LEMMA BlockedValue ==
  ASSUME EvalType, ForceInv, QueueInv, PlaceInv, NoLostWakeup, NEW e \in Evaluator, Blocked(e),
         e = Main => ~cv, \A f \in Evaluator : ~CanRun(f)
  PROVE  Forcing(e) /\ Cur(e) \in Value /\ cell[Cur(e)] = "awaited"
<1>1. Forcing(e)
  BY Rows, Names DEF Blocked, PlaceAt, Forcing
<1>2. Cur(e) \in Value
  BY <1>1, ForcedValue
<1>3. Comes(Cur(e))
  <2>1. CASE e \in Item /\ Parked(e)
    <3>1. PICK v \in Value : e \in waiters[v]
      BY <2>1 DEF Parked
    <3>2. v = Cur(e) /\ waiters[v] # {}
      BY <2>1, <3>1 DEF QueueInv
    <3> QED
      BY <3>1, <3>2, WakeupParts DEF WaitersCome
  <2>2. CASE e = Main /\ phase[Main] = "cvwait"
    BY <2>2, WakeupParts DEF MainComes
  <2> QED
    BY <2>1, <2>2 DEF Blocked
<1>4. ~FinisherComing(Cur(e))
  BY FinisherRuns DEF FinisherComing
<1> QED
  BY <1>1, <1>2, <1>3, <1>4 DEF Comes

LEMMA ChainedRuns ==
  ASSUME Inv, NEW rank, Ranked(rank), Chained(rank) PROVE SomeoneRuns
<1> SUFFICES ASSUME NEW v0 \in Value, waiters[v0] # {}, \A f \in Evaluator : ~CanRun(f)
             PROVE  FALSE
  BY DEF SomeoneRuns
<1>0. EvalType /\ WaitType /\ ForceInv /\ QueueInv /\ PlaceInv /\ NoLostWakeup
  BY DEF Inv
<1>1. PICK S \in [Evaluator -> SUBSET Value] :
        /\ \A f \in Evaluator : Chain(S[f], rank, f)
        /\ \A v \in Value : cell[v] \in {"pending", "awaited"} => v \in S[owner[v]]
  BY DEF Chained
<1>2. ASSUME NEW e \in Evaluator, Blocked(e), e = Main => ~cv
      PROVE  /\ Cur(e) \in Value
             /\ \E f \in Evaluator : Blocked(f) /\ (f = Main => ~cv) /\ rank[Cur(f)] < rank[Cur(e)]
  <2> DEFINE v == Cur(e)
             f == owner[v]
  <2>1. v \in Value /\ cell[v] = "awaited"
    BY <1>0, <1>2, BlockedValue
  <2>2. v \in S[f] /\ f \in Evaluator
    BY <1>0, <1>1, <2>1 DEF EvalType
  <2>3. Alive(f) /\ rank[top[f]] <= rank[v]
    BY <1>1, <2>2 DEF Chain, Link
  <2>4. Blocked(f) /\ (f = Main => ~cv)
    BY <1>0, <2>2, <2>3, AliveBlocked
  <2>5. Forcing(f)
    BY <1>0, <2>2, <2>4, BlockedValue
  <2>6. Cur(f) \in Value /\ rank[Cur(f)] < rank[top[f]] /\ top[f] \in Node
    BY <1>0, <2>2, <2>5, ForcedRank DEF EvalType
  <2>7. rank[Cur(f)] < rank[v]
    BY <2>1, <2>3, <2>6, Names DEF Ranked
  <2> QED
    BY <2>1, <2>2, <2>4, <2>7
<1> DEFINE B == {e \in Evaluator : Blocked(e) /\ (e = Main => ~cv)}
           T == {rank[Cur(e)] : e \in B}
<1>3. B # {}
  <2>1. PICK i \in Item : i \in waiters[v0]
    BY <1>0 DEF WaitType
  <2> QED
    BY <2>1, Names DEF Blocked, Parked
<1>4. T \in SUBSET Nat /\ T # {}
  BY <1>2, <1>3, Names DEF Ranked
<1>5. PICK e \in B : \A f \in B : rank[Cur(e)] <= rank[Cur(f)]
  <2> HIDE DEF T
  <2>1. PICK n \in T : \A m \in T : n <= m
    BY <1>4, LeastRank
  <2> QED
    BY <2>1 DEF T
<1>6. PICK f \in B : rank[Cur(f)] < rank[Cur(e)]
  BY <1>2, <1>5
<1>7. rank[Cur(e)] \in Nat /\ rank[Cur(f)] \in Nat
  BY <1>2, <1>5, <1>6, Names DEF Ranked
<1> QED
  BY <1>5, <1>6, <1>7

(* While fibers are parked some evaluator can run, whatever the number of  *)
(* workers and the limit on fibers, if no value needs itself (the comment  *)
(* on canStartFiber).                                                      *)
THEOREM SomethingCanRun ==
  ASSUME NEW rank, Ranked(rank) PROVE Spec => []SomeoneRuns
<1>1. Init => Inv /\ Chained(rank)
  <2>1. ASSUME Init PROVE Chained(rank)
    <3> DEFINE S == [e \in Evaluator |-> {}]
    <3>1. S \in [Evaluator -> SUBSET Value] /\ \A e \in Evaluator : S[e] = {} /\ top[e] = e
      BY <2>1 DEF Init
    <3>2. \A e \in Evaluator : Chain(S[e], rank, e)
      BY <3>1 DEF Chain
    <3>3. \A v \in Value : cell[v] = "thunk"
      BY <2>1 DEF Init
    <3> QED
      BY <3>1, <3>2, <3>3 DEF Chained
  <2> QED
    BY <2>1, InitInv
<1>2. Inv /\ Chained(rank) /\ [Next]_vars => (Inv /\ Chained(rank))'
  <2> SUFFICES ASSUME Inv, Chained(rank), [Next]_vars PROVE Chained(rank)'
    BY NextInv
  <2>1. ASSUME NEW e \in Evaluator, Acts(e) PROVE Chained(rank)'
    BY <2>1, ActsChained DEF Inv
  <2>2. ASSUME \/ \E w \in Worker : LoopStep(w)
               \/ \E f \in Flusher : Flushes(f)
               \/ OtherStep
        PROVE  Chained(rank)'
    BY <2>2, OthersChained DEF Inv
  <2>3. CASE UNCHANGED vars
    BY <2>3 DEF vars, evalVars, schedVars, waitVars, envVars, Chained, Chain, Link, Alive, Live
  <2>4. QueueInv
    BY DEF Inv
  <2> QED
    BY <2>1, <2>2, <2>3, <2>4, NextSteps
<1>3. Inv /\ Chained(rank) => SomeoneRuns
  BY ChainedRuns
<1> QED
  BY <1>1, <1>2, <1>3, PTL DEF Spec
================================================================================
