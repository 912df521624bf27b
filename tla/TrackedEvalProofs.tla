--------------------------- MODULE TrackedEvalProofs ---------------------------
(***************************************************************************)
(* Proofs about TrackedEval, for any number of tasks, values and paths and *)
(* any expressions: dependency labels are sound under every interleaving,  *)
(* and complete when every evaluator tracks and no failure is caught.      *)
(***************************************************************************)
EXTENDS TrackedEval, TLAPS

(* The shape of scripts and steps.                                         *)
LEMMA ScriptFacts ==
  ASSUME NEW n \in Node
  PROVE  /\ Len(Script[n]) \in Nat
         /\ DOMAIN Script[n] = 1..Len(Script[n])
         /\ \A i \in DOMAIN Script[n] :
              /\ Script[n][i].op \in {"read", "force", "try"}
              /\ Script[n][i].op = "read" => Script[n][i].arg \in Path
              /\ Script[n][i].op # "read" => Script[n][i].arg \in Value
<1>1. Script[n] \in Seq(Step)
  BY ConstantsAssumption
<1>2. \A i \in 1..Len(Script[n]) : Script[n][i] \in Step
  BY <1>1
<1> QED
  BY <1>1, <1>2 DEF Step

(* A step no earlier step stops is part of the isolated evaluation.        *)
LEMMA ReachedDeps ==
  ASSUME NEW n \in Node, NEW i \in DOMAIN Script[n], \A j \in 1..(i - 1) : ~Stops(n, j)
  PROVE  StepDeps(n, i) \subseteq Deps[n]
<1>1. i \in Reached(n)
  BY DEF Reached
<1>2. Deps[n] = UNION {StepDeps(n, k) : k \in Reached(n)}
  BY OracleAssumption
<1> QED
  BY <1>1, <1>2

(* The step at which the isolated evaluation stops decides its outcome.    *)
LEMMA StoppedOutcome ==
  ASSUME NEW n \in Node, NEW i \in DOMAIN Script[n], \A j \in 1..(i - 1) : ~Stops(n, j), Stops(n, i)
  PROVE  Out[n] = Out[Script[n][i].arg]
<1>1. i \in Reached(n)
  BY DEF Reached
<1> QED
  BY <1>1, OracleAssumption

(* A node none of whose steps stops ends as its own expression does.       *)
LEMMA EndedOutcome ==
  ASSUME NEW n \in Node, \A j \in DOMAIN Script[n] : ~Stops(n, j)
  PROVE  Out[n] = Ends[n]
BY OracleAssumption

(* The variables stay in their types under every action.                   *)
LEMMA TypeInductive ==
  ASSUME TypeOK, ChainInv, [Next]_vars
  PROVE  TypeOK'
<1> USE DEF TypeOK, Where, NoExc, Outcome
<1>0. \A n \in Node : pc[n] \in DOMAIN Script[n] =>
        /\ Script[n][pc[n]].op = "read" => Script[n][pc[n]].arg \in Path
        /\ Script[n][pc[n]].op # "read" => Script[n][pc[n]].arg \in Value
  BY ScriptFacts
<1>n. Task \subseteq Node /\ Value \subseteq Node /\ Ends \in [Node -> Outcome]
  BY ConstantsAssumption DEF Node
<1>1. ASSUME NEW t \in Task, Start(t) PROVE TypeOK'
  BY <1>1 DEF Start
<1>2. ASSUME NEW t \in Task, Read(t) PROVE TypeOK'
  BY <1>2, <1>0 DEF Read, AtStep, Record, Cur
<1>3. ASSUME NEW t \in Task, ForceFinished(t) PROVE TypeOK'
  <2>1. Cur(t).arg \in Value
    BY <1>3, <1>0 DEF ForceFinished, AtStep, Cur
  <2> QED
    BY <1>3, <2>1 DEF ForceFinished, Record, Return, Finished
<1>4. ASSUME NEW t \in Task, ForcePending(t) PROVE TypeOK'
  BY <1>4 DEF ForcePending
<1>5. ASSUME NEW t \in Task, ForceThunk(t) PROVE TypeOK'
  BY <1>5 DEF ForceThunk
<1>6. ASSUME NEW t \in Task, WinCas(t) PROVE TypeOK'
  <2>1. Cur(t).arg \in Value
    BY <1>6, <1>0 DEF WinCas, ChainInv, TaskChain, Forces, Cur
  <2> QED
    BY <1>6, <2>1, <1>n DEF WinCas
<1>7. ASSUME NEW t \in Task, LoseCas(t) PROVE TypeOK'
  BY <1>7 DEF LoseCas
<1>8. ASSUME NEW t \in Task, Resume(t) PROVE TypeOK'
  <2>1. Cur(t).arg \in Value
    BY <1>8, <1>0 DEF Resume, ChainInv, TaskChain, Forces, Cur
  <2> QED
    BY <1>8, <2>1 DEF Resume, Record, Return, Finished
<1>9. ASSUME NEW t \in Task, Publish(t) PROVE TypeOK'
  <2>1. top[t] \in Value /\ previous[top[t]] \in Node /\ acc[top[t]] \in SUBSET Path
    BY <1>9, <1>n DEF Publish
  <2>2. label' \in [Value -> SUBSET Path] /\ acc' \in [Node -> SUBSET Path]
    BY <1>9, <2>1 DEF Publish
  <2> QED
    BY <1>9, <2>2 DEF Publish
<1>10. ASSUME NEW t \in Task, Exchange(t) PROVE TypeOK'
  <2>1. top[t] \in Value /\ previous[top[t]] \in Node /\ ExprOutcome(t) \in Outcome
    BY <1>10, <1>n DEF Exchange, ChainInv, TaskChain, ExprOutcome
  <2> QED
    BY <1>10, <2>1 DEF Exchange, Return
<1>11. ASSUME NEW t \in Task, Snapshot(t) PROVE TypeOK'
  BY <1>11, <1>n DEF Snapshot, ExprOutcome
<1> QED
  BY <1>1, <1>2, <1>3, <1>4, <1>5, <1>6, <1>7, <1>8, <1>9, <1>10, <1>11 DEF Next, TaskNext, vars

(* Two tasks never evaluate the same node, and no frame lies above the     *)
(* frame a task evaluates in.                                              *)
LEMMA TopFacts ==
  ASSUME TypeOK, ChainInv, NEW t \in Task, Active(t)
  PROVE  /\ \A o \in Task \ {t} : Active(o) => top[o] # top[t]
         /\ \A v \in Value : Pending(v) => previous[v] # top[t]
         /\ top[t] \in Node
<1>1. \A o \in Task : Active(o) => top[o] = o \/ (Pending(top[o]) /\ owner[top[o]] = o)
  BY DEF ChainInv, TaskChain
<1>2. \A v \in Value : Pending(v) =>
        /\ owner[v] \in Task /\ previous[v] # top[owner[v]]
        /\ previous[v] = owner[v] \/ (Pending(previous[v]) /\ owner[previous[v]] = owner[v])
  BY DEF ChainInv, FrameChain
<1>3. \A v : Pending(v) => v \in Value /\ v \notin Task
  BY ConstantsAssumption DEF Pending
<1>4. top[t] \in Node
  BY DEF TypeOK
<1> QED
  BY <1>1, <1>2, <1>3, <1>4

(* The chain of frames survives every action.                              *)
LEMMA ChainInductive ==
  ASSUME TypeOK, TypeOK', ChainInv, [Next]_vars
  PROVE  ChainInv'
<1> USE DEF NoExc
<1>n. Task \subseteq Node /\ Value \subseteq Node /\ Value \cap Task = {}
  BY ConstantsAssumption DEF Node
<1>0. \A n \in Node : pc[n] \in DOMAIN Script[n] /\ Script[n][pc[n]].op # "read"
        => Script[n][pc[n]].arg \in Value
  BY ScriptFacts
<1>1. ASSUME NEW t \in Task, Start(t) PROVE ChainInv'
  BY <1>1, <1>n DEF Start, TypeOK, ChainInv, TaskChain, FrameChain, Pending, Forces, Active, Cur
<1>a. ASSUME NEW t \in Task, Active(t), at[t] # "publish", at'[t] = "run",
             UNCHANGED <<cell, owner, previous, top>>,
             \A o \in Task \ {t} : at'[o] = at[o] /\ exc'[o] = exc[o],
             \A n \in Node \ {top[t]} : pc'[n] = pc[n]
      PROVE  ChainInv'
  <2>1. /\ \A o \in Task \ {t} : Active(o) => top[o] # top[t]
        /\ \A v \in Value : Pending(v) => previous[v] # top[t]
    BY <1>a, TopFacts
  <2>2. ASSUME NEW o \in Task PROVE TaskChain(o)'
    <3>1. CASE o = t
      BY <1>a, <3>1 DEF ChainInv, TaskChain, Pending, Active
    <3>2. CASE o # t
      BY <1>a, <2>1, <3>2 DEF TypeOK, ChainInv, TaskChain, Pending, Forces, Active, Cur
    <3> QED
      BY <3>1, <3>2
  <2>3. ASSUME NEW v \in Value PROVE FrameChain(v)'
    BY <1>a, <2>1 DEF TypeOK, ChainInv, FrameChain, Pending, Forces
  <2> QED
    BY <2>2, <2>3 DEF ChainInv
<1>2. ASSUME NEW t \in Task, Read(t) PROVE ChainInv'
  BY <1>2, <1>a DEF Read, AtStep, TypeOK, Active
<1>3. ASSUME NEW t \in Task, ForceFinished(t) PROVE ChainInv'
  BY <1>3, <1>a DEF ForceFinished, AtStep, Return, TypeOK, Active
<1>4. ASSUME NEW t \in Task, ForcePending(t) PROVE ChainInv'
  BY <1>4, <1>n DEF ForcePending, AtStep, TypeOK, ChainInv, TaskChain, FrameChain, Pending, Forces, Active, Cur
<1>5. ASSUME NEW t \in Task, ForceThunk(t) PROVE ChainInv'
  BY <1>5, <1>n DEF ForceThunk, AtStep, TypeOK, ChainInv, TaskChain, FrameChain, Pending, Forces, Active, Cur
<1>6. ASSUME NEW t \in Task, WinCas(t) PROVE ChainInv'
  <2>0. PICK u \in Value : u = Cur(t).arg
    BY <1>6, <1>0 DEF WinCas, ChainInv, TaskChain, Forces, Cur, TypeOK
  <2>1. u = Cur(t).arg /\ cell[u] = "thunk" /\ exc[t] = NoExc /\ Forces(top[t], u) /\ Active(t)
    BY <1>6, <2>0 DEF WinCas, ChainInv, TaskChain, Forces, Cur, TypeOK, Active
  <2>2. /\ \A o \in Task \ {t} : Active(o) => top[o] # top[t]
        /\ \A v \in Value : Pending(v) => previous[v] # top[t]
    BY <2>1, TopFacts
  <2>3. ASSUME NEW o \in Task PROVE TaskChain(o)'
    <3>1. CASE o = t
      BY <1>6, <2>1, <3>1 DEF WinCas, TypeOK, TaskChain, Pending, Active
    <3>2. CASE o # t
      <4>1. /\ at'[o] = at[o] /\ top'[o] = top[o] /\ exc'[o] = exc[o]
            /\ \A v \in Value \ {u} : cell'[v] = cell[v] /\ owner'[v] = owner[v]
            /\ \A n \in Node \ {u} : pc'[n] = pc[n]
        BY <1>6, <2>1, <3>2 DEF WinCas, TypeOK
      <4>2. TaskChain(o) /\ top[o] \in Node
        BY DEF ChainInv, TypeOK
      <4>3. Active(o) => top[o] # u
        BY <2>1, <4>2, ConstantsAssumption DEF TaskChain, Pending
      <4> QED
        BY <2>1, <4>1, <4>2, <4>3 DEF TaskChain, Pending, Forces, Active, Cur
    <3> QED
      BY <3>1, <3>2
  <2>4. FrameChain(u)'
    BY <1>6, <2>1, <1>n DEF WinCas, TypeOK, ChainInv, TaskChain, FrameChain, Pending, Forces, Active
  <2>5. ASSUME NEW v \in Value, v # u PROVE FrameChain(v)'
    BY <1>6, <2>1, <2>2, <2>5, <1>n DEF WinCas, TypeOK, ChainInv, FrameChain, Pending, Forces
  <2> QED
    BY <2>3, <2>4, <2>5 DEF ChainInv
<1>7. ASSUME NEW t \in Task, LoseCas(t) PROVE ChainInv'
  BY <1>7, <1>n DEF LoseCas, TypeOK, ChainInv, TaskChain, FrameChain, Pending, Forces, Active, Cur
<1>8. ASSUME NEW t \in Task, Resume(t) PROVE ChainInv'
  BY <1>8, <1>a DEF Resume, Return, TypeOK, Active
<1>9. ASSUME NEW t \in Task, Publish(t) PROVE ChainInv'
  BY <1>9, <1>n DEF Publish, ExprEnded, TypeOK, ChainInv, TaskChain, FrameChain, Pending, Forces, Active, Cur
<1>10. ASSUME NEW t \in Task, Exchange(t) PROVE ChainInv'
  <2>0. PICK u \in Value, n \in Node : u = top[t] /\ n = previous[u]
    BY <1>10 DEF Exchange, TypeOK, ChainInv, TaskChain
  <2>1. Pending(u) /\ owner[u] = t /\ n # u /\ Active(t) /\ u = top[t] /\ n = previous[u]
    BY <1>10, <1>n, <2>0 DEF Exchange, TypeOK, ChainInv, TaskChain, FrameChain, Pending, Active
  <2>2. n = t \/ (Pending(n) /\ owner[n] = t)
    BY <2>1 DEF ChainInv, FrameChain
  <2>3. \A v \in Value \ {u} : Pending(v) => previous[v] # u /\ previous[v] # n
    BY <2>1, TopFacts DEF ChainInv, FrameChain, Forces
  <2>4. \A o \in Task \ {t} : Active(o) => top[o] # u /\ top[o] # n
    BY <2>1, <2>2, <1>n DEF TypeOK, ChainInv, TaskChain, Pending
  <2>5. cell' = [cell EXCEPT ![u] = ExprOutcome(t)] /\ ExprOutcome(t) # "pending"
    BY <1>10, <2>1, <1>n, ConstantsAssumption DEF Exchange, TypeOK, ExprOutcome, Outcome
  <2>8. /\ \A m \in Node \ {n} : pc'[m] = pc[m]
        /\ \A o \in Task \ {t} : at'[o] = at[o] /\ exc'[o] = exc[o] /\ top'[o] = top[o]
        /\ top'[t] = n /\ owner' = owner /\ previous' = previous
        /\ \A w \in Value \ {u} : cell'[w] = cell[w]
        /\ cell'[u] # "pending"
    BY <1>10, <2>0, <2>1, <2>5 DEF Exchange, Return, TypeOK
  <2>6. ASSUME NEW o \in Task PROVE TaskChain(o)'
    <3>1. CASE o = t
      BY <1>10, <2>1, <2>2, <2>5, <3>1 DEF Exchange, TypeOK, TaskChain, Pending, Active
    <3>2. CASE o # t
      <4>1. top[o] \in Node /\ TaskChain(o)
        BY DEF TypeOK, ChainInv
      <4> QED
        BY <4>1, <2>4, <2>8, <3>2, <2>1, <1>n DEF TaskChain, Pending, Forces, Active, Cur
    <3> QED
      BY <3>1, <3>2
  <2>7. ASSUME NEW v \in Value PROVE FrameChain(v)'
    <3>1. CASE v = u
      BY <3>1, <2>5 DEF FrameChain, Pending, TypeOK
    <3>2. CASE v # u
      <4>1. FrameChain(v) /\ previous[v] \in Node
        BY DEF TypeOK, ChainInv
      <4> QED
        BY <4>1, <2>1, <2>3, <2>8, <3>2 DEF FrameChain, Pending, Forces
    <3> QED
      BY <3>1, <3>2
  <2> QED
    BY <2>6, <2>7 DEF ChainInv
<1>11. ASSUME NEW t \in Task, Snapshot(t) PROVE ChainInv'
  BY <1>11, <1>n DEF Snapshot, ExprEnded, TypeOK, ChainInv, TaskChain, FrameChain, Pending, Forces, Active, Cur
<1>12. CASE UNCHANGED vars
  BY <1>12 DEF vars, TypeOK, ChainInv, TaskChain, FrameChain, Pending, Forces, Active, Cur
<1> QED
  BY <1>1, <1>2, <1>3, <1>4, <1>5, <1>6, <1>7, <1>8, <1>9, <1>10, <1>11, <1>12 DEF Next, TaskNext

(* A value of the step a task stands at is indeed a value.                 *)
LEMMA ForcedValue ==
  ASSUME TypeOK, NEW n \in Node, NEW v, Forces(n, v)
  PROVE  v \in Value /\ pc[n] \in DOMAIN Script[n]
BY ScriptFacts DEF Forces

(* A node goes on past a step that does not stop it.                       *)
LEMMA PassStep ==
  ASSUME TypeOK, ProgressInv, NEW n \in Node, pc[n] \in DOMAIN Script[n], ~Stops(n, pc[n])
  PROVE  /\ pc[n] + 1 \in 1..(Len(Script[n]) + 1)
         /\ \A i \in 1..(pc[n] + 1 - 1) : ~Stops(n, i)
<1>1. pc[n] \in 1..Len(Script[n]) /\ Len(Script[n]) \in Nat
  BY ScriptFacts
<1>2. \A i \in 1..(pc[n] - 1) : ~Stops(n, i)
  BY DEF ProgressInv
<1> QED
  BY <1>1, <1>2

(* The outcome with which a task leaves the expression of its top node is  *)
(* the isolated one.                                                       *)
LEMMA LeftOutcome ==
  ASSUME TypeOK, ChainInv, ProgressInv, NEW t \in Task, Active(t),
         exc[t] # NoExc \/ pc[top[t]] \notin DOMAIN Script[top[t]]
  PROVE  /\ ExprOutcome(t) = Out[top[t]]
         /\ ExprOutcome(t) = "ok" => exc[t] = NoExc /\ pc[top[t]] = Len(Script[top[t]]) + 1
<1> DEFINE n == top[t]
<1>n. n \in Node
  BY DEF TypeOK
<1>0. Len(Script[n]) \in Nat /\ DOMAIN Script[n] = 1..Len(Script[n])
  BY <1>n, ScriptFacts
<1>p. pc[n] \in 1..(Len(Script[n]) + 1) /\ \A i \in 1..(pc[n] - 1) : ~Stops(n, i)
  BY <1>n DEF ProgressInv
<1>1. CASE exc[t] # NoExc
  <2>1. Forces(n, Cur(t).arg) /\ Stops(n, pc[n]) /\ exc[t] = Out[Cur(t).arg]
    BY <1>1 DEF ProgressInv
  <2>2. pc[n] \in DOMAIN Script[n] /\ Script[n][pc[n]].arg = Cur(t).arg
    BY <2>1 DEF Forces
  <2>3. Out[n] = Out[Cur(t).arg]
    BY <1>n, <1>p, <2>1, <2>2, StoppedOutcome
  <2>4. exc[t] # "ok"
    BY <2>1, <2>2 DEF Stops, Catches
  <2> QED
    BY <1>1, <2>1, <2>3, <2>4 DEF ExprOutcome
<1>2. CASE exc[t] = NoExc
  <2>1. pc[n] = Len(Script[n]) + 1
    BY <1>2, <1>0, <1>p
  <2>2. \A i \in DOMAIN Script[n] : ~Stops(n, i)
    BY <2>1, <1>0, <1>p
  <2>3. Out[n] = Ends[n]
    BY <1>n, <2>2, EndedOutcome
  <2> QED
    BY <1>2, <2>1, <2>3 DEF ExprOutcome
<1> QED
  BY <1>1, <1>2

(* Evaluation proceeds as in isolation under every action.                 *)
LEMMA ProgressInductive ==
  ASSUME TypeOK, TypeOK', ChainInv, ProgressInv, [Next]_vars
  PROVE  ProgressInv'
<1>n. Task \subseteq Node /\ Value \subseteq Node
  BY DEF Node
<1>a. ASSUME NEW t \in Task, NEW n \in Node, NEW v \in Value,
             Active(t), at'[t] = "run", top'[t] = n, Forces(n, v), Return(t, n, Out[v]),
             \A o \in Task \ {t} : at'[o] = at[o] /\ top'[o] = top[o] /\ (Active(o) => top[o] # n),
             \A w \in Value : cell'[w] \in Finished => cell'[w] = Out[w]
      PROVE  ProgressInv'
  <2>1. pc[n] \in DOMAIN Script[n] /\ Script[n][pc[n]].op # "read" /\ Script[n][pc[n]].arg = v
    BY <1>a DEF Forces
  <2>2. Stops(n, pc[n]) <=> ~Catches(Script[n][pc[n]].op, Out[v])
    BY <2>1 DEF Stops
  <2>3. /\ pc' = [pc EXCEPT ![n] = IF Stops(n, pc[n]) THEN @ ELSE @ + 1]
        /\ exc' = [exc EXCEPT ![t] = IF Stops(n, pc[n]) THEN Out[v] ELSE NoExc]
    BY <1>a, <2>1, <2>2 DEF Return
  <2>4. \A m \in Node : /\ pc'[m] \in 1..(Len(Script[m]) + 1)
                        /\ \A i \in 1..(pc'[m] - 1) : ~Stops(m, i)
    <3>1. CASE Stops(n, pc[n])
      BY <2>3, <3>1 DEF ProgressInv, TypeOK
    <3>2. CASE ~Stops(n, pc[n])
      <4>1. pc'[n] = pc[n] + 1 /\ \A m \in Node \ {n} : pc'[m] = pc[m]
        BY <2>3, <3>2 DEF TypeOK
      <4>2. /\ pc'[n] \in 1..(Len(Script[n]) + 1)
            /\ \A i \in 1..(pc'[n] - 1) : ~Stops(n, i)
        <5>1. PICK k \in Nat : k = pc[n]
          BY DEF TypeOK
        <5>2. k + 1 \in 1..(Len(Script[n]) + 1) /\ \A i \in 1..(k + 1 - 1) : ~Stops(n, i)
          BY <2>1, <3>2, <5>1, PassStep
        <5>3. pc'[n] = k + 1
          BY <4>1, <5>1
        <5> QED
          BY <5>2, <5>3
      <4> QED
        BY <4>1, <4>2 DEF ProgressInv
    <3> QED
      BY <3>1, <3>2
  <2>5. ASSUME NEW o \in Task, Active(o)', exc'[o] # NoExc
        PROVE  (Forces(top[o], Cur(o).arg) /\ Stops(top[o], pc[top[o]]) /\ exc[o] = Out[Cur(o).arg])'
    <3>1. CASE o = t
      BY <1>a, <2>1, <2>3, <2>5, <3>1 DEF TypeOK, Forces, Cur
    <3>2. CASE o # t
      BY <1>a, <2>3, <2>5, <3>2 DEF TypeOK, ProgressInv, Forces, Cur, Active
    <3> QED
      BY <3>1, <3>2
  <2>6. \A o \in Task : at'[o] = "done" =>
          exc'[o] = Out[o] /\ (exc'[o] = "ok" => pc'[o] = Len(Script[o]) + 1)
    <3>1. ASSUME NEW o \in Task, at'[o] = "done"
          PROVE  exc'[o] = Out[o] /\ (exc'[o] = "ok" => pc'[o] = Len(Script[o]) + 1)
      <4>1. o # t /\ at[o] = "done" /\ exc'[o] = exc[o]
        BY <1>a, <2>3, <3>1 DEF TypeOK
      <4>2. exc[o] = Out[o] /\ (exc[o] = "ok" => pc[o] = Len(Script[o]) + 1)
        BY <4>1 DEF ProgressInv
      <4>3. exc[o] = "ok" => pc'[o] = pc[o]
        BY <4>2, <2>1, <2>3, <1>n, ScriptFacts DEF TypeOK
      <4> QED
        BY <4>1, <4>2, <4>3
    <3> QED
      BY <3>1
  <2> QED
    BY <1>a, <2>4, <2>5, <2>6 DEF ProgressInv
<1>b. ASSUME UNCHANGED <<cell, pc, exc, top>>, \A o \in Task : Active(o)' => Active(o),
             \A o \in Task : at'[o] = "done" => at[o] = "done"
      PROVE  ProgressInv'
  BY <1>b DEF ProgressInv, Forces, Cur
<1>1. ASSUME NEW t \in Task, Start(t) PROVE ProgressInv'
  BY <1>1 DEF Start, ProgressInv, Forces, Cur, Active, ChainInv, TaskChain, TypeOK
<1>2. ASSUME NEW t \in Task, Read(t) PROVE ProgressInv'
  <2>1. top[t] \in Node /\ Active(t) /\ pc[top[t]] \in DOMAIN Script[top[t]] /\ ~Stops(top[t], pc[top[t]])
    BY <1>2 DEF Read, AtStep, TypeOK, Active, Stops, Cur
  <2>2. /\ pc' = [pc EXCEPT ![top[t]] = pc[top[t]] + 1]
        /\ pc[top[t]] + 1 \in 1..(Len(Script[top[t]]) + 1)
        /\ \A i \in 1..(pc[top[t]] + 1 - 1) : ~Stops(top[t], i)
    BY <1>2, <2>1, PassStep DEF Read
  <2>3. \A o \in Task \ {t} : Active(o) => top[o] # top[t]
    BY <2>1, TopFacts
  <2>4. \A o \in Task : at[o] = "done" /\ exc[o] = "ok" => pc'[o] = pc[o]
    BY <1>n, <2>1, <2>2, ScriptFacts DEF TypeOK, ProgressInv
  <2>5. \A m \in Node : /\ pc'[m] \in 1..(Len(Script[m]) + 1)
                        /\ \A i \in 1..(pc'[m] - 1) : ~Stops(m, i)
    BY <2>1, <2>2 DEF TypeOK, ProgressInv
  <2>6. UNCHANGED <<cell, top, at, exc>> /\ exc[t] = NoExc
    BY <1>2 DEF Read, AtStep
  <2>7. ASSUME NEW o \in Task, Active(o)', exc'[o] # NoExc
        PROVE  (Forces(top[o], Cur(o).arg) /\ Stops(top[o], pc[top[o]]) /\ exc[o] = Out[Cur(o).arg])'
    BY <2>2, <2>3, <2>6, <2>7 DEF TypeOK, ProgressInv, Forces, Cur, Active
  <2> QED
    BY <2>4, <2>5, <2>6, <2>7 DEF ProgressInv
<1>3. ASSUME NEW t \in Task, ForceFinished(t) PROVE ProgressInv'
  <2>1. Active(t) /\ Forces(top[t], Cur(t).arg) /\ top[t] \in Node
    BY <1>3 DEF ForceFinished, AtStep, Active, Forces, Cur, TypeOK
  <2>2. PICK v \in Value : v = Cur(t).arg
    BY <2>1, ForcedValue
  <2>3. cell[v] = Out[v] /\ Return(t, top[t], Out[v])
    BY <1>3, <2>2 DEF ForceFinished, ProgressInv
  <2> QED
    BY <1>3, <1>a, <2>1, <2>2, <2>3, TopFacts DEF ForceFinished, AtStep, ProgressInv
<1>4. ASSUME NEW t \in Task, ForcePending(t) PROVE ProgressInv'
  BY <1>4, <1>b DEF ForcePending, AtStep, Active, TypeOK
<1>5. ASSUME NEW t \in Task, ForceThunk(t) PROVE ProgressInv'
  BY <1>5, <1>b DEF ForceThunk, AtStep, Active, TypeOK
<1>6. ASSUME NEW t \in Task, WinCas(t) PROVE ProgressInv'
  <2>1. exc[t] = NoExc /\ UNCHANGED <<pc, exc>>
    BY <1>6 DEF WinCas, ChainInv, TaskChain
  <2>2. \A o \in Task \ {t} : top'[o] = top[o] /\ at'[o] = at[o]
    BY <1>6 DEF WinCas, TypeOK
  <2>3. \A w \in Value : cell'[w] \in Finished => cell'[w] = cell[w]
    BY <1>6 DEF WinCas, TypeOK, Finished, Outcome
  <2>4. at'[t] = "run"
    BY <1>6 DEF WinCas, TypeOK
  <2> QED
    BY <2>1, <2>2, <2>3, <2>4 DEF ProgressInv, Forces, Cur, Active
<1>7. ASSUME NEW t \in Task, LoseCas(t) PROVE ProgressInv'
  BY <1>7, <1>b DEF LoseCas, Active, TypeOK
<1>8. ASSUME NEW t \in Task, Resume(t) PROVE ProgressInv'
  <2>1. Active(t) /\ Forces(top[t], Cur(t).arg) /\ top[t] \in Node
    BY <1>8 DEF Resume, ChainInv, TaskChain, Active, TypeOK
  <2>2. PICK v \in Value : v = Cur(t).arg
    BY <2>1, ForcedValue
  <2>3. cell[v] = Out[v] /\ Return(t, top[t], Out[v])
    BY <1>8, <2>2 DEF Resume, ProgressInv
  <2>4. /\ \A o \in Task \ {t} : at'[o] = at[o] /\ top'[o] = top[o]
        /\ at'[t] = "run" /\ top'[t] = top[t] /\ cell' = cell
    BY <1>8 DEF Resume, TypeOK
  <2> QED
    BY <1>a, <2>1, <2>2, <2>3, <2>4, TopFacts DEF ProgressInv
<1>9. ASSUME NEW t \in Task, Publish(t) PROVE ProgressInv'
  BY <1>9, <1>b DEF Publish, ExprEnded, Active, TypeOK
<1>10. ASSUME NEW t \in Task, Exchange(t) PROVE ProgressInv'
  <2>0. PICK u \in Value, n \in Node : u = top[t] /\ n = previous[u]
    BY <1>10 DEF Exchange, TypeOK, ChainInv, TaskChain
  <2>1. Active(t) /\ Pending(u) /\ owner[u] = t
    BY <1>10, <2>0, ConstantsAssumption DEF Exchange, ChainInv, TaskChain, Active
  <2>2. Forces(n, u) /\ (n = t \/ (Pending(n) /\ owner[n] = t))
    BY <2>0, <2>1 DEF ChainInv, FrameChain
  <2>3. ExprOutcome(t) = Out[u]
    BY <1>10, <2>0, <2>1, LeftOutcome DEF Exchange, ChainInv, TaskChain
  <2>4. \A o \in Task \ {t} : Active(o) => top[o] # n
    BY <2>2, ConstantsAssumption DEF ChainInv, TaskChain, Pending
  <2>5. Return(t, n, Out[u])
    BY <1>10, <2>0, <2>3 DEF Exchange
  <2>6. /\ \A o \in Task \ {t} : at'[o] = at[o] /\ top'[o] = top[o]
        /\ at'[t] = "run" /\ top'[t] = n
    BY <1>10, <2>0 DEF Exchange, TypeOK
  <2>7. \A w \in Value : cell'[w] \in Finished => cell'[w] = Out[w]
    BY <1>10, <2>0, <2>3 DEF Exchange, TypeOK, ProgressInv
  <2> QED
    BY <1>a, <2>1, <2>2, <2>4, <2>5, <2>6, <2>7
<1>11. ASSUME NEW t \in Task, Snapshot(t) PROVE ProgressInv'
  <2>1. Active(t) /\ top[t] = t /\ (exc[t] # NoExc \/ pc[top[t]] \notin DOMAIN Script[top[t]])
    BY <1>11 DEF Snapshot, ExprEnded, Active
  <2>2. ExprOutcome(t) = Out[t] /\ (ExprOutcome(t) = "ok" => pc[t] = Len(Script[t]) + 1)
    BY <2>1, LeftOutcome
  <2>3. /\ at'[t] = "done" /\ exc'[t] = Out[t]
        /\ \A o \in Task \ {t} : at'[o] = at[o] /\ exc'[o] = exc[o]
        /\ UNCHANGED <<cell, pc, top>>
    BY <1>11, <2>2 DEF Snapshot, TypeOK
  <2> QED
    BY <2>2, <2>3 DEF ProgressInv, Forces, Cur, Active
<1>12. CASE UNCHANGED vars
  BY <1>12, <1>b DEF vars, Active
<1> QED
  BY <1>1, <1>2, <1>3, <1>4, <1>5, <1>6, <1>7, <1>8, <1>9, <1>10, <1>11, <1>12 DEF Next, TaskNext

(* What the frame of a forced node records stays within its closure.       *)
LEMMA ForcedDeps ==
  ASSUME TypeOK, ProgressInv, NEW n \in Node, NEW v, Forces(n, v)
  PROVE  StepDeps(n, pc[n]) = Deps[v] /\ Deps[v] \subseteq Deps[n]
<1>1. pc[n] \in DOMAIN Script[n] /\ Script[n][pc[n]].op # "read" /\ Script[n][pc[n]].arg = v
  BY DEF Forces
<1>2. \A j \in 1..(pc[n] - 1) : ~Stops(n, j)
  BY DEF ProgressInv
<1>3. StepDeps(n, pc[n]) \subseteq Deps[n]
  BY <1>1, <1>2, ReachedDeps
<1> QED
  BY <1>1, <1>3 DEF StepDeps

(* Labels and frames stay within the isolated closures.                    *)
LEMMA SoundInductive ==
  ASSUME TypeOK, ChainInv, ProgressInv, SoundInv, [Next]_vars
  PROVE  SoundInv'
<1>n. Task \subseteq Node /\ Value \subseteq Node
  BY DEF Node
<1>a. ASSUME NEW t \in Task, NEW ps \in SUBSET Path, Record(t, ps), ps \subseteq Deps[top[t]], UNCHANGED label
      PROVE  SoundInv'
  <2>1. \A n \in Node : acc'[n] = acc[n] \/ (n = top[t] /\ acc'[n] = acc[n] \cup ps)
    BY <1>a DEF Record, TypeOK
  <2> QED
    BY <1>a, <2>1 DEF SoundInv
<1>b. ASSUME UNCHANGED <<acc, label>> PROVE SoundInv'
  BY <1>b DEF SoundInv
<1>1. ASSUME NEW t \in Task, Start(t) PROVE SoundInv'
  BY <1>1, <1>b DEF Start
<1>2. ASSUME NEW t \in Task, Read(t) PROVE SoundInv'
  <2>1. top[t] \in Node /\ pc[top[t]] \in DOMAIN Script[top[t]] /\ Cur(t).op = "read"
    BY <1>2 DEF Read, AtStep, TypeOK
  <2>2. StepDeps(top[t], pc[top[t]]) = {Cur(t).arg} /\ Cur(t).arg \in Path
    BY <2>1, ScriptFacts DEF StepDeps, Cur
  <2>3. StepDeps(top[t], pc[top[t]]) \subseteq Deps[top[t]]
    BY <2>1, ReachedDeps DEF ProgressInv
  <2> QED
    BY <1>2, <1>a, <2>2, <2>3 DEF Read
<1>3. ASSUME NEW t \in Task, ForceFinished(t) PROVE SoundInv'
  <2>1. Forces(top[t], Cur(t).arg) /\ top[t] \in Node
    BY <1>3 DEF ForceFinished, AtStep, Forces, Cur, TypeOK
  <2>2. Cur(t).arg \in Value /\ Deps[Cur(t).arg] \subseteq Deps[top[t]]
    BY <2>1, ForcedValue, ForcedDeps
  <2>3. label[Cur(t).arg] \subseteq Deps[top[t]] /\ label[Cur(t).arg] \in SUBSET Path
    BY <2>2 DEF SoundInv, TypeOK
  <2> QED
    BY <1>3, <1>a, <2>3 DEF ForceFinished
<1>4. ASSUME NEW t \in Task, ForcePending(t) PROVE SoundInv'
  BY <1>4, <1>b DEF ForcePending
<1>5. ASSUME NEW t \in Task, ForceThunk(t) PROVE SoundInv'
  BY <1>5, <1>b DEF ForceThunk
<1>6. ASSUME NEW t \in Task, WinCas(t) PROVE SoundInv'
  BY <1>6, <1>b DEF WinCas
<1>7. ASSUME NEW t \in Task, LoseCas(t) PROVE SoundInv'
  BY <1>7, <1>b DEF LoseCas
<1>8. ASSUME NEW t \in Task, Resume(t) PROVE SoundInv'
  <2>1. Forces(top[t], Cur(t).arg) /\ top[t] \in Node
    BY <1>8 DEF Resume, ChainInv, TaskChain, TypeOK
  <2>2. Cur(t).arg \in Value /\ Deps[Cur(t).arg] \subseteq Deps[top[t]]
    BY <2>1, ForcedValue, ForcedDeps
  <2> DEFINE ps == IF ResumeRecords(cell[Cur(t).arg]) THEN label[Cur(t).arg] ELSE {}
  <2>3. ps \subseteq Deps[top[t]] /\ ps \in SUBSET Path
    BY <2>2 DEF SoundInv, TypeOK
  <2>4. Record(t, ps) /\ UNCHANGED label
    BY <1>8 DEF Resume
  <2> QED
    BY <1>a, <2>3, <2>4
<1>9. ASSUME NEW t \in Task, Publish(t) PROVE SoundInv'
  <2>0. PICK v \in Value, n \in Node : v = top[t] /\ n = previous[v]
    BY <1>9 DEF Publish, TypeOK
  <2>1. Pending(v) /\ Forces(n, v)
    BY <1>9, <2>0, ConstantsAssumption
    DEF Publish, ExprEnded, Active, ChainInv, TaskChain, FrameChain
  <2>2. Deps[v] \subseteq Deps[n]
    BY <2>1, ForcedDeps
  <2>3. /\ label' = [label EXCEPT ![v] = IF t \in Untracked THEN {} ELSE acc[v]]
        /\ acc' = [acc EXCEPT ![n] = acc[n] \cup acc[v]]
    BY <1>9, <2>0 DEF Publish
  <2> QED
    BY <1>n, <2>2, <2>3 DEF SoundInv, TypeOK
<1>10. ASSUME NEW t \in Task, Exchange(t) PROVE SoundInv'
  BY <1>10, <1>b DEF Exchange
<1>11. ASSUME NEW t \in Task, Snapshot(t) PROVE SoundInv'
  BY <1>11, <1>b DEF Snapshot
<1>12. CASE UNCHANGED vars
  BY <1>12, <1>b DEF vars
<1> QED
  BY <1>1, <1>2, <1>3, <1>4, <1>5, <1>6, <1>7, <1>8, <1>9, <1>10, <1>11, <1>12 DEF Next, TaskNext

(* The initial state satisfies the four parts.                             *)
LEMMA InitInv ==
  ASSUME Init
  PROVE  TypeOK /\ ChainInv /\ ProgressInv /\ SoundInv /\ CompleteInv
<1>1. TypeOK
  BY DEF Init, TypeOK, Node, Where, NoExc
<1>2. ChainInv
  BY DEF Init, ChainInv, TaskChain, FrameChain, Pending, Active
<1>3. ProgressInv
  BY ScriptFacts DEF Init, ProgressInv, Active, Finished, Outcome
<1>4. SoundInv
  BY DEF Init, SoundInv, Node
<1>5. CompleteInv
  BY DEF Init, CompleteInv
<1> QED
  BY <1>1, <1>2, <1>3, <1>4, <1>5

(* In every reachable state the graph, the frame chains and the evaluation *)
(* are well formed and no frame or label exceeds its closure.              *)
THEOREM InvariantHolds == Spec => [](TypeOK /\ ChainInv /\ ProgressInv /\ SoundInv)
<1>1. Init => TypeOK /\ ChainInv /\ ProgressInv /\ SoundInv
  BY InitInv
<1>2. TypeOK /\ ChainInv /\ ProgressInv /\ SoundInv /\ [Next]_vars
        => (TypeOK /\ ChainInv /\ ProgressInv /\ SoundInv)'
  BY TypeInductive, ChainInductive, ProgressInductive, SoundInductive
<1> QED
  BY <1>1, <1>2, PTL DEF Spec

(* forceValueTracked and the finish hook keep every cell, label, frame and *)
(* task within its type.                                                   *)
THEOREM TypeCorrect == Spec => []TypeOK
BY InvariantHolds, PTL

(* No interleaving, untracked force or caught failure ever puts a path in  *)
(* a label or a closure that isolated evaluation would not read.           *)
THEOREM Uncontaminated == Spec => []NoContamination
<1>1. SoundInv => NoContamination
  BY DEF SoundInv, NoContamination, Node
<1> QED
  BY <1>1, InvariantHolds, PTL

(* Every value and every target has the outcome of isolated evaluation.    *)
THEOREM OutcomePreserved == Spec => []SameOutcome
<1>1. ProgressInv => SameOutcome
  BY DEF ProgressInv, SameOutcome
<1> QED
  BY <1>1, InvariantHolds, PTL

(* A frame that holds every step's dependencies holds the whole closure.   *)
LEMMA WholeClosure ==
  ASSUME NEW n \in Node, NEW S, \A i \in DOMAIN Script[n] : StepDeps(n, i) \subseteq S
  PROVE  Deps[n] \subseteq S
<1>1. Deps[n] = UNION {StepDeps(n, i) : i \in Reached(n)}
  BY OracleAssumption
<1>2. Reached(n) \subseteq DOMAIN Script[n]
  BY DEF Reached
<1> QED
  BY <1>1, <1>2

(* A frame that is left holds the whole closure of its node: up to its     *)
(* last step, or up to the step whose failure it passes on.                *)
LEMMA LeftClosure ==
  ASSUME TypeOK, ChainInv, ProgressInv, CompleteInv, NEW t \in Task, Active(t),
         exc[t] # NoExc \/ pc[top[t]] \notin DOMAIN Script[top[t]],
         ExprOutcome(t) = "ok" \/ FailedInv
  PROVE  Deps[top[t]] \subseteq acc[top[t]]
<1> DEFINE n == top[t]
<1>n. n \in Node
  BY DEF TypeOK
<1>0. Len(Script[n]) \in Nat /\ DOMAIN Script[n] = 1..Len(Script[n])
  BY <1>n, ScriptFacts
<1>p. pc[n] \in 1..(Len(Script[n]) + 1) /\ \A i \in 1..(pc[n] - 1) : StepDeps(n, i) \subseteq acc[n]
  BY <1>n DEF ProgressInv, CompleteInv
<1>1. CASE exc[t] = NoExc
  <2>1. pc[n] = Len(Script[n]) + 1
    BY <1>0, <1>p, <1>1
  <2> QED
    BY <1>n, <1>0, <1>p, <2>1, WholeClosure
<1>2. CASE exc[t] # NoExc
  <2>1. Stops(n, pc[n])
    BY <1>2 DEF ProgressInv
  <2>2. FailedInv
    BY <1>2, LeftOutcome
  <2>3. StepDeps(n, pc[n]) \subseteq acc[n]
    BY <1>2, <2>2 DEF FailedInv
  <2>4. \A i \in Reached(n) : StepDeps(n, i) \subseteq acc[n]
    <3>1. ASSUME NEW i \in Reached(n) PROVE i \in 1..(pc[n] - 1) \/ i = pc[n]
      <4>1. i \in 1..Len(Script[n]) /\ \A j \in 1..(i - 1) : ~Stops(n, j)
        BY <1>0 DEF Reached
      <4>2. ~(pc[n] \in 1..(i - 1))
        BY <2>1, <4>1
      <4> QED
        BY <1>0, <1>p, <4>1, <4>2
    <3> QED
      BY <1>p, <2>3, <3>1
  <2>5. Deps[n] = UNION {StepDeps(n, i) : i \in Reached(n)}
    BY <1>n, OracleAssumption
  <2> QED
    BY <2>4, <2>5
<1> QED
  BY <1>1, <1>2

(* Frames stay complete when every evaluator tracks, and either nothing is *)
(* caught or one task runs at a time.                                      *)
LEMMA CompleteInductive ==
  ASSUME TypeOK, TypeOK', ChainInv, ProgressInv, CompleteInv, [Next]_vars,
         Untracked = {}, NothingCaught \/ (SoloInv /\ FailedInv)
  PROVE  CompleteInv'
<1> DEFINE Whole(v) == Out[v] = "ok" \/ ~NothingCaught
<1>w. ASSUME NEW v \in Value, cell[v] \in Finished, Whole(v) PROVE Deps[v] \subseteq label[v]
  BY <1>w DEF CompleteInv, FailedInv, ProgressInv, Finished, Outcome, Failure
<1>n. Task \subseteq Node /\ Value \subseteq Node
  BY DEF Node
<1>p. ASSUME NEW o \in Task, at[o] = "publish"
      PROVE  /\ top[o] \in Value /\ Pending(top[o]) /\ owner[top[o]] = o
             /\ previous[top[o]] \in Node
             /\ label[top[o]] = acc[top[o]] /\ acc[top[o]] \subseteq acc[previous[top[o]]]
  <2>1. top[o] \in Value /\ Pending(top[o]) /\ owner[top[o]] = o
    BY <1>p, ConstantsAssumption DEF ChainInv, TaskChain, Active
  <2>2. previous[top[o]] \in Node
    BY <2>1 DEF TypeOK
  <2>3. label[top[o]] = acc[top[o]] /\ acc[top[o]] \subseteq acc[previous[top[o]]]
    BY <1>p DEF CompleteInv
  <2> QED
    BY <2>1, <2>2, <2>3
<1>a. ASSUME NEW t \in Task, at[t] # "publish", Active(t), at'[t] # "publish",
             \A o \in Task \ {t} : at'[o] = at[o] /\ top'[o] = top[o],
             UNCHANGED <<cell, label, previous>>,
             \A n \in Node \ {top[t]} : acc'[n] = acc[n] /\ pc'[n] = pc[n],
             acc[top[t]] \subseteq acc'[top[t]],
             \/ pc'[top[t]] = pc[top[t]]
             \/ /\ pc'[top[t]] = pc[top[t]] + 1
                /\ StepDeps(top[t], pc[top[t]]) \subseteq acc'[top[t]]
      PROVE  CompleteInv'
  <2>1. \A o \in Task \ {t} : Active(o) => top[o] # top[t]
    BY <1>a, TopFacts
  <2>2. \A n \in Node : \A i \in 1..(pc'[n] - 1) : StepDeps(n, i) \subseteq acc'[n]
    <3>1. ASSUME NEW n \in Node, n # top[t], NEW i \in 1..(pc'[n] - 1) PROVE StepDeps(n, i) \subseteq acc'[n]
      <4>1. pc'[n] = pc[n] /\ acc'[n] = acc[n]
        BY <1>a, <3>1
      <4> QED
        BY <3>1, <4>1 DEF CompleteInv
    <3>2. PICK m \in Node : m = top[t]
      BY DEF TypeOK
    <3>3. ASSUME NEW i \in 1..(pc'[m] - 1) PROVE StepDeps(m, i) \subseteq acc'[m]
      <4>1. pc[m] \in Nat /\ acc[m] \subseteq acc'[m]
        BY <1>a, <3>2 DEF TypeOK
      <4>2. i \in 1..(pc[m] - 1) \/ (i = pc[m] /\ StepDeps(m, i) \subseteq acc'[m])
        BY <1>a, <3>2, <3>3, <4>1
      <4>3. i \in 1..(pc[m] - 1) => StepDeps(m, i) \subseteq acc[m]
        BY DEF CompleteInv
      <4> QED
        BY <4>1, <4>2, <4>3
    <3> QED
      BY <3>1, <3>2, <3>3
  <2>3. ASSUME NEW o \in Task, at'[o] = "publish"
        PROVE  (label[top[o]] = acc[top[o]] /\ acc[top[o]] \subseteq acc[previous[top[o]]])'
    <3>1. o # t /\ at[o] = "publish" /\ top'[o] = top[o] /\ top[o] # top[t] /\ top[o] \in Node
      BY <1>a, <2>1, <2>3 DEF Active, TypeOK
    <3>2. /\ previous[top[o]] \in Node /\ label[top[o]] = acc[top[o]]
          /\ acc[top[o]] \subseteq acc[previous[top[o]]]
      BY <3>1, <1>p
    <3> QED
      BY <1>a, <3>1, <3>2
  <2> QED
    BY <1>a, <2>2, <2>3 DEF CompleteInv
<1>1. ASSUME NEW t \in Task, Start(t) PROVE CompleteInv'
  BY <1>1 DEF Start, CompleteInv, TypeOK
<1>2. ASSUME NEW t \in Task, Read(t) PROVE CompleteInv'
  <2>1. top[t] \in Node /\ StepDeps(top[t], pc[top[t]]) = {Cur(t).arg}
    BY <1>2 DEF Read, AtStep, TypeOK, StepDeps, Cur
  <2>2. /\ acc' = [acc EXCEPT ![top[t]] = @ \cup {Cur(t).arg}]
        /\ pc' = [pc EXCEPT ![top[t]] = @ + 1]
    BY <1>2 DEF Read, Record
  <2>3. /\ \A n \in Node \ {top[t]} : acc'[n] = acc[n] /\ pc'[n] = pc[n]
        /\ acc'[top[t]] = acc[top[t]] \cup {Cur(t).arg} /\ pc'[top[t]] = pc[top[t]] + 1
    BY <2>1, <2>2 DEF TypeOK
  <2> QED
    BY <1>2, <1>a, <2>1, <2>3 DEF Read, AtStep, Active
<1>r. ASSUME NEW t \in Task, NEW n \in Node, NEW v \in Value, Forces(n, v), Return(t, n, Out[v])
      PROVE  /\ \A m \in Node \ {n} : pc'[m] = pc[m]
             /\ pc'[n] = pc[n] \/ (pc'[n] = pc[n] + 1 /\ Whole(v))
             /\ StepDeps(n, pc[n]) = Deps[v]
  BY <1>r DEF Return, Forces, Catches, NothingCaught, TypeOK, StepDeps
<1>3. ASSUME NEW t \in Task, ForceFinished(t) PROVE CompleteInv'
  <2>1. Active(t) /\ Forces(top[t], Cur(t).arg) /\ top[t] \in Node
    BY <1>3 DEF ForceFinished, AtStep, Active, Forces, Cur, TypeOK
  <2>2. PICK v \in Value : v = Cur(t).arg
    BY <2>1, ForcedValue
  <2>3. cell[v] = Out[v] /\ Return(t, top[t], Out[v])
    BY <1>3, <2>2 DEF ForceFinished, ProgressInv
  <2>4. acc' = [acc EXCEPT ![top[t]] = @ \cup label[v]]
    BY <1>3, <2>2 DEF ForceFinished, Record
  <2>5. Whole(v) => Deps[v] \subseteq label[v]
    BY <1>3, <1>w, <2>2 DEF ForceFinished
  <2>6. /\ \A n \in Node \ {top[t]} : acc'[n] = acc[n] /\ pc'[n] = pc[n]
        /\ acc[top[t]] \subseteq acc'[top[t]]
        /\ \/ pc'[top[t]] = pc[top[t]]
           \/ pc'[top[t]] = pc[top[t]] + 1 /\ StepDeps(top[t], pc[top[t]]) \subseteq acc'[top[t]]
    <3>1. /\ \A m \in Node \ {top[t]} : pc'[m] = pc[m]
          /\ pc'[top[t]] = pc[top[t]] \/ (pc'[top[t]] = pc[top[t]] + 1 /\ Whole(v))
          /\ StepDeps(top[t], pc[top[t]]) = Deps[v]
      BY <2>1, <2>2, <2>3, <1>r
    <3>2. /\ \A n \in Node \ {top[t]} : acc'[n] = acc[n]
          /\ acc[top[t]] \subseteq acc'[top[t]]
          /\ label[v] \subseteq acc'[top[t]]
      BY <2>1, <2>4 DEF TypeOK
    <3> QED
      BY <2>5, <3>1, <3>2
  <2> QED
    BY <1>3, <1>a, <2>1, <2>6 DEF ForceFinished, AtStep
<1>4. ASSUME NEW t \in Task, ForcePending(t) PROVE CompleteInv'
  BY <1>4 DEF ForcePending, CompleteInv, TypeOK
<1>5. ASSUME NEW t \in Task, ForceThunk(t) PROVE CompleteInv'
  BY <1>5 DEF ForceThunk, CompleteInv, TypeOK
<1>6. ASSUME NEW t \in Task, WinCas(t) PROVE CompleteInv'
  <2>0. PICK u \in Value : u = Cur(t).arg /\ cell[u] = "thunk"
    BY <1>6, ForcedValue DEF WinCas, ChainInv, TaskChain, TypeOK
  <2>1. ASSUME NEW o \in Task, at'[o] = "publish"
        PROVE  (label[top[o]] = acc[top[o]] /\ acc[top[o]] \subseteq acc[previous[top[o]]])'
    <3>1. o # t /\ at[o] = "publish" /\ top'[o] = top[o]
      BY <1>6, <2>1 DEF WinCas, TypeOK
    <3>2. top[o] # u /\ top[o] \in Value
      BY <2>0, <3>1, <1>p DEF Pending
    <3>3. previous'[top[o]] = previous[top[o]]
      BY <1>6, <2>0, <3>2 DEF WinCas, TypeOK
    <3> QED
      BY <1>6, <1>p, <3>1, <3>3 DEF WinCas
  <2>2. \A w \in Value : cell'[w] = "ok" => cell[w] = "ok"
    BY <1>6, <2>0 DEF WinCas, TypeOK
  <2> QED
    BY <1>6, <2>1, <2>2 DEF WinCas, CompleteInv
<1>7. ASSUME NEW t \in Task, LoseCas(t) PROVE CompleteInv'
  BY <1>7 DEF LoseCas, CompleteInv, TypeOK
<1>8. ASSUME NEW t \in Task, Resume(t) PROVE CompleteInv'
  <2>1. Active(t) /\ Forces(top[t], Cur(t).arg) /\ top[t] \in Node /\ at[t] # "publish"
    BY <1>8 DEF Resume, ChainInv, TaskChain, Active, TypeOK
  <2>2. PICK v \in Value : v = Cur(t).arg
    BY <2>1, ForcedValue
  <2>3. cell[v] = Out[v] /\ Return(t, top[t], Out[v])
    BY <1>8, <2>2 DEF Resume, ProgressInv
  <2>0. Whole(v) => Out[v] = "ok"
    BY <1>8, <2>2 DEF Resume, SoloInv, Finished, Outcome
  <2>4. acc' = [acc EXCEPT ![top[t]] = @ \cup (IF Out[v] = "ok" THEN label[v] ELSE {})]
    BY <1>8, <2>2, <2>3 DEF Resume, Record, ResumeRecords
  <2>5. Out[v] = "ok" => Deps[v] \subseteq label[v]
    BY <2>3 DEF CompleteInv
  <2>6. /\ \A n \in Node \ {top[t]} : acc'[n] = acc[n] /\ pc'[n] = pc[n]
        /\ acc[top[t]] \subseteq acc'[top[t]]
        /\ \/ pc'[top[t]] = pc[top[t]]
           \/ pc'[top[t]] = pc[top[t]] + 1 /\ StepDeps(top[t], pc[top[t]]) \subseteq acc'[top[t]]
    <3>1. /\ \A m \in Node \ {top[t]} : pc'[m] = pc[m]
          /\ pc'[top[t]] = pc[top[t]] \/ (pc'[top[t]] = pc[top[t]] + 1 /\ Whole(v))
          /\ StepDeps(top[t], pc[top[t]]) = Deps[v]
      BY <2>1, <2>2, <2>3, <1>r
    <3>2. /\ \A n \in Node \ {top[t]} : acc'[n] = acc[n]
          /\ acc[top[t]] \subseteq acc'[top[t]]
          /\ Out[v] = "ok" => label[v] \subseteq acc'[top[t]]
      BY <2>1, <2>4 DEF TypeOK
    <3> QED
      BY <2>0, <2>5, <3>1, <3>2
  <2>7. /\ \A o \in Task \ {t} : at'[o] = at[o] /\ top'[o] = top[o]
        /\ at'[t] = "run" /\ UNCHANGED <<cell, label, previous>>
    BY <1>8 DEF Resume, TypeOK
  <2> QED
    BY <1>a, <2>1, <2>6, <2>7
<1>9. ASSUME NEW t \in Task, Publish(t) PROVE CompleteInv'
  <2>0. PICK v \in Value, n \in Node : v = top[t] /\ n = previous[v]
    BY <1>9 DEF Publish, TypeOK
  <2>a. Active(t) /\ v # t
    BY <1>9, <2>0, ConstantsAssumption DEF Publish, ExprEnded, Active
  <2>b. Pending(v)
    BY <2>0, <2>a DEF ChainInv, TaskChain
  <2>c. owner[v] = t /\ n # top[owner[v]]
    BY <2>0, <2>a, <2>b DEF ChainInv, TaskChain, FrameChain
  <2>1. Active(t) /\ Pending(v) /\ n # v
    BY <2>0, <2>a, <2>b, <2>c
  <2>2. /\ label' = [label EXCEPT ![v] = acc[v]]
        /\ acc' = [acc EXCEPT ![n] = acc[n] \cup acc[v]]
        /\ UNCHANGED <<cell, previous, pc, top>>
    BY <1>9, <2>0 DEF Publish
  <2>3. \A m \in Node : acc[m] \subseteq acc'[m] /\ (m # n => acc'[m] = acc[m])
    BY <2>2 DEF TypeOK
  <2>4. ASSUME NEW o \in Task, at'[o] = "publish"
        PROVE  (label[top[o]] = acc[top[o]] /\ acc[top[o]] \subseteq acc[previous[top[o]]])'
    <3>1. CASE o = t
      BY <2>0, <2>1, <2>2, <2>3, <3>1, <1>n DEF TypeOK
    <3>2. CASE o # t
      <4>1. at[o] = "publish"
        BY <1>9, <2>4, <3>2 DEF Publish, TypeOK
      <4>2. top[o] # n /\ top[o] # v
        BY <2>0, <2>1, <3>2, <4>1, TopFacts DEF Active
      <4> QED
        BY <1>p, <1>n, <2>2, <2>3, <4>1, <4>2 DEF TypeOK
    <3> QED
      BY <3>1, <3>2
  <2>5. \A w \in Value : cell[w] = "ok" => label'[w] = label[w]
    BY <2>1, <2>2 DEF Pending, TypeOK
  <2>6. \A m \in Node : \A i \in 1..(pc'[m] - 1) : StepDeps(m, i) \subseteq acc'[m]
    BY <2>2, <2>3 DEF CompleteInv
  <2> QED
    BY <2>2, <2>4, <2>5, <2>6 DEF CompleteInv
<1>10. ASSUME NEW t \in Task, Exchange(t) PROVE CompleteInv'
  <2>0. PICK u \in Value, n \in Node : u = top[t] /\ n = previous[u]
    BY <1>10 DEF Exchange, TypeOK, ChainInv, TaskChain
  <2>1. Active(t) /\ Pending(u) /\ Forces(n, u) /\ label[u] = acc[u] /\ acc[u] \subseteq acc[n]
    BY <1>10, <2>0, <1>p DEF Exchange, ChainInv, FrameChain, Active
  <2>2. ExprOutcome(t) = Out[u]
    BY <1>10, <2>0, <2>1, LeftOutcome DEF Exchange, ChainInv, TaskChain
  <2>3. Whole(u) => Deps[u] \subseteq acc[u]
    <3>1. exc[t] # NoExc \/ pc[top[t]] \notin DOMAIN Script[top[t]]
      BY <1>10 DEF Exchange, ChainInv, TaskChain
    <3> QED
      BY <2>0, <2>1, <2>2, <3>1, LeftClosure
  <2>4. Return(t, n, Out[u]) /\ UNCHANGED <<label, previous, acc>>
    BY <1>10, <2>0, <2>2 DEF Exchange
  <2>5. /\ \A m \in Node \ {n} : pc'[m] = pc[m]
        /\ pc'[n] = pc[n] \/ (pc'[n] = pc[n] + 1 /\ StepDeps(n, pc[n]) \subseteq acc[n])
    BY <1>r, <2>1, <2>3, <2>4
  <2>6. \A m \in Node : \A i \in 1..(pc'[m] - 1) : StepDeps(m, i) \subseteq acc'[m]
    <3>1. ASSUME NEW m \in Node, NEW i \in 1..(pc'[m] - 1) PROVE StepDeps(m, i) \subseteq acc'[m]
      <4>1. CASE i \in 1..(pc[m] - 1)
        BY <2>4, <4>1 DEF CompleteInv
      <4>2. CASE i \notin 1..(pc[m] - 1)
        <5>1. pc[m] \in Nat /\ pc'[m] \in Nat
          BY DEF TypeOK
        <5>2. m = n /\ i = pc[n] /\ pc'[n] = pc[n] + 1
          BY <2>5, <3>1, <4>2, <5>1
        <5> QED
          BY <2>4, <2>5, <5>1, <5>2
      <4> QED
        BY <4>1, <4>2
    <3> QED
      BY <3>1
  <2>7. \A w \in Value : cell'[w] = "ok" => Deps[w] \subseteq label'[w]
    BY <1>10, <2>0, <2>1, <2>2, <2>3, <2>4 DEF Exchange, CompleteInv, TypeOK
  <2>8. \A o \in Task : at'[o] = "publish" => at[o] = "publish" /\ top'[o] = top[o]
    BY <1>10 DEF Exchange, TypeOK
  <2> QED
    BY <2>4, <2>6, <2>7, <2>8 DEF CompleteInv
<1>11. ASSUME NEW t \in Task, Snapshot(t) PROVE CompleteInv'
  BY <1>11 DEF Snapshot, CompleteInv, TypeOK
<1>12. CASE UNCHANGED vars
  BY <1>12 DEF vars, CompleteInv
<1> QED
  BY <1>1, <1>2, <1>3, <1>4, <1>5, <1>6, <1>7, <1>8, <1>9, <1>10, <1>11, <1>12 DEF Next, TaskNext

(* Completeness at rest: what the invariants say of targets and values.    *)
LEMMA CompleteExact ==
  ASSUME SoundInv, CompleteInv, ProgressInv PROVE ExactClosures /\ LabelsExact
<1>1. LabelsExact
  BY DEF SoundInv, CompleteInv, LabelsExact
<1>2. ASSUME NEW t \in Task, at[t] = "done", exc[t] = "ok" PROVE acc[t] = Deps[t]
  <2>1. t \in Node /\ pc[t] = Len(Script[t]) + 1
    BY <1>2 DEF ProgressInv, Node
  <2>2. \A i \in DOMAIN Script[t] : StepDeps(t, i) \subseteq acc[t]
    BY <2>1, ScriptFacts DEF CompleteInv
  <2> QED
    BY <2>1, <2>2, WholeClosure DEF SoundInv
<1> QED
  BY <1>1, <1>2 DEF ExactClosures

(* Where every evaluator tracks and no throwing value is forced under      *)
(* tryEval, the closure of every target and the label of every finished    *)
(* value are exactly those of isolated evaluation, under every             *)
(* interleaving of parallel targets over the shared graph.                 *)
THEOREM ClosuresExact ==
  ASSUME Untracked = {}, NothingCaught
  PROVE  Spec => [](ExactClosures /\ LabelsExact)
<1>1. Init => CompleteInv
  BY InitInv
<1>2. TypeOK /\ TypeOK' /\ ChainInv /\ ProgressInv /\ CompleteInv /\ [Next]_vars => CompleteInv'
  BY CompleteInductive
<1>3. SoundInv /\ CompleteInv /\ ProgressInv => ExactClosures /\ LabelsExact
  BY CompleteExact
<1> QED
  BY <1>1, <1>2, <1>3, InvariantHolds, PTL DEF Spec

--------------------------------------------------------------------------------
(* Sequential evaluation, where failures may be caught.                    *)

(* Only the task that moves is active.                                     *)
LEMMA SoloInductive ==
  ASSUME TypeOK, ChainInv, SoloInv, [Next]_vars, Parallel = FALSE
  PROVE  SoloInv'
<1> USE DEF TypeOK
<1>1. ASSUME NEW t \in Task, Start(t) PROVE SoloInv'
  <2>1. \A o \in Task \ {t} : ~Active(o)
    BY <1>1 DEF Start, MayStart
  <2> QED
    BY <1>1, <2>1 DEF Start, SoloInv, Active, Cur
<1>a. ASSUME NEW t \in Task, Active(t), at'[t] \in {"run", "publish", "done"},
             \A o \in Task \ {t} : at'[o] = at[o]
      PROVE  SoloInv'
  <2>1. \A o \in Task : Active(o)' => o = t
    BY <1>a DEF SoloInv, Active
  <2>2. \A o \in Task : at'[o] \notin {"lost", "cas", "wait"}
    BY <1>a, <2>1 DEF Active
  <2> QED
    BY <2>1, <2>2 DEF SoloInv
<1>2. ASSUME NEW t \in Task, Read(t) \/ ForceFinished(t) PROVE SoloInv'
  BY <1>2, <1>a DEF Read, ForceFinished, AtStep, Active
<1>3. ASSUME NEW t \in Task, ForcePending(t) \/ ForceThunk(t) PROVE SoloInv'
  <2>1. CASE ForcePending(t)
    BY <2>1 DEF ForcePending, AtStep, SoloInv, Active, Cur
  <2>2. CASE ForceThunk(t)
    BY <2>2 DEF ForceThunk, AtStep, SoloInv, Active, Cur
  <2> QED
    BY <1>3, <2>1, <2>2
<1>4. ASSUME NEW t \in Task, WinCas(t) PROVE SoloInv'
  BY <1>4, <1>a DEF WinCas, Active
<1>5. ASSUME NEW t \in Task, LoseCas(t) PROVE SoloInv'
  BY <1>5 DEF LoseCas, SoloInv
<1>6. ASSUME NEW t \in Task, Resume(t) PROVE SoloInv'
  BY <1>6, <1>a DEF Resume, Active
<1>7. ASSUME NEW t \in Task, Publish(t) PROVE SoloInv'
  BY <1>7, <1>a DEF Publish, ExprEnded, Active
<1>8. ASSUME NEW t \in Task, Exchange(t) PROVE SoloInv'
  BY <1>8, <1>a DEF Exchange, Active
<1>9. ASSUME NEW t \in Task, Snapshot(t) PROVE SoloInv'
  BY <1>9, <1>a DEF Snapshot, ExprEnded, Active
<1>10. CASE UNCHANGED vars
  BY <1>10 DEF vars, SoloInv, Active, Cur
<1> QED
  BY <1>1, <1>2, <1>3, <1>4, <1>5, <1>6, <1>7, <1>8, <1>9, <1>10 DEF Next, TaskNext

(* A failure is passed on with everything read on the way to it.           *)
LEMMA FailedInductive ==
  ASSUME TypeOK, ChainInv, ProgressInv, CompleteInv, SoloInv, FailedInv, [Next]_vars, Untracked = {}
  PROVE  FailedInv'
<1>n. Task \subseteq Node /\ Value \subseteq Node
  BY DEF Node
<1>a. ASSUME NEW t \in Task, Active(t), \A o \in Task \ {t} : at'[o] = at[o], NEW m \in Node, m = top'[t],
             exc'[t] # NoExc => StepDeps(m, pc'[m]) \subseteq acc'[m],
             \A v \in Value : cell'[v] \in Failure => Deps[v] \subseteq label'[v]
      PROVE  FailedInv'
  <2>1. \A o \in Task : Active(o)' => o = t
    BY <1>a DEF SoloInv, Active
  <2> QED
    BY <1>a, <2>1 DEF FailedInv
<1>r. ASSUME NEW t \in Task, NEW n \in Node, NEW v \in Value, Forces(n, v), Return(t, n, Out[v]),
             exc'[t] # NoExc
      PROVE  pc'[n] = pc[n] /\ StepDeps(n, pc'[n]) = Deps[v]
  BY <1>r DEF Return, Forces, TypeOK, StepDeps
<1>1. ASSUME NEW t \in Task, Start(t) PROVE FailedInv'
  BY <1>1 DEF Start, FailedInv, TypeOK, ChainInv, TaskChain, Active
<1>2. ASSUME NEW t \in Task, Read(t) PROVE FailedInv'
  <2>1. Active(t) /\ exc'[t] = NoExc /\ top'[t] \in Node /\ \A o \in Task \ {t} : at'[o] = at[o]
    BY <1>2 DEF Read, AtStep, Active, TypeOK
  <2>2. UNCHANGED <<cell, label>>
    BY <1>2 DEF Read
  <2> QED
    BY <1>a, <2>1, <2>2 DEF FailedInv
<1>3. ASSUME NEW t \in Task, ForceFinished(t) PROVE FailedInv'
  <2>1. Active(t) /\ Forces(top[t], Cur(t).arg) /\ top[t] \in Node
    BY <1>3 DEF ForceFinished, AtStep, Active, Forces, Cur, TypeOK
  <2>2. PICK v \in Value : v = Cur(t).arg
    BY <2>1, ForcedValue
  <2>3. cell[v] = Out[v] /\ cell[v] \in Finished /\ Return(t, top[t], Out[v])
    BY <1>3, <2>2 DEF ForceFinished, ProgressInv
  <2>4. acc' = [acc EXCEPT ![top[t]] = @ \cup label[v]] /\ UNCHANGED <<cell, label, top, at>>
    BY <1>3, <2>2 DEF ForceFinished, Record
  <2>5. Deps[v] \subseteq label[v]
    BY <2>3 DEF CompleteInv, FailedInv, Finished, Outcome, Failure
  <2>6. Deps[v] \subseteq acc'[top[t]]
    BY <2>1, <2>4, <2>5 DEF TypeOK
  <2>7. exc'[t] # NoExc => StepDeps(top[t], pc'[top[t]]) \subseteq acc'[top[t]]
    BY <1>r, <2>1, <2>2, <2>3, <2>6
  <2>8. \A w \in Value : cell'[w] \in Failure => Deps[w] \subseteq label'[w]
    BY <2>4 DEF FailedInv
  <2>9. PICK m \in Node : m = top[t]
    BY <2>1
  <2> QED
    BY <1>a, <2>1, <2>4, <2>7, <2>8, <2>9
<1>4. ASSUME NEW t \in Task, ForcePending(t) \/ ForceThunk(t) \/ LoseCas(t) PROVE FailedInv'
  BY <1>4 DEF ForcePending, ForceThunk, LoseCas, AtStep, FailedInv, TypeOK, Active
<1>5. ASSUME NEW t \in Task, WinCas(t) PROVE FailedInv'
  <2>1. Active(t) /\ exc'[t] = NoExc /\ \A o \in Task \ {t} : at'[o] = at[o]
    BY <1>5 DEF WinCas, Active, TypeOK, ChainInv, TaskChain
  <2>2. PICK u \in Value : u = Cur(t).arg /\ cell[u] = "thunk"
    BY <1>5, ForcedValue DEF WinCas, ChainInv, TaskChain, TypeOK
  <2>3. top'[t] = u /\ label' = label /\ \A w \in Value : cell'[w] \in Failure => cell[w] \in Failure
    BY <1>5, <2>2 DEF WinCas, TypeOK, Failure
  <2> QED
    BY <1>a, <1>n, <2>1, <2>3 DEF FailedInv
<1>6. ASSUME NEW t \in Task, Resume(t) PROVE FailedInv'
  BY <1>6 DEF Resume, SoloInv, Finished, Outcome
<1>7. ASSUME NEW t \in Task, Publish(t) PROVE FailedInv'
  <2>0. PICK v \in Value, n \in Node : v = top[t] /\ n = previous[v]
    BY <1>7 DEF Publish, TypeOK
  <2>a. Active(t) /\ v # t
    BY <1>7, <2>0, ConstantsAssumption DEF Publish, ExprEnded, Active
  <2>b. Pending(v)
    BY <2>0, <2>a DEF ChainInv, TaskChain
  <2>c. \A o \in Task \ {t} : at'[o] = at[o]
    BY <1>7 DEF Publish, TypeOK
  <2>d. owner[v] = t /\ n # top[owner[v]]
    BY <2>0, <2>a, <2>b DEF ChainInv, TaskChain, FrameChain
  <2>1. Active(t) /\ Pending(v) /\ n # v /\ \A o \in Task \ {t} : at'[o] = at[o]
    BY <2>0, <2>a, <2>b, <2>c, <2>d
  <2>2. /\ label' = [label EXCEPT ![v] = acc[v]] /\ acc' = [acc EXCEPT ![n] = acc[n] \cup acc[v]]
        /\ UNCHANGED <<cell, pc, top, exc>>
    BY <1>7, <2>0 DEF Publish
  <2>3. exc'[t] # NoExc => StepDeps(v, pc'[v]) \subseteq acc'[v]
    BY <1>n, <2>0, <2>1, <2>2 DEF FailedInv, TypeOK
  <2>4. \A w \in Value : cell'[w] \in Failure => Deps[w] \subseteq label'[w]
    BY <2>1, <2>2 DEF FailedInv, Pending, Failure, TypeOK
  <2> QED
    BY <1>a, <1>n, <2>0, <2>1, <2>2, <2>3, <2>4
<1>8. ASSUME NEW t \in Task, Exchange(t) PROVE FailedInv'
  <2>0. PICK u \in Value, n \in Node : u = top[t] /\ n = previous[u]
    BY <1>8 DEF Exchange, TypeOK, ChainInv, TaskChain
  <2>1. Active(t) /\ Pending(u) /\ Forces(n, u) /\ label[u] = acc[u] /\ acc[u] \subseteq acc[n]
    <3>1. Active(t) /\ Pending(u)
      BY <1>8, <2>0, ConstantsAssumption DEF Exchange, ChainInv, TaskChain, Active
    <3>2. label[u] = acc[u] /\ acc[u] \subseteq acc[n]
      BY <1>8, <2>0 DEF Exchange, CompleteInv
    <3> QED
      BY <2>0, <3>1, <3>2 DEF ChainInv, FrameChain
  <2>2. exc[t] # NoExc \/ pc[top[t]] \notin DOMAIN Script[top[t]]
    BY <1>8 DEF Exchange, ChainInv, TaskChain
  <2>3. ExprOutcome(t) = Out[u] /\ Deps[u] \subseteq acc[u]
    BY <2>0, <2>1, <2>2, LeftOutcome, LeftClosure
  <2>4. /\ Return(t, n, Out[u]) /\ UNCHANGED <<label, acc>> /\ top'[t] = n
        /\ \A o \in Task \ {t} : at'[o] = at[o]
        /\ \A w \in Value : w # u => cell'[w] = cell[w]
    BY <1>8, <2>0, <2>3 DEF Exchange, TypeOK
  <2>5. exc'[t] # NoExc => StepDeps(n, pc'[n]) \subseteq acc'[n]
    BY <1>r, <2>1, <2>3, <2>4
  <2>6. \A w \in Value : cell'[w] \in Failure => Deps[w] \subseteq label'[w]
    BY <2>1, <2>3, <2>4 DEF FailedInv
  <2> QED
    BY <1>a, <2>1, <2>4, <2>5, <2>6
<1>9. ASSUME NEW t \in Task, Snapshot(t) PROVE FailedInv'
  <2>1. UNCHANGED <<cell, label, pc, acc, top>>
    BY <1>9 DEF Snapshot
  <2>2. \A o \in Task : ~Active(o)'
    BY <1>9 DEF Snapshot, ExprEnded, SoloInv, Active, TypeOK
  <2> QED
    BY <2>1, <2>2 DEF FailedInv
<1>10. CASE UNCHANGED vars
  BY <1>10 DEF vars, FailedInv, Active
<1> QED
  BY <1>1, <1>2, <1>3, <1>4, <1>5, <1>6, <1>7, <1>8, <1>9, <1>10 DEF Next, TaskNext

(* Evaluated one after the other, targets have exact closures and values   *)
(* exact labels even where tryEval catches failures: what goes wrong for a *)
(* waiter in parallel evaluation cannot happen.                            *)
LEMMA SequentialExact ==
  ASSUME Untracked = {}, Parallel = FALSE
  PROVE  Spec => [](ExactClosures /\ LabelsExact /\ FailedLabelsExact)
<1> DEFINE Sequential == CompleteInv /\ SoloInv /\ FailedInv
<1>1. Init => Sequential
  BY InitInv DEF Init, SoloInv, FailedInv, Active, Failure
<1>2. TypeOK /\ TypeOK' /\ ChainInv /\ ProgressInv /\ Sequential /\ [Next]_vars => Sequential'
  BY CompleteInductive, SoloInductive, FailedInductive
<1>3. SoundInv /\ ProgressInv /\ Sequential => ExactClosures /\ LabelsExact /\ FailedLabelsExact
  BY CompleteExact DEF FailedInv, SoundInv, FailedLabelsExact
<1> QED
  BY <1>1, <1>2, <1>3, InvariantHolds, PTL DEF Spec

(* The closure of every target that evaluates, in sequence, with tryEval.  *)
THEOREM SequentialClosuresExact ==
  ASSUME Untracked = {}, Parallel = FALSE PROVE Spec => []ExactClosures
BY SequentialExact, PTL

(* The label of every value that failed: a consumer that catches it takes  *)
(* over all that was read.                                                 *)
THEOREM FailuresLabelled ==
  ASSUME Untracked = {}, Parallel = FALSE PROVE Spec => []FailedLabelsExact
BY SequentialExact, PTL

(* The label of every value that evaluated, whether the targets ran in     *)
(* parallel with nothing caught, or one after the other.                   *)
THEOREM ValuesLabelled ==
  ASSUME Untracked = {}, NothingCaught \/ Parallel = FALSE PROVE Spec => []LabelsExact
<1>1. CASE NothingCaught
  BY <1>1, ClosuresExact, PTL
<1>2. CASE Parallel = FALSE
  BY <1>2, SequentialExact, PTL
<1> QED
  BY <1>1, <1>2
================================================================================
