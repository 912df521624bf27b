------------------------------ MODULE FrameStack -------------------------------
(***************************************************************************)
(* The tracking frames of one TrackingContext as the code keeps them       *)
(* (tecnix/source-deps.cc): two stacks of ids shared by all frames, a pair *)
(* of watermarks per frame, and the access-set graph that interns paths    *)
(* and sets of paths (EvalSourceAccessSetGraph) for every evaluation.      *)
(*                                                                         *)
(* The evaluator is nondeterministic: an expression reads paths, forces    *)
(* values, calls a memoized function, throws, catches and returns in any   *)
(* order.  What is fixed is how the operations that open scopes use them:  *)
(* builtins.tecnixInternalSourceDepsScope, evalFile and                    *)
(* builtins.tecnixMemoize.  They are primops: callFunction gives them a    *)
(* temporary for their result, which carries a label of its own, and       *)
(* copies it to the value being forced after they return, if the           *)
(* expression ends with the call.  FrameSets is what all of it amounts to. *)
(***************************************************************************)
EXTENDS Naturals, Sequences, FiniteSets, SequencesExt

CONSTANTS
  Path,         \* repository paths
  Plain,        \* values with an ordinary expression
  File,         \* values of files, in trackedFileEvalCache
  OwnPath,      \* the path of a file
  MemoKey,      \* the one memoized call
  None,         \* no value, no entry
  MaxInputKeys, \* maxInputKeys, with the sentinel entry
  Uses,         \* what the expression of a value, call or target may force or import
  OtherReads,   \* what other evaluations of a value or of a call may read
  MaxAccesses,  \* bound: direct accesses recorded at a time
  MaxChildren,  \* bound: child sets recorded at a time, before a publish
  MaxFrames     \* bound: frames

Value == Plain \cup File
Key == {MemoKey} \cup File

ASSUME FrameConstants ==
  /\ Plain \cap File = {} /\ OwnPath \in [File -> Path]
  /\ MemoKey \notin Value /\ None \notin Value \cup {MemoKey} \cup Nat
  /\ \A S \in SUBSET Path : S # None
  /\ Uses \in [Value \cup {MemoKey, None} -> SUBSET Value]
  /\ OtherReads \in [Value \cup Key -> SUBSET SUBSET Path]
  /\ \A x \in Value \cup Key : \A S \in OtherReads[x] : IsFiniteSet(S)
  /\ {MaxInputKeys, MaxAccesses, MaxChildren, MaxFrames} \subseteq Nat

VARIABLES
  graph,        \* EvalSourceAccessSetGraph, shared by all evaluations
  ctx,          \* the TrackingContext and the chain of its frames
  cell,         \* Value::p0
  label,        \* Value::trackedSourceAccessSet
  table,        \* trackedTecnixMemoizeCache and trackedImportResolutionCache
  exc,          \* an exception is propagating
  op            \* the last operation (history: the interface of FrameSets)

vars == <<graph, ctx, cell, label, table, exc, op>>

(***************************************************************************)
(* The graph.  Ids are positions; 0 is the empty id of both kinds.  The    *)
(* hash chains and the table of singletons are lookups by content.         *)
(***************************************************************************)
InternAccess(g, p) ==
  IF \E i \in DOMAIN g.accesses : g.accesses[i] = p THEN g
  ELSE [g EXCEPT !.accesses = Append(@, p)]

AccessId(g, p) == CHOOSE i \in DOMAIN g.accesses : g.accesses[i] = p

Items(g, id) == IF id = 0 THEN {} ELSE g.accessSets[id]

InternItems(g, items) ==
  IF items = {} \/ \E i \in DOMAIN g.accessSets : g.accessSets[i] = items THEN g
  ELSE [g EXCEPT !.accessSets = Append(@, items)]

ItemsId(g, items) ==
  IF items = {} THEN 0 ELSE CHOOSE i \in DOMAIN g.accessSets : g.accessSets[i] = items

RememberInputKey(g, key, id) ==
  IF Cardinality(DOMAIN g.inputKeys) + 1 >= MaxInputKeys THEN g
  ELSE [g EXCEPT !.inputKeys = [k \in DOMAIN @ \cup {key} |-> IF k = key THEN id ELSE @[k]]]

(* The key an input is memoised under, its two parts kept apart.           *)
(* Mutant: the ids of both parts in one list.                              *)
InputKeyMixed(direct, children) == <<direct \cup children, {}>>
InputKey(direct, children) == <<direct, children>>

(* internAccessSet: the graph and the id of the union.                     *)
InternAccessSet(g, directAccesses, childSets) ==
  LET direct == Range(directAccesses)
      children == Range(childSets)
      key == InputKey(direct, children)
      items == direct \cup UNION {Items(g, c) : c \in children}
      interned == InternItems(g, items)
      id == ItemsId(interned, items)
      result(gr, i) == [graph |-> gr, id |-> i]
  IN  IF direct = {} /\ children = {} THEN result(g, 0)
      ELSE IF direct = {} /\ Cardinality(children) = 1
        THEN result(g, CHOOSE c \in children : TRUE)
      ELSE IF children = {} /\ Cardinality(direct) = 1 THEN result(interned, id)
      ELSE IF key \in DOMAIN g.inputKeys THEN result(g, g.inputKeys[key])
      ELSE result(RememberInputKey(interned, key, id), id)

(* Another evaluation interns the paths S, in any order, and their set.    *)
InternPaths(g, S) ==
  LET accessed == [g EXCEPT !.accesses = @ \o SetToSeq(S \ Range(@))] IN
    InternAccessSet(accessed, SetToSeq({AccessId(accessed, p) : p \in S}), <<>>)

(* flatten: the paths of a frame's accesses and child sets.                *)
Flatten(g, accesses, children) ==
  {g.accesses[a] : a \in accesses \cup UNION {Items(g, c) : c \in children}}

(***************************************************************************)
(* Frames.  A frame's entries are what sits above its watermarks.          *)
(***************************************************************************)
Top == Len(ctx.frames)
Frame(i) == ctx.frames[i]

(* A frame.  role: the root, the force of `value', or a scope.  at: where  *)
(* its code is; arg: the value a scope or an import in its expression is   *)
(* about; tmp: the label of the temporary that holds the result of the     *)
(* last call in its expression.                                            *)
NewFrame(c, role, v, at, arg) ==
  [role |-> role, value |-> v, at |-> at, arg |-> arg, tmp |-> 0, published |-> FALSE,
   accessBase |-> Len(c.access), childBase |-> Len(c.child)]

(* Mutant: a scope starts at the watermarks of the frame below it.         *)
EnterBelow(c, role, v, at, arg) ==
  LET below == c.frames[Len(c.frames)]
      frame == NewFrame(c, role, v, at, arg)
  IN  [c EXCEPT !.frames = Append(@,
         IF v # None THEN frame
         ELSE [frame EXCEPT !.accessBase = below.accessBase, !.childBase = below.childBase])]

Enter(c, role, v, at, arg) == [c EXCEPT !.frames = Append(@, NewFrame(c, role, v, at, arg))]

(* c with the code of its top frame going on at `at'.                      *)
Goes(c, at, arg, tmp) ==
  [c EXCEPT !.frames[Len(c.frames)] = [@ EXCEPT !.at = at, !.arg = arg, !.tmp = tmp]]

Direct(c, i) == SubSeq(c.access, c.frames[i].accessBase + 1, Len(c.access))
Children(c, i) == SubSeq(c.child, c.frames[i].childBase + 1, Len(c.child))

(* Mutant: duplicates are suppressed against the parent's entries too.     *)
AddFrameAccessAnywhere(c, i, id) ==
  IF c.access # <<>> /\ Last(c.access) = id THEN c ELSE [c EXCEPT !.access = Append(@, id)]

AddFrameAccess(c, i, id) ==
  IF Direct(c, i) # <<>> /\ Last(c.access) = id THEN c
  ELSE [c EXCEPT !.access = Append(@, id)]

AddFrameChild(c, i, id) ==
  IF id = 0 \/ (Children(c, i) # <<>> /\ Last(c.child) = id) THEN c
  ELSE [c EXCEPT !.child = Append(@, id)]

Shorter(s, n) == SubSeq(s, 1, IF Len(s) > n THEN n ELSE Len(s))

Truncated(c, i) ==
  [access |-> Shorter(c.access, c.frames[i].accessBase),
   child |-> Shorter(c.child, c.frames[i].childBase), frames |-> c.frames]

(* collapseFrameToAccessSet: the region becomes one id, in the parent's.   *)
Collapse(c, i, id) ==
  LET d == AddFrameChild(Truncated(c, i), i - 1, id) IN
    [d EXCEPT !.frames[i].accessBase = Len(d.access),
              !.frames[i].childBase = Len(d.child),
              !.frames[i].published = TRUE]

(* The frame on top ends: mergeUnpublishedTrackedSourceDepsFrame.          *)
Ended(c) ==
  LET n == Len(c.frames)
      d == IF c.frames[n].published THEN Truncated(c, n) ELSE c
  IN  [d EXCEPT !.frames = SubSeq(@, 1, n - 1)]

Init ==
  /\ graph = [accesses |-> <<>>, accessSets |-> <<>>, inputKeys |-> [k \in {} |-> 0]]
  /\ ctx = [access |-> <<>>, child |-> <<>>,
            frames |-> <<[role |-> "root", value |-> None, at |-> "body", arg |-> None, tmp |-> 0,
                          published |-> FALSE, accessBase |-> 0, childBase |-> 0]>>]
  /\ cell = [v \in Value |-> "thunk"]
  /\ label = [v \in Value |-> 0]
  /\ table = [k \in Key |-> None]
  /\ exc = FALSE
  /\ op = <<"start", None>>

(* Bound: there is room for one more entry and one more frame.             *)
Room ==
  /\ Len(ctx.access) < MaxAccesses /\ Len(ctx.child) < MaxChildren /\ Top < MaxFrames

At(at) == ~exc /\ Frame(Top).at = at
InBody == At("body")

(* What the expression of the top frame may force or import.               *)
Used == Uses[IF Frame(Top).role = "memo" THEN MemoKey ELSE Frame(Top).value]

(***************************************************************************)
(* An expression reads a path.                                             *)
(***************************************************************************)
RecordAccess(c, p) ==
  /\ graph' = InternAccess(graph, p)
  /\ ctx' = AddFrameAccess(c, Top, AccessId(graph', p))
  /\ op' = <<"read", p>>
  /\ UNCHANGED <<cell, label, table, exc>>

Read(p) == (InBody \/ At("resolving")) /\ Room /\ RecordAccess(ctx, p)

(* parseExprFromFileCached records the file, parsed before or not.         *)
ParseFile(p) ==
  /\ At("parse") /\ p = OwnPath[Frame(Top).value]
  /\ RecordAccess(Goes(ctx, "body", None, 0), p)

(***************************************************************************)
(* forceValueTracked, called by an expression, a scope, or evalFile.       *)
(***************************************************************************)
Forces(v) ==
  \/ InBody /\ v \in Used \ File
  \/ (At("needs") \/ At("resolved")) /\ v = Frame(Top).arg

(* c with the code of its top frame going on after the force.              *)
Resumed(c) ==
  LET f == c.frames[Len(c.frames)] IN
    Goes(c, IF f.at = "body" THEN "body" ELSE "forced", f.arg, f.tmp)

ForceThunk(v) ==
  /\ Forces(v) /\ cell[v] = "thunk" /\ Room
  /\ ctx' = Enter(ctx, "force", v, IF v \in File THEN "parse" ELSE "body", None)
  /\ cell' = [cell EXCEPT ![v] = "pending"]
  /\ op' = <<"frames", None>>
  /\ UNCHANGED <<graph, label, table, exc>>

(* Finished already: recordPublishedDependencies; a failure is rethrown.   *)
ForceFinished(v) ==
  /\ Forces(v) /\ cell[v] \in {"ok", "failed"} /\ Room
  /\ ctx' = Resumed(AddFrameChild(ctx, Top, label[v]))
  /\ exc' = (cell[v] = "failed")
  /\ op' = <<"inherit", v>>
  /\ UNCHANGED <<graph, cell, label, table>>

(* Another evaluation read the paths S and finished v with them.           *)
FinishedElsewhere(v, S) ==
  LET interned == InternPaths(graph, S) IN
    /\ cell[v] = "thunk" /\ cell' = [cell EXCEPT ![v] = "ok"]
    /\ graph' = interned.graph
    /\ label' = [label EXCEPT ![v] = interned.id]
    /\ UNCHANGED <<table, exc>>

(* It did so while the value was forced here: the frame entered here is    *)
(* left unpublished with the label in it.                                  *)
ForceAwaited(v, S) ==
  /\ Forces(v) /\ Room
  /\ FinishedElsewhere(v, S)
  /\ ctx' = Resumed(Ended(AddFrameChild(Enter(ctx, "force", v, "body", None), Top + 1, label'[v])))
  /\ op' = <<"frames", None>>

(* It did so while this evaluation was elsewhere, or before a force here.  *)
OtherForces(v, S) ==
  /\ FinishedElsewhere(v, S)
  /\ op' = <<"frames", None>>
  /\ UNCHANGED ctx

(* A value that needs itself.                                              *)
ForcePending(v) ==
  /\ Forces(v) /\ cell[v] = "pending"
  /\ exc' = TRUE
  /\ UNCHANGED <<graph, ctx, cell, label, table, op>>

(* The value being forced is finished, from context c: finish() calls      *)
(* publishTrackedValueDependencies.                                        *)
Publish(c, src) ==
  LET v == Frame(Top).value
      interned == InternAccessSet(graph, Direct(c, Top), Children(c, Top))
  IN
    /\ graph' = interned.graph
    /\ label' = [label EXCEPT ![v] = interned.id]
    /\ ctx' = Goes(Collapse(c, Top, interned.id), "returned", None, 0)
    /\ cell' = [cell EXCEPT ![v] = "ok"]
    /\ op' = <<"publish", src>>
    /\ UNCHANGED <<table, exc>>

(* The expression is evaluated: v.mk...(...), or a copy of another value   *)
(* whose label copyTrackedValueDependencies adds first.                    *)
Return(src) ==
  /\ InBody /\ Frame(Top).role = "force"
  /\ src # None => cell[src] = "ok" /\ src \in Used
  /\ Publish(IF src = None THEN ctx ELSE AddFrameChild(ctx, Top, label[src]), src)

(* It ends with a call: vRes = vCur copies the temporary, and its label.   *)
ReturnCall ==
  /\ InBody /\ Frame(Top).role = "force" /\ Frame(Top).tmp # 0
  /\ Publish(AddFrameChild(ctx, Top, Frame(Top).tmp), None)

EndForce ==
  /\ At("returned")
  /\ ctx' = Resumed(Ended(ctx))
  /\ op' = <<"frames", None>>
  /\ UNCHANGED <<graph, cell, label, table, exc>>

(***************************************************************************)
(* Exceptions: a failing value is finished too, and labelled with what was *)
(* read so far; a scope is left unpublished.                               *)
(***************************************************************************)
Throw ==
  /\ InBody \/ At("resolving")
  /\ exc' = TRUE
  /\ UNCHANGED <<graph, ctx, cell, label, table, op>>

(* builtins.tryEval in the expression of the frame, around a force.  Which *)
(* failures it lets through is left open: here it may catch any.           *)
Catch ==
  /\ exc /\ Frame(Top).at = "body"
  /\ exc' = FALSE
  /\ UNCHANGED <<graph, ctx, cell, label, table, op>>

FailForce ==
  /\ exc /\ Frame(Top).role = "force"
  /\ LET interned == InternAccessSet(graph, Direct(ctx, Top), Children(ctx, Top)) IN
       /\ graph' = interned.graph
       /\ label' = [label EXCEPT ![Frame(Top).value] = interned.id]
       /\ ctx' = Ended(Collapse(ctx, Top, interned.id))
  /\ cell' = [cell EXCEPT ![Frame(Top).value] = "failed"]
  /\ op' = <<"frames", None>>
  /\ UNCHANGED <<table, exc>>

Unwind ==
  /\ exc /\ Frame(Top).role \notin {"root", "force"}
  /\ ctx' = Ended(ctx)
  /\ op' = <<"frames", None>>
  /\ UNCHANGED <<graph, cell, label, table, exc>>

(***************************************************************************)
(* Scopes.  TrackedSourceDepsScope::finish interns what the scope read and *)
(* leaves that one id to the frame below; the scope ends right after.      *)
(***************************************************************************)
FinishedScope == InternAccessSet(graph, Direct(ctx, Top), Children(ctx, Top))

EndedScope == Ended(Collapse(ctx, Top, FinishedScope.id))

(* tecnixInternalSourceDepsScope forces its argument in a scope and copies *)
(* it to its result, a temporary, which the scope labels.                  *)
OpenWrap(v) ==
  /\ InBody /\ v \in Used \ File /\ Room
  /\ ctx' = Enter(Goes(ctx, "called", None, Frame(Top).tmp), "wrap", None, "needs", v)
  /\ op' = <<"frames", None>>
  /\ UNCHANGED <<graph, cell, label, table, exc>>

FinishWrap ==
  /\ At("forced") /\ Frame(Top).role = "wrap"
  /\ graph' = FinishedScope.graph
  /\ LET id == FinishedScope.id IN
       ctx' = Goes(EndedScope, "body", None, IF id = 0 THEN label[Frame(Top).arg] ELSE id)
  /\ op' = <<"frames", None>>
  /\ UNCHANGED <<cell, label, table, exc>>

(* evalFile of f: the path is resolved in a scope whose set is stored.     *)
ResolveAgain(f) ==
  /\ InBody /\ f \in Used \cap File /\ table[f] # None /\ Room
  /\ ctx' = AddFrameChild(Goes(ctx, "resolved", f, Frame(Top).tmp), Top, table[f])
  /\ op' = <<"replay", f>>
  /\ UNCHANGED <<graph, cell, label, table, exc>>

OpenResolve(f) ==
  /\ InBody /\ f \in Used \cap File /\ table[f] = None /\ Room
  /\ ctx' = Enter(Goes(ctx, "resolved", f, Frame(Top).tmp), "resolve", None, "resolving", f)
  /\ op' = <<"frames", None>>
  /\ UNCHANGED <<graph, cell, label, table, exc>>

(* A file that is not in the cache is forced in a scope, which labels it   *)
(* when it is finished already.                                            *)
OpenFile ==
  /\ At("resolved") /\ cell[Frame(Top).arg] = "thunk" /\ Room
  /\ ctx' = Enter(ctx, "file", None, "needs", Frame(Top).arg)
  /\ op' = <<"frames", None>>
  /\ UNCHANGED <<graph, cell, label, table, exc>>

FinishFile ==
  /\ At("forced") /\ Frame(Top).role = "file"
  /\ graph' = FinishedScope.graph
  /\ LET f == Frame(Top).arg
         id == FinishedScope.id
     IN  /\ label' = IF id = 0 THEN label ELSE [label EXCEPT ![f] = id]
         /\ ctx' = Goes(EndedScope, "body", None, label'[f])
  /\ op' = <<"frames", None>>
  /\ UNCHANGED <<cell, table, exc>>

(* A cached file was forced without a scope; it is copied to the result.   *)
CopyCached ==
  /\ At("forced") /\ Frame(Top).role \notin {"wrap", "file"}
  /\ ctx' = Goes(ctx, "body", None, label[Frame(Top).arg])
  /\ UNCHANGED <<graph, cell, label, table, exc, op>>

(* tecnixMemoize: a stored result is replayed, a call in progress is a     *)
(* cycle, and otherwise the call is evaluated in a scope.                  *)
MemoHit ==
  /\ InBody /\ table[MemoKey] # None /\ Room
  /\ ctx' = Goes(AddFrameChild(ctx, Top, table[MemoKey]), "body", None, table[MemoKey])
  /\ op' = <<"replay", MemoKey>>
  /\ UNCHANGED <<graph, cell, label, table, exc>>

OpenMemo ==
  /\ InBody /\ table[MemoKey] = None /\ Room
  /\ IF \E i \in DOMAIN ctx.frames : ctx.frames[i].role = "memo"
     THEN exc' = TRUE /\ UNCHANGED <<ctx, op>>
     ELSE /\ ctx' = Enter(Goes(ctx, "called", None, Frame(Top).tmp), "memo", None, "body", None)
          /\ op' = <<"frames", None>>
          /\ UNCHANGED exc
  /\ UNCHANGED <<graph, cell, label, table>>

(* The set of the scope is stored unless a concurrent evaluation stored    *)
(* one first.                                                              *)
StoreScope(k) ==
  /\ graph' = FinishedScope.graph
  /\ table' = [table EXCEPT ![k] = IF @ = None THEN FinishedScope.id ELSE @]
  /\ op' = <<"store", k>>
  /\ UNCHANGED <<cell, label, exc>>

(* tecnixMemoize records what is stored and returns a copy of the result.  *)
StoreMemo ==
  /\ InBody /\ Frame(Top).role = "memo"
  /\ StoreScope(MemoKey)
  /\ ctx' = Goes(AddFrameChild(EndedScope, Top - 1, table'[MemoKey]), "body", None, table'[MemoKey])

StoreResolved ==
  /\ At("resolving")
  /\ StoreScope(Frame(Top).arg)
  /\ ctx' = EndedScope

OtherStores(k, S) ==
  /\ table[k] = None
  /\ LET interned == InternPaths(graph, S) IN
       graph' = interned.graph /\ table' = [table EXCEPT ![k] = interned.id]
  /\ op' = <<"frames", None>>
  /\ UNCHANGED <<ctx, cell, label, exc>>

Next ==
  \/ \E p \in Path : Read(p) \/ ParseFile(p)
  \/ \E v \in Value : ForceThunk(v) \/ ForceFinished(v) \/ ForcePending(v) \/ OpenWrap(v)
  \/ \E v \in Value : \E S \in OtherReads[v] : ForceAwaited(v, S) \/ OtherForces(v, S)
  \/ \E src \in Value \cup {None} : Return(src)
  \/ ReturnCall \/ EndForce \/ Throw \/ Catch \/ FailForce \/ Unwind
  \/ FinishWrap \/ OpenFile \/ FinishFile \/ CopyCached
  \/ \E f \in File : ResolveAgain(f) \/ OpenResolve(f)
  \/ MemoHit \/ OpenMemo \/ StoreMemo \/ StoreResolved
  \/ \E k \in Key : \E S \in OtherReads[k] : OtherStores(k, S)

Spec == Init /\ [][Next]_vars

(***************************************************************************)
(* Properties.                                                             *)
(***************************************************************************)
(* Interning is exact: every id held anywhere is an id of the graph, equal *)
(* paths and equal sets share one id, and what the memo answers for an     *)
(* input is the union that input stands for (internAccess and              *)
(* internAccessSet, which other evaluations call between any two steps of  *)
(* this one).                                                              *)
InternExact ==
  /\ Range(ctx.access) \subseteq DOMAIN graph.accesses
  /\ Range(ctx.child) \subseteq DOMAIN graph.accessSets
  /\ \A v \in Value : label[v] # 0 => label[v] \in DOMAIN graph.accessSets
  /\ \A i, j \in DOMAIN graph.accesses : graph.accesses[i] = graph.accesses[j] => i = j
  /\ \A i, j \in DOMAIN graph.accessSets : graph.accessSets[i] = graph.accessSets[j] => i = j
  /\ \A k \in DOMAIN graph.inputKeys :
       Items(graph, graph.inputKeys[k]) = k[1] \cup UNION {Items(graph, c) : c \in k[2]}

(***************************************************************************)
(* The refinement mapping.  The set of a frame is what lies between its    *)
(* watermarks and those of the next frame; nothing is left of it in a      *)
(* frame that is published.                                                *)
(***************************************************************************)
AccessEnd(c, i) == IF i < Len(c.frames) THEN c.frames[i + 1].accessBase ELSE Len(c.access)
ChildEnd(c, i) == IF i < Len(c.frames) THEN c.frames[i + 1].childBase ELSE Len(c.child)

(* The entries of stack s above position m, up to n.                       *)
Slice(s, m, n) == {s[k] : k \in (m + 1)..n}

OwnPaths(g, c, i) ==
  Flatten(g, Slice(c.access, c.frames[i].accessBase, AccessEnd(c, i)),
             Slice(c.child, c.frames[i].childBase, ChildEnd(c, i)))

FramesBar(g, c) ==
  [i \in 1..Len(c.frames) |->
     [value |-> c.frames[i].value, open |-> ~c.frames[i].published, acc |-> OwnPaths(g, c, i)]]

PathsOf(g, id) == Flatten(g, {}, {id})

Sets == INSTANCE FrameSets WITH
  frames <- FramesBar(graph, ctx),
  label <- [v \in Value |-> PathsOf(graph, label[v])],
  table <- [k \in Key |-> IF table[k] = None THEN None ELSE PathsOf(graph, table[k])]

(* The two shared stacks, their watermarks and the interned ids implement  *)
(* one set per frame: no frame loses a read to a neighbour, none is handed *)
(* over twice, no label or stored set differs from what was read           *)
(* (addFrameAccess, collapseFrameToAccessSet, merge..., finish).           *)
ImplementsSets == Sets!Spec

(* A finished value keeps its outcome and its label, which other           *)
(* evaluations read without a lock: finish(vExpr) in evalFile labels the   *)
(* file a second time, with the id interned for its scope, and that id is  *)
(* always the one the file has (TrackedSourceDepsScope::finish).  Two      *)
(* writes to finished values are outside this module: the label that       *)
(* prepareTrackedResolveFunction gives to a resolver, and the exception an *)
(* interrupted waiter stores in the value it waits for.                    *)
FinishedStable ==
  [][\A v \in Value : cell[v] \in {"ok", "failed"} =>
       cell'[v] = cell[v] /\ label'[v] = label[v]]_vars

(***************************************************************************)
(* The inductive invariant.                                                *)
(***************************************************************************)
(* The graph: sets are of known accesses, memoised inputs of known parts.  *)
GraphInv(g) ==
  /\ g = [accesses |-> g.accesses, accessSets |-> g.accessSets, inputKeys |-> g.inputKeys]
  /\ g.accesses \in Seq(Path) /\ g.accessSets \in Seq(SUBSET Nat)
  /\ \A i, j \in DOMAIN g.accesses : g.accesses[i] = g.accesses[j] => i = j
  /\ \A i \in DOMAIN g.accessSets : g.accessSets[i] # {} /\ g.accessSets[i] \subseteq DOMAIN g.accesses
  /\ \A i, j \in DOMAIN g.accessSets : g.accessSets[i] = g.accessSets[j] => i = j
  /\ g.inputKeys = [k \in DOMAIN g.inputKeys |-> g.inputKeys[k]]
  /\ \A k \in DOMAIN g.inputKeys :
       /\ k = <<k[1], k[2]>> /\ k[1] \subseteq DOMAIN g.accesses /\ k[2] \subseteq DOMAIN g.accessSets
       /\ g.inputKeys[k] \in {0} \cup DOMAIN g.accessSets
       /\ Items(g, g.inputKeys[k]) = k[1] \cup UNION {Items(g, c) : c \in k[2]}

SetIds(g) == {0} \cup DOMAIN g.accessSets

FrameType ==
  [role : {"root", "force", "wrap", "file", "resolve", "memo"}, value : Value \cup {None},
   at : {"body", "parse", "called", "resolved", "needs", "forced", "resolving", "returned"},
   arg : Value \cup {None}, tmp : Nat, published : BOOLEAN, accessBase : Nat, childBase : Nat]

CtxType(c) ==
  /\ c = [access |-> c.access, child |-> c.child, frames |-> c.frames]
  /\ c.access \in Seq(Nat) /\ c.child \in Seq(Nat) /\ c.frames \in Seq(FrameType)
  /\ Len(c.frames) > 0

CtxIds(g, c) ==
  /\ Range(c.access) \subseteq DOMAIN g.accesses /\ Range(c.child) \subseteq DOMAIN g.accessSets
  /\ \A i \in 1..Len(c.frames) : c.frames[i].tmp \in SetIds(g)

IdInv ==
  /\ label \in [Value -> SetIds(graph)] /\ table \in [Key -> SetIds(graph) \cup {None}]
  /\ cell \in [Value -> {"thunk", "pending", "ok", "failed"}] /\ exc \in BOOLEAN

(* The code of a frame: where it can be, and what it called.               *)
FrameOK(f) ==
  /\ f.role = "force" <=> f.value # None
  /\ f.published <=> f.at = "returned"
  /\ f.role \in {"root", "memo"} => f.at \in {"body", "called", "resolved", "forced"}
  /\ f.role = "force" => f.at \notin {"needs", "resolving"}
  /\ f.role \in {"wrap", "file"} => f.at \in {"needs", "forced"}
  /\ f.role = "resolve" => f.at = "resolving" /\ f.arg \in File
  /\ f.at = "parse" => f.value \in File
  /\ f.at \in {"resolved", "needs", "forced"} => f.arg \in Value

Called(f, h) ==
  /\ h.role # "root"
  /\ h.role = "force" => f.at = "body" \/ (f.at \in {"needs", "resolved"} /\ f.arg = h.value)
  /\ h.role \in {"memo", "wrap"} => f.at = "called"
  /\ h.role \in {"resolve", "file"} => f.at = "resolved"

Shape(fs) ==
  /\ fs[1].role = "root"
  /\ \A i \in DOMAIN fs : FrameOK(fs[i])
  /\ \A i \in DOMAIN fs : i > 1 => Called(fs[i - 1], fs[i])

(* The watermarks rise with the frames, and nothing lies above those of a  *)
(* frame that is published.                                                *)
Levels(c) ==
  /\ \A i, j \in 1..Len(c.frames) : i <= j =>
       /\ c.frames[i].accessBase <= c.frames[j].accessBase
       /\ c.frames[i].childBase <= c.frames[j].childBase
  /\ \A i \in 1..Len(c.frames) :
       /\ c.frames[i].accessBase <= Len(c.access) /\ c.frames[i].childBase <= Len(c.child)
       /\ c.frames[i].published =>
            c.frames[i].accessBase = Len(c.access) /\ c.frames[i].childBase = Len(c.child)

(* Frame i has forced the value its scope or import is about.              *)
Forced(c, e, i) ==
  LET n == Len(c.frames) IN
    \/ i = n /\ ~e /\ c.frames[n].at = "forced"
    \/ i + 1 = n /\ c.frames[i].at \in {"needs", "resolved"} /\ c.frames[n].at = "returned"

(* What a frame has collected, acc, against the labels it holds: the label *)
(* of its temporary is part of it, so is that of the value it forced, and  *)
(* a scope of one force collects nothing else.                             *)
Collects(g, f, acc, forced, failing, cl, lab) ==
  /\ PathsOf(g, f.tmp) \subseteq acc
  /\ forced => cl[f.arg] = "ok" /\ PathsOf(g, lab[f.arg]) \subseteq acc
  /\ f.role \in {"wrap", "file"} /\ ~failing =>
       acc \subseteq IF forced THEN PathsOf(g, lab[f.arg]) ELSE {}

AccInv(g, c, cl, lab, e) ==
  \A i \in 1..Len(c.frames) :
    Collects(g, c.frames[i], OwnPaths(g, c, i), Forced(c, e, i), e /\ i = Len(c.frames), cl, lab)

(* Every value is forced by one frame at most, which holds it pending.     *)
CellInv(c, cl) ==
  /\ \A i \in 1..Len(c.frames) : c.frames[i].role = "force" =>
       cl[c.frames[i].value] = IF c.frames[i].at = "returned" THEN "ok" ELSE "pending"
  /\ \A i, j \in 1..Len(c.frames) :
       c.frames[i].role = "force" /\ c.frames[j].value = c.frames[i].value => i = j

FrameInv ==
  /\ GraphInv(graph) /\ CtxType(ctx) /\ CtxIds(graph, ctx) /\ IdInv
  /\ Shape(ctx.frames) /\ Levels(ctx) /\ (exc => Frame(Top).at # "returned")
  /\ AccInv(graph, ctx, cell, label, exc) /\ CellInv(ctx, cell)
================================================================================
