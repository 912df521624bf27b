------------------------------- MODULE FrameSets -------------------------------
(***************************************************************************)
(* What the tracking frames of one TrackingContext promise, with a set of  *)
(* paths per frame: the "copy-based implementation" that the comment in    *)
(* mergeUnpublishedTrackedSourceDepsFrame refers to.                       *)
(*                                                                         *)
(* A frame collects what is read while it is on top.  Publishing hands     *)
(* everything collected since the frame was entered to the value's label   *)
(* and to the frame below, once; a frame left unpublished hands its set to *)
(* the frame below; what reaches a published frame later is dropped.       *)
(*                                                                         *)
(* `op' is the interface: the operation the evaluator asked for last.  An  *)
(* implementation has to show the same operations, so it can neither skip  *)
(* a read nor invent one.                                                  *)
(***************************************************************************)
EXTENDS Naturals, Sequences

CONSTANTS
  Path,       \* repository paths
  Value,      \* values that carry a label
  Key,        \* keys of the tables of scoped results (memo, import resolution)
  MemoKey,    \* the one of a memoized call
  None        \* no value, no table entry

VARIABLES
  frames,     \* the root frame and the frames above it
  label,      \* the paths each finished value was computed from
  table,      \* the paths a scoped result was computed from
  op          \* the last operation and its argument

vars == <<frames, label, table, op>>

NewFrame(v) == [value |-> v, acc |-> {}, open |-> TRUE]

Init ==
  /\ frames = <<NewFrame(None)>>
  /\ label = [v \in Value |-> {}]
  /\ table = [k \in Key |-> None]
  /\ op = <<"start", None>>

Top == Len(frames)
Below == SubSeq(frames, 1, Top - 1)

(* fs with S added to its frame i, unless that frame is published.         *)
Adding(fs, i, S) == [fs EXCEPT ![i].acc = IF fs[i].open THEN @ \cup S ELSE @]

Read(p) ==
  /\ op' = <<"read", p>>
  /\ frames' = Adding(frames, Top, {p})
  /\ UNCHANGED <<label, table>>

(* A finished value is forced.                                             *)
Inherit(v) ==
  /\ op' = <<"inherit", v>>
  /\ frames' = Adding(frames, Top, label[v])
  /\ UNCHANGED <<label, table>>

(* A stored result is used again.                                          *)
Replay(k) ==
  /\ op' = <<"replay", k>>
  /\ table[k] # None
  /\ frames' = Adding(frames, Top, table[k])
  /\ UNCHANGED <<label, table>>

(* A thunk is forced, or a scope opened.                                   *)
Enter(v) ==
  /\ op' = <<"frames", None>>
  /\ frames' = Append(frames, NewFrame(v))
  /\ UNCHANGED <<label, table>>

(* The value of the top frame is finished, as a copy of src if src is a    *)
(* value.                                                                  *)
Publish(src) ==
  LET S == frames[Top].acc \cup (IF src = None THEN {} ELSE label[src]) IN
    /\ op' = <<"publish", src>>
    /\ frames[Top].open /\ frames[Top].value # None
    /\ label' = [label EXCEPT ![frames[Top].value] = S]
    /\ frames' = Adding([frames EXCEPT ![Top].acc = {}, ![Top].open = FALSE], Top - 1, S)
    /\ UNCHANGED table

(* A scope ends and its result is stored, unless a concurrent evaluation   *)
(* stored one first; a memoized call adopts the stored one, so the frame   *)
(* below inherits it.                                                      *)
Store(k) ==
  LET S == frames[Top].acc IN
    /\ op' = <<"store", k>>
    /\ frames[Top].open /\ frames[Top].value = None
    /\ table' = [table EXCEPT ![k] = IF @ = None THEN S ELSE @]
    /\ frames' = Adding(Below, Top - 1, IF k = MemoKey THEN S \cup table'[k] ELSE S)
    /\ UNCHANGED label

(* The top frame ends.                                                     *)
Leave ==
  /\ op' = <<"frames", None>>
  /\ frames' = Adding(Below, Top - 1, frames[Top].acc)
  /\ UNCHANGED <<label, table>>

(* A failing value is labelled with what was read up to the failure.       *)
Fail ==
  /\ op' = <<"frames", None>>
  /\ frames[Top].open /\ frames[Top].value # None
  /\ label' = [label EXCEPT ![frames[Top].value] = frames[Top].acc]
  /\ frames' = Adding(Below, Top - 1, frames[Top].acc)
  /\ UNCHANGED table

(* Another evaluation finishes v with label S, which the top frame waits   *)
(* for and inherits.                                                       *)
Await(v, S) ==
  /\ op' = <<"frames", None>>
  /\ label' = [label EXCEPT ![v] = S]
  /\ frames' = Adding(frames, Top, S)
  /\ UNCHANGED table

(* Another evaluation finishes v.                                          *)
OtherForces(v, S) ==
  /\ op' = <<"frames", None>>
  /\ label' = [label EXCEPT ![v] = S]
  /\ UNCHANGED <<frames, table>>

(* Another evaluation stores a result.                                     *)
OtherStores(k, S) ==
  /\ op' = <<"frames", None>>
  /\ table[k] = None
  /\ table' = [table EXCEPT ![k] = S]
  /\ UNCHANGED <<frames, label>>

Next ==
  \/ \E p \in Path : Read(p)
  \/ \E v \in Value : Inherit(v)
  \/ \E v \in Value \cup {None} : Enter(v) \/ (Top > 1 /\ Publish(v))
  \/ \E k \in Key, S \in SUBSET Path : OtherStores(k, S)
  \/ \E k \in Key : Replay(k) \/ (Top > 1 /\ Store(k))
  \/ \E v \in Value, S \in SUBSET Path : Await(v, S) \/ OtherForces(v, S)
  \/ Top > 1 /\ (Leave \/ Fail)

Spec == Init /\ [][Next]_vars
================================================================================
