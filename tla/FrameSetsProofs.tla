---------------------------- MODULE FrameSetsProofs ----------------------------
(***************************************************************************)
(* FrameStack keeps its inductive invariant, interns exactly, relabels no  *)
(* finished value and implements FrameSets: the steps of its actions, on   *)
(* the lemmas that FrameStackProofs states about its operators.            *)
(***************************************************************************)
EXTENDS FrameStackProofs

(***************************************************************************)
(* The abstract frames.                                                    *)
(***************************************************************************)
BarFrame(g, c, j) ==
  [value |-> c.frames[j].value, open |-> ~c.frames[j].published, acc |-> OwnPaths(g, c, j)]

IsFrames(fs, n) ==
  /\ fs = [j \in 1..n |-> fs[j]]
  /\ \A j \in 1..n : fs[j] = [value |-> fs[j].value, open |-> fs[j].open, acc |-> fs[j].acc]

Adds(f, S) ==
  [value |-> f.value, open |-> f.open, acc |-> IF f.open THEN f.acc \cup S ELSE f.acc]

AddTo(fs, i, S) == [fs EXCEPT ![i].acc = IF fs[i].open THEN @ \cup S ELSE @]

Shut(fs, n) == [fs EXCEPT ![n].acc = {}, ![n].open = FALSE]

NewBar(v) == [value |-> v, acc |-> {}, open |-> TRUE]

LEMMA BarIs ==
  ASSUME NEW g, NEW c, CtxType(c), NEW n, n = Len(c.frames)
  PROVE  /\ IsFrames(FramesBar(g, c), n) /\ n \in Nat /\ Len(FramesBar(g, c)) = n
         /\ \A j \in 1..n : /\ FramesBar(g, c)[j] = BarFrame(g, c, j)
                            /\ FramesBar(g, c)[j].value = c.frames[j].value
                            /\ FramesBar(g, c)[j].open = ~c.frames[j].published
                            /\ FramesBar(g, c)[j].acc = OwnPaths(g, c, j)
<1> DEFINE fs == FramesBar(g, c)
<1>1. n \in Nat
  BY CtxFacts
<1>2. fs = [j \in 1..n |-> BarFrame(g, c, j)]
  BY DEF FramesBar, BarFrame
<1> HIDE DEF fs
<1>3. \A j \in 1..n : fs[j] = BarFrame(g, c, j)
  BY <1>2
<1>4. fs = [j \in 1..n |-> fs[j]] /\ Len(fs) = n
  BY <1>1, <1>2
<1>5. ASSUME NEW j \in 1..n
      PROVE  /\ fs[j] = [value |-> fs[j].value, open |-> fs[j].open, acc |-> fs[j].acc]
             /\ fs[j].value = c.frames[j].value /\ fs[j].open = ~c.frames[j].published
             /\ fs[j].acc = OwnPaths(g, c, j)
  <2> DEFINE o == ~c.frames[j].published
             x == OwnPaths(g, c, j)
             v == c.frames[j].value
  <2>1. fs[j] = [value |-> v, open |-> o, acc |-> x]
    BY <1>3 DEF BarFrame
  <2> HIDE DEF o, x, v
  <2>2. fs[j].value = v /\ fs[j].open = o /\ fs[j].acc = x
    BY <2>1
  <2>3. fs[j] = [value |-> fs[j].value, open |-> fs[j].open, acc |-> fs[j].acc]
    BY <2>1, <2>2
  <2> QED
    BY <2>2, <2>3 DEF o, x, v
<1> QED
  BY <1>1, <1>3, <1>4, <1>5 DEF fs, IsFrames

LEMMA BarEq ==
  ASSUME NEW g, NEW c, CtxType(c), NEW n, n = Len(c.frames), NEW fs, IsFrames(fs, n),
         \A j \in 1..n : fs[j] = BarFrame(g, c, j)
  PROVE  FramesBar(g, c) = fs
<1>1. FramesBar(g, c) = [j \in 1..n |-> BarFrame(g, c, j)]
  BY DEF FramesBar, BarFrame
<1> QED
  BY <1>1 DEF IsFrames

LEMMA AddToIs ==
  ASSUME NEW n \in Nat, NEW fs, IsFrames(fs, n), NEW i \in 1..n, NEW S
  PROVE  /\ IsFrames(AddTo(fs, i, S), n)
         /\ \A j \in 1..n : AddTo(fs, i, S)[j] = IF j = i THEN Adds(fs[i], S) ELSE fs[j]
<1> DEFINE x == IF fs[i].open THEN fs[i].acc \cup S ELSE fs[i].acc
           f == [fs[i] EXCEPT !.acc = x]
<1>1. AddTo(fs, i, S) = [fs EXCEPT ![i] = f]
  BY DEF AddTo
<1>2. f = Adds(fs[i], S)
  <2> HIDE DEF x
  <2>1. f = [value |-> fs[i].value, open |-> fs[i].open, acc |-> x]
    BY DEF IsFrames
  <2> QED
    BY <2>1 DEF x, Adds
<1>3. Adds(fs[i], S) = [value |-> Adds(fs[i], S).value, open |-> Adds(fs[i], S).open, acc |-> Adds(fs[i], S).acc]
  BY DEF Adds
<1> HIDE DEF f
<1>4. \A j \in 1..n : AddTo(fs, i, S)[j] = IF j = i THEN Adds(fs[i], S) ELSE fs[j]
  BY <1>1, <1>2 DEF IsFrames
<1> QED
  BY <1>1, <1>2, <1>3, <1>4 DEF IsFrames

LEMMA ShutIs ==
  ASSUME NEW n \in Nat, NEW fs, IsFrames(fs, n), n > 0
  PROVE  /\ IsFrames(Shut(fs, n), n)
         /\ \A j \in 1..n : j < n => Shut(fs, n)[j] = fs[j]
         /\ Shut(fs, n)[n] = [value |-> fs[n].value, open |-> FALSE, acc |-> {}]
<1> DEFINE f == [[fs[n] EXCEPT !.acc = {}] EXCEPT !.open = FALSE]
           hs == [fs EXCEPT ![n] = f]
<1>0. n \in 1..n
  OBVIOUS
<1>1. Shut(fs, n) = hs
  BY DEF Shut
<1>2. f = [value |-> fs[n].value, open |-> FALSE, acc |-> {}]
  <2> DEFINE u == fs[n]
             b == FALSE
  <2>1. u = [value |-> u.value, open |-> u.open, acc |-> u.acc]
    BY <1>0 DEF IsFrames
  <2> HIDE DEF u, b
  <2>2. [[u EXCEPT !.acc = {}] EXCEPT !.open = b] = [value |-> u.value, open |-> b, acc |-> {}]
    <3> DEFINE h == [u EXCEPT !.acc = {}]
    <3>1. h = [value |-> u.value, open |-> u.open, acc |-> {}]
      BY <2>1
    <3> HIDE DEF h
    <3>2. [h EXCEPT !.open = b] = [value |-> u.value, open |-> b, acc |-> {}]
      BY <3>1
    <3> QED
      BY <3>2 DEF h
  <2> QED
    BY ONLY <2>2, Zenon DEF u, b
<1>3. f.value = fs[n].value /\ f.open = FALSE /\ f.acc = {}
  BY <1>2
<1> HIDE DEF f
<1>4. hs = [j \in 1..n |-> IF j = n THEN f ELSE fs[j]]
  BY DEF IsFrames
<1> HIDE DEF hs
<1>5. hs = [j \in 1..n |-> hs[j]] /\ \A j \in 1..n : hs[j] = IF j = n THEN f ELSE fs[j]
  BY <1>4
<1>6. IsFrames(hs, n)
  BY <1>2, <1>3, <1>5 DEF IsFrames
<1> QED
  BY <1>0, <1>1, <1>2, <1>5, <1>6

LEMMA FramesAreSeq ==
  ASSUME NEW n \in Nat, NEW fs, IsFrames(fs, n)
  PROVE  fs \in Seq({fs[j] : j \in 1..n}) /\ Len(fs) = n
<1>1. fs \in [1..n -> {fs[j] : j \in 1..n}]
  BY DEF IsFrames
<1> QED
  BY <1>1

LEMMA SubFrames ==
  ASSUME NEW n \in Nat, NEW fs, IsFrames(fs, n), n > 1
  PROVE  /\ IsFrames(SubSeq(fs, 1, n - 1), n - 1)
         /\ \A j \in 1..(n - 1) : SubSeq(fs, 1, n - 1)[j] = fs[j]
<1> DEFINE T == {fs[j] : j \in 1..n}
           hs == SubSeq(fs, 1, n - 1)
<1>1. fs \in Seq(T) /\ Len(fs) = n
  BY FramesAreSeq
<1> HIDE DEF T
<1>2. hs \in Seq(T) /\ Len(hs) = n - 1 /\ \A j \in 1..(n - 1) : hs[j] = fs[j]
  BY <1>1
<1>3. DOMAIN hs = 1..(n - 1) /\ hs = [j \in 1..(n - 1) |-> hs[j]]
  BY <1>2
<1> HIDE DEF hs
<1>4. \A j \in 1..(n - 1) : j \in 1..n
  OBVIOUS
<1>5. IsFrames(hs, n - 1)
  BY <1>2, <1>3, <1>4 DEF IsFrames
<1> QED
  BY <1>2, <1>5 DEF hs

LEMMA AppendFrames ==
  ASSUME NEW n \in Nat, NEW fs, IsFrames(fs, n), NEW v
  PROVE  /\ IsFrames(Append(fs, NewBar(v)), n + 1) /\ Append(fs, NewBar(v))[n + 1] = NewBar(v)
         /\ \A j \in 1..n : Append(fs, NewBar(v))[j] = fs[j]
<1> DEFINE hs == Append(fs, NewBar(v))
           T == {fs[j] : j \in 1..n} \cup {NewBar(v)}
           f == NewBar(v)
<1>0. f = [value |-> f.value, open |-> f.open, acc |-> f.acc]
  BY DEF NewBar
<1>1. fs \in Seq(T) /\ Len(fs) = n /\ f \in T
  <2>1. fs \in [1..n -> T]
    BY DEF IsFrames
  <2> QED
    BY <2>1
<1> HIDE DEF T, f
<1>2. hs \in Seq(T) /\ Len(hs) = n + 1 /\ (\A j \in 1..n : hs[j] = fs[j]) /\ hs[n + 1] = f
  <2>1. hs = Append(fs, f)
    BY DEF f
  <2> HIDE DEF hs
  <2> QED
    BY <1>1, <2>1
<1> HIDE DEF hs
<1>3. DOMAIN hs = 1..(n + 1) /\ hs = [j \in 1..(n + 1) |-> hs[j]]
  <2>1. hs \in [1..(n + 1) -> T]
    BY <1>2
  <2> QED
    BY <2>1
<1>4. \A j \in 1..(n + 1) : j \in 1..n \/ j = n + 1
  OBVIOUS
<1>5. IsFrames(hs, n + 1)
  BY <1>0, <1>2, <1>3, <1>4 DEF IsFrames
<1> QED
  BY <1>2, <1>5 DEF f, hs

(***************************************************************************)
(* The steps of a context, c to d: how the frames on top move on, and what *)
(* is added to their sets.                                                 *)
(***************************************************************************)
(* The code of the top frame goes on, with S added to its set.             *)
Grown(g, c, d, n, f, S) ==
  /\ Good(g, d) /\ Len(d.frames) = n
  /\ \A j \in 1..n : j < n => d.frames[j] = c.frames[j] /\ OwnPaths(g, d, j) = OwnPaths(g, c, j)
  /\ d.frames[n] = f /\ f \in FrameType /\ Alike(f, c.frames[n])
  /\ OwnPaths(g, d, n) = OwnPaths(g, c, n) \cup S

(* It calls a frame, h.                                                    *)
Pushed(g, c, d, n, f, h) ==
  /\ Good(g, d) /\ Len(d.frames) = n + 1
  /\ \A j \in 1..n : OwnPaths(g, d, j) = OwnPaths(g, c, j)
  /\ \A j \in 1..n : j < n => d.frames[j] = c.frames[j]
  /\ d.frames[n] = f /\ f \in FrameType /\ Alike(f, c.frames[n])
  /\ d.frames[n + 1] = h /\ h \in FrameType /\ ~h.published /\ OwnPaths(g, d, n + 1) = {}

(* The set of the top frame, S, is handed to the frame below.              *)
Shown(g, c, d, n, f, S) ==
  /\ Good(g, d) /\ Len(d.frames) = n
  /\ \A j \in 1..n : j < n => d.frames[j] = c.frames[j]
  /\ \A j \in 1..n : j < n - 1 => OwnPaths(g, d, j) = OwnPaths(g, c, j)
  /\ d.frames[n] = f /\ f \in FrameType /\ f.role = c.frames[n].role /\ f.value = c.frames[n].value
  /\ f.published
  /\ OwnPaths(g, d, n - 1) = OwnPaths(g, c, n - 1) \cup S /\ OwnPaths(g, d, n) = {}

(* The top frame is gone; S is added to the frame below, which goes on.    *)
Shrunk(g, c, d, n, f, S) ==
  /\ Good(g, d) /\ Len(d.frames) = n - 1
  /\ \A j \in 1..n : j < n - 1 => d.frames[j] = c.frames[j] /\ OwnPaths(g, d, j) = OwnPaths(g, c, j)
  /\ d.frames[n - 1] = f /\ f \in FrameType /\ Alike(f, c.frames[n - 1])
  /\ OwnPaths(g, d, n - 1) = OwnPaths(g, c, n - 1) \cup S

LEMMA BarGrown ==
  ASSUME NEW g, NEW c, CtxType(c), NEW n, n = Len(c.frames), NEW d, NEW f, NEW S,
         Grown(g, c, d, n, f, S), ~c.frames[n].published
  PROVE  FramesBar(g, d) = AddTo(FramesBar(g, c), n, S)
<1> DEFINE fs == FramesBar(g, c)
           hs == AddTo(fs, n, S)
<1>1. n \in Nat /\ n \in 1..n /\ CtxType(d) /\ Len(d.frames) = n
  BY CtxFacts DEF Grown, Good
<1>2. IsFrames(fs, n) /\ \A j \in 1..n : fs[j] = BarFrame(g, c, j)
  BY BarIs
<1>3. IsFrames(hs, n) /\ \A j \in 1..n : hs[j] = IF j = n THEN Adds(fs[n], S) ELSE fs[j]
  <2> HIDE DEF fs
  <2> QED
    BY <1>1, <1>2, AddToIs
<1> HIDE DEF hs, fs
<1>4. ASSUME NEW j \in 1..n PROVE hs[j] = BarFrame(g, d, j)
  <2>1. CASE j < n
    BY <1>2, <1>3, <2>1 DEF Grown, BarFrame
  <2>2. CASE j = n
    <3>1. BarFrame(g, d, n) = [value |-> c.frames[n].value, open |-> ~c.frames[n].published,
                               acc |-> OwnPaths(g, c, n) \cup S]
      BY DEF Grown, BarFrame, Alike
    <3>2. fs[n].value = c.frames[n].value /\ fs[n].acc = OwnPaths(g, c, n) /\ fs[n].open = ~c.frames[n].published
      BY <1>1, BarIs DEF fs
    <3>3. Adds(fs[n], S) = BarFrame(g, d, n)
      BY <3>1, <3>2 DEF Adds
    <3> QED
      BY <1>3, <2>2, <3>3
  <2> QED
    BY <1>1, <2>1, <2>2
<1>5. FramesBar(g, d) = hs
  BY <1>1, <1>3, <1>4, BarEq
<1> QED
  BY <1>5 DEF hs, fs

LEMMA BarPushed ==
  ASSUME NEW g, NEW c, CtxType(c), NEW n, n = Len(c.frames), NEW d, NEW f, NEW h,
         Pushed(g, c, d, n, f, h)
  PROVE  FramesBar(g, d) = Append(FramesBar(g, c), NewBar(h.value))
<1> DEFINE fs == FramesBar(g, c)
           v == h.value
           hs == Append(fs, NewBar(v))
<1>1. n \in Nat /\ n \in 1..n /\ CtxType(d) /\ Len(d.frames) = n + 1
  BY CtxFacts DEF Pushed, Good
<1>2. IsFrames(fs, n) /\ \A j \in 1..n : fs[j] = BarFrame(g, c, j)
  BY BarIs
<1>3. IsFrames(hs, n + 1) /\ (\A j \in 1..n : hs[j] = fs[j]) /\ hs[n + 1] = NewBar(v)
  <2>1. n \in Nat /\ IsFrames(fs, n)
    BY <1>1, <1>2
  <2> HIDE DEF fs, v
  <2> QED
    BY ONLY <2>1, AppendFrames, ZenonT(60)
<1> HIDE DEF hs, fs
<1>4. ASSUME NEW j \in 1..(n + 1) PROVE hs[j] = BarFrame(g, d, j)
  <2>1. CASE j < n
    <3>1. j \in 1..n
      BY <1>1, <2>1
    <3> QED
      BY <1>2, <1>3, <2>1, <3>1 DEF Pushed, BarFrame
  <2>2. CASE j = n
    BY <1>1, <1>2, <1>3, <2>2 DEF Pushed, BarFrame, Alike
  <2>3. CASE j = n + 1
    BY <1>3, <2>3 DEF Pushed, BarFrame, NewBar
  <2> QED
    BY <1>1, <2>1, <2>2, <2>3
<1>5. FramesBar(g, d) = hs
  BY <1>1, <1>3, <1>4, BarEq
<1> QED
  BY <1>5 DEF hs, fs

LEMMA BarShown ==
  ASSUME NEW g, NEW c, CtxType(c), NEW n, n = Len(c.frames), n > 1, NEW d, NEW f, NEW S,
         Shown(g, c, d, n, f, S), ~c.frames[n - 1].published
  PROVE  FramesBar(g, d) = AddTo(Shut(FramesBar(g, c), n), n - 1, S)
<1> DEFINE fs == FramesBar(g, c)
           bs == Shut(fs, n)
           m == n - 1
           hs == AddTo(bs, m, S)
<1>1. n \in Nat /\ n \in 1..n /\ n > 0 /\ m \in 1..n /\ CtxType(d) /\ Len(d.frames) = n
  BY CtxFacts DEF Shown, Good
<1>2. IsFrames(fs, n) /\ \A j \in 1..n : fs[j] = BarFrame(g, c, j)
  BY BarIs
<1>3. /\ IsFrames(bs, n) /\ \A j \in 1..n : j < n => bs[j] = fs[j]
      /\ bs[n] = [value |-> fs[n].value, open |-> FALSE, acc |-> {}]
  <2> HIDE DEF fs
  <2> QED
    BY <1>1, <1>2, ShutIs
<1>4. IsFrames(hs, n) /\ \A j \in 1..n : hs[j] = IF j = m THEN Adds(bs[m], S) ELSE bs[j]
  <2> HIDE DEF bs, m
  <2> QED
    BY <1>1, <1>3, AddToIs
<1> HIDE DEF hs, bs
<1>5. ASSUME NEW j \in 1..n PROVE hs[j] = BarFrame(g, d, j)
  <2>1. CASE j < n - 1
    BY <1>1, <1>2, <1>3, <1>4, <2>1 DEF Shown, BarFrame
  <2>2. CASE j = n - 1
    <3>1. BarFrame(g, d, m) = [value |-> c.frames[m].value, open |-> ~c.frames[m].published,
                               acc |-> OwnPaths(g, c, m) \cup S]
      <4>1. d.frames[m] = c.frames[m] /\ OwnPaths(g, d, m) = OwnPaths(g, c, m) \cup S
        BY <1>1 DEF Shown
      <4> QED
        BY <4>1 DEF BarFrame
    <3>2. fs[m].value = c.frames[m].value /\ fs[m].acc = OwnPaths(g, c, m) /\ fs[m].open = ~c.frames[m].published
      BY <1>1, BarIs DEF fs
    <3>3. bs[m] = fs[m]
      BY <1>1, <1>3
    <3> HIDE DEF fs
    <3>4. Adds(bs[m], S) = BarFrame(g, d, m)
      BY <3>1, <3>2, <3>3 DEF Adds
    <3> QED
      BY <1>4, <2>2, <3>4
  <2>3. CASE j = n
    <3>1. BarFrame(g, d, n) = [value |-> c.frames[n].value, open |-> FALSE, acc |-> {}]
      BY <1>1 DEF Shown, BarFrame
    <3>2. fs[n].value = c.frames[n].value
      BY <1>1, BarIs DEF fs
    <3> QED
      BY <1>1, <1>3, <1>4, <2>3, <3>1, <3>2
  <2> QED
    BY <1>1, <2>1, <2>2, <2>3
<1>6. FramesBar(g, d) = hs
  BY <1>1, <1>4, <1>5, BarEq
<1> QED
  BY <1>6 DEF hs, bs, fs

LEMMA BarShrunk ==
  ASSUME NEW g, NEW c, CtxType(c), NEW n, n = Len(c.frames), n > 1, NEW d, NEW f, NEW S,
         Shrunk(g, c, d, n, f, S), ~c.frames[n - 1].published
  PROVE  FramesBar(g, d) = AddTo(SubSeq(FramesBar(g, c), 1, n - 1), n - 1, S)
<1> DEFINE fs == FramesBar(g, c)
           m == n - 1
           bs == SubSeq(fs, 1, m)
           hs == AddTo(bs, m, S)
<1>1. n \in Nat /\ m \in Nat /\ m \in 1..m /\ m \in 1..n /\ CtxType(d) /\ Len(d.frames) = m
  BY CtxFacts DEF Shrunk, Good
<1>2. IsFrames(fs, n) /\ \A j \in 1..n : fs[j] = BarFrame(g, c, j)
  BY BarIs
<1>3. IsFrames(bs, m) /\ \A j \in 1..m : bs[j] = fs[j]
  <2> HIDE DEF fs
  <2> QED
    BY <1>1, <1>2, SubFrames
<1>4. IsFrames(hs, m) /\ \A j \in 1..m : hs[j] = IF j = m THEN Adds(bs[m], S) ELSE bs[j]
  <2> HIDE DEF bs, m
  <2> QED
    BY <1>1, <1>3, AddToIs
<1> HIDE DEF hs, bs
<1>5. ASSUME NEW j \in 1..m PROVE hs[j] = BarFrame(g, d, j)
  <2>0. j \in 1..n
    BY <1>1
  <2>1. CASE j < n - 1
    <3>1. hs[j] = bs[j] /\ bs[j] = fs[j] /\ fs[j] = BarFrame(g, c, j)
      BY <1>1, <1>2, <1>3, <1>4, <2>0, <2>1, SMTT(30)
    <3>2. d.frames[j] = c.frames[j] /\ OwnPaths(g, d, j) = OwnPaths(g, c, j)
      BY <1>1, <2>0, <2>1 DEF Shrunk
    <3> QED
      BY <3>1, <3>2 DEF BarFrame
  <2>2. CASE j = n - 1
    <3>1. BarFrame(g, d, m) = [value |-> c.frames[m].value, open |-> ~c.frames[m].published,
                               acc |-> OwnPaths(g, c, m) \cup S]
      BY <1>1 DEF Shrunk, BarFrame, Alike
    <3>2. fs[m].value = c.frames[m].value /\ fs[m].acc = OwnPaths(g, c, m) /\ fs[m].open = ~c.frames[m].published
      BY <1>1, BarIs DEF fs
    <3> HIDE DEF fs
    <3>4. Adds(bs[m], S) = BarFrame(g, d, m)
      BY <1>1, <1>3, <3>1, <3>2 DEF Adds
    <3> QED
      BY <1>4, <2>2, <3>4
  <2> QED
    BY <1>1, <2>1, <2>2
<1>6. FramesBar(g, d) = hs
  BY <1>1, <1>4, <1>5, BarEq
<1> QED
  BY <1>6 DEF hs, bs, fs

(***************************************************************************)
(* The invariant of a context, over one graph.                             *)
(***************************************************************************)
Inv(g, c, cl, lab, e) ==
  /\ Good(g, c) /\ Shape(c.frames) /\ (e => c.frames[Len(c.frames)].at # "returned")
  /\ AccInv(g, c, cl, lab, e) /\ CellInv(c, cl)

Settled(cl, cl2) == \A v \in Value : cl[v] # "thunk" => cl2[v] = cl[v]

LEMMA InvFacts ==
  ASSUME NEW g, NEW c, NEW cl, NEW lab, NEW e, Inv(g, c, cl, lab, e), NEW n, n = Len(c.frames)
  PROVE  /\ n \in Nat /\ n > 0 /\ n \in 1..n /\ CtxType(c) /\ Levels(c) /\ CtxIds(g, c)
         /\ \A j \in 1..n : c.frames[j] \in FrameType /\ FrameOK(c.frames[j])
         /\ \A j \in 1..n : j > 1 => Called(c.frames[j - 1], c.frames[j])
         /\ c.frames[1].role = "root" /\ (n = 1 => c.frames[n].role = "root")
<1>1. CtxType(c) /\ Levels(c) /\ CtxIds(g, c) /\ Shape(c.frames)
  BY DEF Inv, Good
<1>2. n \in Nat /\ n > 0 /\ n \in 1..n /\ DOMAIN c.frames = 1..n /\ \A j \in 1..n : c.frames[j] \in FrameType
  BY <1>1, CtxFacts
<1> QED
  BY <1>1, <1>2 DEF Shape

(* A frame that called another is not published.                           *)
LEMMA CallerOpen ==
  ASSUME NEW f \in FrameType, NEW h \in FrameType, FrameOK(f), Called(f, h)
  PROVE  ~f.published /\ f.at # "returned" /\ f.at # "forced"
BY DEF FrameType, FrameOK, Called

LEMMA TopOpen ==
  ASSUME NEW g, NEW c, NEW cl, NEW lab, NEW e, Inv(g, c, cl, lab, e), NEW n, n = Len(c.frames)
  PROVE  /\ \A j \in 1..n : j < n => ~c.frames[j].published /\ c.frames[j].at # "returned"
         /\ c.frames[n].at # "returned" => AllOpen(c) /\ ~c.frames[n].published
<1>1. ASSUME NEW j \in 1..n, j < n PROVE ~c.frames[j].published /\ c.frames[j].at # "returned"
  <2>1. n \in Nat /\ j + 1 \in 1..n /\ j + 1 > 1 /\ (j + 1) - 1 = j
    BY <1>1, InvFacts
  <2>2. /\ c.frames[j] \in FrameType /\ c.frames[j + 1] \in FrameType /\ FrameOK(c.frames[j])
        /\ Called(c.frames[j], c.frames[j + 1])
    BY <2>1, InvFacts
  <2> QED
    BY <2>2, CallerOpen
<1>2. n \in Nat /\ n \in 1..n /\ FrameOK(c.frames[n])
  BY InvFacts
<1>3. c.frames[n].at # "returned" => ~c.frames[n].published
  BY <1>2 DEF FrameOK
<1> QED
  BY <1>1, <1>2, <1>3 DEF AllOpen

(* The frames up to m stay, those above are given anew.                    *)
LEMMA ShapeFrom ==
  ASSUME NEW g, NEW c, NEW cl, NEW lab, NEW e, Inv(g, c, cl, lab, e), NEW n, n = Len(c.frames),
         NEW d, CtxType(d), NEW k, k = Len(d.frames), NEW m \in Nat, m <= n, m <= k,
         \A j \in 1..m : d.frames[j] = c.frames[j], d.frames[1].role = "root",
         \A j \in 1..k : j > m => FrameOK(d.frames[j]),
         \A j \in 1..k : j > m /\ j > 1 => Called(d.frames[j - 1], d.frames[j])
  PROVE  Shape(d.frames)
<1>1. k \in Nat /\ DOMAIN d.frames = 1..k /\ n \in Nat
  BY CtxFacts, InvFacts
<1>2. ASSUME NEW j \in 1..k
      PROVE  FrameOK(d.frames[j]) /\ (j > 1 => Called(d.frames[j - 1], d.frames[j]))
  <2>1. CASE j > m
    BY <2>1
  <2>2. CASE ~(j > m)
    <3>1. j \in 1..m /\ j \in 1..n /\ (j > 1 => j - 1 \in 1..m)
      BY <1>1, <2>2
    <3>2. d.frames[j] = c.frames[j] /\ (j > 1 => d.frames[j - 1] = c.frames[j - 1])
      BY <3>1
    <3> QED
      BY <3>1, <3>2, InvFacts
  <2> QED
    BY <2>1, <2>2
<1> QED
  BY <1>1, <1>2 DEF Shape

(* What the frames below the one or two on top have collected stays right. *)
LEMMA AccBelow ==
  ASSUME NEW g, NEW c, NEW cl, NEW lab, NEW e, Inv(g, c, cl, lab, e), NEW n, n = Len(c.frames),
         NEW d, NEW k, k = Len(d.frames), k \in Nat, NEW cl2, NEW lab2, NEW e2,
         NEW j \in 1..n, j < n, j < k, d.frames[j] = c.frames[j], OwnPaths(g, d, j) = OwnPaths(g, c, j),
         c.frames[n].at = "returned" => j < n - 1, d.frames[k].at = "returned" => j < k - 1
  PROVE  Collects(g, d.frames[j], OwnPaths(g, d, j), Forced(d, e2, j), e2 /\ j = Len(d.frames), cl2, lab2)
<1>1. n \in Nat
  BY InvFacts
<1>2. ~Forced(c, e, j) /\ ~Forced(d, e2, j)
  BY <1>1 DEF Forced
<1>3. ~(e /\ j = Len(c.frames)) /\ ~(e2 /\ j = Len(d.frames))
  BY <1>1
<1>4. Collects(g, c.frames[j], OwnPaths(g, c, j), Forced(c, e, j), e /\ j = Len(c.frames), cl, lab)
  BY DEF Inv, AccInv
<1> QED
  BY <1>2, <1>3, <1>4 DEF Collects

(* The values being forced.                                                *)
LEMMA ForceFrame ==
  ASSUME NEW g, NEW c, NEW cl, NEW lab, NEW e, Inv(g, c, cl, lab, e), NEW n, n = Len(c.frames),
         NEW j \in 1..n, c.frames[j].role = "force"
  PROVE  /\ c.frames[j].value \in Value
         /\ cl[c.frames[j].value] = IF c.frames[j].at = "returned" THEN "ok" ELSE "pending"
         /\ \A i \in 1..n : i # j => c.frames[i].value # c.frames[j].value
<1>1. c.frames[j] \in FrameType /\ FrameOK(c.frames[j])
  BY InvFacts
<1>2. c.frames[j].value \in Value
  BY <1>1 DEF FrameType, FrameOK
<1> QED
  BY <1>2 DEF Inv, CellInv

LEMMA CellKept ==
  ASSUME NEW g, NEW c, NEW cl, NEW lab, NEW e, Inv(g, c, cl, lab, e), NEW n, n = Len(c.frames),
         NEW d, NEW k, k = Len(d.frames), k \in Nat, k <= n, NEW cl2, Settled(cl, cl2),
         \A j \in 1..k : /\ d.frames[j].role = c.frames[j].role /\ d.frames[j].value = c.frames[j].value
                         /\ d.frames[j].at = "returned" <=> c.frames[j].at = "returned"
  PROVE  CellInv(d, cl2)
<1>1. n \in Nat /\ \A j \in 1..k : j \in 1..n
  BY InvFacts
<1>2. ASSUME NEW j \in 1..k, d.frames[j].role = "force"
      PROVE  cl2[d.frames[j].value] = IF d.frames[j].at = "returned" THEN "ok" ELSE "pending"
  BY <1>1, <1>2, ForceFrame, SMTT(30) DEF Settled
<1>3. ASSUME NEW i \in 1..k, NEW j \in 1..k, d.frames[i].role = "force", d.frames[j].value = d.frames[i].value
      PROVE  i = j
  BY <1>1, <1>3, ForceFrame
<1> QED
  BY <1>2, <1>3 DEF CellInv

(***************************************************************************)
(* The invariant after each kind of step.                                  *)
(***************************************************************************)
(* A frame on top has forced what it is about.                             *)
Forcing(e, f) == ~e /\ f.at = "forced"

LEMMA GrownInv ==
  ASSUME NEW g, NEW c, NEW cl, NEW lab, NEW e, Inv(g, c, cl, lab, e), NEW n, n = Len(c.frames),
         NEW d, NEW f, NEW S, Grown(g, c, d, n, f, S), NEW cl2, Settled(cl, cl2), NEW lab2, NEW e2 \in BOOLEAN,
         c.frames[n].at # "returned", f.at # "returned", FrameOK(f),
         Collects(g, f, OwnPaths(g, c, n) \cup S, Forcing(e2, f), e2, cl2, lab2)
  PROVE  Inv(g, d, cl2, lab2, e2) /\ FramesBar(g, d) = AddTo(FramesBar(g, c), n, S)
<1>1. n \in Nat /\ n > 0 /\ n \in 1..n /\ CtxType(c) /\ ~c.frames[n].published
  BY InvFacts, TopOpen
<1>2. /\ Good(g, d) /\ CtxType(d) /\ Len(d.frames) = n /\ d.frames[n] = f /\ Alike(f, c.frames[n])
      /\ \A j \in 1..n : j < n => d.frames[j] = c.frames[j] /\ OwnPaths(g, d, j) = OwnPaths(g, c, j)
      /\ OwnPaths(g, d, n) = OwnPaths(g, c, n) \cup S
  BY DEF Grown, Good
<1>3. Shape(d.frames)
  <2> DEFINE m == n - 1
  <2>1. m \in Nat /\ m <= n /\ (\A j \in 1..m : j \in 1..n /\ j < n) /\ (\A j \in 1..n : j > m => j = n)
    BY <1>1
  <2>2. \A j \in 1..m : d.frames[j] = c.frames[j]
    BY <1>2, <2>1
  <2>3. d.frames[1].role = "root"
    <3>1. 1 \in 1..n /\ (n = 1 \/ 1 < n)
      BY ONLY <1>1
    <3>2. d.frames[n].role = c.frames[n].role
      BY <1>2 DEF Alike
    <3> QED
      BY <1>2, <3>1, <3>2, InvFacts
  <2>4. n > 1 => Called(d.frames[n - 1], d.frames[n])
    <3>1. n > 1 => n - 1 \in 1..n /\ n - 1 < n
      BY <1>1
    <3> QED
      BY <1>1, <1>2, <3>1, InvFacts DEF Called, Alike
  <2>5. \A j \in 1..n : j > m => FrameOK(d.frames[j]) /\ (j > 1 => Called(d.frames[j - 1], d.frames[j]))
    BY <1>2, <2>1, <2>4
  <2> DEFINE k == Len(d.frames)
  <2>6. /\ Inv(g, c, cl, lab, e) /\ n = Len(c.frames) /\ CtxType(d) /\ k = Len(d.frames)
        /\ m \in Nat /\ m <= n /\ m <= k
    BY <1>1, <1>2, <2>1
  <2>7. \A j \in 1..k : j > m => FrameOK(d.frames[j]) /\ (j > 1 => Called(d.frames[j - 1], d.frames[j]))
    BY <1>2, <2>5
  <2> HIDE DEF m, k
  <2> QED
    BY ONLY <2>2, <2>3, <2>6, <2>7, ShapeFrom, ZenonT(60)
<1>4. ASSUME NEW j \in 1..n
      PROVE  Collects(g, d.frames[j], OwnPaths(g, d, j), Forced(d, e2, j), e2 /\ j = Len(d.frames), cl2, lab2)
  <2>1. CASE j < n
    <3>1. d.frames[n].at # "returned"
      BY <1>2
    <3> QED
      BY <1>1, <1>2, <2>1, <3>1, AccBelow
  <2>2. CASE ~(j < n)
    <3>1. j = n
      BY <1>1, <2>2
    <3>2. Forced(d, e2, n) <=> Forcing(e2, f)
      BY <1>1, <1>2 DEF Forced, Forcing
    <3>3. (e2 /\ n = Len(d.frames)) = e2
      BY <1>2
    <3> QED
      BY <1>2, <3>1, <3>2, <3>3 DEF Collects
  <2> QED
    BY <2>1, <2>2
<1>5. AccInv(g, d, cl2, lab2, e2)
  BY <1>2, <1>4 DEF AccInv
<1>6. CellInv(d, cl2)
  <2>1. \A j \in 1..n : /\ d.frames[j].role = c.frames[j].role /\ d.frames[j].value = c.frames[j].value
                        /\ d.frames[j].at = "returned" <=> c.frames[j].at = "returned"
    BY <1>1, <1>2 DEF Alike
  <2> DEFINE k == Len(d.frames)
  <2>2. /\ Inv(g, c, cl, lab, e) /\ n = Len(c.frames) /\ k = Len(d.frames) /\ k \in Nat /\ k <= n
        /\ Settled(cl, cl2)
        /\ \A j \in 1..k : /\ d.frames[j].role = c.frames[j].role /\ d.frames[j].value = c.frames[j].value
                           /\ d.frames[j].at = "returned" <=> c.frames[j].at = "returned"
    BY <1>1, <1>2, <2>1
  <2> HIDE DEF k
  <2> QED
    BY ONLY <2>2, CellKept, ZenonT(60)
<1>7. FramesBar(g, d) = AddTo(FramesBar(g, c), n, S)
  BY <1>1, BarGrown
<1> QED
  BY <1>2, <1>3, <1>5, <1>6, <1>7 DEF Inv

(* The code of a frame that calls another.                                 *)
Waits(f, h) == FrameOK(f) /\ FrameOK(h) /\ Called(f, h)

LEMMA PushedInv ==
  ASSUME NEW g, NEW c, NEW cl, NEW lab, NEW e \in BOOLEAN, Inv(g, c, cl, lab, e), ~e, NEW n, n = Len(c.frames),
         NEW d, NEW f, NEW h, Pushed(g, c, d, n, f, h), NEW cl2, NEW lab2, Waits(f, h),
         c.frames[n].at \notin {"returned", "forced"}, f.tmp = c.frames[n].tmp,
         h.at \notin {"returned", "forced"}, PathsOf(g, h.tmp) = {}, CellInv(d, cl2)
  PROVE  Inv(g, d, cl2, lab2, e) /\ FramesBar(g, d) = Append(FramesBar(g, c), NewBar(h.value))
<1> DEFINE k == n + 1
<1>1. n \in Nat /\ n > 0 /\ n \in 1..n /\ CtxType(c) /\ k \in Nat /\ k > 1 /\ n < k /\ n \in 1..k /\ k - 1 = n
  BY InvFacts
<1>2. /\ Good(g, d) /\ CtxType(d) /\ Len(d.frames) = k /\ d.frames[n] = f /\ Alike(f, c.frames[n])
      /\ d.frames[k] = h /\ OwnPaths(g, d, k) = {} /\ OwnPaths(g, d, n) = OwnPaths(g, c, n)
      /\ \A j \in 1..n : j < n => d.frames[j] = c.frames[j] /\ OwnPaths(g, d, j) = OwnPaths(g, c, j)
  BY <1>1 DEF Pushed, Good
<1>3. Shape(d.frames)
  <2> DEFINE m == n - 1
  <2>1. /\ m \in Nat /\ m <= n /\ m <= k /\ (\A j \in 1..m : j \in 1..n /\ j < n)
        /\ \A j \in 1..k : j > m => j = n \/ j = k
    BY <1>1
  <2>2. \A j \in 1..m : d.frames[j] = c.frames[j]
    BY <1>2, <2>1
  <2>3. d.frames[1].role = "root"
    <3>1. 1 \in 1..n /\ (n = 1 \/ 1 < n)
      BY ONLY <1>1
    <3>2. d.frames[n].role = c.frames[n].role
      BY <1>2 DEF Alike
    <3> QED
      BY <1>2, <3>1, <3>2, InvFacts
  <2>4. n > 1 => Called(d.frames[n - 1], d.frames[n])
    <3>1. n > 1 => n - 1 \in 1..n /\ n - 1 < n
      BY <1>1
    <3> QED
      BY <1>1, <1>2, <3>1, InvFacts DEF Called, Alike
  <2>5. Called(d.frames[k - 1], d.frames[k]) /\ FrameOK(d.frames[n]) /\ FrameOK(d.frames[k])
    BY <1>1, <1>2 DEF Waits
  <2>6. \A j \in 1..k : j > m => FrameOK(d.frames[j]) /\ (j > 1 => Called(d.frames[j - 1], d.frames[j]))
    BY <2>1, <2>4, <2>5
  <2>7. /\ Inv(g, c, cl, lab, e) /\ n = Len(c.frames) /\ CtxType(d) /\ k = Len(d.frames)
        /\ m \in Nat /\ m <= n /\ m <= k
    BY <1>2, <2>1
  <2> HIDE DEF m, k
  <2> QED
    BY ONLY <2>7, <2>2, <2>3, <2>6, ShapeFrom
<1> HIDE DEF k
<1>4. ASSUME NEW j \in 1..k
      PROVE  Collects(g, d.frames[j], OwnPaths(g, d, j), Forced(d, e, j), e /\ j = Len(d.frames), cl2, lab2)
  <2>1. CASE j < n
    <3>1. d.frames[k].at # "returned" /\ j \in 1..n /\ j < k
      BY <1>1, <1>2, <2>1
    <3> QED
      BY <1>1, <1>2, <2>1, <3>1, AccBelow
  <2>2. CASE j = n
    <3>1. ~Forced(d, e, n) /\ ~(e /\ n = Len(d.frames)) /\ ~Forced(c, e, n) /\ ~(e /\ n = Len(c.frames))
      BY <1>1, <1>2 DEF Forced
    <3>2. Collects(g, c.frames[n], OwnPaths(g, c, n), Forced(c, e, n), e /\ n = Len(c.frames), cl, lab)
      BY <1>1 DEF Inv, AccInv
    <3> QED
      BY <1>2, <2>2, <3>1, <3>2 DEF Collects, Alike
  <2>3. CASE j = k
    <3>1. ~Forced(d, e, k) /\ PathsOf(g, d.frames[k].tmp) = {}
      BY <1>1, <1>2 DEF Forced
    <3> QED
      BY <1>2, <2>3, <3>1 DEF Collects
  <2>4. j < n \/ j = n \/ j = k
    BY <1>1 DEF k
  <2> QED
    BY <2>1, <2>2, <2>3, <2>4
<1>5. AccInv(g, d, cl2, lab2, e)
  BY <1>2, <1>4 DEF AccInv
<1>6. FramesBar(g, d) = Append(FramesBar(g, c), NewBar(h.value))
  BY <1>1, BarPushed
<1> QED
  BY <1>2, <1>3, <1>5, <1>6 DEF Inv

LEMMA ShownInv ==
  ASSUME NEW g, NEW c, NEW cl, NEW lab, NEW e \in BOOLEAN, Inv(g, c, cl, lab, e), ~e, NEW n, n = Len(c.frames), n > 1,
         NEW d, NEW f, NEW S, Shown(g, c, d, n, f, S), c.frames[n].role = "force",
         c.frames[n].at \notin {"returned", "forced"}, FrameOK(f), f.at = "returned", PathsOf(g, f.tmp) = {},
         NEW v, v = c.frames[n].value, NEW cl2, cl2[v] = "ok", \A w \in Value : w # v => cl2[w] = cl[w],
         NEW lab2, PathsOf(g, lab2[v]) = S
  PROVE  /\ Inv(g, d, cl2, lab2, e) /\ v \in Value /\ cl[v] = "pending"
         /\ FramesBar(g, d) = AddTo(Shut(FramesBar(g, c), n), n - 1, S)
<1> DEFINE m == n - 1
<1>1. n \in Nat /\ n > 0 /\ n \in 1..n /\ CtxType(c) /\ m \in Nat /\ m \in 1..n /\ m < n /\ m + 1 = n
  BY InvFacts
<1>2. /\ Good(g, d) /\ CtxType(d) /\ Len(d.frames) = n /\ d.frames[n] = f
      /\ f.role = c.frames[n].role /\ f.value = c.frames[n].value
      /\ (\A j \in 1..n : j < n => d.frames[j] = c.frames[j]) /\ d.frames[m] = c.frames[m]
      /\ \A j \in 1..n : j < m => OwnPaths(g, d, j) = OwnPaths(g, c, j)
      /\ OwnPaths(g, d, m) = OwnPaths(g, c, m) \cup S /\ OwnPaths(g, d, n) = {}
  BY <1>1 DEF Shown, Good
<1>3. /\ Called(c.frames[m], c.frames[n]) /\ FrameOK(c.frames[m]) /\ c.frames[m] \in FrameType
      /\ v \in Value /\ cl[v] = "pending"
  BY <1>1, InvFacts, ForceFrame
<1>4. Shape(d.frames)
  <2>1. m <= n /\ (\A j \in 1..m : j \in 1..n /\ j < n) /\ \A j \in 1..n : j > m => j = n
    BY ONLY <1>1
  <2>2. \A j \in 1..m : d.frames[j] = c.frames[j]
    BY <1>2, <2>1
  <2>3. d.frames[1].role = "root"
    <3>1. 1 \in 1..m
      BY ONLY <1>1
    <3> QED
      BY <2>2, <3>1, InvFacts
  <2>4. FrameOK(d.frames[n]) /\ Called(d.frames[n - 1], d.frames[n])
    BY <1>2, <1>3 DEF Called
  <2>5. \A j \in 1..n : j > m => FrameOK(d.frames[j]) /\ (j > 1 => Called(d.frames[j - 1], d.frames[j]))
    BY <2>1, <2>4
  <2> DEFINE k == Len(d.frames)
  <2>6. /\ Inv(g, c, cl, lab, e) /\ n = Len(c.frames) /\ CtxType(d) /\ k = Len(d.frames)
        /\ m \in Nat /\ m <= n /\ m <= k
    BY <1>1, <1>2, <2>1
  <2>7. /\ \A j \in 1..m : d.frames[j] = c.frames[j]
        /\ \A j \in 1..k : j > m => FrameOK(d.frames[j])
        /\ \A j \in 1..k : j > m /\ j > 1 => Called(d.frames[j - 1], d.frames[j])
    BY <1>2, <2>2, <2>5
  <2> HIDE DEF m, k
  <2> QED
    BY ONLY <2>6, <2>3, <2>7, ShapeFrom, SMTT(30)
<1>5. ASSUME NEW j \in 1..n
      PROVE  Collects(g, d.frames[j], OwnPaths(g, d, j), Forced(d, e, j), e /\ j = Len(d.frames), cl2, lab2)
  <2>1. CASE j < m
    <3>1. j < n /\ j < n - 1 /\ d.frames[j] = c.frames[j] /\ OwnPaths(g, d, j) = OwnPaths(g, c, j)
      BY <1>1, <1>2, <2>1
    <3> QED
      BY <1>1, <1>2, <3>1, AccBelow
  <2>2. CASE j = m
    <3>1. Forced(d, e, m) <=> c.frames[m].at \in {"needs", "resolved"}
      <4>1. m # n /\ m + 1 = n /\ d.frames[n].at = "returned" /\ d.frames[m] = c.frames[m] /\ Len(d.frames) = n
        BY <1>1, <1>2
      <4> HIDE DEF m
      <4> QED
        BY <4>1 DEF Forced
    <3>2. ~(e /\ m = Len(d.frames)) /\ ~(e /\ m = Len(c.frames)) /\ ~Forced(c, e, m)
      BY <1>1 DEF Forced
    <3>3. Collects(g, c.frames[m], OwnPaths(g, c, m), Forced(c, e, m), e /\ m = Len(c.frames), cl, lab)
      BY <1>1 DEF Inv, AccInv
    <3>4. Forced(d, e, m) => c.frames[m].arg = v
      BY <1>3, <3>1 DEF Called
    <3>5. c.frames[m].role \in {"wrap", "file"} => Forced(d, e, m)
      BY <1>3, <3>1 DEF Called, FrameOK
    <3> HIDE DEF m
    <3>6. Collects(g, c.frames[m], OwnPaths(g, c, m) \cup S, Forced(d, e, m), FALSE, cl2, lab2)
      BY <3>2, <3>3, <3>4, <3>5 DEF Collects
    <3> QED
      BY <1>2, <2>2, <3>2, <3>6
  <2>3. CASE j = n
    <3>1. ~Forced(d, e, n)
      BY <1>1, <1>2 DEF Forced
    <3> QED
      BY <1>2, <2>3, <3>1 DEF Collects
  <2> QED
    BY <1>1, <2>1, <2>2, <2>3
<1>6. AccInv(g, d, cl2, lab2, e)
  BY <1>2, <1>5 DEF AccInv
<1>7. CellInv(d, cl2)
  <2>1. ASSUME NEW j \in 1..n, d.frames[j].role = "force"
        PROVE  cl2[d.frames[j].value] = IF d.frames[j].at = "returned" THEN "ok" ELSE "pending"
    <3>1. CASE j < n
      <4>1. d.frames[j] = c.frames[j]
        BY <1>2, <3>1
      <4>2. c.frames[j].value \in Value /\ c.frames[j].value # v
        BY <1>1, <2>1, <3>1, <4>1, ForceFrame
      <4> QED
        BY <2>1, <3>1, <4>1, <4>2, ForceFrame
    <3>2. CASE j = n
      BY <1>2, <3>2
    <3> QED
      BY <1>1, <3>1, <3>2
  <2>2. \A j \in 1..n : d.frames[j].role = c.frames[j].role /\ d.frames[j].value = c.frames[j].value
    BY <1>1, <1>2
  <2>3. ASSUME NEW i \in 1..n, NEW j \in 1..n, d.frames[i].role = "force", d.frames[j].value = d.frames[i].value
        PROVE  i = j
    BY <2>2, <2>3, ForceFrame
  <2> QED
    BY <1>2, <2>1, <2>3 DEF CellInv
<1>8. FramesBar(g, d) = AddTo(Shut(FramesBar(g, c), n), n - 1, S)
  <2>1. ~c.frames[n - 1].published
    BY <1>1, TopOpen
  <2> QED
    BY <1>1, <2>1, BarShown
<1> QED
  BY <1>2, <1>3, <1>4, <1>6, <1>7, <1>8 DEF Inv

LEMMA ShrunkInv ==
  ASSUME NEW g, NEW c, NEW cl, NEW lab, NEW e, Inv(g, c, cl, lab, e), NEW n, n = Len(c.frames), n > 1,
         NEW d, NEW f, NEW S, Shrunk(g, c, d, n, f, S), NEW cl2, NEW lab2, NEW e2 \in BOOLEAN,
         f.at # "returned", FrameOK(f),
         Collects(g, f, OwnPaths(g, c, n - 1) \cup S, Forcing(e2, f), e2, cl2, lab2),
         \A w \in Value : cl[w] # "thunk" /\ (c.frames[n].at # "returned" => w # c.frames[n].value) => cl2[w] = cl[w]
  PROVE  /\ Inv(g, d, cl2, lab2, e2)
         /\ FramesBar(g, d) = AddTo(SubSeq(FramesBar(g, c), 1, n - 1), n - 1, S)
<1> DEFINE m == n - 1
<1>1. n \in Nat /\ n > 0 /\ n \in 1..n /\ CtxType(c) /\ m \in Nat /\ m > 0 /\ m \in 1..m /\ m \in 1..n /\ m < n
  BY InvFacts
<1>2. /\ Good(g, d) /\ CtxType(d) /\ Len(d.frames) = m /\ d.frames[m] = f /\ Alike(f, c.frames[m])
      /\ \A j \in 1..n : j < m => d.frames[j] = c.frames[j] /\ OwnPaths(g, d, j) = OwnPaths(g, c, j)
      /\ OwnPaths(g, d, m) = OwnPaths(g, c, m) \cup S
  BY DEF Shrunk, Good
<1>3. \A j \in 1..n : j < n => ~c.frames[j].published /\ c.frames[j].at # "returned"
  BY TopOpen
<1>4. Shape(d.frames)
  <2> DEFINE k == m - 1
  <2>1. /\ k \in Nat /\ k <= n /\ k <= m /\ (\A j \in 1..k : j \in 1..n /\ j < m)
        /\ \A j \in 1..m : j > k => j = m
    BY ONLY <1>1
  <2>2. \A j \in 1..k : d.frames[j] = c.frames[j]
    BY <1>2, <2>1
  <2>3. d.frames[1].role = "root"
    <3>1. 1 \in 1..n /\ (m = 1 \/ 1 < m)
      BY ONLY <1>1
    <3>2. d.frames[m].role = c.frames[m].role
      BY <1>2 DEF Alike
    <3>3. c.frames[1].role = "root"
      BY InvFacts
    <3> QED
      BY <1>2, <3>1, <3>2, <3>3
  <2>4. m > 1 => Called(d.frames[m - 1], d.frames[m])
    <3>1. m > 1 => m - 1 \in 1..n /\ m - 1 < m
      BY ONLY <1>1
    <3>2. m > 1 => Called(c.frames[m - 1], c.frames[m])
      BY <1>1, InvFacts
    <3> QED
      BY <1>2, <3>1, <3>2 DEF Called, Alike
  <2>5. \A j \in 1..m : j > k => FrameOK(d.frames[j]) /\ (j > 1 => Called(d.frames[j - 1], d.frames[j]))
    BY <1>2, <2>1, <2>4
  <2>6. /\ Inv(g, c, cl, lab, e) /\ n = Len(c.frames) /\ CtxType(d) /\ m = Len(d.frames)
        /\ k \in Nat /\ k <= n /\ k <= m
    BY <1>2, <2>1
  <2> HIDE DEF k, m
  <2> QED
    BY ONLY <2>6, <2>2, <2>3, <2>5, ShapeFrom, SMTT(30)
<1>5. ASSUME NEW j \in 1..m
      PROVE  Collects(g, d.frames[j], OwnPaths(g, d, j), Forced(d, e2, j), e2 /\ j = Len(d.frames), cl2, lab2)
  <2>1. CASE j < m
    <3>1. j \in 1..n /\ j < n /\ j < n - 1 /\ d.frames[j] = c.frames[j] /\ OwnPaths(g, d, j) = OwnPaths(g, c, j)
      BY <1>1, <1>2, <2>1
    <3>2. d.frames[m].at # "returned"
      BY <1>2
    <3> HIDE DEF m
    <3> QED
      BY <1>1, <1>2, <2>1, <3>1, <3>2, AccBelow
  <2>2. CASE ~(j < m)
    <3>1. j = m
      BY <1>1, <2>2
    <3>2. Forced(d, e2, m) <=> Forcing(e2, f)
      BY <1>1, <1>2 DEF Forced, Forcing
    <3>3. (e2 /\ m = Len(d.frames)) = e2
      BY <1>2
    <3> QED
      BY <1>2, <3>1, <3>2, <3>3 DEF Collects
  <2> QED
    BY <2>1, <2>2
<1>6. AccInv(g, d, cl2, lab2, e2)
  BY <1>2, <1>5 DEF AccInv
<1>7. CellInv(d, cl2)
  <2>1. \A j \in 1..m : /\ d.frames[j].role = c.frames[j].role /\ d.frames[j].value = c.frames[j].value
                        /\ d.frames[j].at = "returned" <=> c.frames[j].at = "returned"
                        /\ j \in 1..n /\ j # n
    <3> SUFFICES ASSUME NEW j \in 1..m
                 PROVE  /\ d.frames[j].role = c.frames[j].role /\ d.frames[j].value = c.frames[j].value
                        /\ d.frames[j].at = "returned" <=> c.frames[j].at = "returned"
                        /\ j \in 1..n /\ j # n
      OBVIOUS
    <3>1. j \in 1..n /\ j < n /\ (j < m \/ j = m)
      BY <1>1
    <3>2. CASE j < m
      BY <1>2, <3>1, <3>2
    <3>3. CASE j = m
      BY <1>2, <1>3, <3>1, <3>3 DEF Alike
    <3> QED
      BY <3>1, <3>2, <3>3
  <2>2. ASSUME NEW j \in 1..m, d.frames[j].role = "force"
        PROVE  cl2[d.frames[j].value] = IF d.frames[j].at = "returned" THEN "ok" ELSE "pending"
    <3>1. c.frames[j].role = "force" /\ j \in 1..n /\ n \in 1..n /\ n # j
      BY <1>1, <2>1, <2>2
    <3>2. /\ c.frames[j].value \in Value /\ c.frames[n].value # c.frames[j].value
          /\ cl[c.frames[j].value] = IF c.frames[j].at = "returned" THEN "ok" ELSE "pending"
      BY <3>1, ForceFrame
    <3> QED
      BY <2>1, <3>2
  <2>3. ASSUME NEW i \in 1..m, NEW j \in 1..m, d.frames[i].role = "force", d.frames[j].value = d.frames[i].value
        PROVE  i = j
    <3>1. /\ i \in 1..n /\ j \in 1..n /\ c.frames[i].role = "force"
          /\ c.frames[j].value = c.frames[i].value
      BY <2>1, <2>3
    <3> QED
      BY <3>1, ForceFrame
  <2> QED
    BY <1>2, <2>2, <2>3 DEF CellInv
<1>8. FramesBar(g, d) = AddTo(SubSeq(FramesBar(g, c), 1, n - 1), n - 1, S)
  <2>1. ~c.frames[n - 1].published
    BY <1>1, <1>3
  <2> QED
    BY <1>1, <2>1, BarShrunk
<1> QED
  BY <1>2, <1>4, <1>6, <1>7, <1>8 DEF Inv

(***************************************************************************)
(* The abstract labels and tables.                                         *)
(***************************************************************************)
LabelBar(g, lab) == [v \in Value |-> PathsOf(g, lab[v])]
TableBar(g, tab) == [k \in Key |-> IF tab[k] = None THEN None ELSE PathsOf(g, tab[k])]

LEMMA BarKept ==
  ASSUME NEW g, GraphInv(g), NEW h, Extended(g, h),
         NEW lab \in [Value -> SetIds(g)], NEW tab \in [Key -> SetIds(g) \cup {None}]
  PROVE  LabelBar(h, lab) = LabelBar(g, lab) /\ TableBar(h, tab) = TableBar(g, tab)
<1>1. \A v \in Value : PathsOf(h, lab[v]) = PathsOf(g, lab[v])
  BY PathsOfExtended
<1>2. \A k \in Key : tab[k] # None => PathsOf(h, tab[k]) = PathsOf(g, tab[k])
  BY PathsOfExtended
<1> QED
  BY <1>1, <1>2 DEF LabelBar, TableBar

LEMMA LabelSet ==
  ASSUME NEW g, GraphInv(g), NEW h, Extended(g, h), NEW lab \in [Value -> SetIds(g)],
         NEW v \in Value, NEW id, NEW to,
         \A w \in Value : to[w] = IF w = v THEN id ELSE lab[w]
  PROVE  LabelBar(h, to) = [LabelBar(g, lab) EXCEPT ![v] = PathsOf(h, id)]
<1>1. \A w \in Value : PathsOf(h, lab[w]) = PathsOf(g, lab[w])
  BY PathsOfExtended
<1> QED
  BY <1>1 DEF LabelBar

LEMMA TableSet ==
  ASSUME NEW g, GraphInv(g), NEW h, Extended(g, h), NEW tab \in [Key -> SetIds(g) \cup {None}],
         NEW k \in Key, NEW id \in Nat, NEW to,
         \A w \in Key : to[w] = IF w = k THEN id ELSE tab[w]
  PROVE  TableBar(h, to) = [TableBar(g, tab) EXCEPT ![k] = PathsOf(h, id)]
<1>1. \A w \in Key : tab[w] # None => PathsOf(h, tab[w]) = PathsOf(g, tab[w])
  BY PathsOfExtended
<1>2. id # None
  BY FrameConstants
<1> QED
  BY <1>1, <1>2 DEF TableBar

(***************************************************************************)
(* States, and graphs that grow.                                           *)
(***************************************************************************)
LEMMA Lift ==
  ASSUME NEW g, GraphInv(g), NEW h, Extended(g, h), NEW c, NEW cl, NEW lab \in [Value -> SetIds(g)], NEW e,
         Inv(g, c, cl, lab, e), NEW n, n = Len(c.frames)
  PROVE  /\ Inv(h, c, cl, lab, e) /\ FramesBar(h, c) = FramesBar(g, c)
         /\ \A j \in 1..n : OwnPaths(h, c, j) = OwnPaths(g, c, j)
<1>1. Good(g, c)
  BY DEF Inv
<1>2. Good(h, c) /\ \A j \in 1..n : OwnPaths(h, c, j) = OwnPaths(g, c, j)
  BY <1>1, OwnExtended
<1>3. AccInv(h, c, cl, lab, e)
  <2> SUFFICES ASSUME NEW j \in 1..n
               PROVE  Collects(h, c.frames[j], OwnPaths(h, c, j), Forced(c, e, j), e /\ j = n, cl, lab)
    BY DEF AccInv
  <2>1. Collects(g, c.frames[j], OwnPaths(g, c, j), Forced(c, e, j), e /\ j = n, cl, lab)
    BY DEF Inv, AccInv
  <2>2. c.frames[j].tmp \in SetIds(g) /\ FrameOK(c.frames[j]) /\ FrameOK(c.frames[n])
    BY <1>1, InvFacts DEF Good, CtxIds
  <2>3. PathsOf(h, c.frames[j].tmp) = PathsOf(g, c.frames[j].tmp)
    BY <2>2, PathsOfExtended
  <2>4. Forced(c, e, j) => c.frames[j].arg \in Value
    BY <2>2 DEF Forced, FrameOK
  <2>5. Forced(c, e, j) => PathsOf(h, lab[c.frames[j].arg]) = PathsOf(g, lab[c.frames[j].arg])
    BY <2>4, PathsOfExtended
  <2> QED
    BY <1>2, <2>1, <2>3, <2>5 DEF Collects
<1>4. FramesBar(h, c) = FramesBar(g, c)
  BY <1>2 DEF FramesBar
<1> QED
  BY <1>2, <1>3, <1>4 DEF Inv

(* Values another evaluation finishes are none this one relies on.         *)
LEMMA SameInv ==
  ASSUME NEW g, NEW c, NEW cl, NEW lab, NEW e, Inv(g, c, cl, lab, e), NEW cl2, Settled(cl, cl2), NEW lab2,
         \A v \in Value : cl[v] # "thunk" => lab2[v] = lab[v]
  PROVE  Inv(g, c, cl2, lab2, e)
<1> DEFINE n == Len(c.frames)
<1>1. ASSUME NEW j \in 1..n
      PROVE  Collects(g, c.frames[j], OwnPaths(g, c, j), Forced(c, e, j), e /\ j = n, cl2, lab2)
  <2>1. Collects(g, c.frames[j], OwnPaths(g, c, j), Forced(c, e, j), e /\ j = n, cl, lab)
    BY DEF Inv, AccInv
  <2>2. Forced(c, e, j) => c.frames[j].arg \in Value
    BY InvFacts DEF Forced, FrameOK
  <2> QED
    BY <2>1, <2>2 DEF Collects, Settled
<1>2. AccInv(g, c, cl2, lab2, e)
  BY <1>1 DEF AccInv
<1>3. CellInv(c, cl2)
  <2>1. n \in Nat /\ n <= n
    BY InvFacts
  <2> QED
    BY <2>1, CellKept
<1> QED
  BY <1>2, <1>3 DEF Inv

LEMMA StateIs ==
  ASSUME FrameInv
  PROVE  /\ GraphInv(graph) /\ IdInv /\ Inv(graph, ctx, cell, label, exc) /\ SetIds(graph) \subseteq Nat
         /\ Top = Len(ctx.frames) /\ Frame(Top) = ctx.frames[Top] /\ Sets!Top = Top
         /\ Top \in Nat /\ Top > 0 /\ Top \in 1..Top /\ Frame(Top) \in FrameType /\ FrameOK(Frame(Top))
         /\ CtxType(ctx) /\ Good(graph, ctx)
<1>1. GraphInv(graph) /\ IdInv /\ Inv(graph, ctx, cell, label, exc) /\ Good(graph, ctx) /\ CtxType(ctx)
  BY DEF FrameInv, Inv, Good, Frame, Top
<1>2. Top = Len(ctx.frames) /\ Frame(Top) = ctx.frames[Top]
  BY DEF Frame, Top
<1>3. Top \in Nat /\ Top > 0 /\ Top \in 1..Top /\ Frame(Top) \in FrameType /\ FrameOK(Frame(Top))
  BY <1>1, <1>2, InvFacts
<1>4. Sets!Top = Top
  BY <1>1, <1>2, BarIs DEF Sets!Top
<1>5. SetIds(graph) \subseteq Nat
  BY <1>1, GraphType DEF SetIds
<1> QED
  BY <1>1, <1>2, <1>3, <1>4, <1>5

LEMMA StateFrom ==
  ASSUME GraphInv(graph'), IdInv', Inv(graph', ctx', cell', label', exc') PROVE FrameInv'
BY DEF FrameInv, Inv, Good, Frame, Top

(* The state before a step, over the graph after it.                       *)
LEMMA Lifted ==
  ASSUME FrameInv, GraphInv(graph'), Extended(graph, graph')
  PROVE  /\ Inv(graph', ctx, cell, label, exc) /\ FramesBar(graph', ctx) = FramesBar(graph, ctx)
         /\ LabelBar(graph', label) = LabelBar(graph, label)
         /\ TableBar(graph', table) = TableBar(graph, table)
         /\ SetIds(graph) \subseteq SetIds(graph') /\ SetIds(graph') \subseteq Nat
         /\ label \in [Value -> SetIds(graph')] /\ table \in [Key -> SetIds(graph') \cup {None}]
         /\ \A j \in 1..Top : OwnPaths(graph', ctx, j) = OwnPaths(graph, ctx, j)
         /\ Good(graph', ctx)
<1>1. GraphInv(graph) /\ IdInv /\ Inv(graph, ctx, cell, label, exc) /\ Top = Len(ctx.frames)
  BY StateIs
<1>2. label \in [Value -> SetIds(graph)] /\ table \in [Key -> SetIds(graph) \cup {None}]
  BY <1>1 DEF IdInv
<1>3. SetIds(graph) \subseteq SetIds(graph') /\ SetIds(graph') \subseteq Nat
  BY GraphType DEF Extended, SetIds
<1>4. /\ LabelBar(graph', label) = LabelBar(graph, label)
      /\ TableBar(graph', table) = TableBar(graph, table)
  BY <1>1, <1>2, BarKept
<1>5. /\ Inv(graph', ctx, cell, label, exc) /\ FramesBar(graph', ctx) = FramesBar(graph, ctx)
      /\ \A j \in 1..Top : OwnPaths(graph', ctx, j) = OwnPaths(graph, ctx, j)
  BY <1>1, <1>2, Lift
<1>6. label \in [Value -> SetIds(graph')] /\ table \in [Key -> SetIds(graph') \cup {None}]
  BY <1>2, <1>3
<1> QED
  BY <1>3, <1>4, <1>5, <1>6 DEF Inv

(* No finished value is written.                                           *)
Kept == \A v \in Value : cell[v] \in {"ok", "failed"} => cell'[v] = cell[v] /\ label'[v] = label[v]

LEMMA SetsAdding == ASSUME NEW fs, NEW i, NEW S PROVE Sets!Adding(fs, i, S) = AddTo(fs, i, S)
BY DEF Sets!Adding, AddTo

(***************************************************************************)
(* The operations on a context, one after another.                         *)
(***************************************************************************)
LEMMA AddedGrown ==
  ASSUME NEW g, NEW c, CtxType(c), NEW n, n = Len(c.frames), NEW b, NEW S, AddedTop(g, c, b, n, S)
  PROVE  Grown(g, c, b, n, c.frames[n], S)
<1>1. n \in Nat /\ n \in 1..n /\ c.frames[n] \in FrameType
  BY CtxFacts
<1>2. \A j \in 1..n : j < n => j \in 1..(n - 1)
  BY <1>1
<1> QED
  BY <1>1, <1>2 DEF AddedTop, Grown, Alike, Same

LEMMA AddedGoes ==
  ASSUME NEW g, GraphInv(g), NEW c, CtxType(c), NEW n, n = Len(c.frames), NEW b, NEW S, AddedTop(g, c, b, n, S),
         NEW at \in Ats, NEW arg \in Args, NEW tmp \in SetIds(g), NEW d, d = Goes(b, at, arg, tmp)
  PROVE  Grown(g, c, d, n, GoesOn(c.frames[n], at, arg, tmp), S)
<1>1. /\ n \in Nat /\ n \in 1..n /\ c.frames[n] \in FrameType /\ tmp \in Nat
      /\ \A j \in 1..n : j < n => j \in 1..(n - 1)
  BY CtxFacts, GraphType DEF SetIds
<1>2. Good(g, b) /\ b.frames = c.frames /\ n = Len(b.frames)
  BY DEF AddedTop
<1>3. WentOn(g, b, d, n, GoesOn(c.frames[n], at, arg, tmp))
  BY <1>2, GoesKeeps
<1>4. Alike(GoesOn(c.frames[n], at, arg, tmp), c.frames[n])
  BY <1>1, GoesOnIs
<1> QED
  BY <1>1, <1>2, <1>3, <1>4 DEF AddedTop, Grown, Same, WentOn

LEMMA NoneAdded ==
  ASSUME NEW g, NEW c, Good(g, c), NEW n, n = Len(c.frames) PROVE AddedTop(g, c, c, n, {})
BY DEF AddedTop, Same

(* The code goes on before something is added.                             *)
LEMMA GoesAdded ==
  ASSUME NEW g, GraphInv(g), NEW c, Good(g, c), AllOpen(c), NEW n, n = Len(c.frames),
         NEW at \in Ats, NEW arg \in Args, NEW tmp \in SetIds(g), NEW b, b = Goes(c, at, arg, tmp)
  PROVE  /\ Good(g, b) /\ AllOpen(b) /\ n = Len(b.frames)
         /\ \A d, S : AddedTop(g, b, d, n, S) => Grown(g, c, d, n, GoesOn(c.frames[n], at, arg, tmp), S)
<1> DEFINE f == GoesOn(c.frames[n], at, arg, tmp)
<1>1. /\ n \in Nat /\ n \in 1..n /\ c.frames[n] \in FrameType /\ tmp \in Nat
      /\ \A j \in 1..n : j < n => j \in 1..(n - 1)
  BY CtxFacts, GraphType DEF SetIds, Good
<1>2. WentOn(g, c, b, n, f)
  BY GoesKeeps
<1>3. Alike(f, c.frames[n])
  BY <1>1, GoesOnIs
<1> HIDE DEF f
<1>4. Good(g, b) /\ n = Len(b.frames)
  BY <1>2 DEF WentOn
<1>5. AllOpen(b)
  BY <1>1, <1>2, <1>3 DEF AllOpen, WentOn, Alike
<1>6. ASSUME NEW d, NEW S, AddedTop(g, b, d, n, S) PROVE Grown(g, c, d, n, f, S)
  <2>1. \A j \in 1..n : j < n => d.frames[j] = c.frames[j] /\ OwnPaths(g, d, j) = OwnPaths(g, c, j)
    BY <1>1, <1>2, <1>6 DEF AddedTop, Same, WentOn
  <2>2. OwnPaths(g, d, n) = OwnPaths(g, c, n) \cup S
    BY <1>1, <1>2, <1>6 DEF AddedTop, Same, WentOn
  <2>3. Good(g, d) /\ Len(d.frames) = n /\ d.frames[n] = f /\ f \in FrameType
    BY <1>1, <1>2, <1>6 DEF AddedTop, WentOn
  <2> QED
    BY <1>3, <2>1, <2>2, <2>3 DEF Grown
<1> QED
  BY <1>4, <1>5, <1>6 DEF f

(* The code goes on, or stays, and enters a frame.                         *)
LEMMA GoesEnter ==
  ASSUME NEW g, GraphInv(g), NEW c, Good(g, c), NEW n, n = Len(c.frames),
         NEW at \in Ats, NEW arg \in Args, NEW tmp \in SetIds(g), NEW b, b = Goes(c, at, arg, tmp),
         NEW role \in Callees, NEW v \in Args, NEW to \in Ats, NEW about \in Args,
         NEW d, d = Enter(b, role, v, to, about), NEW f, f = GoesOn(c.frames[n], at, arg, tmp)
  PROVE  /\ Pushed(g, c, d, n, f, NewFrame(b, role, v, to, about))
         /\ f.at = at /\ f.arg = arg /\ f.tmp = tmp
<1> DEFINE h == NewFrame(b, role, v, to, about)
<1>1. /\ n \in Nat /\ n \in 1..n /\ c.frames[n] \in FrameType /\ tmp \in Nat
  BY CtxFacts, GraphType DEF SetIds, Good
<1>2. WentOn(g, c, b, n, f)
  BY GoesKeeps
<1>3. Alike(f, c.frames[n]) /\ f.at = at /\ f.arg = arg /\ f.tmp = tmp
  <2> DEFINE u == c.frames[n]
  <2>1. u \in FrameType /\ at \in Ats /\ arg \in Args /\ tmp \in Nat
    BY <1>1
  <2>2. f = GoesOn(u, at, arg, tmp)
    OBVIOUS
  <2> HIDE DEF u
  <2>3. Alike(f, u) /\ f.at = at /\ f.arg = arg /\ f.tmp = tmp
    BY ONLY <2>1, <2>2, GoesOnIs
  <2> QED
    BY <2>3 DEF u
<1>4. Good(g, b) /\ n = Len(b.frames) /\ CtxType(b)
  BY <1>2 DEF WentOn, Good
<1>5. Entered(g, b, d, n, h)
  BY <1>4, EnterKeeps
<1>6. ~h.published
  BY DEF NewFrame
<1> HIDE DEF h
<1>7. Pushed(g, c, d, n, f, h)
  BY <1>1, <1>2, <1>3, <1>5, <1>6 DEF Pushed, Same, WentOn, Entered
<1> QED
  BY <1>3, <1>7 DEF h

LEMMA EnterPushed ==
  ASSUME NEW g, NEW c, Good(g, c), NEW n, n = Len(c.frames),
         NEW role \in Callees, NEW v \in Args, NEW to \in Ats, NEW about \in Args,
         NEW d, d = Enter(c, role, v, to, about)
  PROVE  Pushed(g, c, d, n, c.frames[n], NewFrame(c, role, v, to, about))
<1> DEFINE h == NewFrame(c, role, v, to, about)
<1>1. /\ n \in Nat /\ n \in 1..n /\ c.frames[n] \in FrameType
  BY CtxFacts DEF Good
<1>2. Entered(g, c, d, n, h)
  BY EnterKeeps
<1>3. ~h.published
  BY DEF NewFrame
<1> HIDE DEF h
<1>4. Pushed(g, c, d, n, c.frames[n], h)
  BY <1>1, <1>2, <1>3 DEF Pushed, Same, Entered, Alike
<1> QED
  BY <1>4 DEF h

(* A new frame.                                                            *)
LEMMA NewFrameIs ==
  ASSUME NEW c, NEW role, NEW v, NEW at, NEW arg
  PROVE  LET h == NewFrame(c, role, v, at, arg) IN
           h.role = role /\ h.value = v /\ h.at = at /\ h.arg = arg /\ h.tmp = 0 /\ ~h.published
BY DEF NewFrame

(* A popped frame, and the frame below goes on.                            *)
LEMMA PoppedShrunk ==
  ASSUME NEW g, NEW c, Good(g, c), NEW n, n = Len(c.frames), n > 1, NEW b, NEW S, Popped(g, c, b, n, S)
  PROVE  /\ Shrunk(g, c, b, n, c.frames[n - 1], S)
         /\ Good(g, b) /\ n - 1 = Len(b.frames) /\ b.frames[n - 1] = c.frames[n - 1]
<1>1. /\ n \in Nat /\ n - 1 \in 1..(n - 1) /\ n - 1 \in 1..n /\ c.frames[n - 1] \in FrameType
      /\ \A j \in 1..n : j < n - 1 => j \in 1..(n - 2) /\ j \in 1..(n - 1)
  BY CtxFacts DEF Good
<1> QED
  BY <1>1 DEF Popped, Shrunk, Same, Alike

LEMMA PoppedGoes ==
  ASSUME NEW g, GraphInv(g), NEW c, Good(g, c), NEW n, n = Len(c.frames), n > 1, NEW b, NEW S, Popped(g, c, b, n, S),
         NEW at \in Ats, NEW arg \in Args, NEW tmp \in SetIds(g), NEW d, d = Goes(b, at, arg, tmp)
  PROVE  Shrunk(g, c, d, n, GoesOn(c.frames[n - 1], at, arg, tmp), S)
<1> DEFINE m == n - 1
           f == GoesOn(c.frames[m], at, arg, tmp)
<1>1. /\ n \in Nat /\ m \in 1..m /\ m \in 1..n /\ c.frames[m] \in FrameType /\ tmp \in Nat
      /\ \A j \in 1..n : j < m => j \in 1..(n - 2) /\ j \in 1..m
  BY CtxFacts, GraphType DEF Good, SetIds
<1>2. Good(g, b) /\ m = Len(b.frames) /\ b.frames[m] = c.frames[m]
  BY PoppedShrunk
<1> HIDE DEF m
<1>3. WentOn(g, b, d, m, f)
  BY <1>2, GoesKeeps
<1>4. Alike(f, c.frames[m])
  BY <1>1, GoesOnIs
<1> HIDE DEF f
<1>5. /\ (\A j \in 1..m : b.frames[j] = c.frames[j]) /\ OwnPaths(g, b, m) = OwnPaths(g, c, m) \cup S
      /\ \A j \in 1..(n - 2) : OwnPaths(g, b, j) = OwnPaths(g, c, j)
  BY DEF Popped, Same, m
<1>6. /\ Good(g, d) /\ Len(d.frames) = m /\ f \in FrameType /\ d.frames[m] = f
      /\ \A j \in 1..m : j < m => d.frames[j] = b.frames[j]
      /\ \A j \in 1..m : OwnPaths(g, d, j) = OwnPaths(g, b, j)
  BY <1>3 DEF WentOn, Same
<1>7. ASSUME NEW j \in 1..n, j < m PROVE d.frames[j] = c.frames[j] /\ OwnPaths(g, d, j) = OwnPaths(g, c, j)
  BY <1>1, <1>5, <1>6, <1>7
<1>8. OwnPaths(g, d, m) = OwnPaths(g, c, m) \cup S
  BY <1>1, <1>5, <1>6
<1> QED
  BY <1>4, <1>6, <1>7, <1>8 DEF Shrunk, m, f

(***************************************************************************)
(* Steps.                                                                  *)
(***************************************************************************)
LEMMA Untouched ==
  ASSUME FrameInv, GraphInv(graph'), Extended(graph, graph'), UNCHANGED <<cell, label, table>>, exc' \in BOOLEAN
  PROVE  /\ IdInv' /\ Kept /\ Settled(cell, cell')
         /\ LabelBar(graph', label') = LabelBar(graph, label)
         /\ TableBar(graph', table') = TableBar(graph, table)
<1>1. IdInv
  BY StateIs
<1>2. IdInv'
  BY <1>1, Lifted DEF IdInv
<1> QED
  BY <1>2, Lifted DEF Kept, Settled

LEMMA SameGraph == ASSUME FrameInv, graph' = graph PROVE GraphInv(graph') /\ Extended(graph, graph')
BY StateIs, ExtendedRefl

(* What the frame on top has collected.                                    *)
LEMMA TopCollects ==
  ASSUME FrameInv, GraphInv(graph'), Extended(graph, graph')
  PROVE  Collects(graph', Frame(Top), OwnPaths(graph', ctx, Top), Forcing(exc, Frame(Top)), exc, cell, label)
<1>1. Inv(graph', ctx, cell, label, exc)
  BY Lifted
<1>2. Top = Len(ctx.frames) /\ Frame(Top) = ctx.frames[Top] /\ Top \in Nat /\ Top \in 1..Top
  BY StateIs
<1>3. Collects(graph', ctx.frames[Top], OwnPaths(graph', ctx, Top), Forced(ctx, exc, Top),
               exc /\ Top = Len(ctx.frames), cell, label)
  BY <1>1, <1>2 DEF Inv, AccInv
<1>4. Forced(ctx, exc, Top) <=> Forcing(exc, Frame(Top))
  BY <1>2 DEF Forced, Forcing
<1> QED
  BY <1>2, <1>3, <1>4 DEF Collects

(* The frame on top goes on, with S added to its set.                      *)
LEMMA GrownState ==
  ASSUME FrameInv, GraphInv(graph'), Extended(graph, graph'), IdInv', Settled(cell, cell'),
         NEW f, NEW S, Grown(graph', ctx, ctx', Top, f, S),
         Frame(Top).at # "returned", f.at # "returned", FrameOK(f),
         Collects(graph', f, OwnPaths(graph', ctx, Top) \cup S, Forcing(exc', f), exc', cell', label')
  PROVE  FrameInv' /\ FramesBar(graph', ctx') = Sets!Adding(FramesBar(graph, ctx), Sets!Top, S)
<1>1. Inv(graph', ctx, cell, label, exc) /\ FramesBar(graph', ctx) = FramesBar(graph, ctx)
  BY Lifted
<1>2. Top = Len(ctx.frames) /\ Frame(Top) = ctx.frames[Top] /\ Sets!Top = Top
  BY StateIs
<1>3. exc' \in BOOLEAN
  BY DEF IdInv
<1>4. Inv(graph', ctx', cell', label', exc') /\ FramesBar(graph', ctx') = AddTo(FramesBar(graph', ctx), Top, S)
  BY <1>1, <1>2, <1>3, GrownInv
<1> QED
  BY <1>1, <1>2, <1>4, StateFrom, SetsAdding

LEMMA ReadStep ==
  ASSUME FrameInv, NEW p \in Path, Read(p)
  PROVE  FrameInv' /\ Kept /\ Sets!Read(p)
<1>1. /\ graph' = InternAccess(graph, p) /\ ctx' = AddFrameAccess(ctx, Top, AccessId(graph', p))
      /\ op' = <<"read", p>> /\ UNCHANGED <<cell, label, table, exc>>
      /\ ~exc /\ Frame(Top).at \in {"body", "resolving"}
  BY DEF Read, RecordAccess, InBody, At
<1>2. /\ GraphInv(graph') /\ Extended(graph, graph') /\ AccessId(graph', p) \in DOMAIN graph'.accesses
      /\ graph'.accesses[AccessId(graph', p)] = p
  BY <1>1, StateIs, InternAccessOK
<1>3. /\ IdInv' /\ Kept /\ Settled(cell, cell') /\ LabelBar(graph', label') = LabelBar(graph, label)
      /\ TableBar(graph', table') = TableBar(graph, table)
  BY <1>1, <1>2, StateIs, Untouched DEF IdInv
<1>4. Good(graph', ctx) /\ AllOpen(ctx) /\ Top = Len(ctx.frames) /\ CtxType(ctx) /\ AccessId(graph', p) \in Nat
  BY <1>1, <1>2, Lifted, StateIs, TopOpen, GraphType
<1>5. AddedTop(graph', ctx, ctx', Top, {p})
  BY <1>1, <1>2, <1>4, AccessAdded
<1>6. Grown(graph', ctx, ctx', Top, Frame(Top), {p})
  BY <1>4, <1>5, StateIs, AddedGrown
<1>7. Collects(graph', Frame(Top), OwnPaths(graph', ctx, Top) \cup {p}, Forcing(exc', Frame(Top)), exc', cell', label')
  BY <1>1, <1>2, StateIs, TopCollects DEF Collects, FrameOK, Forcing
<1>8. FrameInv' /\ FramesBar(graph', ctx') = Sets!Adding(FramesBar(graph, ctx), Sets!Top, {p})
  BY <1>1, <1>2, <1>3, <1>6, <1>7, StateIs, GrownState
<1> QED
  BY <1>1, <1>3, <1>8 DEF Sets!Read, LabelBar, TableBar

LEMMA ParseStep ==
  ASSUME FrameInv, NEW p \in Path, ParseFile(p)
  PROVE  FrameInv' /\ Kept /\ Sets!Read(p)
<1> DEFINE b == Goes(ctx, "body", None, 0)
           f == GoesOn(Frame(Top), "body", None, 0)
<1>1. /\ graph' = InternAccess(graph, p) /\ ctx' = AddFrameAccess(b, Top, AccessId(graph', p))
      /\ op' = <<"read", p>> /\ UNCHANGED <<cell, label, table, exc>>
      /\ ~exc /\ Frame(Top).at = "parse"
  BY DEF ParseFile, RecordAccess, At
<1>2. /\ GraphInv(graph') /\ Extended(graph, graph') /\ AccessId(graph', p) \in DOMAIN graph'.accesses
      /\ graph'.accesses[AccessId(graph', p)] = p
  BY <1>1, StateIs, InternAccessOK
<1>3. /\ IdInv' /\ Kept /\ Settled(cell, cell') /\ LabelBar(graph', label') = LabelBar(graph, label)
      /\ TableBar(graph', table') = TableBar(graph, table)
  BY <1>1, <1>2, StateIs, Untouched DEF IdInv
<1>4. Good(graph', ctx) /\ AllOpen(ctx) /\ Top = Len(ctx.frames) /\ CtxType(ctx) /\ AccessId(graph', p) \in Nat
  BY <1>1, <1>2, Lifted, StateIs, TopOpen, GraphType
<1>5. "body" \in Ats /\ None \in Args /\ 0 \in SetIds(graph') /\ 0 \in Nat
  BY DEF Ats, Args, SetIds
<1>6. /\ Good(graph', b) /\ AllOpen(b) /\ Top = Len(b.frames)
      /\ \A d, S : AddedTop(graph', b, d, Top, S) => Grown(graph', ctx, d, Top, f, S)
  BY <1>2, <1>4, <1>5, StateIs, GoesAdded
<1>7. f \in FrameType /\ Alike(f, Frame(Top)) /\ f.at = "body" /\ f.arg = None /\ f.tmp = 0
  BY <1>5, StateIs, GoesOnIs
<1> HIDE DEF b, f
<1>8. Grown(graph', ctx, ctx', Top, f, {p})
  <2>1. AddedTop(graph', b, ctx', Top, {p})
    BY <1>1, <1>2, <1>4, <1>6, AccessAdded
  <2> QED
    BY <1>6, <2>1
<1>9. FrameOK(f)
  BY <1>1, <1>7, StateIs DEF Alike, FrameOK
<1>10. Collects(graph', f, OwnPaths(graph', ctx, Top) \cup {p}, Forcing(exc', f), exc', cell', label')
  <2>1. PathsOf(graph', 0) = {}
    BY <1>2, <1>5, PathsOfType
  <2> QED
    BY <1>7, <1>9, <2>1 DEF Collects, FrameOK, Forcing
<1>11. FrameInv' /\ FramesBar(graph', ctx') = Sets!Adding(FramesBar(graph, ctx), Sets!Top, {p})
  BY <1>1, <1>2, <1>3, <1>7, <1>8, <1>9, <1>10, GrownState
<1> QED
  BY <1>1, <1>3, <1>11 DEF Sets!Read, LabelBar, TableBar

LEMMA PushedCells ==
  ASSUME NEW g, NEW c, NEW cl, NEW lab, NEW e, Inv(g, c, cl, lab, e), NEW n, n = Len(c.frames),
         NEW d, NEW f, NEW h, Pushed(g, c, d, n, f, h), NEW cl2,
         \/ h.role # "force" /\ h.value = None /\ cl2 = cl
         \/ /\ h.role = "force" /\ h.value \in Value /\ h.at # "returned" /\ cl[h.value] = "thunk"
            /\ cl2[h.value] = "pending" /\ \A w \in Value : w # h.value => cl2[w] = cl[w],
         c.frames[n].at # "returned", f.at # "returned"
  PROVE  CellInv(d, cl2)
<1>1. n \in Nat /\ Len(d.frames) = n + 1 /\ d.frames[n + 1] = h
  BY InvFacts DEF Pushed
<1>2. ASSUME NEW j \in 1..(n + 1)
      PROVE  \/ j = n + 1
             \/ /\ j \in 1..n /\ d.frames[j].role = c.frames[j].role /\ d.frames[j].value = c.frames[j].value
                /\ d.frames[j].at = "returned" <=> c.frames[j].at = "returned"
  <2>1. j = n + 1 \/ (j \in 1..n /\ (j < n \/ j = n))
    BY <1>1
  <2> QED
    BY <2>1 DEF Pushed, Alike
<1>3. ASSUME NEW j \in 1..n, c.frames[j].role = "force"
      PROVE  /\ c.frames[j].value \in Value /\ c.frames[j].value # h.value /\ c.frames[j].value # None
             /\ cl2[c.frames[j].value] = cl[c.frames[j].value]
             /\ cl[c.frames[j].value] = IF c.frames[j].at = "returned" THEN "ok" ELSE "pending"
  <2>1. /\ c.frames[j].value \in Value
        /\ cl[c.frames[j].value] = IF c.frames[j].at = "returned" THEN "ok" ELSE "pending"
    BY <1>3, ForceFrame
  <2> QED
    BY <2>1, FrameConstants
<1>4. ASSUME NEW j \in 1..(n + 1), d.frames[j].role = "force"
      PROVE  cl2[d.frames[j].value] = IF d.frames[j].at = "returned" THEN "ok" ELSE "pending"
  <2>1. CASE j = n + 1
    BY <1>1, <1>4, <2>1
  <2>2. CASE j # n + 1
    BY <1>2, <1>3, <1>4, <2>2
  <2> QED
    BY <2>1, <2>2
<1>5. ASSUME NEW i \in 1..(n + 1), NEW j \in 1..(n + 1), d.frames[i].role = "force",
             d.frames[j].value = d.frames[i].value
      PROVE  i = j
  <2>1. CASE i \in 1..n /\ j \in 1..n /\ i # n + 1 /\ j # n + 1
    <3>1. c.frames[i].role = "force" /\ c.frames[j].value = c.frames[i].value
      BY <1>2, <1>5, <2>1
    <3> QED
      BY <2>1, <3>1, ForceFrame
  <2>2. CASE i = n + 1 /\ j \in 1..n /\ j # n + 1
    <3>1. c.frames[j].value = h.value /\ h.role = "force" /\ h.value \in Value
      BY <1>1, <1>2, <1>5, <2>2
    <3>2. c.frames[j].role = "force"
      BY <2>2, <3>1, FrameConstants, InvFacts, SMTT(30) DEF FrameOK
    <3> QED
      BY <1>3, <2>2, <3>1, <3>2
  <2>3. CASE j = n + 1 /\ i \in 1..n /\ i # n + 1
    BY <1>1, <1>2, <1>3, <1>5, <2>3
  <2> QED
    BY <1>1, <2>1, <2>2, <2>3
<1> QED
  BY <1>1, <1>4, <1>5 DEF CellInv

(* The frame on top calls another.                                         *)
LEMMA PushedState ==
  ASSUME FrameInv, UNCHANGED <<graph, label, table, exc>>, ~exc, IdInv', op' = <<"frames", None>>,
         NEW f, NEW h, Pushed(graph, ctx, ctx', Top, f, h), Waits(f, h),
         Frame(Top).at \notin {"returned", "forced"}, f.tmp = Frame(Top).tmp,
         h.at \notin {"returned", "forced"}, h.tmp = 0, CellInv(ctx', cell')
  PROVE  FrameInv' /\ Sets!Enter(h.value)
<1>1. /\ Inv(graph, ctx, cell, label, exc) /\ Top = Len(ctx.frames) /\ Frame(Top) = ctx.frames[Top]
      /\ GraphInv(graph) /\ exc \in BOOLEAN
  BY StateIs DEF IdInv
<1>2. PathsOf(graph, h.tmp) = {}
  BY <1>1, PathsOfType DEF SetIds
<1>3. /\ Inv(graph, ctx', cell', label', exc')
      /\ FramesBar(graph, ctx') = Append(FramesBar(graph, ctx), NewBar(h.value))
  <2> DEFINE n == Top
  <2>1. /\ Inv(graph, ctx, cell, label, exc') /\ n = Len(ctx.frames) /\ exc' \in BOOLEAN /\ ~exc'
        /\ Pushed(graph, ctx, ctx', n, f, h) /\ Waits(f, h) /\ ctx.frames[n].at \notin {"returned", "forced"}
        /\ f.tmp = ctx.frames[n].tmp /\ h.at \notin {"returned", "forced"} /\ PathsOf(graph, h.tmp) = {}
        /\ CellInv(ctx', cell')
    BY <1>1, <1>2
  <2> DEFINE x == exc'
  <2>2. Inv(graph, ctx, cell, label, x) /\ x \in BOOLEAN /\ ~x
    BY <2>1
  <2> HIDE DEF n, x
  <2>3. Inv(graph, ctx', cell', label', x)
    BY ONLY <2>1, <2>2, PushedInv
  <2>4. FramesBar(graph, ctx') = Append(FramesBar(graph, ctx), NewBar(h.value))
    BY <2>1, StateIs, BarPushed
  <2> QED
    BY <2>3, <2>4 DEF x
<1>4. FrameInv'
  BY <1>1, <1>3, StateFrom
<1>5. Sets!Enter(h.value)
  BY <1>3 DEF Sets!Enter, Sets!NewFrame, NewBar
<1> QED
  BY <1>4, <1>5

LEMMA ForceThunkStep ==
  ASSUME FrameInv, NEW v \in Value, ForceThunk(v)
  PROVE  FrameInv' /\ Kept /\ Sets!Enter(v)
<1> DEFINE at == IF v \in File THEN "parse" ELSE "body"
           h == NewFrame(ctx, "force", v, at, None)
<1>1. /\ ctx' = Enter(ctx, "force", v, at, None) /\ cell' = [cell EXCEPT ![v] = "pending"]
      /\ op' = <<"frames", None>> /\ UNCHANGED <<graph, label, table, exc>>
      /\ ~exc /\ cell[v] = "thunk" /\ Frame(Top).at \in {"body", "needs", "resolved"}
      /\ Frame(Top).at \in {"needs", "resolved"} => v = Frame(Top).arg
      /\ Frame(Top).at = "body" => v \notin File
  BY DEF ForceThunk, Forces, InBody, At
<1>2. /\ at \in Ats /\ v \in Args /\ None \in Args /\ "force" \in Callees
      /\ at \notin {"returned", "forced"}
  BY DEF Ats, Args, Callees
<1>3. /\ Inv(graph, ctx, cell, label, exc) /\ Good(graph, ctx) /\ Top = Len(ctx.frames)
      /\ Frame(Top) = ctx.frames[Top] /\ IdInv /\ FrameOK(Frame(Top)) /\ Frame(Top) \in FrameType
  BY StateIs
<1>4. Pushed(graph, ctx, ctx', Top, Frame(Top), h)
  BY <1>1, <1>2, <1>3, EnterPushed
<1>5. h.role = "force" /\ h.value = v /\ h.at = at /\ h.arg = None /\ h.tmp = 0 /\ ~h.published
  BY NewFrameIs
<1> HIDE DEF h
<1>6. Waits(Frame(Top), h)
  <2>1. v # None
    BY FrameConstants
  <2>2. FrameOK(h)
    BY <1>5, <2>1 DEF FrameOK
  <2>3. Called(Frame(Top), h)
    BY <1>1, <1>5 DEF Called
  <2> QED
    BY <1>3, <2>2, <2>3 DEF Waits
<1>7. /\ cell'[v] = "pending" /\ \A w \in Value : w # v => cell'[w] = cell[w]
      /\ cell' \in [Value -> {"thunk", "pending", "ok", "failed"}]
  BY <1>1, <1>3 DEF IdInv
<1>8. CellInv(ctx', cell')
  <2>1. /\ h.role = "force" /\ h.value \in Value /\ h.at # "returned" /\ cell[h.value] = "thunk"
        /\ cell'[h.value] = "pending" /\ \A w \in Value : w # h.value => cell'[w] = cell[w]
        /\ ctx.frames[Top].at # "returned" /\ Frame(Top).at # "returned"
    BY <1>1, <1>2, <1>3, <1>5, <1>7
  <2>2. Inv(graph, ctx, cell, label, exc) /\ Top = Len(ctx.frames)
    BY <1>3
  <2> QED
    BY ONLY <1>4, <2>1, <2>2, PushedCells
<1>9. IdInv'
  BY <1>1, <1>3, <1>7 DEF IdInv
<1>10. Kept
  BY <1>1, <1>7 DEF Kept
<1>11. FrameInv' /\ Sets!Enter(h.value)
  BY <1>1, <1>2, <1>4, <1>5, <1>6, <1>8, <1>9, PushedState
<1> QED
  BY <1>5, <1>10, <1>11

(* A scope is opened.                                                      *)
LEMMA OpenState ==
  ASSUME FrameInv, UNCHANGED <<graph, cell, label, table, exc>>, ~exc, op' = <<"frames", None>>,
         NEW f, NEW h, Pushed(graph, ctx, ctx', Top, f, h), Waits(f, h),
         Frame(Top).at \notin {"returned", "forced"}, f.tmp = Frame(Top).tmp, f.at # "returned",
         h.at \notin {"returned", "forced"}, h.tmp = 0, h.role # "force", h.value = None
  PROVE  FrameInv' /\ Kept /\ Sets!Enter(None)
<1>1. /\ Inv(graph, ctx, cell, label, exc) /\ Top = Len(ctx.frames) /\ Frame(Top) = ctx.frames[Top]
      /\ IdInv
  BY StateIs
<1>2. CellInv(ctx', cell')
  <2>1. cell' = cell /\ ctx.frames[Top].at # "returned" /\ Inv(graph, ctx, cell, label, exc) /\ Top = Len(ctx.frames)
    BY <1>1
  <2> QED
    BY <2>1, PushedCells
<1>3. IdInv' /\ Kept
  BY <1>1 DEF IdInv, Kept
<1>4. FrameInv' /\ Sets!Enter(h.value)
  BY <1>2, <1>3, PushedState
<1> QED
  BY <1>3, <1>4

LEMMA OpenScopeStep ==
  ASSUME FrameInv, UNCHANGED <<graph, cell, label, table, exc>>, op' = <<"frames", None>>, ~exc,
         NEW role, NEW at, NEW arg, NEW to, NEW about,
         \/ role = "wrap" /\ at = "called" /\ arg = None /\ to = "needs" /\ about \in Value
         \/ role = "memo" /\ at = "called" /\ arg = None /\ to = "body" /\ about = None
         \/ role = "resolve" /\ at = "resolved" /\ arg \in File /\ to = "resolving" /\ about = arg,
         Frame(Top).at = "body", ctx' = Enter(Goes(ctx, at, arg, Frame(Top).tmp), role, None, to, about)
  PROVE  FrameInv' /\ Kept /\ Sets!Enter(None)
<1> DEFINE b == Goes(ctx, at, arg, Frame(Top).tmp)
           f == GoesOn(ctx.frames[Top], at, arg, Frame(Top).tmp)
           h == NewFrame(b, role, None, to, about)
<1>1. /\ GraphInv(graph) /\ Good(graph, ctx) /\ Top = Len(ctx.frames) /\ Frame(Top) = ctx.frames[Top]
      /\ FrameOK(Frame(Top)) /\ Top \in 1..Top
  BY StateIs
<1>2. Frame(Top).tmp \in SetIds(graph)
  BY <1>1 DEF Good, CtxIds
<1>3. /\ at \in Ats /\ arg \in Args /\ to \in Ats /\ about \in Args /\ role \in Callees /\ None \in Args
      /\ at # "returned" /\ to \notin {"returned", "forced"} /\ role # "force"
  BY DEF Ats, Args, Callees, Value
<1>4. /\ Pushed(graph, ctx, ctx', Top, f, h) /\ f.at = at /\ f.arg = arg /\ f.tmp = Frame(Top).tmp
  BY <1>1, <1>2, <1>3, GoesEnter
<1>5. h.role = role /\ h.value = None /\ h.at = to /\ h.arg = about /\ h.tmp = 0 /\ ~h.published
  BY NewFrameIs
<1>6. Alike(f, Frame(Top))
  BY <1>1, <1>4 DEF Pushed
<1> HIDE DEF f, h, b
<1>7. Waits(f, h)
  <2>1. arg \in File => arg \in Value
    BY DEF Value
  <2>2. FrameOK(f)
    BY <1>1, <1>3, <1>4, <1>6, <2>1 DEF FrameOK, Alike
  <2>3. FrameOK(h)
    BY <1>3, <1>5, <2>1 DEF FrameOK
  <2>4. Called(f, h)
    BY <1>4, <1>5 DEF Called
  <2> QED
    BY <2>2, <2>3, <2>4 DEF Waits
<1> QED
  BY <1>3, <1>4, <1>5, <1>7, OpenState

LEMMA OpenWrapStep ==
  ASSUME FrameInv, NEW v \in Value, OpenWrap(v) PROVE FrameInv' /\ Kept /\ Sets!Enter(None)
<1>1. /\ ctx' = Enter(Goes(ctx, "called", None, Frame(Top).tmp), "wrap", None, "needs", v)
      /\ op' = <<"frames", None>> /\ UNCHANGED <<graph, cell, label, table, exc>> /\ ~exc /\ Frame(Top).at = "body"
  BY DEF OpenWrap, InBody, At
<1> QED
  BY <1>1, OpenScopeStep

LEMMA OpenResolveStep ==
  ASSUME FrameInv, NEW v \in File, OpenResolve(v) PROVE FrameInv' /\ Kept /\ Sets!Enter(None)
<1>1. /\ ctx' = Enter(Goes(ctx, "resolved", v, Frame(Top).tmp), "resolve", None, "resolving", v)
      /\ op' = <<"frames", None>> /\ UNCHANGED <<graph, cell, label, table, exc>> /\ ~exc /\ Frame(Top).at = "body"
  BY DEF OpenResolve, InBody, At
<1> QED
  BY <1>1, OpenScopeStep

LEMMA OpenFileStep ==
  ASSUME FrameInv, OpenFile PROVE FrameInv' /\ Kept /\ Sets!Enter(None)
<1> DEFINE v == Frame(Top).arg
           h == NewFrame(ctx, "file", None, "needs", v)
<1>1. /\ ctx' = Enter(ctx, "file", None, "needs", v) /\ op' = <<"frames", None>>
      /\ UNCHANGED <<graph, cell, label, table, exc>> /\ ~exc /\ Frame(Top).at = "resolved"
  BY DEF OpenFile, At
<1>2. /\ Good(graph, ctx) /\ Top = Len(ctx.frames) /\ Frame(Top) = ctx.frames[Top] /\ FrameOK(Frame(Top))
  BY StateIs
<1>3. v \in Value /\ v \in Args /\ "file" \in Callees /\ None \in Args /\ "needs" \in Ats
  BY <1>1, <1>2 DEF FrameOK, Callees, Args, Ats
<1>4. Pushed(graph, ctx, ctx', Top, Frame(Top), h)
  BY <1>1, <1>2, <1>3, EnterPushed
<1>5. h.role = "file" /\ h.value = None /\ h.at = "needs" /\ h.arg = v /\ h.tmp = 0 /\ ~h.published
  BY NewFrameIs
<1> HIDE DEF h
<1>6. Waits(Frame(Top), h)
  BY <1>1, <1>2, <1>3, <1>5 DEF Waits, FrameOK, Called
<1> QED
  BY <1>1, <1>2, <1>4, <1>5, <1>6, OpenState

(* A step that only raises or catches an exception.                        *)
LEMMA ExceptionState ==
  ASSUME FrameInv, UNCHANGED <<graph, ctx, cell, label, table, op>>, exc' \in BOOLEAN,
         Frame(Top).at \in {"body", "resolving", "needs", "resolved"}, ~exc' => Frame(Top).at = "body"
  PROVE  FrameInv' /\ Kept /\ UNCHANGED Sets!vars
<1>1. GraphInv(graph') /\ Extended(graph, graph')
  BY SameGraph
<1>2. IdInv' /\ Kept /\ Settled(cell, cell')
  BY <1>1, Untouched
<1>3. /\ CtxType(ctx) /\ Good(graph, ctx) /\ Top = Len(ctx.frames) /\ Frame(Top) = ctx.frames[Top]
      /\ FrameOK(Frame(Top))
  BY StateIs
<1>4. Grown(graph, ctx, ctx, Top, Frame(Top), {})
  BY <1>3, NoneAdded, AddedGrown
<1>5. Collects(graph, Frame(Top), OwnPaths(graph, ctx, Top), Forcing(exc, Frame(Top)), exc, cell, label)
  BY <1>1, TopCollects
<1>6. Collects(graph, Frame(Top), OwnPaths(graph, ctx, Top) \cup {}, Forcing(exc', Frame(Top)), exc', cell, label)
  BY <1>3, <1>5 DEF Collects, FrameOK, Forcing
<1>7. FrameInv'
  BY <1>1, <1>2, <1>3, <1>4, <1>6, GrownState
<1>8. UNCHANGED Sets!vars
  BY DEF Sets!vars
<1> QED
  BY <1>2, <1>7, <1>8

LEMMA ExceptionStep ==
  ASSUME FrameInv, (\E v \in Value : ForcePending(v)) \/ Throw \/ Catch
  PROVE  FrameInv' /\ Kept /\ UNCHANGED Sets!vars
<1>1. /\ UNCHANGED <<graph, ctx, cell, label, table, op>> /\ exc' \in BOOLEAN
      /\ Frame(Top).at \in {"body", "resolving", "needs", "resolved"} /\ (~exc' => Frame(Top).at = "body")
  BY DEF ForcePending, Throw, Catch, Forces, InBody, At
<1> QED
  BY <1>1, ExceptionState

LEMMA OpenMemoStep ==
  ASSUME FrameInv, OpenMemo PROVE FrameInv' /\ Kept /\ (Sets!Enter(None) \/ UNCHANGED Sets!vars)
<1>1. UNCHANGED <<graph, cell, label, table>> /\ ~exc /\ Frame(Top).at = "body"
  BY DEF OpenMemo, InBody, At
<1>2. CASE exc' = TRUE /\ UNCHANGED <<ctx, op>>
  BY <1>1, <1>2, ExceptionState
<1>3. CASE /\ ctx' = Enter(Goes(ctx, "called", None, Frame(Top).tmp), "memo", None, "body", None)
           /\ op' = <<"frames", None>> /\ UNCHANGED exc
  BY <1>1, <1>3, OpenScopeStep
<1> QED
  BY <1>2, <1>3 DEF OpenMemo


(* The code of a frame that goes on after a force, as Resumed says.        *)
LEMMA ResumedIs ==
  ASSUME NEW f \in FrameType, FrameOK(f), f.at \in {"body", "needs", "resolved"},
         NEW at, at = IF f.at = "body" THEN "body" ELSE "forced", NEW h, h = GoesOn(f, at, f.arg, f.tmp)
  PROVE  /\ at \in Ats /\ f.arg \in Args /\ f.tmp \in Nat
         /\ h \in FrameType /\ Alike(h, f) /\ h.at = at /\ h.arg = f.arg /\ h.tmp = f.tmp
         /\ FrameOK(h) /\ h.at # "returned"
<1>1. at \in Ats /\ f.arg \in Args /\ f.tmp \in Nat
  BY DEF Ats, Args, FrameType
<1>2. h \in FrameType /\ Alike(h, f) /\ h.at = at /\ h.arg = f.arg /\ h.tmp = f.tmp
  BY <1>1, GoesOnIs
<1>3. FrameOK(h)
  BY <1>2 DEF FrameOK, Alike
<1> QED
  BY <1>1, <1>2, <1>3

(* What a frame has collected before a force.                              *)
Before(g, f, acc) == PathsOf(g, f.tmp) \subseteq acc /\ (f.role \in {"wrap", "file"} => acc = {})

(* It has collected the label, S, of the value it forced, v.               *)
Resumes(g, f, h, acc, v, S, e, cl, lab) ==
  /\ FrameOK(f) /\ f.at \in {"body", "needs", "resolved"} /\ FrameOK(h) /\ Alike(h, f)
  /\ h.arg = f.arg /\ h.tmp = f.tmp /\ h.at = IF f.at = "body" THEN "body" ELSE "forced"
  /\ (f.at # "body" => f.arg = v) /\ Before(g, f, acc)
  /\ S = PathsOf(g, lab[v]) /\ (~e => cl[v] = "ok")

LEMMA ResumedCollects ==
  ASSUME NEW g, NEW f, NEW h, NEW acc, NEW v, NEW S, NEW e2 \in BOOLEAN, NEW cl2, NEW lab2,
         Resumes(g, f, h, acc, v, S, e2, cl2, lab2)
  PROVE  Collects(g, h, acc \cup S, Forcing(e2, h), e2, cl2, lab2)
<1> USE DEF Resumes
<1>1. Forcing(e2, h) => f.at # "body" /\ ~e2
  BY DEF Forcing
<1>2. h.role \in {"wrap", "file"} /\ ~e2 => Forcing(e2, h)
  BY DEF Forcing, FrameOK, Alike
<1>3. PathsOf(g, h.tmp) \subseteq acc /\ (h.role \in {"wrap", "file"} => acc \subseteq {})
  BY DEF Before, Alike
<1> QED
  BY <1>1, <1>2, <1>3 DEF Collects

LEMMA ForcesIs ==
  ASSUME FrameInv, NEW v \in Value, Forces(v)
  PROVE  /\ ~exc /\ Frame(Top).at \in {"body", "needs", "resolved"}
         /\ Frame(Top).at # "body" => Frame(Top).arg = v
         /\ Good(graph, ctx) /\ AllOpen(ctx) /\ Top = Len(ctx.frames) /\ ctx.frames[Top] = Frame(Top)
         /\ Frame(Top) \in FrameType /\ FrameOK(Frame(Top)) /\ Frame(Top).tmp \in SetIds(graph)
<1>1. ~exc /\ Frame(Top).at \in {"body", "needs", "resolved"} /\ (Frame(Top).at # "body" => Frame(Top).arg = v)
  BY DEF Forces, InBody, At
<1>2. /\ Good(graph, ctx) /\ Top = Len(ctx.frames) /\ ctx.frames[Top] = Frame(Top) /\ Top \in 1..Top
      /\ Frame(Top) \in FrameType /\ FrameOK(Frame(Top)) /\ Inv(graph, ctx, cell, label, exc)
  BY StateIs
<1>3. AllOpen(ctx)
  BY <1>1, <1>2, TopOpen
<1>4. Frame(Top).tmp \in SetIds(graph)
  BY <1>2 DEF Good, CtxIds
<1> QED
  BY <1>1, <1>2, <1>3, <1>4

LEMMA BeforeForce ==
  ASSUME FrameInv, GraphInv(graph'), Extended(graph, graph'), NEW v \in Value, Forces(v)
  PROVE  Before(graph', Frame(Top), OwnPaths(graph', ctx, Top))
<1>1. Collects(graph', Frame(Top), OwnPaths(graph', ctx, Top), Forcing(exc, Frame(Top)), exc, cell, label)
  BY TopCollects
<1>2. ~Forcing(exc, Frame(Top)) /\ ~exc
  BY ForcesIs DEF Forcing
<1> QED
  BY <1>1, <1>2 DEF Collects, Before

LEMMA ForceFinishedStep ==
  ASSUME FrameInv, NEW v \in Value, ForceFinished(v)
  PROVE  FrameInv' /\ Kept /\ Sets!Inherit(v)
<1> DEFINE f == Frame(Top)
           at == IF f.at = "body" THEN "body" ELSE "forced"
           h == GoesOn(f, at, f.arg, f.tmp)
           b == AddFrameChild(ctx, Top, label[v])
           S == PathsOf(graph, label[v])
<1>1. /\ ctx' = Resumed(b) /\ exc' = (cell[v] = "failed") /\ op' = <<"inherit", v>>
      /\ UNCHANGED <<graph, cell, label, table>> /\ cell[v] \in {"ok", "failed"} /\ Forces(v)
  BY DEF ForceFinished
<1>2. /\ ~exc /\ f.at \in {"body", "needs", "resolved"} /\ (f.at # "body" => f.arg = v)
      /\ Good(graph, ctx) /\ AllOpen(ctx) /\ Top = Len(ctx.frames) /\ ctx.frames[Top] = f
      /\ f \in FrameType /\ FrameOK(f) /\ f.tmp \in SetIds(graph) /\ CtxType(ctx)
  BY <1>1, ForcesIs DEF Good
<1>3. /\ at \in Ats /\ f.arg \in Args /\ h \in FrameType /\ Alike(h, f) /\ h.at = at /\ h.arg = f.arg
      /\ h.tmp = f.tmp /\ FrameOK(h) /\ h.at # "returned"
  BY <1>2, ResumedIs
<1>4. GraphInv(graph) /\ label[v] \in SetIds(graph) /\ exc' \in BOOLEAN
  BY <1>1, StateIs DEF IdInv
<1>5. AddedTop(graph, ctx, b, Top, S)
  BY <1>2, <1>4, ChildAdded
<1>6. ctx' = Goes(b, at, f.arg, f.tmp)
  <2>1. b.frames = ctx.frames
    BY <1>5 DEF AddedTop
  <2> HIDE DEF b
  <2> QED
    BY <1>1, <1>2, <2>1 DEF Resumed
<1> HIDE DEF b, at
<1>7. Grown(graph, ctx, ctx', Top, h, S)
  BY <1>2, <1>3, <1>4, <1>5, <1>6, AddedGoes
<1>8. GraphInv(graph') /\ Extended(graph, graph')
  BY <1>1, SameGraph
<1>9. /\ IdInv' /\ Kept /\ Settled(cell, cell') /\ LabelBar(graph', label') = LabelBar(graph, label)
      /\ TableBar(graph', table') = TableBar(graph, table)
  BY <1>1, <1>4, <1>8, Untouched
<1>10. Before(graph, f, OwnPaths(graph, ctx, Top))
  BY <1>1, <1>8, BeforeForce
<1>11. Collects(graph, h, OwnPaths(graph, ctx, Top) \cup S, Forcing(exc', h), exc', cell, label)
  <2> DEFINE acc == OwnPaths(graph, ctx, Top)
             x == exc'
  <2>1. x \in BOOLEAN /\ Resumes(graph, f, h, acc, v, S, x, cell, label)
    <3> HIDE DEF acc, h, f
    <3> QED
      BY <1>1, <1>2, <1>3, <1>4, <1>10 DEF at, acc, Resumes
  <2> HIDE DEF acc, x, h, f, S
  <2>2. Collects(graph, h, acc \cup S, Forcing(x, h), x, cell, label)
    BY ONLY <2>1, ResumedCollects
  <2> QED
    BY <2>2 DEF acc, x
<1> HIDE DEF h
<1>12. FrameInv' /\ FramesBar(graph', ctx') = Sets!Adding(FramesBar(graph, ctx), Sets!Top, S)
  <2>1. f.at # "returned"
    BY <1>2
  <2>2. /\ Grown(graph', ctx, ctx', Top, h, S)
        /\ Collects(graph', h, OwnPaths(graph', ctx, Top) \cup S, Forcing(exc', h), exc', cell', label')
    BY <1>1, <1>7, <1>11
  <2> HIDE DEF S
  <2> QED
    BY <1>3, <1>8, <1>9, <2>1, <2>2, GrownState
<1>13. LabelBar(graph, label)[v] = S
  BY DEF LabelBar
<1> QED
  BY <1>1, <1>9, <1>12, <1>13 DEF Sets!Inherit, LabelBar, TableBar


(* Another evaluation finishes a value.                                    *)
LEMMA ElsewhereIs ==
  ASSUME FrameInv, NEW v \in Value, NEW S \in OtherReads[v], FinishedElsewhere(v, S)
  PROVE  /\ GraphInv(graph') /\ Extended(graph, graph') /\ S \in SUBSET Path
         /\ label'[v] \in SetIds(graph') /\ PathsOf(graph', label'[v]) = S
         /\ \A w \in Value : w # v => label'[w] = label[w] /\ cell'[w] = cell[w]
         /\ IdInv' /\ Kept /\ Settled(cell, cell')
         /\ cell[v] = "thunk" /\ cell'[v] = "ok" /\ UNCHANGED <<table, exc>>
         /\ LabelBar(graph', label') = [LabelBar(graph, label) EXCEPT ![v] = S]
         /\ TableBar(graph', table') = TableBar(graph, table)
<1> DEFINE r == InternPaths(graph, S)
<1>1. /\ cell[v] = "thunk" /\ cell' = [cell EXCEPT ![v] = "ok"] /\ graph' = r.graph
      /\ label' = [label EXCEPT ![v] = r.id] /\ UNCHANGED <<table, exc>>
  BY DEF FinishedElsewhere
<1>2. S \in SUBSET Path /\ IsFiniteSet(S)
  BY FrameConstants DEF Value
<1>3. GraphInv(r.graph) /\ Extended(graph, r.graph) /\ r.id \in SetIds(r.graph) /\ PathsOf(r.graph, r.id) = S
  BY <1>2, StateIs, InternPathsOK
<1> HIDE DEF r
<1>4. GraphInv(graph') /\ Extended(graph, graph')
  BY <1>1, <1>3
<1>5. SetIds(graph) \subseteq SetIds(graph') /\ TableBar(graph', table) = TableBar(graph, table)
  BY <1>4, Lifted
<1>6. /\ label \in [Value -> SetIds(graph)] /\ table \in [Key -> SetIds(graph) \cup {None}]
      /\ cell \in [Value -> {"thunk", "pending", "ok", "failed"}] /\ exc \in BOOLEAN
  BY StateIs DEF IdInv
<1>7. /\ label'[v] = r.id /\ cell'[v] = "ok"
      /\ \A w \in Value : w # v => label'[w] = label[w] /\ cell'[w] = cell[w]
  BY <1>1, <1>6
<1>8. IdInv'
  BY <1>1, <1>3, <1>5, <1>6 DEF IdInv
<1>9. Kept /\ Settled(cell, cell')
  BY <1>1, <1>7 DEF Kept, Settled
<1>10. LabelBar(graph', label') = [LabelBar(graph, label) EXCEPT ![v] = S]
  <2>1. /\ GraphInv(graph) /\ Extended(graph, graph') /\ label \in [Value -> SetIds(graph)] /\ v \in Value
        /\ PathsOf(graph', r.id) = S /\ \A w \in Value : label'[w] = IF w = v THEN r.id ELSE label[w]
    BY <1>1, <1>3, <1>6, StateIs
  <2>2. LabelBar(graph', label') = [LabelBar(graph, label) EXCEPT ![v] = PathsOf(graph', r.id)]
    BY ONLY <2>1, LabelSet
  <2> QED
    BY <2>1, <2>2
<1> QED
  BY <1>1, <1>2, <1>3, <1>4, <1>5, <1>7, <1>8, <1>9, <1>10

LEMMA OtherForcesStep ==
  ASSUME FrameInv, NEW v \in Value, NEW S \in OtherReads[v], OtherForces(v, S)
  PROVE  FrameInv' /\ Kept /\ S \in SUBSET Path /\ Sets!OtherForces(v, S)
<1>1. FinishedElsewhere(v, S) /\ op' = <<"frames", None>> /\ ctx' = ctx
  BY DEF OtherForces
<1>2. /\ GraphInv(graph') /\ Extended(graph, graph') /\ S \in SUBSET Path
      /\ \A w \in Value : w # v => label'[w] = label[w] /\ cell'[w] = cell[w]
      /\ IdInv' /\ Kept /\ Settled(cell, cell') /\ cell[v] = "thunk" /\ exc' = exc
      /\ LabelBar(graph', label') = [LabelBar(graph, label) EXCEPT ![v] = S]
      /\ TableBar(graph', table') = TableBar(graph, table)
  BY <1>1, ElsewhereIs
<1>3. Inv(graph', ctx, cell, label, exc) /\ FramesBar(graph', ctx) = FramesBar(graph, ctx)
  BY <1>2, Lifted
<1>4. \A w \in Value : cell[w] # "thunk" => label'[w] = label[w]
  BY <1>2
<1>5. Inv(graph', ctx, cell', label', exc)
  BY <1>2, <1>3, <1>4, SameInv
<1>6. FrameInv'
  BY <1>1, <1>2, <1>5, StateFrom
<1>7. Sets!OtherForces(v, S)
  BY <1>1, <1>2, <1>3 DEF Sets!OtherForces, LabelBar, TableBar
<1> QED
  BY <1>2, <1>6, <1>7

(* The frame entered for a value another evaluation finishes.              *)
LEMMA AwaitedAdded ==
  ASSUME NEW g, GraphInv(g), NEW c, Good(g, c), AllOpen(c), NEW n, n = Len(c.frames), NEW v \in Value,
         NEW id \in SetIds(g), NEW d, d = Ended(AddFrameChild(Enter(c, "force", v, "body", None), n + 1, id))
  PROVE  AddedTop(g, c, d, n, PathsOf(g, id))
<1> DEFINE b == Enter(c, "force", v, "body", None)
           h == NewFrame(c, "force", v, "body", None)
           m == n + 1
           a == AddFrameChild(b, m, id)
           S == PathsOf(g, id)
<1>1. n \in Nat /\ m > 1 /\ CtxType(c) /\ m - 1 = n /\ m - 2 = n - 1
  BY CtxFacts DEF Good
<1>2. v \in Args /\ None \in Args /\ "force" \in Callees /\ "body" \in Ats
  BY DEF Args, Callees, Ats
<1>3. Entered(g, c, b, n, h)
  BY <1>2, EnterKeeps
<1>4. ~h.published
  BY DEF NewFrame
<1> HIDE DEF h, b
<1>5. Good(g, b) /\ Len(b.frames) = m /\ AllOpen(b)
  <2>1. \A j \in 1..m : j \in 1..n \/ j = m
    BY <1>1
  <2> QED
    BY <1>3, <1>4, <2>1 DEF Entered, AllOpen
<1>6. AddedTop(g, b, a, m, S)
  <2> HIDE DEF m
  <2> QED
    BY <1>5, ChildAdded
<1> HIDE DEF a
<1>7. Good(g, a) /\ a.frames = b.frames /\ m = Len(a.frames)
  BY <1>5, <1>6 DEF AddedTop
<1>8. d = Ended(a)
  BY DEF a, b, m
<1>9. Popped(g, a, d, m, OwnPaths(g, a, m))
  <2> HIDE DEF m
  <2> QED
    BY <1>1, <1>7, <1>8, EndedKeeps
<1>10. OwnPaths(g, a, m) = S
  BY <1>3, <1>6 DEF AddedTop, Entered
<1> HIDE DEF S
<1>11. /\ Good(g, d) /\ Len(d.frames) = n /\ (\A j \in 1..n : d.frames[j] = c.frames[j])
       /\ OwnPaths(g, d, n) = OwnPaths(g, a, n) \cup S /\ \A j \in 1..(n - 1) : OwnPaths(g, d, j) = OwnPaths(g, a, j)
  BY <1>1, <1>3, <1>7, <1>9, <1>10 DEF Popped, Entered, Same
<1>12. \A j \in 1..n : OwnPaths(g, a, j) = OwnPaths(g, c, j)
  BY <1>1, <1>3, <1>6 DEF AddedTop, Entered, Same
<1>13. d.frames = c.frames
  <2>1. d.frames \in Seq(FrameType) /\ c.frames \in Seq(FrameType)
    BY <1>1, <1>11 DEF Good, CtxType
  <2>2. d.frames = [j \in 1..n |-> d.frames[j]] /\ c.frames = [j \in 1..n |-> c.frames[j]]
    BY <1>11, <2>1
  <2> QED
    BY <1>11, <2>2
<1>14. n \in 1..n /\ \A j \in 1..(n - 1) : j \in 1..n
  BY <1>1, CtxFacts
<1> QED
  BY <1>11, <1>12, <1>13, <1>14 DEF AddedTop, Same, S

LEMMA ForceAwaitedStep ==
  ASSUME FrameInv, NEW v \in Value, NEW S \in OtherReads[v], ForceAwaited(v, S)
  PROVE  FrameInv' /\ Kept /\ S \in SUBSET Path /\ Sets!Await(v, S)
<1> DEFINE f == Frame(Top)
           at == IF f.at = "body" THEN "body" ELSE "forced"
           h == GoesOn(f, at, f.arg, f.tmp)
           id == label'[v]
           b == Ended(AddFrameChild(Enter(ctx, "force", v, "body", None), Top + 1, id))
<1>1. ctx' = Resumed(b) /\ op' = <<"frames", None>> /\ Forces(v) /\ FinishedElsewhere(v, S)
  BY DEF ForceAwaited
<1>2. /\ ~exc /\ f.at \in {"body", "needs", "resolved"} /\ (f.at # "body" => f.arg = v)
      /\ AllOpen(ctx) /\ Top = Len(ctx.frames) /\ ctx.frames[Top] = f
      /\ f \in FrameType /\ FrameOK(f) /\ f.tmp \in SetIds(graph) /\ CtxType(ctx)
  BY <1>1, ForcesIs DEF Good
<1>3. /\ at \in Ats /\ f.arg \in Args /\ h \in FrameType /\ Alike(h, f) /\ h.at = at /\ h.arg = f.arg
      /\ h.tmp = f.tmp /\ FrameOK(h) /\ h.at # "returned"
  BY <1>2, ResumedIs
<1>4. /\ GraphInv(graph') /\ Extended(graph, graph') /\ S \in SUBSET Path
      /\ id \in SetIds(graph') /\ PathsOf(graph', id) = S /\ cell'[v] = "ok"
      /\ IdInv' /\ Kept /\ Settled(cell, cell') /\ exc' = exc
      /\ LabelBar(graph', label') = [LabelBar(graph, label) EXCEPT ![v] = S]
      /\ TableBar(graph', table') = TableBar(graph, table)
  BY <1>1, ElsewhereIs
<1>5. Good(graph', ctx) /\ f.tmp \in SetIds(graph')
  BY <1>2, <1>4, Lifted
<1>6. AddedTop(graph', ctx, b, Top, S)
  <2> DEFINE g == graph'
  <2>1. /\ GraphInv(g) /\ Good(g, ctx) /\ AllOpen(ctx) /\ Top = Len(ctx.frames) /\ id \in SetIds(g)
        /\ PathsOf(g, id) = S
    BY <1>2, <1>4, <1>5
  <2> HIDE DEF g, id
  <2>2. AddedTop(g, ctx, b, Top, PathsOf(g, id))
    BY ONLY <2>1, AwaitedAdded
  <2> QED
    BY <2>1, <2>2 DEF g
<1>7. ctx' = Goes(b, at, f.arg, f.tmp)
  <2>1. b.frames = ctx.frames
    BY <1>6 DEF AddedTop
  <2> HIDE DEF b
  <2> QED
    BY <1>1, <1>2, <2>1 DEF Resumed
<1> HIDE DEF b, at
<1>8. Grown(graph', ctx, ctx', Top, h, S)
  <2> DEFINE g == graph'
             d == ctx'
  <2>1. /\ GraphInv(g) /\ AddedTop(g, ctx, b, Top, S) /\ f.tmp \in SetIds(g) /\ d = Goes(b, at, f.arg, f.tmp)
        /\ f = ctx.frames[Top]
    BY <1>2, <1>4, <1>5, <1>6, <1>7
  <2> HIDE DEF g, d
  <2>2. Grown(g, ctx, d, Top, h, S)
    BY <1>2, <1>3, <2>1, AddedGoes
  <2> QED
    BY <2>2 DEF g, d
<1>9. Before(graph', f, OwnPaths(graph', ctx, Top))
  BY <1>1, <1>4, BeforeForce
<1>10. Collects(graph', h, OwnPaths(graph', ctx, Top) \cup S, Forcing(exc', h), exc', cell', label')
  <2> DEFINE g == graph'
             acc == OwnPaths(g, ctx, Top)
             x == exc'
             cl == cell'
             lab == label'
  <2>1. x \in BOOLEAN /\ Resumes(g, f, h, acc, v, S, x, cl, lab)
    <3> HIDE DEF acc, h, f
    <3> QED
      BY <1>2, <1>3, <1>4, <1>9 DEF at, IdInv, acc, Resumes
  <2> HIDE DEF acc, x, h, f, cl, lab, g
  <2>2. Collects(g, h, acc \cup S, Forcing(x, h), x, cl, lab)
    BY ONLY <2>1, ResumedCollects
  <2> QED
    BY <2>2 DEF acc, x, cl, lab, g
<1> HIDE DEF h
<1>11. FrameInv' /\ FramesBar(graph', ctx') = Sets!Adding(FramesBar(graph, ctx), Sets!Top, S)
  <2>1. f.at # "returned"
    BY <1>2
  <2> QED
    BY <1>3, <1>4, <1>8, <1>10, <2>1, GrownState
<1> QED
  BY <1>1, <1>4, <1>11 DEF Sets!Await, LabelBar, TableBar


(* A stored set is recorded again.                                         *)
LEMMA SetsReplay ==
  ASSUME FrameInv, NEW k \in Key, table[k] # None, op' = <<"replay", k>>, UNCHANGED <<graph, label, table>>,
         FramesBar(graph', ctx') = Sets!Adding(FramesBar(graph, ctx), Sets!Top, PathsOf(graph, table[k]))
  PROVE  Sets!Replay(k)
<1>1. table[k] \in SetIds(graph) /\ GraphInv(graph)
  BY StateIs DEF IdInv
<1>2. PathsOf(graph, table[k]) \in SUBSET Path
  BY <1>1, PathsOfType
<1>3. PathsOf(graph, table[k]) # None
  BY <1>2, FrameConstants
<1>4. TableBar(graph, table)[k] = PathsOf(graph, table[k])
  BY DEF TableBar
<1> QED
  BY <1>3, <1>4 DEF Sets!Replay, TableBar

(* The expression of the frame on top, when it is running.                 *)
LEMMA BodyIs ==
  ASSUME FrameInv, Frame(Top).at = "body"
  PROVE  /\ Good(graph, ctx) /\ AllOpen(ctx) /\ CtxType(ctx) /\ Top = Len(ctx.frames) /\ ctx.frames[Top] = Frame(Top)
         /\ Frame(Top) \in FrameType /\ FrameOK(Frame(Top)) /\ Frame(Top).tmp \in SetIds(graph)
         /\ GraphInv(graph) /\ Frame(Top).role \in {"root", "force", "memo"} /\ Top \in 1..Top
<1>1. /\ Good(graph, ctx) /\ Top = Len(ctx.frames) /\ ctx.frames[Top] = Frame(Top) /\ Top \in 1..Top
      /\ Frame(Top) \in FrameType /\ FrameOK(Frame(Top)) /\ Inv(graph, ctx, cell, label, exc)
      /\ GraphInv(graph) /\ CtxType(ctx)
  BY StateIs
<1>2. AllOpen(ctx)
  BY <1>1, TopOpen
<1>3. Frame(Top).tmp \in SetIds(graph)
  BY <1>1 DEF Good, CtxIds
<1>4. Frame(Top).role \in {"root", "force", "memo"}
  BY <1>1 DEF FrameOK, FrameType
<1> QED
  BY <1>1, <1>2, <1>3, <1>4

LEMMA MemoHitStep == ASSUME FrameInv, MemoHit PROVE FrameInv' /\ Kept /\ Sets!Replay(MemoKey)
<1> DEFINE f == Frame(Top)
           t == table[MemoKey]
           b == AddFrameChild(ctx, Top, t)
           S == PathsOf(graph, t)
           h == GoesOn(f, "body", None, t)
<1>1. /\ ctx' = Goes(b, "body", None, t) /\ op' = <<"replay", MemoKey>> /\ t # None /\ ~exc /\ f.at = "body"
      /\ UNCHANGED <<graph, cell, label, table, exc>>
  BY DEF MemoHit, InBody, At
<1>2. /\ Good(graph, ctx) /\ AllOpen(ctx) /\ CtxType(ctx) /\ Top = Len(ctx.frames) /\ ctx.frames[Top] = f
      /\ f \in FrameType /\ FrameOK(f) /\ GraphInv(graph) /\ f.role \in {"root", "force", "memo"}
  BY <1>1, BodyIs
<1>3. t \in SetIds(graph) /\ t \in Nat /\ MemoKey \in Key /\ exc' \in BOOLEAN
  BY <1>1, StateIs DEF IdInv, Key
<1>4. "body" \in Ats /\ None \in Args
  BY DEF Ats, Args
<1>5. AddedTop(graph, ctx, b, Top, S)
  BY <1>2, <1>3, ChildAdded
<1> HIDE DEF b, t, f
<1>6. Grown(graph, ctx, ctx', Top, h, S)
  BY <1>1, <1>2, <1>3, <1>4, <1>5, AddedGoes
<1>7. h \in FrameType /\ Alike(h, f) /\ h.at = "body" /\ h.arg = None /\ h.tmp = t
  BY <1>2, <1>3, <1>4, GoesOnIs
<1> HIDE DEF h
<1>8. FrameOK(h)
  BY <1>1, <1>2, <1>7 DEF FrameOK, Alike
<1>9. Collects(graph, h, OwnPaths(graph, ctx, Top) \cup S, Forcing(exc', h), exc', cell, label)
  BY <1>2, <1>7 DEF Collects, Forcing, Alike
<1>10. GraphInv(graph') /\ Extended(graph, graph')
  BY <1>1, SameGraph
<1>11. IdInv' /\ Kept /\ Settled(cell, cell')
  BY <1>1, <1>3, <1>10, Untouched
<1>12. FrameInv' /\ FramesBar(graph', ctx') = Sets!Adding(FramesBar(graph, ctx), Sets!Top, S)
  <2>1. /\ Grown(graph', ctx, ctx', Top, h, S) /\ Frame(Top).at # "returned" /\ h.at # "returned"
        /\ Collects(graph', h, OwnPaths(graph', ctx, Top) \cup S, Forcing(exc', h), exc', cell', label')
    BY <1>1, <1>6, <1>7, <1>9 DEF f
  <2> HIDE DEF S
  <2> QED
    BY <1>8, <1>10, <1>11, <2>1, GrownState
<1>13. Sets!Replay(MemoKey)
  BY <1>1, <1>3, <1>12, SetsReplay DEF t
<1> QED
  BY <1>11, <1>12, <1>13

LEMMA ResolveAgainStep ==
  ASSUME FrameInv, NEW v \in File, ResolveAgain(v) PROVE FrameInv' /\ Kept /\ Sets!Replay(v)
<1> DEFINE f == Frame(Top)
           t == table[v]
           b == Goes(ctx, "resolved", v, f.tmp)
           S == PathsOf(graph, t)
           h == GoesOn(f, "resolved", v, f.tmp)
<1>1. /\ ctx' = AddFrameChild(b, Top, t) /\ op' = <<"replay", v>> /\ t # None /\ ~exc /\ f.at = "body"
      /\ UNCHANGED <<graph, cell, label, table, exc>>
  BY DEF ResolveAgain, InBody, At
<1>2. /\ Good(graph, ctx) /\ AllOpen(ctx) /\ CtxType(ctx) /\ Top = Len(ctx.frames) /\ ctx.frames[Top] = f
      /\ f \in FrameType /\ FrameOK(f) /\ GraphInv(graph) /\ f.role \in {"root", "force", "memo"}
      /\ f.tmp \in SetIds(graph) /\ SetIds(graph) \subseteq Nat
  BY <1>1, BodyIs, StateIs
<1>3. t \in SetIds(graph) /\ v \in Key /\ exc' \in BOOLEAN
  BY <1>1, StateIs DEF IdInv, Key
<1>4. "resolved" \in Ats /\ v \in Args /\ v \in Value
  BY DEF Ats, Args, Value
<1> HIDE DEF t, f
<1>5. /\ Good(graph, b) /\ AllOpen(b) /\ Top = Len(b.frames)
      /\ \A d, X : AddedTop(graph, b, d, Top, X) => Grown(graph, ctx, d, Top, h, X)
  BY <1>2, <1>4, GoesAdded
<1> HIDE DEF b
<1>6. Grown(graph, ctx, ctx', Top, h, S)
  <2>1. AddedTop(graph, b, ctx', Top, S)
    BY <1>1, <1>2, <1>3, <1>5, ChildAdded
  <2> QED
    BY <1>5, <2>1
<1>7. h \in FrameType /\ Alike(h, f) /\ h.at = "resolved" /\ h.arg = v /\ h.tmp = f.tmp
  <2>1. f.tmp \in Nat
    BY <1>2
  <2> QED
    BY <1>2, <1>4, <2>1, GoesOnIs
<1> HIDE DEF h
<1>8. FrameOK(h)
  BY <1>1, <1>2, <1>4, <1>7 DEF FrameOK, Alike
<1>10. GraphInv(graph') /\ Extended(graph, graph')
  BY <1>1, SameGraph
<1>11. IdInv' /\ Kept /\ Settled(cell, cell')
  BY <1>1, <1>3, <1>10, Untouched
<1>9. Collects(graph, h, OwnPaths(graph, ctx, Top) \cup S, Forcing(exc', h), exc', cell, label)
  <2>1. PathsOf(graph, f.tmp) \subseteq OwnPaths(graph, ctx, Top)
    BY <1>1, <1>10, TopCollects DEF Collects, f
  <2> QED
    BY <1>2, <1>7, <2>1 DEF Collects, Forcing, Alike
<1>12. FrameInv' /\ FramesBar(graph', ctx') = Sets!Adding(FramesBar(graph, ctx), Sets!Top, S)
  <2>1. /\ Grown(graph', ctx, ctx', Top, h, S) /\ Frame(Top).at # "returned" /\ h.at # "returned"
        /\ Collects(graph', h, OwnPaths(graph', ctx, Top) \cup S, Forcing(exc', h), exc', cell', label')
    BY <1>1, <1>6, <1>7, <1>9 DEF f
  <2> HIDE DEF S
  <2> QED
    BY <1>8, <1>10, <1>11, <2>1, GrownState
<1>13. Sets!Replay(v)
  BY <1>1, <1>3, <1>12, SetsReplay DEF t
<1> QED
  BY <1>11, <1>12, <1>13

LEMMA AddToNone ==
  ASSUME NEW n \in Nat, NEW fs, IsFrames(fs, n), NEW i \in 1..n PROVE AddTo(fs, i, {}) = fs
<1>1. /\ IsFrames(AddTo(fs, i, {}), n)
      /\ \A j \in 1..n : AddTo(fs, i, {})[j] = IF j = i THEN Adds(fs[i], {}) ELSE fs[j]
  BY AddToIs
<1>2. Adds(fs[i], {}) = fs[i]
  <2> DEFINE u == fs[i]
  <2>1. u = [value |-> u.value, open |-> u.open, acc |-> u.acc]
    BY DEF IsFrames
  <2> HIDE DEF u
  <2>2. Adds(u, {}) = u
    BY <2>1 DEF Adds
  <2> QED
    BY <2>2 DEF u
<1> QED
  BY <1>1, <1>2 DEF IsFrames

LEMMA CopyCachedStep == ASSUME FrameInv, CopyCached PROVE FrameInv' /\ Kept /\ UNCHANGED Sets!vars
<1> DEFINE f == Frame(Top)
           t == label[f.arg]
           h == GoesOn(f, "body", None, t)
<1>1. /\ ctx' = Goes(ctx, "body", None, t) /\ ~exc /\ f.at = "forced" /\ f.role \notin {"wrap", "file"}
      /\ UNCHANGED <<graph, cell, label, table, exc, op>>
  BY DEF CopyCached, At
<1>2. /\ Good(graph, ctx) /\ CtxType(ctx) /\ Top = Len(ctx.frames) /\ ctx.frames[Top] = f
      /\ f \in FrameType /\ FrameOK(f) /\ GraphInv(graph) /\ SetIds(graph) \subseteq Nat /\ IdInv
      /\ Top \in Nat /\ Top \in 1..Top
  BY StateIs
<1>3. t \in SetIds(graph) /\ exc' \in BOOLEAN
  BY <1>1, <1>2 DEF IdInv, FrameOK
<1>4. "body" \in Ats /\ None \in Args /\ t \in Nat
  BY <1>2, <1>3 DEF Ats, Args
<1>5. AddedTop(graph, ctx, ctx, Top, {})
  BY <1>2, NoneAdded
<1>9. PathsOf(graph, t) \subseteq OwnPaths(graph, ctx, Top)
  <2>1. GraphInv(graph') /\ Extended(graph, graph')
    BY <1>1, SameGraph
  <2>2. Forcing(exc, f)
    BY <1>1 DEF Forcing
  <2> QED
    BY <1>1, <2>1, <2>2, TopCollects DEF Collects
<1> HIDE DEF t, f
<1>6. Grown(graph, ctx, ctx', Top, h, {})
  BY <1>1, <1>2, <1>3, <1>4, <1>5, AddedGoes
<1>7. h \in FrameType /\ Alike(h, f) /\ h.at = "body" /\ h.arg = None /\ h.tmp = t
  BY <1>2, <1>3, <1>4, GoesOnIs
<1> HIDE DEF h
<1>8. FrameOK(h)
  BY <1>1, <1>2, <1>7 DEF FrameOK, Alike, FrameType
<1>10. GraphInv(graph') /\ Extended(graph, graph')
  BY <1>1, SameGraph
<1>11. IdInv' /\ Kept /\ Settled(cell, cell')
  BY <1>1, <1>3, <1>10, Untouched
<1>12. FrameInv' /\ FramesBar(graph', ctx') = Sets!Adding(FramesBar(graph, ctx), Sets!Top, {})
  <2>1. Collects(graph, h, OwnPaths(graph, ctx, Top) \cup {}, Forcing(exc', h), exc', cell, label)
    BY <1>1, <1>7, <1>9 DEF Collects, Forcing, Alike
  <2>2. /\ Grown(graph', ctx, ctx', Top, h, {}) /\ Frame(Top).at # "returned" /\ h.at # "returned"
        /\ Collects(graph', h, OwnPaths(graph', ctx, Top) \cup {}, Forcing(exc', h), exc', cell', label')
    BY <1>1, <1>6, <1>7, <2>1 DEF f
  <2> QED
    BY <1>8, <1>10, <1>11, <2>2, GrownState
<1>13. FramesBar(graph', ctx') = FramesBar(graph, ctx)
  <2>1. IsFrames(FramesBar(graph, ctx), Top) /\ Sets!Top = Top
    BY <1>2, BarIs, StateIs
  <2> QED
    BY <1>2, <1>12, <2>1, AddToNone, SetsAdding
<1>14. UNCHANGED Sets!vars
  BY <1>1, <1>13 DEF Sets!vars
<1> QED
  BY <1>11, <1>12, <1>14


(* The frame on top is published.                                          *)
LEMMA CutShown ==
  ASSUME NEW g, GraphInv(g), NEW c, Good(g, c), AllOpen(c), NEW n, n = Len(c.frames), n > 1,
         NEW id \in SetIds(g), NEW d, d = Goes(Collapse(c, n, id), "returned", None, 0)
  PROVE  \E f : Shown(g, c, d, n, f, PathsOf(g, id)) /\ f.at = "returned" /\ f.tmp = 0
<1> DEFINE b == Collapse(c, n, id)
           S == PathsOf(g, id)
           u == b.frames[n]
           f == GoesOn(u, "returned", None, 0)
<1>1. n \in Nat /\ n - 1 \in 1..n /\ n \in 1..n /\ \A j \in 1..n : j < n - 1 => j \in 1..(n - 2)
  BY CtxFacts DEF Good
<1>2. HandedOver(g, c, b, n, S)
  BY CutKeeps
<1>3. "returned" \in Ats /\ None \in Args /\ 0 \in SetIds(g) /\ 0 \in Nat
  BY DEF Ats, Args, SetIds
<1> HIDE DEF b, S
<1>4. Good(g, b) /\ n = Len(b.frames) /\ d = Goes(b, "returned", None, 0)
  BY <1>2 DEF HandedOver, b
<1>5. WentOn(g, b, d, n, f)
  BY <1>3, <1>4, GoesKeeps
<1>6. u \in FrameType /\ u.role = c.frames[n].role /\ u.value = c.frames[n].value /\ u.published
  BY <1>2 DEF HandedOver
<1> HIDE DEF u
<1>7. Alike(f, u) /\ f.at = "returned" /\ f.tmp = 0
  BY <1>3, <1>6, GoesOnIs
<1> HIDE DEF f
<1>8. /\ f.role = c.frames[n].role /\ f.value = c.frames[n].value /\ f.published
  BY <1>6, <1>7 DEF Alike
<1>9. /\ Good(g, d) /\ Len(d.frames) = n /\ d.frames[n] = f /\ f \in FrameType
      /\ \A j \in 1..n : j < n => d.frames[j] = c.frames[j]
  BY <1>2, <1>5 DEF WentOn, HandedOver
<1>10. /\ \A j \in 1..n : j < n - 1 => OwnPaths(g, d, j) = OwnPaths(g, c, j)
       /\ OwnPaths(g, d, n - 1) = OwnPaths(g, c, n - 1) \cup S /\ OwnPaths(g, d, n) = {}
  BY <1>1, <1>2, <1>5 DEF WentOn, HandedOver, Same
<1> QED
  BY <1>7, <1>8, <1>9, <1>10 DEF Shown, S

LEMMA AddedShown ==
  ASSUME NEW g, NEW c, NEW n, n \in Nat, n > 1, NEW b, NEW X, AddedTop(g, c, b, n, X),
         NEW d, NEW f, NEW S, Shown(g, b, d, n, f, S)
  PROVE  Shown(g, c, d, n, f, S)
<1>1. n - 1 \in 1..(n - 1) /\ \A j \in 1..n : j < n - 1 => j \in 1..(n - 1)
  OBVIOUS
<1> QED
  BY <1>1 DEF AddedTop, Shown, Same

LEMMA AddedExtended ==
  ASSUME NEW g, NEW h, GraphInv(g), Extended(g, h), NEW c, Good(g, c), NEW n, n = Len(c.frames),
         NEW b, NEW X, AddedTop(g, c, b, n, X)
  PROVE  AddedTop(h, c, b, n, X)
<1>1. n \in Nat /\ n \in 1..n /\ n = Len(b.frames) /\ Good(g, b) /\ \A j \in 1..(n - 1) : j \in 1..n
  BY CtxFacts DEF AddedTop, Good
<1>2. \A j \in 1..n : OwnPaths(h, c, j) = OwnPaths(g, c, j)
  BY OwnExtended
<1>3. Good(h, b) /\ \A j \in 1..n : OwnPaths(h, b, j) = OwnPaths(g, b, j)
  BY <1>1, OwnExtended
<1> QED
  BY <1>1, <1>2, <1>3 DEF AddedTop, Same

LEMMA ForceAbove ==
  ASSUME FrameInv, Frame(Top).role # "root" PROVE Top > 1 /\ Top - 1 \in 1..Top /\ Called(Frame(Top - 1), Frame(Top))
<1>1. Inv(graph, ctx, cell, label, exc) /\ Top = Len(ctx.frames) /\ Frame(Top) = ctx.frames[Top] /\ Top \in Nat /\ Top > 0
  BY StateIs
<1>2. Top > 1
  BY <1>1, InvFacts
<1> QED
  BY <1>1, <1>2, InvFacts DEF Frame

LEMMA PublishState ==
  ASSUME FrameInv, NEW src \in Value \cup {None}, NEW c, NEW X, AddedTop(graph, ctx, c, Top, X), Publish(c, src),
         ~exc, Frame(Top).role = "force", Frame(Top).at = "body", NEW S, S = OwnPaths(graph, ctx, Top) \cup X,
         S = OwnPaths(graph, ctx, Top) \cup (IF src = None THEN {} ELSE PathsOf(graph, label[src]))
  PROVE  FrameInv' /\ Kept /\ Top > 1 /\ Sets!Publish(src)
<1> DEFINE n == Top
           v == Frame(n).value
           r == InternAccessSet(graph, Direct(c, n), Children(c, n))
<1>1. /\ graph' = r.graph /\ label' = [label EXCEPT ![v] = r.id]
      /\ ctx' = Goes(Collapse(c, n, r.id), "returned", None, 0) /\ cell' = [cell EXCEPT ![v] = "ok"]
      /\ op' = <<"publish", src>> /\ UNCHANGED <<table, exc>>
  BY DEF Publish
<1>2. /\ Good(graph, ctx) /\ AllOpen(ctx) /\ CtxType(ctx) /\ n = Len(ctx.frames) /\ ctx.frames[n] = Frame(n)
      /\ Frame(n) \in FrameType /\ FrameOK(Frame(n)) /\ GraphInv(graph)
  BY BodyIs
<1>3. n > 1 /\ n \in Nat /\ n \in 1..n
  BY ForceAbove, StateIs
<1>4. /\ Good(graph, c) /\ c.frames = ctx.frames /\ n = Len(c.frames) /\ AllOpen(c)
      /\ OwnPaths(graph, c, n) = S
  BY <1>2 DEF AddedTop, AllOpen
<1>5. /\ GraphInv(r.graph) /\ Extended(graph, r.graph) /\ r.id \in SetIds(r.graph)
      /\ PathsOf(r.graph, r.id) = S
  BY <1>2, <1>4, InternTop
<1> HIDE DEF n, v
<1> DEFINE id == r.id
<1>6. /\ GraphInv(graph') /\ Extended(graph, graph') /\ id \in SetIds(graph') /\ PathsOf(graph', id) = S
      /\ ctx' = Goes(Collapse(c, n, id), "returned", None, 0) /\ label' = [label EXCEPT ![v] = id]
  BY <1>1, <1>5
<1> HIDE DEF r, id
<1>7. AddedTop(graph', ctx, c, n, X) /\ Good(graph', c)
  <2>1. AddedTop(graph, ctx, c, n, X)
    BY DEF n
  <2>2. AddedTop(graph', ctx, c, n, X)
    BY <1>2, <1>6, <2>1, AddedExtended
  <2> QED
    BY <2>2 DEF AddedTop
<1>8. PICK f : Shown(graph', ctx, ctx', n, f, S) /\ f.at = "returned" /\ f.tmp = 0
  <2> DEFINE g == graph'
             d == ctx'
  <2>1. /\ GraphInv(g) /\ Good(g, c) /\ AllOpen(c) /\ n = Len(c.frames) /\ n > 1 /\ id \in SetIds(g)
        /\ d = Goes(Collapse(c, n, id), "returned", None, 0) /\ PathsOf(g, id) = S /\ AddedTop(g, ctx, c, n, X)
    BY <1>3, <1>4, <1>6, <1>7
  <2> HIDE DEF g, d
  <2>2. PICK f : Shown(g, c, d, n, f, PathsOf(g, id)) /\ f.at = "returned" /\ f.tmp = 0
    BY ONLY <2>1, CutShown
  <2>3. Shown(g, ctx, d, n, f, S)
    BY <1>3, <2>1, <2>2, AddedShown
  <2> QED
    BY <2>2, <2>3 DEF g, d
<1>9. v \in Value /\ Frame(n).value = v /\ v # None /\ cell[v] = "pending"
  <2>1. Inv(graph, ctx, cell, label, exc) /\ ctx.frames[n].role = "force" /\ ctx.frames[n].at # "returned"
    BY <1>2, StateIs DEF n
  <2>2. ctx.frames[n].value = v
    BY <1>2 DEF v
  <2>3. v \in Value /\ cell[v] = "pending"
    BY <1>2, <1>3, <2>1, <2>2, ForceFrame
  <2> QED
    BY <2>3, FrameConstants DEF v
<1>10. /\ IdInv /\ SetIds(graph) \subseteq SetIds(graph') /\ Inv(graph', ctx, cell, label, exc)
       /\ FramesBar(graph', ctx) = FramesBar(graph, ctx) /\ TableBar(graph', table) = TableBar(graph, table)
  BY <1>6, Lifted, StateIs
<1>11. /\ cell' \in [Value -> {"thunk", "pending", "ok", "failed"}] /\ cell'[v] = "ok" /\ label'[v] = id
       /\ \A w \in Value : w # v => cell'[w] = cell[w] /\ label'[w] = label[w]
  BY <1>1, <1>6, <1>9, <1>10 DEF IdInv
<1>12. IdInv'
  BY <1>1, <1>6, <1>10, <1>11 DEF IdInv
<1>13. Kept
  BY <1>9, <1>11 DEF Kept
<1>14. FrameOK(f) /\ PathsOf(graph', f.tmp) = {}
  <2>1. f.role = "force" /\ f.value = v /\ f.published
    BY <1>2, <1>8, <1>9 DEF Shown, n
  <2>2. PathsOf(graph', 0) = {}
    BY <1>6, PathsOfType DEF SetIds
  <2> QED
    BY <1>8, <1>9, <2>1, <2>2 DEF FrameOK
<1>15. /\ Inv(graph', ctx', cell', label', exc)
       /\ FramesBar(graph', ctx') = AddTo(Shut(FramesBar(graph', ctx), n), n - 1, S)
  <2> DEFINE g == graph'
             d == ctx'
             cl2 == cell'
             lab2 == label'
  <2>1. /\ exc \in BOOLEAN /\ Inv(g, ctx, cell, label, exc) /\ ~exc /\ n = Len(ctx.frames) /\ n > 1
        /\ Shown(g, ctx, d, n, f, S) /\ ctx.frames[n].role = "force" /\ ctx.frames[n].at \notin {"returned", "forced"}
        /\ FrameOK(f) /\ f.at = "returned" /\ PathsOf(g, f.tmp) = {} /\ v = ctx.frames[n].value
        /\ cl2[v] = "ok" /\ (\A w \in Value : w # v => cl2[w] = cell[w]) /\ PathsOf(g, lab2[v]) = S
    BY <1>2, <1>3, <1>6, <1>8, <1>9, <1>10, <1>11, <1>14 DEF n, IdInv
  <2> HIDE DEF g, d, cl2, lab2
  <2>2. Inv(g, d, cl2, lab2, exc)
    BY ONLY <2>1, ShownInv
  <2>3. FramesBar(g, d) = AddTo(Shut(FramesBar(g, ctx), n), n - 1, S)
    BY ONLY <2>1, ShownInv
  <2> QED
    BY <2>2, <2>3 DEF g, d, cl2, lab2
<1>16. FrameInv'
  BY <1>1, <1>6, <1>12, <1>15, StateFrom
<1>17. LabelBar(graph', label') = [LabelBar(graph, label) EXCEPT ![v] = S]
  <2> DEFINE g == graph'
             to == label'
  <2>1. /\ GraphInv(graph) /\ Extended(graph, g) /\ label \in [Value -> SetIds(graph)]
        /\ PathsOf(g, id) = S /\ \A w \in Value : to[w] = IF w = v THEN id ELSE label[w]
    BY <1>2, <1>6, <1>10, <1>11 DEF IdInv
  <2> HIDE DEF g, to
  <2>2. LabelBar(g, to) = [LabelBar(graph, label) EXCEPT ![v] = PathsOf(g, id)]
    BY <1>9, <2>1, LabelSet
  <2> QED
    BY <2>1, <2>2 DEF g, to
<1>18. Sets!Publish(src)
  <2> DEFINE fs == FramesBar(graph, ctx)
             lb == LabelBar(graph, label)
  <2>1. /\ Sets!Top = n /\ fs[n].open /\ fs[n].value = v /\ fs[n].acc = OwnPaths(graph, ctx, n)
    <3>1. fs[n].value = ctx.frames[n].value /\ fs[n].open = ~ctx.frames[n].published /\ fs[n].acc = OwnPaths(graph, ctx, n)
      BY <1>2, <1>3, BarIs
    <3>2. Sets!Top = n /\ ~ctx.frames[n].published
      BY <1>2, <1>3, StateIs DEF n, AllOpen
    <3> QED
      BY <1>2, <1>9, <3>1, <3>2
  <2>2. src # None => lb[src] = PathsOf(graph, label[src])
    BY DEF LabelBar
  <2>3. S = fs[n].acc \cup (IF src = None THEN {} ELSE lb[src])
    BY <2>1, <2>2 DEF n
  <2>4. FramesBar(graph', ctx') = Sets!Adding([fs EXCEPT ![n].acc = {}, ![n].open = FALSE], n - 1, S)
    BY <1>10, <1>15, SetsAdding DEF Shut
  <2>5. LabelBar(graph', label') = [lb EXCEPT ![fs[n].value] = S]
    BY <1>17, <2>1
  <2>6. TableBar(graph', table') = TableBar(graph, table)
    BY <1>1, <1>10
  <2>7. v # None /\ op' = <<"publish", src>>
    BY <1>1, <1>9
  <2> HIDE DEF fs, lb
  <2> QED
    BY <2>1, <2>3, <2>4, <2>5, <2>6, <2>7 DEF Sets!Publish, LabelBar, TableBar, fs, lb
<1> QED
  BY <1>3, <1>13, <1>16, <1>18 DEF n


LEMMA ReturnStep ==
  ASSUME FrameInv, NEW src \in Value \cup {None}, Return(src)
  PROVE  FrameInv' /\ Kept /\ Top > 1 /\ Sets!Publish(src)
<1> DEFINE c == IF src = None THEN ctx ELSE AddFrameChild(ctx, Top, label[src])
           X == IF src = None THEN {} ELSE PathsOf(graph, label[src])
           S == OwnPaths(graph, ctx, Top) \cup X
<1>1. ~exc /\ Frame(Top).role = "force" /\ Frame(Top).at = "body" /\ Publish(c, src)
  BY DEF Return, InBody, At
<1>2. Good(graph, ctx) /\ AllOpen(ctx) /\ Top = Len(ctx.frames) /\ GraphInv(graph)
  BY <1>1, BodyIs
<1>3. AddedTop(graph, ctx, c, Top, X)
  <2>1. CASE src = None
    BY <1>2, <2>1, NoneAdded
  <2>2. CASE src # None
    <3>1. label[src] \in SetIds(graph)
      BY <2>2, StateIs DEF IdInv
    <3> QED
      BY <1>2, <2>2, <3>1, ChildAdded
  <2> QED
    BY <2>1, <2>2
<1> HIDE DEF c
<1>4. S = OwnPaths(graph, ctx, Top) \cup (IF src = None THEN {} ELSE PathsOf(graph, label[src]))
  OBVIOUS
<1>5. S = OwnPaths(graph, ctx, Top) \cup X
  OBVIOUS
<1> HIDE DEF S, X
<1> QED
  BY <1>1, <1>3, <1>4, <1>5, PublishState

LEMMA ReturnCallStep ==
  ASSUME FrameInv, ReturnCall PROVE FrameInv' /\ Kept /\ Top > 1 /\ Sets!Publish(None)
<1> DEFINE t == Frame(Top).tmp
           c == AddFrameChild(ctx, Top, t)
           X == PathsOf(graph, t)
           S == OwnPaths(graph, ctx, Top) \cup X
<1>1. ~exc /\ Frame(Top).role = "force" /\ Frame(Top).at = "body" /\ Publish(c, None)
  BY DEF ReturnCall, InBody, At
<1>2. Good(graph, ctx) /\ AllOpen(ctx) /\ Top = Len(ctx.frames) /\ GraphInv(graph) /\ t \in SetIds(graph)
  BY <1>1, BodyIs
<1> HIDE DEF t
<1>3. AddedTop(graph, ctx, c, Top, X)
  BY <1>2, ChildAdded
<1>4. X \subseteq OwnPaths(graph, ctx, Top)
  <2>1. Inv(graph, ctx, cell, label, exc) /\ Frame(Top) = ctx.frames[Top] /\ Top \in 1..Len(ctx.frames)
    BY StateIs
  <2> QED
    BY <2>1 DEF Inv, AccInv, Collects, t
<1>5. S = OwnPaths(graph, ctx, Top) \cup X
  OBVIOUS
<1>6. S = OwnPaths(graph, ctx, Top) \cup (IF None = None THEN {} ELSE PathsOf(graph, label[None]))
  BY <1>4
<1> HIDE DEF S, X, c
<1> QED
  BY <1>1, <1>3, <1>5, <1>6, PublishState

(***************************************************************************)
(* Frames that end.                                                        *)
(***************************************************************************)
(* The frame on top ends, with S going to the frame below.                 *)
LEMMA ShrunkState ==
  ASSUME FrameInv, GraphInv(graph'), Extended(graph, graph'), IdInv', Top > 1,
         NEW f, NEW S, Shrunk(graph', ctx, ctx', Top, f, S), f.at # "returned", FrameOK(f),
         Collects(graph', f, OwnPaths(graph', ctx, Top - 1) \cup S, Forcing(exc', f), exc', cell', label'),
         \A w \in Value : cell[w] # "thunk" /\ (Frame(Top).at # "returned" => w # Frame(Top).value)
                            => cell'[w] = cell[w]
  PROVE  FrameInv' /\ FramesBar(graph', ctx') = AddTo(SubSeq(FramesBar(graph, ctx), 1, Top - 1), Top - 1, S)
<1> DEFINE n == Top
           x == exc'
           g == graph'
           d == ctx'
           cl2 == cell'
           lab2 == label'
<1>1. Inv(g, ctx, cell, label, exc) /\ FramesBar(g, ctx) = FramesBar(graph, ctx)
  BY Lifted
<1>2. n = Len(ctx.frames) /\ Frame(n) = ctx.frames[n] /\ x \in BOOLEAN
  BY StateIs DEF IdInv
<1>3. /\ n > 1 /\ Shrunk(g, ctx, d, n, f, S) /\ f.at # "returned" /\ FrameOK(f)
      /\ Collects(g, f, OwnPaths(g, ctx, n - 1) \cup S, Forcing(x, f), x, cl2, lab2)
      /\ \A w \in Value : cell[w] # "thunk" /\ (ctx.frames[n].at # "returned" => w # ctx.frames[n].value)
                            => cl2[w] = cell[w]
  BY <1>2
<1> HIDE DEF n, x, g, d, cl2, lab2
<1>4. Inv(g, d, cl2, lab2, x)
  BY ONLY <1>1, <1>2, <1>3, ShrunkInv
<1>5. FramesBar(g, d) = AddTo(SubSeq(FramesBar(g, ctx), 1, n - 1), n - 1, S)
  <2>1. CtxType(ctx) /\ n - 1 \in 1..n /\ n - 1 < n
    BY <1>1, <1>2, <1>3, InvFacts
  <2>2. ~ctx.frames[n - 1].published
    BY <1>1, <1>2, <2>1, TopOpen
  <2> QED
    BY ONLY <1>2, <1>3, <2>1, <2>2, BarShrunk
<1>6. FrameInv'
  BY <1>4, StateFrom DEF g, d, cl2, lab2, x
<1> QED
  BY <1>1, <1>5, <1>6 DEF g, d, n

LEMMA SetsLeave ==
  ASSUME FrameInv, Top > 1, op' = <<"frames", None>>, LabelBar(graph', label') = LabelBar(graph, label),
         TableBar(graph', table') = TableBar(graph, table),
         FramesBar(graph', ctx') =
           AddTo(SubSeq(FramesBar(graph, ctx), 1, Top - 1), Top - 1, OwnPaths(graph, ctx, Top))
  PROVE  Sets!Leave
<1>1. Sets!Top = Top /\ CtxType(ctx) /\ Top = Len(ctx.frames) /\ Top \in 1..Top
  BY StateIs
<1>2. FramesBar(graph, ctx)[Top].acc = OwnPaths(graph, ctx, Top)
  BY <1>1, BarIs
<1> QED
  BY <1>1, <1>2, SetsAdding DEF Sets!Leave, Sets!Below, LabelBar, TableBar

(* The frame below the one on top, and what it has collected.              *)
LEMMA BelowIs ==
  ASSUME FrameInv, GraphInv(graph'), Extended(graph, graph'), Top > 1
  PROVE  /\ Top - 1 \in 1..Top /\ Frame(Top - 1) = ctx.frames[Top - 1] /\ Frame(Top - 1) \in FrameType
         /\ FrameOK(Frame(Top - 1)) /\ Called(Frame(Top - 1), Frame(Top)) /\ Frame(Top - 1).tmp \in SetIds(graph)
         /\ Frame(Top - 1).at \notin {"returned", "forced"}
         /\ PathsOf(graph', Frame(Top - 1).tmp) \subseteq OwnPaths(graph', ctx, Top - 1)
         /\ Collects(graph', Frame(Top - 1), OwnPaths(graph', ctx, Top - 1),
                     Frame(Top - 1).at # "body" /\ Frame(Top).at = "returned", FALSE, cell, label)
<1> DEFINE n == Top
           m == n - 1
           f == ctx.frames[m]
           h == ctx.frames[n]
<1>1. Inv(graph', ctx, cell, label, exc) /\ GraphInv(graph) /\ Good(graph, ctx) /\ n = Len(ctx.frames) /\ n \in Nat
  BY Lifted, StateIs
<1>2. m \in 1..n /\ m + 1 = n /\ m # n /\ n \in 1..n
  BY <1>1
<1>3. f \in FrameType /\ h \in FrameType /\ FrameOK(f) /\ FrameOK(h) /\ Called(f, h)
  BY <1>1, <1>2, InvFacts
<1>4. f.at \notin {"returned", "forced"}
  BY <1>3, CallerOpen
<1>5. f.tmp \in SetIds(graph)
  BY <1>1, <1>2 DEF Good, CtxIds
<1>6. Collects(graph', f, OwnPaths(graph', ctx, m), Forced(ctx, exc, m), exc /\ m = Len(ctx.frames), cell, label)
  BY <1>1, <1>2 DEF Inv, AccInv
<1>7. Forced(ctx, exc, m) <=> f.at \in {"needs", "resolved"} /\ h.at = "returned"
  <2> HIDE DEF m
  <2> QED
    BY <1>1, <1>2 DEF Forced
<1>8. h.at = "returned" => (f.at \in {"needs", "resolved"} <=> f.at # "body")
  BY <1>3 DEF Called, FrameOK, FrameType
<1>9. ~(exc /\ m = Len(ctx.frames))
  BY <1>1, <1>2
<1> HIDE DEF f, h, m
<1>10. Collects(graph', f, OwnPaths(graph', ctx, m), f.at # "body" /\ h.at = "returned", FALSE, cell, label)
  BY <1>6, <1>7, <1>8, <1>9 DEF Collects
<1> QED
  BY <1>2, <1>3, <1>4, <1>5, <1>10 DEF Frame, Collects, f, h, m


LEMMA EndForceStep == ASSUME FrameInv, EndForce PROVE FrameInv' /\ Kept /\ Top > 1 /\ Sets!Leave
<1> DEFINE n == Top
           m == n - 1
           b == Ended(ctx)
           f == Frame(m)
           at == IF f.at = "body" THEN "body" ELSE "forced"
           h == GoesOn(f, at, f.arg, f.tmp)
<1>1. /\ ctx' = Resumed(b) /\ op' = <<"frames", None>> /\ ~exc /\ Frame(n).at = "returned"
      /\ UNCHANGED <<graph, cell, label, table, exc>>
  BY DEF EndForce, At
<1>2. /\ Good(graph, ctx) /\ CtxType(ctx) /\ n = Len(ctx.frames) /\ Frame(n) = ctx.frames[n] /\ FrameOK(Frame(n))
      /\ Frame(n) \in FrameType /\ GraphInv(graph) /\ exc' \in BOOLEAN /\ Levels(ctx) /\ n \in Nat
  BY <1>1, StateIs DEF IdInv, Good
<1>3. Frame(n).role = "force" /\ Frame(n).published
  BY <1>1, <1>2 DEF FrameOK, FrameType
<1>4. n > 1 /\ m \in 1..n
  BY <1>3, ForceAbove
<1>5. GraphInv(graph') /\ Extended(graph, graph')
  BY <1>1, SameGraph
<1>6. /\ f = ctx.frames[m] /\ f \in FrameType /\ FrameOK(f) /\ Called(f, Frame(n)) /\ f.tmp \in SetIds(graph)
      /\ Collects(graph, f, OwnPaths(graph, ctx, m), f.at # "body" /\ Frame(n).at = "returned", FALSE, cell, label)
  BY <1>1, <1>4, <1>5, BelowIs
<1>7. f.at \in {"body", "needs", "resolved"}
  BY <1>3, <1>6 DEF Called
<1>8. OwnPaths(graph, ctx, n) = {}
  <2> HIDE DEF n
  <2> QED
    BY <1>2, <1>3, PublishedEmpty
<1>9. Popped(graph, ctx, b, n, {})
  <2> HIDE DEF n
  <2> QED
    BY <1>2, <1>4, <1>8, EndedKeeps
<1>10. Len(b.frames) = m /\ b.frames[m] = f
  BY <1>2, <1>4, <1>6, <1>9, PoppedShrunk
<1> HIDE DEF f, b, m
<1>11. ctx' = Goes(b, at, f.arg, f.tmp)
  BY <1>1, <1>10 DEF Resumed
<1>12. /\ at \in Ats /\ f.arg \in Args /\ h \in FrameType /\ Alike(h, f) /\ h.at = at /\ h.arg = f.arg
       /\ h.tmp = f.tmp /\ FrameOK(h) /\ h.at # "returned"
  BY <1>6, <1>7, ResumedIs
<1>13. Shrunk(graph, ctx, ctx', n, h, {})
  <2> DEFINE d == ctx'
  <2>1. Shrunk(graph, ctx, d, n, GoesOn(ctx.frames[n - 1], at, f.arg, f.tmp), {})
    <3>1. d = Goes(b, at, f.arg, f.tmp)
      BY <1>11
    <3> HIDE DEF d, n, at
    <3> QED
      BY <1>2, <1>4, <1>6, <1>9, <1>12, <3>1, PoppedGoes
  <2> QED
    BY <1>6, <2>1 DEF m
<1>14. Collects(graph, h, OwnPaths(graph, ctx, m) \cup {}, Forcing(exc', h), exc', cell, label)
  <2> DEFINE acc == OwnPaths(graph, ctx, m)
  <2>1. Forcing(exc', h) <=> f.at # "body"
    BY <1>1, <1>7, <1>12 DEF Forcing
  <2>2. /\ PathsOf(graph, f.tmp) \subseteq acc
        /\ f.at # "body" => cell[f.arg] = "ok" /\ PathsOf(graph, label[f.arg]) \subseteq acc
        /\ f.role \in {"wrap", "file"} => acc \subseteq IF f.at # "body" THEN PathsOf(graph, label[f.arg]) ELSE {}
    BY <1>1, <1>6 DEF Collects
  <2> HIDE DEF acc
  <2>3. Collects(graph, h, acc, Forcing(exc', h), exc', cell, label)
    BY <1>12, <2>1, <2>2 DEF Collects, Alike
  <2>4. acc \cup {} = acc
    OBVIOUS
  <2> QED
    BY <2>3, <2>4 DEF acc
<1> HIDE DEF h, at
<1>15. IdInv' /\ Kept /\ LabelBar(graph', label') = LabelBar(graph, label) /\ TableBar(graph', table') = TableBar(graph, table)
  BY <1>1, <1>2, <1>5, Untouched
<1>16. FrameInv' /\ FramesBar(graph', ctx') = AddTo(SubSeq(FramesBar(graph, ctx), 1, n - 1), n - 1, {})
  <2>1. /\ Shrunk(graph', ctx, ctx', Top, h, {})
        /\ Collects(graph', h, OwnPaths(graph', ctx, Top - 1) \cup {}, Forcing(exc', h), exc', cell', label')
        /\ \A w \in Value : cell[w] # "thunk" => cell'[w] = cell[w]
    BY <1>1, <1>13, <1>14 DEF m
  <2> QED
    BY <1>4, <1>5, <1>12, <1>15, <2>1, ShrunkState
<1> QED
  BY <1>1, <1>4, <1>8, <1>15, <1>16, SetsLeave

LEMMA UnwindStep == ASSUME FrameInv, Unwind PROVE FrameInv' /\ Kept /\ Top > 1 /\ Sets!Leave
<1> DEFINE n == Top
           m == n - 1
           f == Frame(m)
           S == OwnPaths(graph, ctx, n)
<1>1. /\ ctx' = Ended(ctx) /\ op' = <<"frames", None>> /\ exc /\ Frame(n).role # "root"
      /\ UNCHANGED <<graph, cell, label, table, exc>>
  BY DEF Unwind
<1>2. Good(graph, ctx) /\ n = Len(ctx.frames) /\ GraphInv(graph) /\ exc' \in BOOLEAN /\ n \in Nat
  BY <1>1, StateIs DEF IdInv
<1>3. n > 1 /\ m \in 1..n
  BY <1>1, ForceAbove
<1>4. GraphInv(graph') /\ Extended(graph, graph')
  BY <1>1, SameGraph
<1>5. /\ f = ctx.frames[m] /\ f \in FrameType /\ FrameOK(f) /\ f.at # "returned"
      /\ PathsOf(graph, f.tmp) \subseteq OwnPaths(graph, ctx, m)
  BY <1>1, <1>3, <1>4, BelowIs
<1>6. Shrunk(graph, ctx, ctx', n, f, S)
  <2> DEFINE d == ctx'
  <2>1. d = Ended(ctx)
    BY <1>1
  <2> HIDE DEF n, d
  <2>2. Popped(graph, ctx, d, n, OwnPaths(graph, ctx, n))
    BY <1>2, <1>3, <2>1, EndedKeeps
  <2>3. Shrunk(graph, ctx, d, n, ctx.frames[n - 1], S)
    BY <1>2, <1>3, <2>2, PoppedShrunk
  <2> QED
    BY <1>5, <2>3 DEF d
<1> HIDE DEF f
<1>7. Collects(graph, f, OwnPaths(graph, ctx, m) \cup S, Forcing(exc', f), exc', cell, label)
  BY <1>1, <1>5 DEF Collects, Forcing
<1>8. IdInv' /\ Kept /\ LabelBar(graph', label') = LabelBar(graph, label) /\ TableBar(graph', table') = TableBar(graph, table)
  BY <1>1, <1>2, <1>4, Untouched
<1>9. FrameInv' /\ FramesBar(graph', ctx') = AddTo(SubSeq(FramesBar(graph, ctx), 1, n - 1), n - 1, S)
  <2>1. /\ Shrunk(graph', ctx, ctx', Top, f, S)
        /\ Collects(graph', f, OwnPaths(graph', ctx, Top - 1) \cup S, Forcing(exc', f), exc', cell', label')
        /\ \A w \in Value : cell[w] # "thunk" => cell'[w] = cell[w]
    BY <1>1, <1>6, <1>7
  <2> HIDE DEF S
  <2> QED
    BY <1>3, <1>4, <1>5, <1>8, <2>1, ShrunkState
<1> QED
  BY <1>1, <1>3, <1>8, <1>9, SetsLeave

LEMMA FailForceStep == ASSUME FrameInv, FailForce PROVE FrameInv' /\ Kept /\ Top > 1 /\ Sets!Fail
<1> DEFINE n == Top
           m == n - 1
           f == Frame(m)
           v == Frame(n).value
           S == OwnPaths(graph, ctx, n)
           r == InternAccessSet(graph, Direct(ctx, n), Children(ctx, n))
           id == r.id
<1>1. /\ graph' = r.graph /\ label' = [label EXCEPT ![v] = id] /\ ctx' = Ended(Collapse(ctx, n, id))
      /\ cell' = [cell EXCEPT ![v] = "failed"] /\ op' = <<"frames", None>> /\ UNCHANGED <<table, exc>>
      /\ exc /\ Frame(n).role = "force"
  BY DEF FailForce
<1>2. /\ Good(graph, ctx) /\ n = Len(ctx.frames) /\ GraphInv(graph) /\ n \in Nat /\ n \in 1..n /\ CtxType(ctx)
      /\ Frame(n) = ctx.frames[n] /\ Inv(graph, ctx, cell, label, exc) /\ IdInv
  BY StateIs
<1>3. n > 1 /\ m \in 1..n
  BY <1>1, ForceAbove
<1>4. Frame(n).at # "returned" /\ AllOpen(ctx)
  BY <1>1, <1>2, TopOpen DEF Inv
<1>5. GraphInv(r.graph) /\ Extended(graph, r.graph) /\ id \in SetIds(r.graph) /\ PathsOf(r.graph, id) = S
  <2> HIDE DEF n
  <2> QED
    BY <1>2, InternTop
<1> HIDE DEF r, id, S
<1>6. GraphInv(graph') /\ Extended(graph, graph') /\ id \in SetIds(graph') /\ PathsOf(graph', id) = S
  BY <1>1, <1>5
<1>7. /\ f = ctx.frames[m] /\ f \in FrameType /\ FrameOK(f) /\ f.at # "returned"
      /\ PathsOf(graph', f.tmp) \subseteq OwnPaths(graph', ctx, m)
  BY <1>3, <1>6, BelowIs
<1>8. /\ Good(graph', ctx) /\ SetIds(graph) \subseteq SetIds(graph') /\ TableBar(graph', table) = TableBar(graph, table)
  BY <1>6, Lifted
<1>9. Shrunk(graph', ctx, ctx', n, f, S)
  <2> DEFINE d == ctx'
             g == graph'
  <2>1. /\ GraphInv(g) /\ Good(g, ctx) /\ AllOpen(ctx) /\ n = Len(ctx.frames) /\ n > 1
        /\ id \in SetIds(g) /\ d = Ended(Collapse(ctx, n, id)) /\ PathsOf(g, id) = S
    BY <1>1, <1>2, <1>3, <1>4, <1>6, <1>8
  <2> HIDE DEF n, d, g
  <2>2. Popped(g, ctx, d, n, S)
    BY ONLY <2>1, CutEndedKeeps
  <2>3. Shrunk(g, ctx, d, n, ctx.frames[n - 1], S)
    BY <2>1, <2>2, PoppedShrunk
  <2> QED
    BY <1>7, <2>3 DEF d, g
<1>10. v \in Value /\ v # None /\ cell[v] = "pending"
  <2>1. v \in Value /\ cell[v] = "pending"
    <3>1. /\ Inv(graph, ctx, cell, label, exc) /\ n = Len(ctx.frames) /\ n \in 1..n
          /\ ctx.frames[n].role = "force" /\ ctx.frames[n].at # "returned" /\ ctx.frames[n].value = v
      BY <1>1, <1>2, <1>4
    <3> HIDE DEF n, v
    <3> QED
      BY ONLY <3>1, ForceFrame
  <2> QED
    BY <2>1, FrameConstants
<1>11. /\ cell' \in [Value -> {"thunk", "pending", "ok", "failed"}] /\ label'[v] = id
       /\ \A w \in Value : w # v => cell'[w] = cell[w] /\ label'[w] = label[w]
  BY <1>1, <1>2, <1>10 DEF IdInv
<1>12. IdInv' /\ Kept
  BY <1>1, <1>2, <1>6, <1>8, <1>10, <1>11 DEF IdInv, Kept
<1> HIDE DEF f
<1>13. Collects(graph', f, OwnPaths(graph', ctx, m) \cup S, Forcing(exc', f), exc', cell', label')
  BY <1>1, <1>7 DEF Collects, Forcing
<1>14. FrameInv' /\ FramesBar(graph', ctx') = AddTo(SubSeq(FramesBar(graph, ctx), 1, n - 1), n - 1, S)
  <2>1. \A w \in Value : cell[w] # "thunk" /\ (Frame(Top).at # "returned" => w # Frame(Top).value)
                         => cell'[w] = cell[w]
    BY <1>4, <1>11
  <2> QED
    BY <1>3, <1>6, <1>7, <1>9, <1>12, <1>13, <2>1, ShrunkState
<1>15. LabelBar(graph', label') = [LabelBar(graph, label) EXCEPT ![v] = S]
  <2> DEFINE g == graph'
             to == label'
  <2>1. /\ GraphInv(graph) /\ Extended(graph, g) /\ label \in [Value -> SetIds(graph)] /\ v \in Value
        /\ PathsOf(g, id) = S /\ \A w \in Value : to[w] = IF w = v THEN id ELSE label[w]
    BY <1>2, <1>6, <1>10, <1>11 DEF IdInv
  <2> HIDE DEF g, to, v
  <2>2. LabelBar(g, to) = [LabelBar(graph, label) EXCEPT ![v] = PathsOf(g, id)]
    BY ONLY <2>1, LabelSet
  <2> QED
    BY <2>1, <2>2 DEF g, to
<1>16. Sets!Fail
  <2> DEFINE fs == FramesBar(graph, ctx)
  <2>1. Sets!Top = n /\ fs[n].open /\ fs[n].value = v /\ fs[n].acc = S
    <3>1. fs[n].value = ctx.frames[n].value /\ fs[n].open = ~ctx.frames[n].published /\ fs[n].acc = OwnPaths(graph, ctx, n)
      BY <1>2, BarIs
    <3>2. Sets!Top = n /\ ~ctx.frames[n].published
      BY <1>2, <1>4, StateIs DEF AllOpen
    <3> QED
      BY <1>2, <3>1, <3>2 DEF S
  <2>2. FramesBar(graph', ctx') = Sets!Adding(SubSeq(fs, 1, n - 1), n - 1, S)
    BY <1>14, SetsAdding
  <2>3. LabelBar(graph', label') = [LabelBar(graph, label) EXCEPT ![fs[n].value] = S]
    BY <1>15, <2>1
  <2>4. TableBar(graph', table') = TableBar(graph, table)
    BY <1>1, <1>8
  <2> HIDE DEF fs, n, v
  <2> QED
    BY <1>1, <1>10, <2>1, <2>2, <2>3, <2>4 DEF Sets!Fail, Sets!Below, LabelBar, TableBar, fs
<1> QED
  BY <1>3, <1>12, <1>14, <1>16


(* The scope on top is finished.                                           *)
LEMMA ScopeIs ==
  ASSUME FrameInv, graph' = FinishedScope.graph, Frame(Top).role # "root", Frame(Top).at # "returned",
         NEW id, id = FinishedScope.id, NEW S, S = OwnPaths(graph, ctx, Top)
  PROVE  /\ GraphInv(graph') /\ Extended(graph, graph') /\ id \in SetIds(graph') /\ PathsOf(graph', id) = S
         /\ OwnPaths(graph', ctx, Top) = S /\ Popped(graph', ctx, EndedScope, Top, S)
         /\ Top > 1 /\ Good(graph', ctx)
<1> DEFINE n == Top
           r == InternAccessSet(graph, Direct(ctx, n), Children(ctx, n))
<1>1. graph' = r.graph /\ id = r.id /\ EndedScope = Ended(Collapse(ctx, n, id))
  BY DEF FinishedScope, EndedScope
<1>2. /\ Good(graph, ctx) /\ n = Len(ctx.frames) /\ GraphInv(graph) /\ n \in 1..n
      /\ Frame(n) = ctx.frames[n] /\ Inv(graph, ctx, cell, label, exc)
  BY StateIs
<1>3. n > 1
  BY ForceAbove
<1>4. AllOpen(ctx)
  BY <1>2, TopOpen
<1>5. GraphInv(r.graph) /\ Extended(graph, r.graph) /\ r.id \in SetIds(r.graph) /\ PathsOf(r.graph, r.id) = S
  <2>1. S = OwnPaths(graph, ctx, n)
    OBVIOUS
  <2> HIDE DEF n
  <2> QED
    BY <1>2, <2>1, InternTop
<1> HIDE DEF r
<1>6. GraphInv(graph') /\ Extended(graph, graph') /\ id \in SetIds(graph') /\ PathsOf(graph', id) = S
  BY <1>1, <1>5
<1>7. Good(graph', ctx) /\ OwnPaths(graph', ctx, n) = S
  BY <1>2, <1>6, Lifted
<1>8. Popped(graph', ctx, EndedScope, n, S)
  <2> DEFINE d == EndedScope
             g == graph'
  <2>1. /\ GraphInv(g) /\ Good(g, ctx) /\ AllOpen(ctx) /\ n = Len(ctx.frames) /\ n > 1
        /\ id \in SetIds(g) /\ d = Ended(Collapse(ctx, n, id)) /\ PathsOf(g, id) = S
    BY <1>1, <1>2, <1>3, <1>4, <1>6, <1>7
  <2> HIDE DEF n, d, g
  <2>2. Popped(g, ctx, d, n, S)
    BY ONLY <2>1, CutEndedKeeps
  <2> QED
    BY <2>2 DEF g, d
<1> QED
  BY <1>3, <1>6, <1>7, <1>8

(* A scope of one force ends, and t is the label of its result.            *)
LEMMA ScopeEnds ==
  ASSUME FrameInv, graph' = FinishedScope.graph, Frame(Top).role \in {"wrap", "file"}, Frame(Top).at = "forced",
         ~exc, NEW t \in SetIds(graph'), PathsOf(graph', t) \subseteq OwnPaths(graph, ctx, Top),
         ctx' = Goes(EndedScope, "body", None, t), op' = <<"frames", None>>, UNCHANGED <<cell, label, table, exc>>
  PROVE  FrameInv' /\ Kept /\ Top > 1 /\ Sets!Leave
<1> DEFINE n == Top
           m == n - 1
           f == Frame(m)
           S == OwnPaths(graph, ctx, n)
           h == GoesOn(f, "body", None, t)
           b == EndedScope
<1> HIDE DEF S
<1>1. /\ GraphInv(graph') /\ Extended(graph, graph') /\ n > 1 /\ Good(graph', ctx) /\ Popped(graph', ctx, b, n, S)
      /\ SetIds(graph') \subseteq Nat
  BY ScopeIs, GraphType DEF S, SetIds
<1>2. n = Len(ctx.frames) /\ exc' \in BOOLEAN
  BY StateIs DEF IdInv
<1>3. /\ f = ctx.frames[m] /\ f \in FrameType /\ FrameOK(f) /\ Called(f, Frame(n))
  BY <1>1, BelowIs
<1>4. "body" \in Ats /\ None \in Args /\ t \in Nat
  BY <1>1 DEF Ats, Args
<1>5. h \in FrameType /\ Alike(h, f) /\ h.at = "body" /\ h.arg = None /\ h.tmp = t
  BY <1>3, <1>4, GoesOnIs
<1>6. Shrunk(graph', ctx, ctx', n, h, S)
  <2> DEFINE d == ctx'
             g == graph'
  <2>1. /\ GraphInv(g) /\ Good(g, ctx) /\ n = Len(ctx.frames) /\ n > 1 /\ t \in SetIds(g)
        /\ Popped(g, ctx, b, n, S) /\ d = Goes(b, "body", None, t)
    BY <1>1, <1>2
  <2> HIDE DEF n, d, g, b
  <2>2. Shrunk(g, ctx, d, n, GoesOn(ctx.frames[n - 1], "body", None, t), S)
    BY <1>4, <2>1, PoppedGoes
  <2> QED
    BY <1>3, <2>2 DEF d, g
<1> HIDE DEF h
<1>7. FrameOK(h)
  <2>1. f.at \in {"called", "resolved"}
    BY <1>3 DEF Called
  <2>2. f.role \notin {"wrap", "file", "resolve"}
    BY <1>3, <2>1 DEF FrameOK
  <2> HIDE DEF f
  <2> QED
    BY <1>3, <1>5, <2>1, <2>2 DEF FrameOK, Alike
<1>8. Collects(graph', h, OwnPaths(graph', ctx, m) \cup S, Forcing(exc', h), exc', cell', label')
  <2>1. h.role \notin {"wrap", "file"}
    BY <1>5, <1>7 DEF FrameOK
  <2> QED
    BY <1>5, <2>1 DEF Collects, Forcing, S
<1>9. IdInv' /\ Kept /\ LabelBar(graph', label') = LabelBar(graph, label) /\ TableBar(graph', table') = TableBar(graph, table)
  BY <1>1, <1>2, Untouched
<1>10. FrameInv' /\ FramesBar(graph', ctx') = AddTo(SubSeq(FramesBar(graph, ctx), 1, n - 1), n - 1, S)
  <2>1. /\ \A w \in Value : cell[w] # "thunk" => cell'[w] = cell[w]
        /\ h.at # "returned"
    BY <1>5
  <2> QED
    BY <1>1, <1>6, <1>7, <1>8, <1>9, <2>1, ShrunkState
<1> QED
  BY <1>1, <1>9, <1>10, SetsLeave DEF S

(* The set of such a scope is the label of the value it forced.            *)
LEMMA ScopeCollects ==
  ASSUME FrameInv, GraphInv(graph'), Extended(graph, graph'), Frame(Top).role \in {"wrap", "file"},
         Frame(Top).at = "forced", ~exc
  PROVE  /\ Frame(Top).arg \in Value /\ label[Frame(Top).arg] \in SetIds(graph')
         /\ PathsOf(graph', label[Frame(Top).arg]) = OwnPaths(graph', ctx, Top)
<1> DEFINE f == Frame(Top)
           acc == OwnPaths(graph', ctx, Top)
<1>1. Collects(graph', f, acc, Forcing(exc, f), exc, cell, label)
  BY TopCollects
<1>2. Forcing(exc, f) /\ ~exc
  BY DEF Forcing
<1>3. PathsOf(graph', label[f.arg]) \subseteq acc /\ acc \subseteq PathsOf(graph', label[f.arg])
  BY <1>1, <1>2 DEF Collects
<1>4. f.arg \in Value
  BY StateIs DEF FrameOK
<1>5. label[f.arg] \in SetIds(graph')
  BY <1>4, Lifted
<1> QED
  BY <1>3, <1>4, <1>5

LEMMA FinishWrapStep == ASSUME FrameInv, FinishWrap PROVE FrameInv' /\ Kept /\ Top > 1 /\ Sets!Leave
<1> DEFINE id == FinishedScope.id
           x == label[Frame(Top).arg]
           t == IF id = 0 THEN x ELSE id
           S == OwnPaths(graph, ctx, Top)
<1>1. /\ graph' = FinishedScope.graph /\ Frame(Top).role = "wrap" /\ Frame(Top).at = "forced" /\ ~exc
      /\ ctx' = Goes(EndedScope, "body", None, t) /\ op' = <<"frames", None>>
      /\ UNCHANGED <<cell, label, table, exc>>
  BY DEF FinishWrap, At
<1>2. /\ GraphInv(graph') /\ Extended(graph, graph') /\ id \in SetIds(graph') /\ PathsOf(graph', id) = S
      /\ OwnPaths(graph', ctx, Top) = S
  BY <1>1, ScopeIs
<1>3. x \in SetIds(graph') /\ PathsOf(graph', x) = S
  BY <1>1, <1>2, ScopeCollects
<1>4. t \in SetIds(graph') /\ PathsOf(graph', t) \subseteq OwnPaths(graph, ctx, Top)
  BY <1>2, <1>3
<1> HIDE DEF t
<1> QED
  BY <1>1, <1>4, ScopeEnds

(* Equal sets have one id.                                                 *)
LEMMA SameId ==
  ASSUME NEW g, GraphInv(g), NEW i \in SetIds(g), NEW j \in SetIds(g), PathsOf(g, i) = PathsOf(g, j)
  PROVE  i = j
<1>1. /\ Items(g, i) \subseteq DOMAIN g.accesses /\ (Items(g, i) = {} <=> i = 0)
      /\ Items(g, j) \subseteq DOMAIN g.accesses /\ (Items(g, j) = {} <=> j = 0)
  BY ItemsKnown
<1>2. {g.accesses[a] : a \in Items(g, i)} = {g.accesses[a] : a \in Items(g, j)}
  BY PathsOfItems
<1>3. \A a, b \in DOMAIN g.accesses : g.accesses[a] = g.accesses[b] => a = b
  BY DEF GraphInv
<1>4. Items(g, i) = Items(g, j)
  <2>1. ASSUME NEW a \in Items(g, i) PROVE a \in Items(g, j)
    <3>1. PICK b \in Items(g, j) : g.accesses[a] = g.accesses[b]
      BY <1>2
    <3> QED
      BY <1>1, <1>3, <3>1
  <2>2. ASSUME NEW a \in Items(g, j) PROVE a \in Items(g, i)
    <3>1. PICK b \in Items(g, i) : g.accesses[a] = g.accesses[b]
      BY <1>2
    <3> QED
      BY <1>1, <1>3, <3>1
  <2> QED
    BY <2>1, <2>2
<1>5. CASE i = 0 \/ j = 0
  BY <1>1, <1>4, <1>5
<1>6. CASE i # 0 /\ j # 0
  <2>1. i \in DOMAIN g.accessSets /\ j \in DOMAIN g.accessSets /\ g.accessSets[i] = g.accessSets[j]
    BY <1>4, <1>6 DEF SetIds, Items
  <2> QED
    BY <2>1 DEF GraphInv
<1> QED
  BY <1>5, <1>6

(* A finished file is labelled once more, with the id it has.              *)
LEMMA FinishFileStep == ASSUME FrameInv, FinishFile PROVE FrameInv' /\ Kept /\ Top > 1 /\ Sets!Leave
<1> DEFINE id == FinishedScope.id
           v == Frame(Top).arg
           x == label[v]
           S == OwnPaths(graph, ctx, Top)
<1>1. /\ graph' = FinishedScope.graph /\ Frame(Top).role = "file" /\ Frame(Top).at = "forced" /\ ~exc
      /\ label' = (IF id = 0 THEN label ELSE [label EXCEPT ![v] = id])
      /\ ctx' = Goes(EndedScope, "body", None, label'[v]) /\ op' = <<"frames", None>>
      /\ UNCHANGED <<cell, table, exc>>
  BY DEF FinishFile, At
<1>2. /\ GraphInv(graph') /\ Extended(graph, graph') /\ id \in SetIds(graph') /\ PathsOf(graph', id) = S
      /\ OwnPaths(graph', ctx, Top) = S
  BY <1>1, ScopeIs
<1>3. v \in Value /\ x \in SetIds(graph') /\ PathsOf(graph', x) = S
  BY <1>1, <1>2, ScopeCollects
<1>4. x = id
  BY <1>2, <1>3, SameId
<1>5. label' = label
  <2>1. label \in [Value -> SetIds(graph)]
    BY StateIs DEF IdInv
  <2> QED
    BY <1>1, <1>3, <1>4, <2>1
<1>6. ctx' = Goes(EndedScope, "body", None, x) /\ x \in SetIds(graph') /\ PathsOf(graph', x) \subseteq OwnPaths(graph, ctx, Top)
  BY <1>1, <1>3, <1>5
<1> HIDE DEF x
<1> QED
  BY <1>1, <1>5, <1>6, ScopeEnds


(***************************************************************************)
(* Stored results.                                                         *)
(***************************************************************************)
LEMMA TableStored ==
  ASSUME FrameInv, GraphInv(graph'), Extended(graph, graph'), NEW k \in Key, NEW id \in SetIds(graph'),
         table' = [table EXCEPT ![k] = IF @ = None THEN id ELSE @], UNCHANGED <<cell, label, exc>>
  PROVE  /\ IdInv' /\ Kept /\ table'[k] \in SetIds(graph') /\ table'[k] \in Nat
         /\ TableBar(graph', table')[k] = PathsOf(graph', table'[k])
         /\ TableBar(graph', table') = [TableBar(graph, table) EXCEPT ![k] = IF @ = None THEN PathsOf(graph', id) ELSE @]
         /\ LabelBar(graph', label') = LabelBar(graph, label)
<1> DEFINE t == IF table[k] = None THEN id ELSE table[k]
           S == PathsOf(graph', id)
           bar == TableBar(graph, table)
<1>1. /\ IdInv /\ GraphInv(graph)
  BY StateIs
<1>2. /\ SetIds(graph) \subseteq SetIds(graph') /\ SetIds(graph') \subseteq Nat
      /\ label \in [Value -> SetIds(graph')] /\ table \in [Key -> SetIds(graph') \cup {None}]
      /\ LabelBar(graph', label) = LabelBar(graph, label) /\ TableBar(graph', table) = bar
  BY Lifted
<1>3. table \in [Key -> SetIds(graph) \cup {None}]
  BY <1>1 DEF IdInv
<1>4. /\ t \in SetIds(graph') /\ t \in Nat /\ table'[k] = t /\ \A w \in Key : w # k => table'[w] = table[w]
  BY <1>2, <1>3
<1>5. IdInv' /\ Kept
  BY <1>1, <1>2 DEF IdInv, Kept
<1>6. t # None
  BY <1>4, FrameConstants
<1>7. S # None /\ PathsOf(graph', t) # None
  <2>1. S \in SUBSET Path /\ PathsOf(graph', t) \in SUBSET Path
    BY <1>4, PathsOfType
  <2> QED
    BY <2>1, FrameConstants
<1> HIDE DEF S
<1>8. PathsOf(graph', t) = IF bar[k] = None THEN S ELSE bar[k]
  <2>1. CASE table[k] = None
    BY <2>1 DEF TableBar, S
  <2>2. CASE table[k] # None
    <3>1. TableBar(graph', table)[k] = PathsOf(graph', table[k])
      BY <2>2 DEF TableBar
    <3> QED
      BY <1>2, <1>7, <2>2, <3>1
  <2> QED
    BY <2>1, <2>2
<1>9. TableBar(graph', table') = [bar EXCEPT ![k] = PathsOf(graph', t)]
  <2> DEFINE g == graph'
             to == table'
  <2>1. /\ GraphInv(graph) /\ Extended(graph, g) /\ table \in [Key -> SetIds(graph) \cup {None}] /\ t \in Nat
        /\ \A w \in Key : to[w] = IF w = k THEN t ELSE table[w]
    BY <1>1, <1>3, <1>4
  <2> HIDE DEF g, to, t
  <2>2. TableBar(g, to) = [TableBar(graph, table) EXCEPT ![k] = PathsOf(g, t)]
    BY <2>1, TableSet
  <2> QED
    BY <2>2 DEF g, to
<1>10. TableBar(graph', table')[k] = PathsOf(graph', table'[k])
  BY <1>4, <1>6 DEF TableBar
<1> HIDE DEF t
<1>11. TableBar(graph', table') = [bar EXCEPT ![k] = IF @ = None THEN S ELSE @]
  BY <1>8, <1>9
<1> QED
  BY <1>2, <1>4, <1>5, <1>10, <1>11 DEF S

StoredAt(T, k, S) == [T EXCEPT ![k] = IF @ = None THEN S ELSE @]
HandedBy(k, S, T) == IF k = MemoKey THEN S \cup T[k] ELSE S

LEMMA SetsStore ==
  ASSUME FrameInv, Top > 1, Frame(Top).at # "returned", Frame(Top).role # "force", NEW k \in Key,
         op' = <<"store", k>>, LabelBar(graph', label') = LabelBar(graph, label),
         TableBar(graph', table') =
           StoredAt(TableBar(graph, table), k, OwnPaths(graph, ctx, Top)),
         FramesBar(graph', ctx') =
           AddTo(SubSeq(FramesBar(graph, ctx), 1, Top - 1), Top - 1,
                 HandedBy(k, OwnPaths(graph, ctx, Top), TableBar(graph', table')))
  PROVE  Sets!Store(k)
<1> DEFINE fs == FramesBar(graph, ctx)
           n == Top
           S == OwnPaths(graph, ctx, Top)
<1>1. /\ Sets!Top = n /\ CtxType(ctx) /\ n = Len(ctx.frames) /\ n \in 1..n /\ Frame(n) = ctx.frames[n]
      /\ FrameOK(Frame(n)) /\ Frame(n) \in FrameType
  BY StateIs
<1>2. fs[n].value = ctx.frames[n].value /\ fs[n].open = ~ctx.frames[n].published /\ fs[n].acc = S
  BY <1>1, BarIs
<1>3. ctx.frames[n].value = None /\ ~ctx.frames[n].published
  BY <1>1 DEF FrameOK
<1> HIDE DEF fs, n, S
<1>4. /\ fs[n].open /\ fs[n].value = None /\ fs[n].acc = S
  BY <1>2, <1>3
<1> QED
  BY <1>1, <1>4, SetsAdding DEF Sets!Store, Sets!Below, LabelBar, TableBar, StoredAt, HandedBy, fs, n, S

LEMMA StoreMemoStep == ASSUME FrameInv, StoreMemo PROVE FrameInv' /\ Kept /\ Top > 1 /\ Sets!Store(MemoKey)
<1> DEFINE n == Top
           m == n - 1
           f == Frame(m)
           id == FinishedScope.id
           S == OwnPaths(graph, ctx, n)
           t == table'[MemoKey]
           T == PathsOf(graph', t)
           b == EndedScope
           a == AddFrameChild(b, m, t)
           h == GoesOn(f, "body", None, t)
<1>1. /\ graph' = FinishedScope.graph /\ table' = [table EXCEPT ![MemoKey] = IF @ = None THEN id ELSE @]
      /\ op' = <<"store", MemoKey>> /\ UNCHANGED <<cell, label, exc>> /\ ~exc
      /\ Frame(n).role = "memo" /\ Frame(n).at = "body" /\ ctx' = Goes(a, "body", None, t)
  BY DEF StoreMemo, StoreScope, InBody, At
<1> HIDE DEF S
<1>2. /\ GraphInv(graph') /\ Extended(graph, graph') /\ id \in SetIds(graph') /\ PathsOf(graph', id) = S
      /\ Popped(graph', ctx, b, n, S) /\ n > 1 /\ Good(graph', ctx)
  BY <1>1, ScopeIs DEF S
<1>3. MemoKey \in Key
  BY DEF Key
<1>4. /\ IdInv' /\ Kept /\ t \in SetIds(graph') /\ t \in Nat /\ TableBar(graph', table')[MemoKey] = T
      /\ TableBar(graph', table') = [TableBar(graph, table) EXCEPT ![MemoKey] = IF @ = None THEN S ELSE @]
      /\ LabelBar(graph', label') = LabelBar(graph, label)
  BY <1>1, <1>2, <1>3, TableStored
<1>5. /\ n = Len(ctx.frames) /\ n \in Nat /\ m \in 1..n /\ m \in Nat /\ m > 0 /\ Inv(graph, ctx, cell, label, exc)
      /\ n - 2 \in Nat /\ m - 1 = n - 2 /\ m \in 1..m
  BY <1>2, StateIs
<1>6. /\ f = ctx.frames[m] /\ f \in FrameType /\ FrameOK(f) /\ Called(f, Frame(n))
  BY <1>2, BelowIs
<1>7. Good(graph', b) /\ m = Len(b.frames) /\ b.frames[m] = f /\ \A j \in 1..m : b.frames[j] = ctx.frames[j]
  <2>1. Good(graph', b) /\ Len(b.frames) = m /\ \A j \in 1..m : b.frames[j] = ctx.frames[j]
    BY <1>2 DEF Popped
  <2> HIDE DEF b, f, m
  <2> QED
    BY ONLY <1>5, <1>6, <2>1
<1>8. AllOpen(b)
  <2>1. \A j \in 1..m : j \in 1..n /\ j < n
    BY <1>5
  <2>2. \A j \in 1..m : ~ctx.frames[j].published
    BY <1>5, <2>1, TopOpen
  <2> QED
    BY <1>7, <2>2 DEF AllOpen
<1>9. AddedTop(graph', b, a, m, T)
  <2> DEFINE g == graph'
             x == t
  <2>1. GraphInv(g) /\ Good(g, b) /\ AllOpen(b) /\ m = Len(b.frames) /\ x \in SetIds(g) /\ a = AddFrameChild(b, m, x)
    BY <1>2, <1>4, <1>7, <1>8
  <2> HIDE DEF g, x, m, b, a
  <2>2. AddedTop(g, b, a, m, PathsOf(g, x))
    BY ONLY <2>1, ChildAdded
  <2> QED
    BY <2>2 DEF g, x
<1> HIDE DEF a, b, T, id
<1>10. Popped(graph', ctx, a, n, S \cup T)
  <2>1. /\ Good(graph', a) /\ a.frames = b.frames
        /\ \A j \in 1..(n - 2) : OwnPaths(graph', a, j) = OwnPaths(graph', b, j)
        /\ OwnPaths(graph', a, m) = OwnPaths(graph', b, m) \cup T
    BY <1>5, <1>9 DEF AddedTop, Same
  <2>2. /\ \A j \in 1..(n - 2) : OwnPaths(graph', b, j) = OwnPaths(graph', ctx, j)
        /\ OwnPaths(graph', b, m) = OwnPaths(graph', ctx, m) \cup S
    BY <1>2 DEF Popped, Same
  <2>3. /\ Good(graph', a) /\ Len(a.frames) = m /\ (\A j \in 1..m : a.frames[j] = ctx.frames[j])
        /\ \A j \in 1..(n - 2) : OwnPaths(graph', a, j) = OwnPaths(graph', ctx, j)
        /\ OwnPaths(graph', a, m) = OwnPaths(graph', ctx, m) \cup (S \cup T)
    BY <1>7, <2>1, <2>2
  <2> QED
    BY <2>3 DEF Popped, Same
<1>11. "body" \in Ats /\ None \in Args
  BY DEF Ats, Args
<1>12. h \in FrameType /\ Alike(h, f) /\ h.at = "body" /\ h.arg = None /\ h.tmp = t
  BY <1>4, <1>6, <1>11, GoesOnIs
<1>13. Shrunk(graph', ctx, ctx', n, h, S \cup T)
  <2> DEFINE d == ctx'
             g == graph'
             x == t
             R == S \cup T
             to == "body"
             no == None
  <2>1. /\ GraphInv(g) /\ Good(g, ctx) /\ n = Len(ctx.frames) /\ n > 1 /\ x \in SetIds(g)
        /\ Popped(g, ctx, a, n, R) /\ d = Goes(a, to, no, x) /\ to \in Ats /\ no \in Args
    BY <1>1, <1>2, <1>4, <1>5, <1>10, <1>11
  <2> HIDE DEF n, d, g, x, R, to, no
  <2>2. Shrunk(g, ctx, d, n, GoesOn(ctx.frames[n - 1], to, no, x), R)
    BY ONLY <2>1, PoppedGoes
  <2> QED
    BY <1>6, <2>2 DEF d, g, x, R, to, no
<1> HIDE DEF h
<1>14. FrameOK(h)
  <2>1. f.at = "called"
    BY <1>1, <1>6 DEF Called
  <2>2. f.role \notin {"wrap", "file", "resolve"}
    BY <1>6, <2>1 DEF FrameOK
  <2> HIDE DEF f
  <2> QED
    BY <1>6, <1>12, <2>1, <2>2 DEF FrameOK, Alike
<1>15. Collects(graph', h, OwnPaths(graph', ctx, m) \cup (S \cup T), Forcing(exc', h), exc', cell', label')
  <2>1. h.role \notin {"wrap", "file"}
    BY <1>12, <1>14 DEF FrameOK
  <2> QED
    BY <1>12, <2>1 DEF Collects, Forcing, T
<1>16. FrameInv' /\ FramesBar(graph', ctx') = AddTo(SubSeq(FramesBar(graph, ctx), 1, n - 1), n - 1, S \cup T)
  <2>1. /\ \A w \in Value : cell[w] # "thunk" => cell'[w] = cell[w]
        /\ h.at # "returned"
    BY <1>1, <1>12
  <2> QED
    BY <1>2, <1>4, <1>13, <1>14, <1>15, <2>1, ShrunkState
<1>17. Sets!Store(MemoKey)
  <2>1. /\ TableBar(graph', table') = StoredAt(TableBar(graph, table), MemoKey, S)
        /\ HandedBy(MemoKey, S, TableBar(graph', table')) = S \cup T
    BY <1>4 DEF StoredAt, HandedBy
  <2> QED
    BY <1>1, <1>2, <1>3, <1>4, <1>16, <2>1, SetsStore DEF S
<1> QED
  BY <1>2, <1>4, <1>16, <1>17

LEMMA StoreResolvedStep ==
  ASSUME FrameInv, StoreResolved, NEW k, k = Frame(Top).arg
  PROVE  FrameInv' /\ Kept /\ Top > 1 /\ k \in Key /\ Sets!Store(k)
<1> DEFINE n == Top
           m == n - 1
           f == Frame(m)
           id == FinishedScope.id
           S == OwnPaths(graph, ctx, n)
<1>1. /\ graph' = FinishedScope.graph /\ table' = [table EXCEPT ![k] = IF @ = None THEN id ELSE @]
      /\ op' = <<"store", k>> /\ UNCHANGED <<cell, label, exc>> /\ ~exc
      /\ Frame(n).at = "resolving" /\ ctx' = EndedScope
  BY DEF StoreResolved, StoreScope, At
<1>2. /\ n = Len(ctx.frames) /\ n \in Nat /\ FrameOK(Frame(n)) /\ Frame(n) \in FrameType
  BY StateIs
<1>3. Frame(n).role = "resolve" /\ k \in File
  BY <1>1, <1>2 DEF FrameOK, FrameType
<1>4. k \in Key /\ k # MemoKey
  BY <1>3, FrameConstants DEF Key, Value
<1> HIDE DEF S
<1>5. /\ GraphInv(graph') /\ Extended(graph, graph') /\ id \in SetIds(graph') /\ PathsOf(graph', id) = S
      /\ Popped(graph', ctx, EndedScope, n, S) /\ n > 1 /\ Good(graph', ctx)
  BY <1>1, <1>3, ScopeIs DEF S
<1> HIDE DEF id
<1>6. /\ IdInv' /\ Kept
      /\ TableBar(graph', table') = [TableBar(graph, table) EXCEPT ![k] = IF @ = None THEN S ELSE @]
      /\ LabelBar(graph', label') = LabelBar(graph, label)
  BY <1>1, <1>4, <1>5, TableStored
<1>7. /\ f = ctx.frames[m] /\ f \in FrameType /\ FrameOK(f) /\ Called(f, Frame(n))
      /\ PathsOf(graph', f.tmp) \subseteq OwnPaths(graph', ctx, m)
  BY <1>5, BelowIs
<1>8. Shrunk(graph', ctx, ctx', n, f, S)
  <2> DEFINE d == ctx'
             g == graph'
  <2>1. GraphInv(g) /\ Good(g, ctx) /\ n = Len(ctx.frames) /\ n > 1 /\ Popped(g, ctx, d, n, S)
    BY <1>1, <1>2, <1>5
  <2> HIDE DEF n, d, g
  <2>2. Shrunk(g, ctx, d, n, ctx.frames[n - 1], S)
    BY ONLY <2>1, PoppedShrunk
  <2> QED
    BY <1>7, <2>2 DEF d, g
<1>9. f.at = "resolved" /\ f.role \notin {"wrap", "file"}
  BY <1>3, <1>7 DEF Called, FrameOK
<1> HIDE DEF f
<1>10. Collects(graph', f, OwnPaths(graph', ctx, m) \cup S, Forcing(exc', f), exc', cell', label')
  BY <1>7, <1>9 DEF Collects, Forcing
<1>11. FrameInv' /\ FramesBar(graph', ctx') = AddTo(SubSeq(FramesBar(graph, ctx), 1, n - 1), n - 1, S)
  <2>1. /\ \A w \in Value : cell[w] # "thunk" => cell'[w] = cell[w]
        /\ f.at # "returned"
    BY <1>1, <1>9
  <2> QED
    BY <1>5, <1>6, <1>7, <1>8, <1>10, <2>1, ShrunkState
<1>12. Sets!Store(k)
  <2>1. Frame(n).at # "returned" /\ Frame(n).role # "force" /\ S = OwnPaths(graph, ctx, n)
    BY <1>1, <1>3 DEF S
  <2>2. FramesBar(graph', ctx') =
          AddTo(SubSeq(FramesBar(graph, ctx), 1, n - 1), n - 1, HandedBy(k, S, TableBar(graph', table')))
    BY <1>4, <1>11 DEF HandedBy
  <2> HIDE DEF n
  <2>3. /\ k \in Key /\ op' = <<"store", k>>
        /\ LabelBar(graph', label') = LabelBar(graph, label)
        /\ TableBar(graph', table') = StoredAt(TableBar(graph, table), k, S)
    BY ONLY <1>1, <1>4, <1>6 DEF StoredAt
  <2>4. FrameInv /\ n > 1
    BY <1>5
  <2> QED
    BY ONLY <2>1, <2>2, <2>3, <2>4, SetsStore DEF n, S
<1> QED
  BY <1>4, <1>5, <1>6, <1>11, <1>12

LEMMA OtherStoresStep ==
  ASSUME FrameInv, NEW k \in Key, NEW S \in OtherReads[k], OtherStores(k, S)
  PROVE  FrameInv' /\ Kept /\ S \in SUBSET Path /\ Sets!OtherStores(k, S)
<1> DEFINE r == InternPaths(graph, S)
           id == r.id
<1>1. /\ table[k] = None /\ graph' = r.graph /\ table' = [table EXCEPT ![k] = id] /\ op' = <<"frames", None>>
      /\ UNCHANGED <<ctx, cell, label, exc>>
  BY DEF OtherStores
<1>2. S \in SUBSET Path /\ IsFiniteSet(S)
  BY FrameConstants DEF Value
<1>3. GraphInv(r.graph) /\ Extended(graph, r.graph) /\ id \in SetIds(r.graph) /\ PathsOf(r.graph, id) = S
  BY <1>2, StateIs, InternPathsOK
<1> HIDE DEF r, id
<1>4. GraphInv(graph') /\ Extended(graph, graph') /\ id \in SetIds(graph') /\ PathsOf(graph', id) = S
  BY <1>1, <1>3
<1>5. table' = [table EXCEPT ![k] = IF @ = None THEN id ELSE @]
  BY <1>1
<1>6. /\ IdInv' /\ Kept /\ LabelBar(graph', label') = LabelBar(graph, label)
      /\ TableBar(graph', table') = [TableBar(graph, table) EXCEPT ![k] = IF @ = None THEN S ELSE @]
  BY <1>1, <1>4, <1>5, TableStored
<1>7. Inv(graph', ctx, cell, label, exc) /\ FramesBar(graph', ctx) = FramesBar(graph, ctx)
  BY <1>4, Lifted
<1>8. FrameInv'
  BY <1>1, <1>4, <1>6, <1>7, StateFrom
<1>9. TableBar(graph, table)[k] = None
  BY <1>1 DEF TableBar
<1>10. TableBar(graph', table') = [TableBar(graph, table) EXCEPT ![k] = S]
  BY <1>6, <1>9
<1>11. FramesBar(graph', ctx') = FramesBar(graph, ctx)
  BY <1>1, <1>7
<1>12. Sets!OtherStores(k, S)
  BY <1>1, <1>6, <1>9, <1>10, <1>11 DEF Sets!OtherStores, LabelBar, TableBar
<1> QED
  BY <1>2, <1>6, <1>8, <1>12


(***************************************************************************)
(* The specification.                                                      *)
(***************************************************************************)
LEMMA InitState == Init => FrameInv /\ Sets!Init
<1> SUFFICES ASSUME Init PROVE FrameInv /\ Sets!Init
  OBVIOUS
<1> DEFINE f == [role |-> "root", value |-> None, at |-> "body", arg |-> None, tmp |-> 0, published |-> FALSE,
                 accessBase |-> 0, childBase |-> 0]
<1>1. /\ graph = [accesses |-> <<>>, accessSets |-> <<>>, inputKeys |-> [k \in {} |-> 0]]
      /\ ctx = [access |-> <<>>, child |-> <<>>, frames |-> <<f>>]
      /\ cell = [v \in Value |-> "thunk"] /\ label = [v \in Value |-> 0]
      /\ table = [k \in Key |-> None] /\ exc = FALSE /\ op = <<"start", None>>
  BY DEF Init
<1>2. f \in FrameType
  BY DEF FrameType
<1>3. /\ f.role = "root" /\ f.value = None /\ f.at = "body" /\ f.tmp = 0 /\ ~f.published
      /\ f.accessBase = 0 /\ f.childBase = 0
  OBVIOUS
<1>4. None \notin Value
  BY FrameConstants
<1>5. /\ graph.accesses = <<>> /\ graph.accessSets = <<>> /\ DOMAIN graph.inputKeys = {}
      /\ graph.inputKeys = [k \in DOMAIN graph.inputKeys |-> graph.inputKeys[k]]
      /\ graph = [accesses |-> graph.accesses, accessSets |-> graph.accessSets, inputKeys |-> graph.inputKeys]
  BY <1>1
<1> HIDE DEF f
<1>6. /\ ctx.access = <<>> /\ ctx.child = <<>> /\ ctx.frames = <<f>>
      /\ Len(ctx.access) = 0 /\ Len(ctx.child) = 0 /\ Len(ctx.frames) = 1 /\ ctx.frames[1] = f
      /\ DOMAIN ctx.frames = {1} /\ 1..Len(ctx.frames) = {1}
      /\ ctx = [access |-> ctx.access, child |-> ctx.child, frames |-> ctx.frames]
  BY <1>1
<1>7. GraphInv(graph)
  BY <1>5 DEF GraphInv
<1>8. CtxType(ctx)
  BY <1>2, <1>6 DEF CtxType
<1>9. CtxIds(graph, ctx)
  BY <1>3, <1>6 DEF CtxIds, Range, SetIds
<1>10. IdInv
  BY <1>1 DEF IdInv, SetIds
<1>11. FrameOK(f)
  BY <1>3, <1>4 DEF FrameOK, Value
<1>12. Shape(ctx.frames)
  BY <1>3, <1>6, <1>11 DEF Shape
<1>13. Levels(ctx)
  BY <1>3, <1>6 DEF Levels
<1>14. Top = 1 /\ Frame(Top) = f
  BY <1>6 DEF Top, Frame
<1>15. OwnPaths(graph, ctx, 1) = {} /\ PathsOf(graph, 0) = {}
  <2>1. AccessEnd(ctx, 1) = 0 /\ ChildEnd(ctx, 1) = 0
    BY <1>6 DEF AccessEnd, ChildEnd
  <2>2. Slice(ctx.access, 0, 0) = {} /\ Slice(ctx.child, 0, 0) = {}
    BY SliceEmpty
  <2> QED
    BY <1>3, <1>6, <2>1, <2>2 DEF OwnPaths, PathsOf, Flatten, Items
<1>16. AccInv(graph, ctx, cell, label, exc)
  <2>1. ~Forced(ctx, exc, 1)
    BY <1>3, <1>6 DEF Forced
  <2> QED
    BY <1>3, <1>6, <1>15, <2>1 DEF AccInv, Collects
<1>17. CellInv(ctx, cell)
  BY <1>3, <1>6 DEF CellInv
<1>18. FrameInv
  BY <1>1, <1>7, <1>8, <1>9, <1>10, <1>12, <1>13, <1>16, <1>17 DEF FrameInv
<1>19. FramesBar(graph, ctx) = <<NewBar(None)>>
  <2>1. FramesBar(graph, ctx) = [i \in {1} |-> NewBar(None)]
    BY <1>3, <1>6, <1>15 DEF FramesBar, NewBar
  <2> QED
    BY <2>1
<1>20. /\ LabelBar(graph, label) = [v \in Value |-> {}]
       /\ TableBar(graph, table) = [k \in Key |-> None]
  BY <1>1, <1>15 DEF LabelBar, TableBar
<1>21. Sets!Init
  BY <1>1, <1>19, <1>20 DEF Sets!Init, Sets!NewFrame, NewBar, LabelBar, TableBar
<1> QED
  BY <1>18, <1>21

(* Every step of an action is a step of the abstract specification or      *)
(* leaves its state unchanged, and keeps what is finished.                 *)
LEMMA ActionStep ==
  ASSUME FrameInv, Next PROVE FrameInv' /\ Kept /\ (Sets!Next \/ UNCHANGED Sets!vars)
<1>0. Sets!Top = Top
  BY StateIs
<1>1. CASE \E p \in Path : Read(p) \/ ParseFile(p)
  <2>1. PICK p \in Path : Read(p) \/ ParseFile(p)
    BY <1>1
  <2>2. FrameInv' /\ Kept /\ Sets!Read(p)
    BY <2>1, ReadStep, ParseStep
  <2> QED
    BY <2>2 DEF Sets!Next
<1>2. CASE \E v \in Value : ForceThunk(v)
  <2>1. PICK v \in Value : ForceThunk(v)
    BY <1>2
  <2>2. FrameInv' /\ Kept /\ Sets!Enter(v)
    BY <2>1, ForceThunkStep
  <2> QED
    BY <2>2 DEF Sets!Next
<1>3. CASE \E v \in Value : ForceFinished(v)
  <2>1. PICK v \in Value : ForceFinished(v)
    BY <1>3
  <2>2. FrameInv' /\ Kept /\ Sets!Inherit(v)
    BY <2>1, ForceFinishedStep
  <2> QED
    BY <2>2 DEF Sets!Next
<1>4. CASE (\E v \in Value : ForcePending(v)) \/ Throw \/ Catch
  BY <1>4, ExceptionStep
<1>5. CASE \E v \in Value : \E S \in OtherReads[v] : ForceAwaited(v, S) \/ OtherForces(v, S)
  <2>1. PICK v \in Value : \E S \in OtherReads[v] : ForceAwaited(v, S) \/ OtherForces(v, S)
    BY <1>5
  <2>2. PICK S \in OtherReads[v] : ForceAwaited(v, S) \/ OtherForces(v, S)
    BY <2>1
  <2>3. FrameInv' /\ Kept /\ S \in SUBSET Path /\ (Sets!Await(v, S) \/ Sets!OtherForces(v, S))
    BY <2>2, ForceAwaitedStep, OtherForcesStep
  <2> QED
    BY <2>3 DEF Sets!Next
<1>6. CASE (\E src \in Value \cup {None} : Return(src)) \/ ReturnCall
  <2>1. FrameInv' /\ Kept /\ Sets!Top > 1 /\ \E src \in Value \cup {None} : Sets!Publish(src)
    BY <1>0, <1>6, ReturnStep, ReturnCallStep
  <2> QED
    BY <2>1 DEF Sets!Next
<1>7. CASE EndForce \/ Unwind \/ FinishWrap \/ FinishFile
  <2>1. FrameInv' /\ Kept /\ Sets!Top > 1 /\ Sets!Leave
    BY <1>0, <1>7, EndForceStep, UnwindStep, FinishWrapStep, FinishFileStep
  <2> QED
    BY <2>1 DEF Sets!Next
<1>8. CASE FailForce
  <2>1. FrameInv' /\ Kept /\ Sets!Top > 1 /\ Sets!Fail
    BY <1>0, <1>8, FailForceStep
  <2> QED
    BY <2>1 DEF Sets!Next
<1>9. CASE (\E v \in Value : OpenWrap(v)) \/ (\E f \in File : OpenResolve(f)) \/ OpenFile \/ OpenMemo
  <2>1. FrameInv' /\ Kept /\ (Sets!Enter(None) \/ UNCHANGED Sets!vars)
    BY <1>9, OpenWrapStep, OpenResolveStep, OpenFileStep, OpenMemoStep
  <2> QED
    BY <2>1 DEF Sets!Next
<1>10. CASE MemoHit \/ \E f \in File : ResolveAgain(f)
  <2>1. FrameInv' /\ Kept /\ \E k \in Key : Sets!Replay(k)
    BY <1>10, MemoHitStep, ResolveAgainStep DEF Key
  <2> QED
    BY <2>1 DEF Sets!Next
<1>11. CASE CopyCached
  BY <1>11, CopyCachedStep
<1>12. CASE StoreMemo
  <2>1. FrameInv' /\ Kept /\ Sets!Top > 1 /\ MemoKey \in Key /\ Sets!Store(MemoKey)
    BY <1>0, <1>12, StoreMemoStep DEF Key
  <2> QED
    BY <2>1 DEF Sets!Next
<1>13. CASE StoreResolved
  <2>1. PICK k : k = Frame(Top).arg
    OBVIOUS
  <2>2. FrameInv' /\ Kept /\ Sets!Top > 1 /\ k \in Key /\ Sets!Store(k)
    BY <1>0, <1>13, <2>1, StoreResolvedStep
  <2> QED
    BY <2>2 DEF Sets!Next
<1>14. CASE \E k \in Key : \E S \in OtherReads[k] : OtherStores(k, S)
  <2>1. PICK k \in Key : \E S \in OtherReads[k] : OtherStores(k, S)
    BY <1>14
  <2>2. PICK S \in OtherReads[k] : OtherStores(k, S)
    BY <2>1
  <2>3. FrameInv' /\ Kept /\ S \in SUBSET Path /\ Sets!OtherStores(k, S)
    BY <2>2, OtherStoresStep
  <2> QED
    BY <2>3 DEF Sets!Next
<1> QED
  BY <1>1, <1>2, <1>3, <1>4, <1>5, <1>6, <1>7, <1>8, <1>9, <1>10, <1>11, <1>12, <1>13, <1>14 DEF Next

LEMMA AnyStep == FrameInv /\ [Next]_vars => FrameInv' /\ Kept /\ [Sets!Next]_(Sets!vars)
<1> SUFFICES ASSUME FrameInv, [Next]_vars PROVE FrameInv' /\ Kept /\ (Sets!Next \/ UNCHANGED Sets!vars)
  OBVIOUS
<1>1. CASE Next
  BY <1>1, ActionStep
<1>2. CASE UNCHANGED vars
  <2>1. UNCHANGED <<graph, ctx, cell, label, table, exc, op>>
    BY <1>2 DEF vars
  <2>2. FrameInv'
    BY <2>1 DEF FrameInv, IdInv, Frame, Top
  <2>3. UNCHANGED Sets!vars
    BY <2>1 DEF Sets!vars
  <2>4. Kept
    BY <2>1 DEF Kept
  <2> QED
    BY <2>2, <2>3, <2>4
<1> QED
  BY <1>1, <1>2

(* The inductive invariant holds in every state: every frame stands where  *)
(* the code of its evaluation or scope can be and below what it called,    *)
(* the watermarks never pass each other, nothing lies above those of a     *)
(* published frame, every id held anywhere is one the graph handed out,    *)
(* the label of a call's temporary is part of what the frame collected,    *)
(* and the scope around one force collects what that force hands over and  *)
(* nothing else (NewFrame, collapseFrameToAccessSet, finish, evalFile).    *)
THEOREM FrameInvariant == Spec => []FrameInv
<1>1. Init => FrameInv
  BY InitState
<1>2. FrameInv /\ [Next]_vars => FrameInv'
  BY AnyStep
<1> QED
  BY <1>1, <1>2, PTL DEF Spec

(* Interning is exact in every state, for any paths, values and files,     *)
(* whatever the evaluations running beside this one intern between two of  *)
(* its steps and however full the input memo is: equal paths and equal     *)
(* sets share an id, no id dangles, and a memoised input answers with its  *)
(* union (internAccess, internAccessSet).                                  *)
THEOREM InterningExact == Spec => []InternExact
<1>1. FrameInv => InternExact
  <2> SUFFICES ASSUME FrameInv PROVE InternExact
    OBVIOUS
  <2>1. GraphInv(graph) /\ CtxIds(graph, ctx) /\ label \in [Value -> SetIds(graph)]
    BY DEF FrameInv, IdInv
  <2> QED
    BY <2>1 DEF InternExact, GraphInv, CtxIds, SetIds
<1> QED
  BY <1>1, FrameInvariant, PTL

(* The two shared stacks with their watermarks implement one set of paths  *)
(* per frame: every read, every inherited label and every replayed result  *)
(* reaches exactly the frames, labels and table entries it would reach if  *)
(* each frame kept a set of its own and copied it down, through failures,  *)
(* scopes that label a temporary whose paths the frame below has already,  *)
(* and results other evaluations stored first (addFrameAccess,             *)
(* collapseFrameToAccessSet, finish, copyTrackedValueDependencies,         *)
(* mergeUnpublishedTrackedSourceDepsFrame).                                *)
THEOREM StacksImplementSets == Spec => ImplementsSets
<1>1. Init => Sets!Init
  BY InitState
<1>2. FrameInv /\ [Next]_vars => [Sets!Next]_(Sets!vars)
  BY AnyStep
<1> QED
  BY <1>1, <1>2, FrameInvariant, PTL DEF Spec, ImplementsSets, Sets!Spec

(* A finished value keeps its label although evalFile labels the value of  *)
(* a file again when it finishes its scope, after the force published it:  *)
(* the scope holds the file's label and nothing else, and interning gives  *)
(* that set the id the label has (TrackedSourceDepsScope::finish).         *)
THEOREM FinishedNeverRelabelled == Spec => FinishedStable
<1>1. FrameInv /\ [Next]_vars => [\A v \in Value : cell[v] \in {"ok", "failed"} =>
                                    cell'[v] = cell[v] /\ label'[v] = label[v]]_vars
  BY AnyStep DEF Kept
<1> QED
  BY <1>1, FrameInvariant, PTL DEF Spec, FinishedStable

================================================================================
