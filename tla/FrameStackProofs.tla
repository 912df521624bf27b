--------------------------- MODULE FrameStackProofs ----------------------------
(***************************************************************************)
(* Lemmas about the operators of FrameStack, for any paths, values,        *)
(* expressions and bounds: what interning does to the graph, what each     *)
(* operation on the frames does to their sets, and that both keep the      *)
(* parts of the inductive invariant.                                       *)
(***************************************************************************)
EXTENDS FrameStack, FiniteSetTheorems, SequenceTheorems, TLAPS

--------------------------------------------------------------------------------
(* Sequences.                                                              *)

LEMMA SetToSeqRange ==
  ASSUME NEW S, IsFiniteSet(S)
  PROVE  /\ SetToSeq(S) \in Seq(S)
         /\ Range(SetToSeq(S)) = S
         /\ \A i, j \in DOMAIN SetToSeq(S) : SetToSeq(S)[i] = SetToSeq(S)[j] => i = j
<1> DEFINE n == Cardinality(S)
           f == SetToSeq(S)
<1>1. n \in Nat
  BY FS_CardinalityType
<1>2. \E g \in [1..n -> S] : IsInjective(g)
  BY <1>1, FS_CardinalityType DEF IsInjective, ExistsBijection, Bijection, Injection
<1>3. f \in [1..n -> S] /\ IsInjective(f)
  BY <1>2 DEF SetToSeq
<1>4. IsFiniteSet(1..n) /\ Cardinality(1..n) = n
  BY <1>1, FS_Interval
<1>5. f \in Injection(1..n, S)
  BY <1>3 DEF IsInjective, Injection
<1>6. f \in Surjection(1..n, S)
  BY <1>4, <1>5, FS_Injection
<1>7. \A t \in S : \E s \in 1..n : f[s] = t
  BY <1>6, Zenon DEF Surjection
<1>8. f \in Seq(S)
  BY <1>1, <1>3
<1>9. Range(f) = S
  BY <1>3, <1>7, Zenon DEF Range
<1> HIDE DEF f
<1>10. \A i, j \in DOMAIN f : f[i] = f[j] => i = j
  BY <1>3 DEF IsInjective
<1> QED
  BY <1>8, <1>9, <1>10 DEF f

LEMMA RangeFinite ==
  ASSUME NEW S, NEW s \in Seq(S) PROVE IsFiniteSet(Range(s))
<1>1. Len(s) \in Nat /\ DOMAIN s = 1..Len(s)
  OBVIOUS
<1>2. IsFiniteSet(1..Len(s))
  BY <1>1, FS_Interval
<1>3. s \in Surjection(1..Len(s), Range(s))
  BY <1>1 DEF Surjection, Range
<1> QED
  BY <1>2, <1>3, FS_Surjection

Distinct(s) == \A i, j \in DOMAIN s : s[i] = s[j] => i = j

Apart(s, t) == \A i \in DOMAIN s, j \in DOMAIN t : s[i] # t[j]

Joined(s, t, u) ==
  /\ DOMAIN s \subseteq DOMAIN u /\ \A i \in DOMAIN s : u[i] = s[i]
  /\ \A j \in DOMAIN t : \E i \in DOMAIN u : u[i] = t[j]

LEMMA ConcatDistinct ==
  ASSUME NEW S, NEW s \in Seq(S), NEW t \in Seq(S), Distinct(s), Distinct(t), Apart(s, t)
  PROVE  s \o t \in Seq(S) /\ Joined(s, t, s \o t) /\ Distinct(s \o t)
<1>1. PICK n \in Nat, m \in Nat : n = Len(s) /\ m = Len(t)
  BY LenProperties
<1>2. DOMAIN s = 1..n /\ DOMAIN t = 1..m
  BY <1>1
<1> DEFINE u == s \o t
<1>3. u \in Seq(S) /\ Len(u) = n + m
  BY <1>1, ConcatProperties
<1>4. DOMAIN u = 1..(n + m)
  BY <1>3
<1>5. \A i \in 1..(n + m) : u[i] = IF i <= n THEN s[i] ELSE t[i - n]
  BY <1>1, ConcatProperties
<1> HIDE DEF u
<1>6. \A i \in 1..n : i \in DOMAIN u /\ u[i] = s[i]
  BY <1>4, <1>5
<1>7. \A j \in 1..m : n + j \in DOMAIN u /\ u[n + j] = t[j]
  <2> SUFFICES ASSUME NEW j \in 1..m PROVE n + j \in DOMAIN u /\ u[n + j] = t[j]
    OBVIOUS
  <2>1. n + j \in 1..(n + m) /\ ~(n + j <= n) /\ (n + j) - n = j
    OBVIOUS
  <2> QED
    BY <2>1, <1>4, <1>5
<1>8. ASSUME NEW i \in 1..(n + m), NEW j \in 1..(n + m), u[i] = u[j] PROVE i = j
  <2>1. CASE i <= n /\ j <= n
    BY <2>1, <1>2, <1>5, <1>8 DEF Distinct
  <2>2. CASE i > n /\ j > n
    <3>1. i - n \in 1..m /\ j - n \in 1..m
      BY <2>2
    <3>2. t[i - n] = t[j - n]
      BY <2>2, <1>5, <1>8
    <3>3. i - n = j - n
      BY <3>1, <3>2, <1>2 DEF Distinct
    <3> QED
      BY <3>3
  <2>3. CASE i <= n /\ j > n
    <3>1. i \in DOMAIN s /\ j - n \in DOMAIN t
      BY <2>3, <1>2
    <3>2. u[i] = s[i] /\ u[j] = t[j - n]
      BY <2>3, <1>5
    <3> QED
      BY <3>1, <3>2, <1>8 DEF Apart
  <2>4. CASE i > n /\ j <= n
    <3>1. j \in DOMAIN s /\ i - n \in DOMAIN t
      BY <2>4, <1>2
    <3>2. u[j] = s[j] /\ u[i] = t[i - n]
      BY <2>4, <1>5
    <3> QED
      BY <3>1, <3>2, <1>8 DEF Apart
  <2> QED
    BY <2>1, <2>2, <2>3, <2>4
<1> QED
  BY <1>2, <1>3, <1>4, <1>6, <1>7, <1>8 DEF u, Joined, Distinct

LEMMA AppendRange ==
  ASSUME NEW S, NEW s \in Seq(S), NEW e \in S
  PROVE  Range(Append(s, e)) = Range(s) \cup {e}
BY SMTT(30) DEF Range

Appended(s, e, t) ==
  /\ t \in Seq(Nat) /\ Len(t) = Len(s) + 1 /\ t[Len(s) + 1] = e
  /\ Range(t) = Range(s) \cup {e} /\ \A k \in 1..Len(s) : t[k] = s[k]

LEMMA AppendIs ==
  ASSUME NEW s \in Seq(Nat), NEW e \in Nat PROVE Appended(s, e, Append(s, e))
<1> DEFINE t == Append(s, e)
<1>1. t \in Seq(Nat) /\ Len(t) = Len(s) + 1 /\ t[Len(s) + 1] = e /\ \A k \in 1..Len(s) : t[k] = s[k]
  OBVIOUS
<1>2. Range(t) = Range(s) \cup {e}
  <2> DEFINE S == Nat
  <2>1. s \in Seq(S) /\ e \in S
    OBVIOUS
  <2> HIDE DEF S
  <2> QED
    BY <2>1, AppendRange
<1> HIDE DEF t
<1>3. Appended(s, e, t)
  BY <1>1, <1>2 DEF Appended
<1> QED
  BY <1>3 DEF t

--------------------------------------------------------------------------------
(* The graph.  It only grows: an id keeps its meaning.                     *)

Extended(g, h) ==
  /\ DOMAIN g.accesses \subseteq DOMAIN h.accesses
  /\ \A i \in DOMAIN g.accesses : h.accesses[i] = g.accesses[i]
  /\ DOMAIN g.accessSets \subseteq DOMAIN h.accessSets
  /\ \A i \in DOMAIN g.accessSets : h.accessSets[i] = g.accessSets[i]

LEMMA ExtendedRefl == ASSUME NEW g PROVE Extended(g, g)
BY DEF Extended

LEMMA ExtendedTrans ==
  ASSUME NEW g, NEW h, NEW k, Extended(g, h), Extended(h, k) PROVE Extended(g, k)
BY DEF Extended

LEMMA GraphType ==
  ASSUME NEW g, GraphInv(g)
  PROVE  /\ Len(g.accesses) \in Nat /\ DOMAIN g.accesses = 1..Len(g.accesses)
         /\ Len(g.accessSets) \in Nat /\ DOMAIN g.accessSets = 1..Len(g.accessSets)
         /\ DOMAIN g.accesses \subseteq Nat \ {0} /\ DOMAIN g.accessSets \subseteq Nat \ {0}
         /\ \A i \in DOMAIN g.accesses : g.accesses[i] \in Path
BY DEF GraphInv

LEMMA ItemsKnown ==
  ASSUME NEW g, GraphInv(g), NEW id \in SetIds(g)
  PROVE  Items(g, id) \subseteq DOMAIN g.accesses /\ (Items(g, id) = {} <=> id = 0)
BY GraphType DEF GraphInv, Items, SetIds

LEMMA ItemsExtended ==
  ASSUME NEW g, NEW h, GraphInv(g), Extended(g, h), NEW id \in SetIds(g)
  PROVE  id \in SetIds(h) /\ Items(h, id) = Items(g, id)
BY GraphType DEF Extended, Items, SetIds

(* internAccess.                                                           *)
LEMMA InternAccessOK ==
  ASSUME NEW g, GraphInv(g), NEW p \in Path
  PROVE  /\ GraphInv(InternAccess(g, p)) /\ Extended(g, InternAccess(g, p))
         /\ AccessId(InternAccess(g, p), p) \in DOMAIN InternAccess(g, p).accesses
         /\ InternAccess(g, p).accesses[AccessId(InternAccess(g, p), p)] = p
<1> DEFINE h == InternAccess(g, p)
<1>1. CASE \E i \in DOMAIN g.accesses : g.accesses[i] = p
  BY <1>1, ExtendedRefl DEF InternAccess, AccessId
<1>2. CASE ~ \E i \in DOMAIN g.accesses : g.accesses[i] = p
  <2>1. /\ h.accesses = Append(g.accesses, p) /\ h.accessSets = g.accessSets /\ h.inputKeys = g.inputKeys
        /\ h = [accesses |-> h.accesses, accessSets |-> h.accessSets, inputKeys |-> h.inputKeys]
    BY <1>2 DEF InternAccess, GraphInv
  <2> HIDE DEF h
  <2>2. /\ h.accesses \in Seq(Path) /\ DOMAIN h.accesses = 1..(Len(g.accesses) + 1)
        /\ \A i \in DOMAIN g.accesses : h.accesses[i] = g.accesses[i]
        /\ h.accesses[Len(g.accesses) + 1] = p /\ DOMAIN g.accesses = 1..Len(g.accesses)
        /\ Len(g.accesses) \in Nat
    BY <2>1 DEF GraphInv
  <2>3. Extended(g, h)
    BY <2>1, <2>2 DEF Extended
  <2>4. \A i, j \in DOMAIN h.accesses : h.accesses[i] = h.accesses[j] => i = j
    BY <1>2, <2>2, SMTT(30) DEF GraphInv
  <2>5. \A id : Items(h, id) = Items(g, id)
    BY <2>1 DEF Items
  <2>6. GraphInv(h)
    BY <2>1, <2>2, <2>4, <2>5 DEF GraphInv
  <2>7. \E i \in DOMAIN h.accesses : h.accesses[i] = p
    BY <2>2
  <2>8. AccessId(h, p) \in DOMAIN h.accesses /\ h.accesses[AccessId(h, p)] = p
    BY <2>7 DEF AccessId
  <2> QED
    BY <2>3, <2>6, <2>8 DEF h
<1> QED
  BY <1>1, <1>2

(* A set of items is interned, under an id of its own.                     *)
LEMMA InternItemsOK ==
  ASSUME NEW g, GraphInv(g), NEW items \in SUBSET DOMAIN g.accesses
  PROVE  LET h == InternItems(g, items)
             id == ItemsId(h, items)
         IN  /\ GraphInv(h) /\ Extended(g, h) /\ id \in SetIds(h) /\ Items(h, id) = items
             /\ h.inputKeys = g.inputKeys /\ h.accesses = g.accesses
<1> DEFINE h == InternItems(g, items)
           id == ItemsId(h, items)
<1>1. CASE items = {}
  BY <1>1, ExtendedRefl DEF InternItems, ItemsId, Items, SetIds
<1>2. CASE items # {} /\ \E i \in DOMAIN g.accessSets : g.accessSets[i] = items
  <2>1. h = g
    BY <1>2 DEF InternItems
  <2>2. id \in DOMAIN g.accessSets /\ g.accessSets[id] = items
    BY <1>2, <2>1 DEF ItemsId
  <2> QED
    BY <2>1, <2>2, ExtendedRefl, GraphType DEF Items, SetIds
<1>3. CASE items # {} /\ ~ \E i \in DOMAIN g.accessSets : g.accessSets[i] = items
  <2>1. /\ h.accessSets = Append(g.accessSets, items) /\ h.accesses = g.accesses /\ h.inputKeys = g.inputKeys
        /\ h = [accesses |-> h.accesses, accessSets |-> h.accessSets, inputKeys |-> h.inputKeys]
    BY <1>3 DEF InternItems, GraphInv
  <2>0. items \in SUBSET Nat
    BY GraphType
  <2> HIDE DEF h
  <2>2. /\ h.accessSets \in Seq(SUBSET Nat) /\ DOMAIN h.accessSets = 1..(Len(g.accessSets) + 1)
        /\ \A i \in DOMAIN g.accessSets : h.accessSets[i] = g.accessSets[i]
        /\ h.accessSets[Len(g.accessSets) + 1] = items /\ DOMAIN g.accessSets = 1..Len(g.accessSets)
        /\ Len(g.accessSets) \in Nat
    BY <2>0, <2>1 DEF GraphInv
  <2>3. Extended(g, h)
    BY <2>1, <2>2 DEF Extended
  <2>4. \A i, j \in DOMAIN h.accessSets : h.accessSets[i] = h.accessSets[j] => i = j
    BY <1>3, <2>2 DEF GraphInv
  <2>5. \A i \in DOMAIN h.accessSets : h.accessSets[i] # {} /\ h.accessSets[i] \subseteq DOMAIN h.accesses
    BY <1>3, <2>1, <2>2 DEF GraphInv
  <2>6. \A i \in SetIds(g) : i \in SetIds(h) /\ Items(h, i) = Items(g, i)
    BY <2>3, ItemsExtended
  <2>7. ASSUME NEW k \in DOMAIN h.inputKeys
        PROVE  /\ k = <<k[1], k[2]>> /\ k[1] \subseteq DOMAIN h.accesses /\ k[2] \subseteq DOMAIN h.accessSets
               /\ h.inputKeys[k] \in {0} \cup DOMAIN h.accessSets
               /\ Items(h, h.inputKeys[k]) = k[1] \cup UNION {Items(h, c) : c \in k[2]}
    <3>1. /\ k = <<k[1], k[2]>> /\ k[1] \subseteq DOMAIN g.accesses /\ k[2] \subseteq DOMAIN g.accessSets
          /\ g.inputKeys[k] \in SetIds(g)
          /\ Items(g, g.inputKeys[k]) = k[1] \cup UNION {Items(g, c) : c \in k[2]}
      BY <2>1, <2>7 DEF GraphInv, SetIds
    <3>2. \A c \in k[2] : Items(h, c) = Items(g, c)
      BY <3>1, <2>6 DEF SetIds
    <3>3. {Items(h, c) : c \in k[2]} = {Items(g, c) : c \in k[2]}
      BY <3>2
    <3> QED
      BY <3>1, <3>3, <2>1, <2>2, <2>6 DEF SetIds
  <2>8. GraphInv(h)
    BY <2>1, <2>2, <2>4, <2>5, <2>7 DEF GraphInv
  <2>9. id \in DOMAIN h.accessSets /\ h.accessSets[id] = items
    BY <1>3, <2>2 DEF ItemsId
  <2>10. Items(h, id) = items
    BY <2>9, <2>8, GraphType DEF Items
  <2> QED
    BY <2>1, <2>3, <2>8, <2>9, <2>10 DEF h, SetIds
<1> QED
  BY <1>1, <1>2, <1>3

(* The memo of inputs, at its limit or not.                                *)
LEMMA RememberOK ==
  ASSUME NEW g, GraphInv(g), NEW d \in SUBSET DOMAIN g.accesses, NEW c \in SUBSET DOMAIN g.accessSets,
         NEW id \in SetIds(g), Items(g, id) = d \cup UNION {Items(g, e) : e \in c}
  PROVE  LET h == RememberInputKey(g, <<d, c>>, id) IN
           GraphInv(h) /\ h.accesses = g.accesses /\ h.accessSets = g.accessSets
<1> DEFINE h == RememberInputKey(g, <<d, c>>, id)
<1>1. CASE h = g
  BY <1>1
<1>2. CASE h # g
  <2>1. h = [g EXCEPT !.inputKeys = [k \in DOMAIN @ \cup {<<d, c>>} |-> IF k = <<d, c>> THEN id ELSE @[k]]]
    BY <1>2 DEF RememberInputKey
  <2>2. /\ h.accesses = g.accesses /\ h.accessSets = g.accessSets
        /\ h.inputKeys = [k \in DOMAIN g.inputKeys \cup {<<d, c>>} |-> IF k = <<d, c>> THEN id ELSE g.inputKeys[k]]
        /\ h = [accesses |-> h.accesses, accessSets |-> h.accessSets, inputKeys |-> h.inputKeys]
    BY <2>1 DEF GraphInv
  <2> HIDE DEF h
  <2>3. \A i : Items(h, i) = Items(g, i)
    BY <2>2 DEF Items
  <2>4. ASSUME NEW k \in DOMAIN h.inputKeys
        PROVE  /\ k = <<k[1], k[2]>> /\ k[1] \subseteq DOMAIN h.accesses /\ k[2] \subseteq DOMAIN h.accessSets
               /\ h.inputKeys[k] \in {0} \cup DOMAIN h.accessSets
               /\ Items(h, h.inputKeys[k]) = k[1] \cup UNION {Items(h, e) : e \in k[2]}
    <3>1. CASE k = <<d, c>>
      <4>1. k[1] = d /\ k[2] = c /\ h.inputKeys[k] = id
        BY <3>1, <2>2
      <4>2. {Items(h, e) : e \in k[2]} = {Items(g, e) : e \in c}
        BY <4>1, <2>3
      <4> QED
        BY <3>1, <4>1, <4>2, <2>2, <2>3 DEF SetIds
    <3>2. CASE k # <<d, c>>
      <4>1. k \in DOMAIN g.inputKeys /\ h.inputKeys[k] = g.inputKeys[k]
        BY <3>2, <2>2
      <4>2. {Items(h, e) : e \in k[2]} = {Items(g, e) : e \in k[2]}
        BY <2>3
      <4> QED
        BY <4>1, <4>2, <2>2, <2>3 DEF GraphInv
    <3> QED
      BY <3>1, <3>2
  <2>5. h.inputKeys = [k \in DOMAIN h.inputKeys |-> h.inputKeys[k]]
    BY <2>2
  <2>6. GraphInv(h)
    BY <2>2, <2>4, <2>5 DEF GraphInv
  <2> QED
    BY <2>2, <2>6 DEF h
<1> QED
  BY <1>1, <1>2

(* internAccessSet: its answer is the union of its arguments, whichever of *)
(* its shortcuts gives it.                                                 *)
LEMMA InternAccessSetOK ==
  ASSUME NEW g, GraphInv(g), NEW ds \in Seq(Nat), NEW cs \in Seq(Nat),
         Range(ds) \subseteq DOMAIN g.accesses, Range(cs) \subseteq DOMAIN g.accessSets
  PROVE  LET r == InternAccessSet(g, ds, cs) IN
           /\ GraphInv(r.graph) /\ Extended(g, r.graph) /\ r.id \in SetIds(r.graph)
           /\ Items(r.graph, r.id) = Range(ds) \cup UNION {Items(g, c) : c \in Range(cs)}
<1> DEFINE direct == Range(ds)
           children == Range(cs)
           key == InputKey(direct, children)
           items == direct \cup UNION {Items(g, c) : c \in children}
           interned == InternItems(g, items)
           id == ItemsId(interned, items)
           r == InternAccessSet(g, ds, cs)
<1>1. \A c \in children : Items(g, c) \subseteq DOMAIN g.accesses
  BY ItemsKnown DEF SetIds
<1>2. items \in SUBSET DOMAIN g.accesses
  BY <1>1
<1>3. /\ GraphInv(interned) /\ Extended(g, interned) /\ id \in SetIds(interned) /\ Items(interned, id) = items
      /\ interned.inputKeys = g.inputKeys /\ interned.accesses = g.accesses
  BY <1>2, InternItemsOK
<1>4. key = <<direct, children>>
  BY DEF InputKey
<1> HIDE DEF direct, children, items, interned, id, key
<1>5. CASE direct = {} /\ children = {}
  <2>1. r = [graph |-> g, id |-> 0]
    BY <1>5 DEF InternAccessSet, direct, children
  <2> QED
    BY <1>5, <2>1, ExtendedRefl DEF Items, SetIds, direct, children
<1>6. CASE direct = {} /\ children # {} /\ Cardinality(children) = 1
  <2>1. r = [graph |-> g, id |-> CHOOSE c \in children : TRUE]
    BY <1>6 DEF InternAccessSet, direct, children
  <2>2. IsFiniteSet(children)
    BY RangeFinite DEF children
  <2>3. PICK x : children = {x}
    BY <1>6, <2>2, FS_Singleton
  <2>4. r.graph = g /\ r.id = x
    BY <2>1, <2>3
  <2>5. x \in SetIds(g)
    BY <2>3 DEF SetIds, children
  <2>6. direct \cup UNION {Items(g, c) : c \in children} = Items(g, x)
    BY <1>6, <2>3
  <2> QED
    BY <2>4, <2>5, <2>6, ExtendedRefl DEF direct, children
<1>7. CASE ~(direct = {} /\ children = {}) /\ ~(direct = {} /\ Cardinality(children) = 1)
           /\ children = {} /\ Cardinality(direct) = 1
  <2>1. r = [graph |-> interned, id |-> id]
    BY <1>7 DEF InternAccessSet, direct, children, interned, id, items
  <2> QED
    BY <1>3, <2>1 DEF items, direct, children
<1>8. CASE ~(direct = {} /\ children = {}) /\ ~(direct = {} /\ Cardinality(children) = 1)
           /\ ~(children = {} /\ Cardinality(direct) = 1) /\ key \in DOMAIN g.inputKeys
  <2>1. r = [graph |-> g, id |-> g.inputKeys[key]]
    BY <1>8 DEF InternAccessSet, direct, children, key
  <2>2. key[1] = direct /\ key[2] = children
    BY <1>4
  <2> QED
    BY <1>8, <2>1, <2>2, ExtendedRefl DEF GraphInv, SetIds, direct, children
<1>9. CASE ~(direct = {} /\ children = {}) /\ ~(direct = {} /\ Cardinality(children) = 1)
           /\ ~(children = {} /\ Cardinality(direct) = 1) /\ key \notin DOMAIN g.inputKeys
  <2> DEFINE h == RememberInputKey(interned, key, id)
  <2>1. r = [graph |-> h, id |-> id]
    BY <1>9 DEF InternAccessSet, direct, children, interned, id, items, key
  <2>2. direct \in SUBSET DOMAIN interned.accesses
    BY <1>3 DEF direct
  <2>3. children \in SUBSET DOMAIN interned.accessSets
    BY <1>3 DEF children, Extended
  <2>4. \A c \in children : Items(interned, c) = Items(g, c)
    <3>1. children \subseteq SetIds(g)
      BY DEF children, SetIds
    <3> QED
      BY <3>1, <1>3, ItemsExtended
  <2>5. Items(interned, id) = direct \cup UNION {Items(interned, c) : c \in children}
    BY <1>3, <2>4 DEF items
  <2>6. GraphInv(h) /\ h.accesses = interned.accesses /\ h.accessSets = interned.accessSets
    BY <1>3, <1>4, <2>2, <2>3, <2>5, RememberOK
  <2>7. Items(h, id) = items /\ id \in SetIds(h) /\ Extended(g, h)
    BY <1>3, <2>6 DEF Items, SetIds, Extended
  <2> QED
    BY <2>1, <2>6, <2>7 DEF items, direct, children
<1> QED
  BY <1>5, <1>6, <1>7, <1>8, <1>9

Union(g, ds, cs) == Range(ds) \cup UNION {Items(g, c) : c \in Range(cs)}

LEMMA InternUnion ==
  ASSUME NEW g, GraphInv(g), NEW ds \in Seq(Nat), NEW cs \in Seq(Nat),
         Range(ds) \subseteq DOMAIN g.accesses, Range(cs) \subseteq DOMAIN g.accessSets,
         NEW r, r = InternAccessSet(g, ds, cs)
  PROVE  /\ GraphInv(r.graph) /\ Extended(g, r.graph) /\ r.id \in SetIds(r.graph)
         /\ Items(r.graph, r.id) = Union(g, ds, cs)
BY InternAccessSetOK DEF Union

(* The paths of ids.                                                       *)
LEMMA PathsOfItems ==
  ASSUME NEW g, NEW id PROVE PathsOf(g, id) = {g.accesses[a] : a \in Items(g, id)}
BY DEF PathsOf, Flatten

LEMMA PathsOfType ==
  ASSUME NEW g, GraphInv(g), NEW id \in SetIds(g)
  PROVE  PathsOf(g, id) \subseteq Path /\ (PathsOf(g, id) = {} <=> id = 0)
<1>1. Items(g, id) \subseteq DOMAIN g.accesses /\ (Items(g, id) = {} <=> id = 0)
  BY ItemsKnown
<1>2. PathsOf(g, id) = {g.accesses[a] : a \in Items(g, id)}
  BY PathsOfItems
<1>3. \A a \in Items(g, id) : g.accesses[a] \in Path
  BY <1>1, GraphType
<1> QED
  BY <1>1, <1>2, <1>3

LEMMA FlattenExtended ==
  ASSUME NEW g, NEW h, GraphInv(g), Extended(g, h),
         NEW A \in SUBSET DOMAIN g.accesses, NEW C \in SUBSET SetIds(g)
  PROVE  Flatten(h, A, C) = Flatten(g, A, C) /\ Flatten(g, A, C) \subseteq Path
<1>1. \A c \in C : Items(h, c) = Items(g, c) /\ Items(g, c) \subseteq DOMAIN g.accesses
  BY ItemsExtended, ItemsKnown
<1>2. {Items(h, c) : c \in C} = {Items(g, c) : c \in C}
  BY <1>1
<1> DEFINE I == A \cup UNION {Items(g, c) : c \in C}
<1>3. I \subseteq DOMAIN g.accesses
  BY <1>1
<1>4. Flatten(h, A, C) = {h.accesses[a] : a \in I} /\ Flatten(g, A, C) = {g.accesses[a] : a \in I}
  BY <1>2 DEF Flatten
<1> HIDE DEF I
<1>5. \A a \in I : h.accesses[a] = g.accesses[a] /\ g.accesses[a] \in Path
  BY <1>3, GraphType DEF Extended
<1> QED
  BY <1>4, <1>5

LEMMA PathsOfExtended ==
  ASSUME NEW g, NEW h, GraphInv(g), Extended(g, h), NEW id \in SetIds(g)
  PROVE  PathsOf(h, id) = PathsOf(g, id)
BY FlattenExtended DEF PathsOf

LEMMA FlattenUnion ==
  ASSUME NEW g, NEW A, NEW B, NEW C, NEW D
  PROVE  Flatten(g, A \cup B, C \cup D) = Flatten(g, A, C) \cup Flatten(g, B, D)
BY DEF Flatten

(* What another evaluation hands over is the set it read.                  *)
LEMMA InternPathsOK ==
  ASSUME NEW g, GraphInv(g), NEW S \in SUBSET Path, IsFiniteSet(S)
  PROVE  LET r == InternPaths(g, S) IN
           /\ GraphInv(r.graph) /\ Extended(g, r.graph) /\ r.id \in SetIds(r.graph)
           /\ PathsOf(r.graph, r.id) = S
<1> DEFINE new == SetToSeq(S \ Range(g.accesses))
           h == [g EXCEPT !.accesses = @ \o new]
           A == {AccessId(h, p) : p \in S}
           r == InternAccessSet(h, SetToSeq(A), <<>>)
<1>1. r = InternPaths(g, S)
  BY DEF InternPaths
<1>2. IsFiniteSet(S \ Range(g.accesses))
  BY FS_Subset
<1>3. /\ new \in Seq(S \ Range(g.accesses)) /\ Range(new) = S \ Range(g.accesses)
      /\ \A i, j \in DOMAIN new : new[i] = new[j] => i = j
  BY <1>2, SetToSeqRange
<1> HIDE DEF new
<1>4. ASSUME NEW x
      PROVE  /\ [g EXCEPT !.accesses = x].accesses = x /\ [g EXCEPT !.accesses = x].accessSets = g.accessSets
             /\ [g EXCEPT !.accesses = x].inputKeys = g.inputKeys
             /\ [g EXCEPT !.accesses = x] = [accesses |-> x, accessSets |-> g.accessSets, inputKeys |-> g.inputKeys]
  BY DEF GraphInv
<1>5. /\ h.accesses = g.accesses \o new /\ h.accessSets = g.accessSets /\ h.inputKeys = g.inputKeys
      /\ h = [accesses |-> h.accesses, accessSets |-> h.accessSets, inputKeys |-> h.inputKeys]
  BY <1>4, Zenon
<1>6. /\ g.accesses \in Seq(Path) /\ new \in Seq(Path)
      /\ \A i, j \in DOMAIN g.accesses : g.accesses[i] = g.accesses[j] => i = j
  BY <1>3 DEF GraphInv
<1>7. \A i \in DOMAIN g.accesses, j \in DOMAIN new : g.accesses[i] # new[j]
  BY <1>3, Zenon DEF Range
<1>8. /\ h.accesses \in Seq(Path) /\ DOMAIN g.accesses \subseteq DOMAIN h.accesses
      /\ \A i \in DOMAIN g.accesses : h.accesses[i] = g.accesses[i]
      /\ \A j \in DOMAIN new : \E i \in DOMAIN h.accesses : h.accesses[i] = new[j]
      /\ \A i, j \in DOMAIN h.accesses : h.accesses[i] = h.accesses[j] => i = j
  <2> HIDE DEF h
  <2>1. Distinct(g.accesses) /\ Distinct(new) /\ Apart(g.accesses, new)
    BY <1>3, <1>6, <1>7 DEF Distinct, Apart
  <2>2. h.accesses \in Seq(Path) /\ Joined(g.accesses, new, h.accesses) /\ Distinct(h.accesses)
    BY <1>5, <1>6, <2>1, ConcatDistinct
  <2> QED
    BY <2>2 DEF Joined, Distinct
<1> HIDE DEF h
<1>9. Extended(g, h)
  BY <1>5, <1>8 DEF Extended
<1>10. \A id : Items(h, id) = Items(g, id)
  BY <1>5 DEF Items
<1>11. GraphInv(h)
  <2>1. \A i \in DOMAIN h.accessSets : h.accessSets[i] # {} /\ h.accessSets[i] \subseteq DOMAIN h.accesses
    BY <1>5, <1>8 DEF GraphInv
  <2>2. \A k \in DOMAIN h.inputKeys :
          /\ k = <<k[1], k[2]>> /\ k[1] \subseteq DOMAIN h.accesses /\ k[2] \subseteq DOMAIN h.accessSets
          /\ h.inputKeys[k] \in {0} \cup DOMAIN h.accessSets
          /\ Items(h, h.inputKeys[k]) = k[1] \cup UNION {Items(h, c) : c \in k[2]}
    BY <1>5, <1>8, <1>10 DEF GraphInv
  <2> QED
    BY <1>5, <1>8, <2>1, <2>2 DEF GraphInv
<1>12. \A p \in S : \E i \in DOMAIN h.accesses : h.accesses[i] = p
  <2> SUFFICES ASSUME NEW p \in S PROVE \E i \in DOMAIN h.accesses : h.accesses[i] = p
    OBVIOUS
  <2>1. CASE p \in Range(g.accesses)
    BY <2>1, <1>8 DEF Range
  <2>2. CASE p \notin Range(g.accesses)
    <3>1. PICK j \in DOMAIN new : new[j] = p
      BY <2>2, <1>3 DEF Range
    <3> QED
      BY <3>1, <1>8
  <2> QED
    BY <2>1, <2>2
<1>13. \A p \in S : AccessId(h, p) \in DOMAIN h.accesses /\ h.accesses[AccessId(h, p)] = p
  BY <1>12 DEF AccessId
<1>14. A \subseteq DOMAIN h.accesses /\ {h.accesses[a] : a \in A} = S
  BY <1>13
<1>15. IsFiniteSet(A)
  <2>1. [p \in S |-> AccessId(h, p)] \in Surjection(S, A)
    BY DEF Surjection
  <2> QED
    BY <2>1, FS_Surjection
<1>16. SetToSeq(A) \in Seq(A) /\ Range(SetToSeq(A)) = A
  BY <1>15, SetToSeqRange
<1>17. A \subseteq Nat
  BY <1>14, <1>11, GraphType
<1> HIDE DEF A
<1>18. SetToSeq(A) \in Seq(Nat) /\ <<>> \in Seq(Nat) /\ Range(<<>>) = {}
  <2>1. SetToSeq(A) \in Seq(Nat)
    BY <1>16, <1>17, SeqMonotonic
  <2>2. DOMAIN <<>> = {} /\ <<>> \in Seq(Nat)
    OBVIOUS
  <2> QED
    BY <2>1, <2>2 DEF Range
<1>19. /\ GraphInv(r.graph) /\ Extended(h, r.graph) /\ r.id \in SetIds(r.graph)
       /\ Items(r.graph, r.id) = A
  <2>1. Range(SetToSeq(A)) \subseteq DOMAIN h.accesses /\ Range(<<>>) \subseteq DOMAIN h.accessSets
    BY <1>14, <1>16, <1>18
  <2>2. /\ GraphInv(r.graph) /\ Extended(h, r.graph) /\ r.id \in SetIds(r.graph)
        /\ Items(r.graph, r.id) = Range(SetToSeq(A)) \cup UNION {Items(h, c) : c \in Range(<<>>)}
    BY <2>1, <1>11, <1>18, InternAccessSetOK
  <2>3. UNION {Items(h, c) : c \in Range(<<>>)} = {}
    BY <1>18
  <2> QED
    BY <2>2, <2>3, <1>16
<1> HIDE DEF r
<1>20. \A a \in A : r.graph.accesses[a] = h.accesses[a]
  BY <1>14, <1>19 DEF Extended
<1>21. PathsOf(r.graph, r.id) = S
  BY <1>14, <1>19, <1>20, PathsOfItems
<1> QED
  BY <1>1, <1>9, <1>19, <1>21, ExtendedTrans

--------------------------------------------------------------------------------
(* Slices of a stack.                                                      *)

LEMMA SliceSuffix ==
  ASSUME NEW s \in Seq(Nat), NEW m \in Nat
  PROVE  /\ SubSeq(s, m + 1, Len(s)) \in Seq(Nat)
         /\ Range(SubSeq(s, m + 1, Len(s))) = Slice(s, m, Len(s))
         /\ SubSeq(s, m + 1, Len(s)) # <<>> <=> m < Len(s)
<1> DEFINE t == SubSeq(s, m + 1, Len(s))
<1>1. PICK n \in Nat : n = Len(s)
  OBVIOUS
<1>2. DOMAIN s = 1..n /\ \A k \in 1..n : s[k] \in Nat
  BY <1>1
<1>3. CASE m < n
  <2>1. m + 1 \in 1..(n + 1) /\ n \in m..n
    BY <1>3
  <2>2. t \in Seq(Nat) /\ Len(t) = n - m /\ \A k \in 1..(n - m) : t[k] = s[m + k]
    <3>1. t = SubSeq(s, m + 1, n)
      BY <1>1
    <3>2. \A i \in (m + 1)..n : s[i] \in Nat
      BY <1>2
    <3>3. SubSeq(s, m + 1, n) \in Seq(Nat) /\ Len(SubSeq(s, m + 1, n)) = n - (m + 1) + 1
      BY <1>1, <1>3, <2>1, SubSeqProperties
    <3>4. \A k \in 1..(n - m) : SubSeq(s, m + 1, n)[k] = s[(m + 1) + k - 1]
      BY <1>1, <1>3, <2>1, SubSeqProperties
    <3>5. \A k \in 1..(n - m) : (m + 1) + k - 1 = m + k
      OBVIOUS
    <3> QED
      BY <3>1, <3>3, <3>4, <3>5
  <2>3. DOMAIN t = 1..(n - m)
    BY <2>2
  <2> HIDE DEF t
  <2>4. Range(t) = {s[m + k] : k \in 1..(n - m)}
    BY <2>2, <2>3 DEF Range
  <2>5. \A x : x \in Slice(s, m, n) <=> \E k \in (m + 1)..n : x = s[k]
    BY DEF Slice
  <2>6. \A k \in 1..(n - m) : m + k \in (m + 1)..n
    BY <1>3
  <2>7. \A k \in (m + 1)..n : k - m \in 1..(n - m) /\ m + (k - m) = k
    BY <1>3
  <2>8. Range(t) = Slice(s, m, n)
    <3>1. \A x \in Range(t) : x \in Slice(s, m, n)
      BY <2>4, <2>5, <2>6
    <3>2. ASSUME NEW x \in Slice(s, m, n) PROVE x \in Range(t)
      <4>1. PICK k \in (m + 1)..n : x = s[k]
        BY <2>5
      <4>2. x = s[m + (k - m)] /\ k - m \in 1..(n - m)
        BY <4>1, <2>7
      <4> QED
        BY <4>2, <2>4
    <3> QED
      BY <3>1, <3>2
  <2>9. t # <<>>
    BY <2>2, <1>3
  <2> QED
    BY <1>1, <1>3, <2>2, <2>8, <2>9 DEF t
<1>4. CASE ~(m < n)
  <2>1. t = <<>>
    BY <1>1, <1>4
  <2>2. (m + 1)..n = {}
    BY <1>4
  <2>3. DOMAIN <<>> = {} /\ <<>> \in Seq(Nat)
    OBVIOUS
  <2> QED
    BY <1>1, <1>4, <2>1, <2>2, <2>3 DEF Slice, Range
<1> QED
  BY <1>3, <1>4

LEMMA SliceJoin ==
  ASSUME NEW s, NEW a \in Nat, NEW b \in Nat, NEW c \in Nat, a <= b, b <= c
  PROVE  Slice(s, a, b) \cup Slice(s, b, c) = Slice(s, a, c)
<1>1. (a + 1)..c = ((a + 1)..b) \cup ((b + 1)..c)
  OBVIOUS
<1> QED
  BY <1>1 DEF Slice

LEMMA SliceEmpty ==
  ASSUME NEW s, NEW a \in Nat, NEW b \in Nat, b <= a PROVE Slice(s, a, b) = {}
<1>1. (a + 1)..b = {}
  OBVIOUS
<1> QED
  BY <1>1 DEF Slice

LEMMA SliceKnown ==
  ASSUME NEW s \in Seq(Nat), NEW a \in Nat, NEW b \in Nat, b <= Len(s)
  PROVE  Slice(s, a, b) \subseteq Range(s)
BY DEF Slice, Range

LEMMA SliceSame ==
  ASSUME NEW s, NEW t, NEW a \in Nat, NEW b \in Nat, \A k \in (a + 1)..b : t[k] = s[k]
  PROVE  Slice(t, a, b) = Slice(s, a, b)
BY DEF Slice

LEMMA SliceAppend ==
  ASSUME NEW s \in Seq(Nat), NEW e \in Nat, NEW a \in Nat
  PROVE  /\ \A b \in Nat : b <= Len(s) => Slice(Append(s, e), a, b) = Slice(s, a, b)
         /\ a <= Len(s) => Slice(Append(s, e), a, Len(s) + 1) = Slice(s, a, Len(s)) \cup {e}
<1>1. ASSUME NEW b \in Nat, b <= Len(s) PROVE Slice(Append(s, e), a, b) = Slice(s, a, b)
  <2>1. \A k \in (a + 1)..b : Append(s, e)[k] = s[k]
    BY <1>1
  <2> QED
    BY <2>1, SliceSame, ZenonT(60)
<1>2. ASSUME a <= Len(s) PROVE Slice(Append(s, e), a, Len(s) + 1) = Slice(s, a, Len(s)) \cup {e}
  <2> DEFINE n == Len(s)
             t == Append(s, e)
  <2>1. n \in Nat /\ a <= n /\ n <= n + 1 /\ t[n + 1] = e
    BY <1>2
  <2>2. Slice(t, n, n + 1) = {t[n + 1]}
    <3>1. (n + 1)..(n + 1) = {n + 1}
      BY <2>1
    <3> QED
      BY <3>1 DEF Slice
  <2>3. Slice(t, a, n) \cup Slice(t, n, n + 1) = Slice(t, a, n + 1)
    BY <2>1, SliceJoin
  <2> QED
    BY <1>1, <2>1, <2>2, <2>3
<1> QED
  BY <1>1, <1>2

LEMMA ShorterIs ==
  ASSUME NEW s \in Seq(Nat), NEW m \in Nat
  PROVE  /\ Shorter(s, m) \in Seq(Nat) /\ Len(Shorter(s, m)) = IF Len(s) > m THEN m ELSE Len(s)
         /\ \A k \in 1..Len(Shorter(s, m)) : Shorter(s, m)[k] = s[k]
         /\ Len(s) <= m => Shorter(s, m) = s
         /\ Range(Shorter(s, m)) \subseteq Range(s)
<1> DEFINE n == IF Len(s) > m THEN m ELSE Len(s)
           t == SubSeq(s, 1, n)
<1>1. n \in Nat /\ n <= Len(s)
  OBVIOUS
<1>2. t \in Seq(Nat) /\ Len(t) = n /\ \A k \in 1..n : t[k] = s[k]
  BY <1>1
<1>3. n = Len(s) => t = s
  BY <1>1, <1>2
<1>4. DOMAIN t = 1..n /\ DOMAIN s = 1..Len(s)
  BY <1>2
<1>5. Range(t) \subseteq Range(s)
  BY <1>1, <1>2, <1>4 DEF Range
<1> QED
  BY <1>2, <1>3, <1>5 DEF Shorter

LEMMA SliceShorter ==
  ASSUME NEW s \in Seq(Nat), NEW m \in Nat, NEW a \in Nat, NEW b \in Nat, b <= m, b <= Len(s)
  PROVE  Slice(Shorter(s, m), a, b) = Slice(s, a, b)
<1>1. \A k \in (a + 1)..b : Shorter(s, m)[k] = s[k]
  BY ShorterIs
<1> QED
  BY <1>1, SliceSame

--------------------------------------------------------------------------------
(* What each operation makes of a context.                                 *)

LEMMA CtxFacts ==
  ASSUME NEW c, CtxType(c)
  PROVE  /\ Len(c.frames) \in Nat \ {0} /\ DOMAIN c.frames = 1..Len(c.frames)
         /\ Len(c.access) \in Nat /\ Len(c.child) \in Nat
         /\ c.access \in Seq(Nat) /\ c.child \in Seq(Nat) /\ c.frames \in Seq(FrameType)
         /\ \A i \in 1..Len(c.frames) :
              /\ c.frames[i] \in FrameType /\ c.frames[i].published \in BOOLEAN
              /\ c.frames[i].accessBase \in Nat /\ c.frames[i].childBase \in Nat
              /\ c.frames[i].tmp \in Nat
<1>1. c.frames \in Seq(FrameType) /\ c.access \in Seq(Nat) /\ c.child \in Seq(Nat) /\ Len(c.frames) > 0
  BY DEF CtxType
<1>2. /\ Len(c.frames) \in Nat \ {0} /\ DOMAIN c.frames = 1..Len(c.frames)
      /\ Len(c.access) \in Nat /\ Len(c.child) \in Nat
      /\ \A i \in 1..Len(c.frames) : c.frames[i] \in FrameType
  BY <1>1
<1>3. \A f \in FrameType :
        f.published \in BOOLEAN /\ f.accessBase \in Nat /\ f.childBase \in Nat /\ f.tmp \in Nat
  BY DEF FrameType
<1> QED
  BY <1>1, <1>2, <1>3

LEMMA CtxWith ==
  ASSUME NEW c, CtxType(c), NEW x
  PROVE  /\ [c EXCEPT !.access = x] = [access |-> x, child |-> c.child, frames |-> c.frames]
         /\ [c EXCEPT !.child = x] = [access |-> c.access, child |-> x, frames |-> c.frames]
         /\ [c EXCEPT !.frames = x] = [access |-> c.access, child |-> c.child, frames |-> x]
<1> DEFINE a == c.access
           h == c.child
           fs == c.frames
<1>1. c = [access |-> a, child |-> h, frames |-> fs]
  BY DEF CtxType
<1> HIDE DEF a, h, fs
<1>2. [c EXCEPT !.access = x] = [access |-> x, child |-> h, frames |-> fs]
  BY <1>1
<1>3. [c EXCEPT !.child = x] = [access |-> a, child |-> x, frames |-> fs]
  BY <1>1
<1>4. [c EXCEPT !.frames = x] = [access |-> a, child |-> h, frames |-> x]
  BY <1>1
<1> QED
  BY <1>2, <1>3, <1>4, Zenon DEF a, h, fs

LEMMA CtxMade ==
  ASSUME NEW a \in Seq(Nat), NEW h \in Seq(Nat), NEW fs \in Seq(FrameType), Len(fs) > 0
  PROVE  LET c == [access |-> a, child |-> h, frames |-> fs] IN
           CtxType(c) /\ c.access = a /\ c.child = h /\ c.frames = fs
BY DEF CtxType

LEMMA FrameSet ==
  ASSUME NEW c, CtxType(c), NEW i \in 1..Len(c.frames), NEW f \in FrameType
  PROVE  LET fs == [c.frames EXCEPT ![i] = f] IN
           /\ fs \in Seq(FrameType) /\ Len(fs) = Len(c.frames) /\ DOMAIN fs = 1..Len(c.frames)
           /\ \A j \in 1..Len(c.frames) : fs[j] = IF j = i THEN f ELSE c.frames[j]
BY CtxFacts

Ats == {"body", "parse", "called", "resolved", "needs", "forced", "resolving", "returned"}
Args == Value \cup {None}
Callees == {"force", "wrap", "file", "resolve", "memo"}

(* A frame whose code goes on at `at'.                                     *)
GoesOn(f, at, arg, tmp) == [f EXCEPT !.at = at, !.arg = arg, !.tmp = tmp]

(* Frames that differ in where their code is only.                         *)
Alike(h, f) ==
  /\ h.role = f.role /\ h.value = f.value /\ h.published = f.published
  /\ h.accessBase = f.accessBase /\ h.childBase = f.childBase

LEMMA GoesOnIs ==
  ASSUME NEW f \in FrameType, NEW at \in Ats, NEW arg \in Args, NEW tmp \in Nat
  PROVE  LET h == GoesOn(f, at, arg, tmp) IN
           h \in FrameType /\ Alike(h, f) /\ h.at = at /\ h.arg = arg /\ h.tmp = tmp
BY DEF GoesOn, Alike, FrameType, Ats, Args

LEMMA GoesIs ==
  ASSUME NEW c, CtxType(c), NEW n, n = Len(c.frames), NEW at \in Ats, NEW arg \in Args, NEW tmp \in Nat
  PROVE  LET d == Goes(c, at, arg, tmp) IN
           /\ CtxType(d) /\ d.access = c.access /\ d.child = c.child /\ Len(d.frames) = n
           /\ \A j \in 1..n : j < n => d.frames[j] = c.frames[j]
           /\ d.frames[n] = GoesOn(c.frames[n], at, arg, tmp)
<1> DEFINE f == GoesOn(c.frames[n], at, arg, tmp)
           fs == [c.frames EXCEPT ![n] = f]
           d == Goes(c, at, arg, tmp)
<1>1. c.frames[n] \in FrameType /\ n \in 1..n /\ n \in Nat
  BY CtxFacts
<1>2. f \in FrameType
  BY <1>1, GoesOnIs
<1>3. d = [access |-> c.access, child |-> c.child, frames |-> fs]
  BY CtxWith, Zenon DEF Goes, GoesOn
<1> HIDE DEF f
<1>4. /\ fs \in Seq(FrameType) /\ Len(fs) = n
      /\ \A j \in 1..n : fs[j] = IF j = n THEN f ELSE c.frames[j]
  BY <1>1, <1>2, FrameSet
<1> HIDE DEF fs, d
<1>5. CtxType(d) /\ d.access = c.access /\ d.child = c.child /\ d.frames = fs
  BY <1>1, <1>3, <1>4, CtxFacts, CtxMade
<1> QED
  BY <1>1, <1>4, <1>5 DEF d, f

LEMMA EnterIs ==
  ASSUME NEW c, CtxType(c), NEW role \in Callees, NEW v \in Args, NEW at \in Ats, NEW arg \in Args
  PROVE  LET d == Enter(c, role, v, at, arg)
             n == Len(c.frames)
             f == NewFrame(c, role, v, at, arg)
         IN  /\ CtxType(d) /\ d.access = c.access /\ d.child = c.child
             /\ Len(d.frames) = n + 1
             /\ \A j \in 1..n : d.frames[j] = c.frames[j]
             /\ d.frames[n + 1] = f
             /\ f \in FrameType /\ f.role = role /\ f.value = v /\ f.at = at /\ f.arg = arg /\ f.tmp = 0
             /\ ~f.published /\ f.accessBase = Len(c.access) /\ f.childBase = Len(c.child)
<1> DEFINE f == NewFrame(c, role, v, at, arg)
           fs == Append(c.frames, f)
<1>1. /\ f \in FrameType /\ f.role = role /\ f.value = v /\ f.at = at /\ f.arg = arg /\ f.tmp = 0
      /\ ~f.published /\ f.accessBase = Len(c.access) /\ f.childBase = Len(c.child)
  BY CtxFacts DEF FrameType, Ats, Args, Callees, NewFrame
<1>2. Enter(c, role, v, at, arg) = [access |-> c.access, child |-> c.child, frames |-> fs]
  BY CtxWith, Zenon DEF Enter
<1> HIDE DEF f
<1>3. /\ fs \in Seq(FrameType) /\ Len(fs) = Len(c.frames) + 1
      /\ \A j \in 1..Len(c.frames) : fs[j] = c.frames[j]
      /\ fs[Len(c.frames) + 1] = f
  BY <1>1, CtxFacts
<1> HIDE DEF fs
<1>4. Len(fs) > 0
  BY <1>3, CtxFacts
<1> QED
  BY <1>1, <1>2, <1>3, <1>4, CtxFacts, CtxMade DEF f

(* An entry is added, or is the last one of the frame already.             *)
LEMMA AddFrameAccessIs ==
  ASSUME NEW c, CtxType(c), NEW i \in 1..Len(c.frames), NEW id \in Nat
  PROVE  LET d == AddFrameAccess(c, i, id) IN
           /\ CtxType(d) /\ d.child = c.child /\ d.frames = c.frames
           /\ \/ d.access = Append(c.access, id)
              \/ /\ d.access = c.access /\ c.frames[i].accessBase < Len(c.access)
                 /\ c.access[Len(c.access)] = id
<1> DEFINE d == AddFrameAccess(c, i, id)
<1>1. CASE Direct(c, i) # <<>> /\ Last(c.access) = id
  <2>1. c.frames[i].accessBase < Len(c.access)
    BY <1>1, CtxFacts, SliceSuffix DEF Direct
  <2> QED
    BY <1>1, <2>1 DEF AddFrameAccess, Last
<1>2. CASE ~(Direct(c, i) # <<>> /\ Last(c.access) = id)
  <2>1. d = [access |-> Append(c.access, id), child |-> c.child, frames |-> c.frames]
    BY <1>2, CtxWith, Zenon DEF AddFrameAccess
  <2>2. Append(c.access, id) \in Seq(Nat) /\ Len(c.frames) > 0
    BY CtxFacts
  <2>3. c.access \in Seq(Nat) /\ c.child \in Seq(Nat) /\ c.frames \in Seq(FrameType)
    BY CtxFacts
  <2>4. CtxType(d) /\ d.access = Append(c.access, id) /\ d.child = c.child /\ d.frames = c.frames
    <3> DEFINE x == Append(c.access, id)
    <3>1. x \in Seq(Nat) /\ d = [access |-> x, child |-> c.child, frames |-> c.frames]
      BY <2>1, <2>2
    <3> HIDE DEF x, d
    <3>2. CtxType(d) /\ d.access = x /\ d.child = c.child /\ d.frames = c.frames
      BY <3>1, <2>2, <2>3, CtxMade
    <3> QED
      BY <3>2 DEF x
  <2> QED
    BY <2>4
<1> QED
  BY <1>1, <1>2

LEMMA AddFrameChildIs ==
  ASSUME NEW c, CtxType(c), NEW i \in 1..Len(c.frames), NEW id \in Nat
  PROVE  LET d == AddFrameChild(c, i, id) IN
           /\ CtxType(d) /\ d.access = c.access /\ d.frames = c.frames
           /\ \/ id = 0 /\ d.child = c.child
              \/ id # 0 /\ d.child = Append(c.child, id)
              \/ /\ id # 0 /\ d.child = c.child /\ c.frames[i].childBase < Len(c.child)
                 /\ c.child[Len(c.child)] = id
<1> DEFINE d == AddFrameChild(c, i, id)
<1>1. CASE id = 0
  BY <1>1 DEF AddFrameChild
<1>2. CASE id # 0 /\ Children(c, i) # <<>> /\ Last(c.child) = id
  <2>1. c.frames[i].childBase < Len(c.child)
    BY <1>2, CtxFacts, SliceSuffix DEF Children
  <2> QED
    BY <1>2, <2>1 DEF AddFrameChild, Last
<1>3. CASE id # 0 /\ ~(Children(c, i) # <<>> /\ Last(c.child) = id)
  <2>1. d = [access |-> c.access, child |-> Append(c.child, id), frames |-> c.frames]
    BY <1>3, CtxWith, Zenon DEF AddFrameChild
  <2>2. Append(c.child, id) \in Seq(Nat) /\ Len(c.frames) > 0
    BY CtxFacts
  <2>3. c.access \in Seq(Nat) /\ c.child \in Seq(Nat) /\ c.frames \in Seq(FrameType)
    BY CtxFacts
  <2>4. CtxType(d) /\ d.access = c.access /\ d.child = Append(c.child, id) /\ d.frames = c.frames
    <3> DEFINE x == Append(c.child, id)
    <3>1. x \in Seq(Nat) /\ d = [access |-> c.access, child |-> x, frames |-> c.frames]
      BY <2>1, <2>2
    <3> HIDE DEF x, d
    <3>2. CtxType(d) /\ d.access = c.access /\ d.child = x /\ d.frames = c.frames
      BY <3>1, <2>2, <2>3, CtxMade
    <3> QED
      BY <3>2 DEF x
  <2> QED
    BY <1>3, <2>4
<1> QED
  BY <1>1, <1>2, <1>3

LEMMA TruncatedIs ==
  ASSUME NEW c, CtxType(c), NEW i \in 1..Len(c.frames)
  PROVE  LET d == Truncated(c, i) IN
           /\ CtxType(d) /\ d.frames = c.frames
           /\ d.access = Shorter(c.access, c.frames[i].accessBase)
           /\ d.child = Shorter(c.child, c.frames[i].childBase)
<1> DEFINE a == Shorter(c.access, c.frames[i].accessBase)
           h == Shorter(c.child, c.frames[i].childBase)
<1>1. Truncated(c, i) = [access |-> a, child |-> h, frames |-> c.frames]
  BY DEF Truncated
<1>2. a \in Seq(Nat) /\ h \in Seq(Nat)
  BY CtxFacts, ShorterIs
<1>3. Len(c.frames) > 0
  BY CtxFacts
<1> HIDE DEF a, h
<1> QED
  BY <1>1, <1>2, <1>3, CtxFacts, CtxMade DEF a, h

(* The frame on top ends.                                                  *)
LEMMA EndedIs ==
  ASSUME NEW c, CtxType(c), Len(c.frames) > 1
  PROVE  LET d == Ended(c)
             n == Len(c.frames)
             t == IF c.frames[n].published THEN Truncated(c, n) ELSE c
         IN  /\ CtxType(d) /\ d.access = t.access /\ d.child = t.child
             /\ Len(d.frames) = n - 1 /\ DOMAIN d.frames = 1..(n - 1)
             /\ \A j \in 1..(n - 1) : d.frames[j] = c.frames[j]
<1> DEFINE n == Len(c.frames)
           t == IF c.frames[n].published THEN Truncated(c, n) ELSE c
           fs == SubSeq(c.frames, 1, n - 1)
<1>1. n \in 1..n /\ n - 1 \in Nat /\ n - 1 > 0 /\ n \in Nat
  BY CtxFacts
<1>2. CtxType(t) /\ t.frames = c.frames
  BY <1>1, TruncatedIs
<1> HIDE DEF t
<1>3. Ended(c) = [access |-> t.access, child |-> t.child, frames |-> fs]
  <2>1. Ended(c) = [t EXCEPT !.frames = SubSeq(@, 1, n - 1)]
    BY DEF Ended, t
  <2>2. Ended(c) = [t EXCEPT !.frames = fs]
    BY <1>2, <2>1
  <2> HIDE DEF fs
  <2> QED
    BY <1>2, <2>2 DEF CtxType
<1>4. fs \in Seq(FrameType) /\ Len(fs) = n - 1 /\ \A j \in 1..(n - 1) : fs[j] = c.frames[j]
  BY <1>1, CtxFacts
<1>5. DOMAIN fs = 1..(n - 1)
  BY <1>4
<1> HIDE DEF fs
<1>6. t.access \in Seq(Nat) /\ t.child \in Seq(Nat)
  BY <1>2, CtxFacts
<1> QED
  BY <1>1, <1>3, <1>4, <1>5, <1>6, CtxMade DEF t

(* The region of frame i becomes one id, an entry of the frame below.      *)
LEMMA CollapseIs ==
  ASSUME NEW c, CtxType(c), NEW i \in 2..Len(c.frames), NEW id \in Nat
  PROVE  LET r == Collapse(c, i, id)
             d == AddFrameChild(Truncated(c, i), i - 1, id)
         IN  /\ CtxType(r) /\ r.access = d.access /\ r.child = d.child
             /\ CtxType(d) /\ d.frames = c.frames
             /\ Len(r.frames) = Len(c.frames) /\ DOMAIN r.frames = DOMAIN c.frames
             /\ \A j \in 1..Len(c.frames) :
                  /\ j # i => r.frames[j] = c.frames[j]
                  /\ r.frames[j].role = c.frames[j].role /\ r.frames[j].value = c.frames[j].value
                  /\ r.frames[j].at = c.frames[j].at /\ r.frames[j].arg = c.frames[j].arg
                  /\ r.frames[j].tmp = c.frames[j].tmp
             /\ r.frames[i].published
             /\ r.frames[i].accessBase = Len(r.access) /\ r.frames[i].childBase = Len(r.child)
<1> DEFINE d == AddFrameChild(Truncated(c, i), i - 1, id)
           f == [c.frames[i] EXCEPT !.accessBase = Len(d.access), !.childBase = Len(d.child),
                                    !.published = TRUE]
           fs == [c.frames EXCEPT ![i] = f]
           r == Collapse(c, i, id)
<1>1. i \in 1..Len(c.frames) /\ i - 1 \in 1..Len(c.frames) /\ c.frames[i] \in FrameType
  BY CtxFacts
<1>2. CtxType(Truncated(c, i)) /\ Truncated(c, i).frames = c.frames
  BY <1>1, TruncatedIs
<1>3. CtxType(d) /\ d.frames = c.frames
  BY <1>1, <1>2, AddFrameChildIs
<1>4. r = [access |-> d.access, child |-> d.child, frames |-> fs]
  <2>1. r = [d EXCEPT !.frames[i].accessBase = Len(d.access), !.frames[i].childBase = Len(d.child),
                      !.frames[i].published = TRUE]
    BY DEF Collapse
  <2> HIDE DEF d, r
  <2> QED
    BY <1>1, <1>3, <2>1, CtxFacts DEF CtxType
<1> HIDE DEF d
<1>5. Len(d.access) \in Nat /\ Len(d.child) \in Nat /\ d.access \in Seq(Nat) /\ d.child \in Seq(Nat)
  BY <1>3, CtxFacts
<1>6. /\ f \in FrameType /\ f.role = c.frames[i].role /\ f.value = c.frames[i].value
      /\ f.at = c.frames[i].at /\ f.arg = c.frames[i].arg /\ f.tmp = c.frames[i].tmp
      /\ f.published /\ f.accessBase = Len(d.access)
      /\ f.childBase = Len(d.child)
  BY <1>1, <1>5 DEF FrameType
<1> HIDE DEF f
<1>7. /\ fs \in Seq(FrameType) /\ Len(fs) = Len(c.frames) /\ DOMAIN fs = 1..Len(c.frames)
      /\ \A j \in 1..Len(c.frames) : fs[j] = IF j = i THEN f ELSE c.frames[j]
  BY <1>1, <1>6, FrameSet
<1> HIDE DEF fs, r
<1>8. Len(fs) > 0
  BY <1>7, CtxFacts
<1>9. CtxType(r) /\ r.access = d.access /\ r.child = d.child /\ r.frames = fs
  BY <1>4, <1>5, <1>7, <1>8, CtxMade
<1>10. DOMAIN r.frames = DOMAIN c.frames
  BY <1>7, <1>9, CtxFacts
<1> QED
  BY <1>1, <1>3, <1>6, <1>7, <1>9, <1>10 DEF d, r

--------------------------------------------------------------------------------
(* What each operation makes of the sets of the frames.                    *)

AllOpen(c) == \A i \in 1..Len(c.frames) : ~c.frames[i].published

Good(g, c) == CtxType(c) /\ Levels(c) /\ CtxIds(g, c)

Same(g, c, d, m) == \A j \in 1..m : OwnPaths(g, d, j) = OwnPaths(g, c, j)

(* Where the entries of a frame end.                                       *)
LEMMA EndsAt ==
  ASSUME NEW c, CtxType(c), Levels(c), NEW n, n = Len(c.frames), NEW j \in 1..n
  PROVE  /\ AccessEnd(c, j) \in Nat /\ ChildEnd(c, j) \in Nat
         /\ c.frames[j].accessBase <= AccessEnd(c, j) /\ c.frames[j].childBase <= ChildEnd(c, j)
         /\ AccessEnd(c, j) <= Len(c.access) /\ ChildEnd(c, j) <= Len(c.child)
         /\ j < n => /\ AccessEnd(c, j) = c.frames[j + 1].accessBase
                     /\ ChildEnd(c, j) = c.frames[j + 1].childBase
                     /\ AccessEnd(c, j) <= c.frames[n].accessBase /\ ChildEnd(c, j) <= c.frames[n].childBase
         /\ j = n => AccessEnd(c, j) = Len(c.access) /\ ChildEnd(c, j) = Len(c.child)
<1>1. n \in Nat /\ j \in Nat /\ n \in 1..n /\ Len(c.access) \in Nat /\ Len(c.child) \in Nat
  BY CtxFacts
<1>2. CASE j < n
  <2>1. j + 1 \in 1..n /\ j <= j + 1 /\ j + 1 <= n /\ j # n
    BY <1>1, <1>2
  <2>2. AccessEnd(c, j) = c.frames[j + 1].accessBase /\ ChildEnd(c, j) = c.frames[j + 1].childBase
    BY <1>2 DEF AccessEnd, ChildEnd
  <2>3. c.frames[j + 1].accessBase \in Nat /\ c.frames[j + 1].childBase \in Nat
    BY <2>1, CtxFacts
  <2>4. /\ c.frames[j].accessBase <= c.frames[j + 1].accessBase
        /\ c.frames[j].childBase <= c.frames[j + 1].childBase
        /\ c.frames[j + 1].accessBase <= c.frames[n].accessBase
        /\ c.frames[j + 1].childBase <= c.frames[n].childBase
        /\ c.frames[j + 1].accessBase <= Len(c.access) /\ c.frames[j + 1].childBase <= Len(c.child)
    BY <1>1, <2>1 DEF Levels
  <2> QED
    BY <1>2, <2>1, <2>2, <2>3, <2>4
<1>3. CASE j = n
  <2>1. AccessEnd(c, j) = Len(c.access) /\ ChildEnd(c, j) = Len(c.child) /\ ~(j < n)
    BY <1>1, <1>3 DEF AccessEnd, ChildEnd
  <2>2. c.frames[j].accessBase <= Len(c.access) /\ c.frames[j].childBase <= Len(c.child)
    BY DEF Levels
  <2>3. Len(c.access) <= Len(c.access) /\ Len(c.child) <= Len(c.child)
    BY <1>1
  <2> QED
    BY <1>1, <2>1, <2>2, <2>3
<1> QED
  BY <1>1, <1>2, <1>3

(* A frame with the same entries.                                          *)
LEMMA OwnSame ==
  ASSUME NEW g, NEW c, NEW d, CtxType(c), Levels(c), NEW j \in 1..Len(c.frames),
         d.frames[j].accessBase = c.frames[j].accessBase, d.frames[j].childBase = c.frames[j].childBase,
         AccessEnd(d, j) = AccessEnd(c, j), ChildEnd(d, j) = ChildEnd(c, j),
         \A k \in 1..AccessEnd(c, j) : d.access[k] = c.access[k],
         \A k \in 1..ChildEnd(c, j) : d.child[k] = c.child[k]
  PROVE  OwnPaths(g, d, j) = OwnPaths(g, c, j)
<1> DEFINE a == c.frames[j].accessBase
           b == c.frames[j].childBase
           ae == AccessEnd(c, j)
           be == ChildEnd(c, j)
<1>1. ae \in Nat /\ be \in Nat /\ a \in Nat /\ b \in Nat
  BY CtxFacts, EndsAt
<1>2. d.frames[j].accessBase = a /\ d.frames[j].childBase = b /\ AccessEnd(d, j) = ae /\ ChildEnd(d, j) = be
  OBVIOUS
<1>3. /\ \A k \in 1..ae : d.access[k] = c.access[k]
      /\ \A k \in 1..be : d.child[k] = c.child[k]
  OBVIOUS
<1> HIDE DEF a, b, ae, be
<1>4. Slice(d.access, a, ae) = Slice(c.access, a, ae)
  <2>1. \A k \in (a + 1)..ae : d.access[k] = c.access[k]
    BY <1>1, <1>3
  <2> QED
    BY <2>1 DEF Slice
<1>5. Slice(d.child, b, be) = Slice(c.child, b, be)
  <2>1. \A k \in (b + 1)..be : d.child[k] = c.child[k]
    BY <1>1, <1>3
  <2> QED
    BY <2>1 DEF Slice
<1>6. OwnPaths(g, d, j) = Flatten(g, Slice(d.access, a, ae), Slice(d.child, b, be))
  BY <1>2 DEF OwnPaths
<1>7. OwnPaths(g, c, j) = Flatten(g, Slice(c.access, a, ae), Slice(c.child, b, be))
  BY DEF OwnPaths, a, b, ae, be
<1> QED
  BY <1>4, <1>5, <1>6, <1>7

(* The frames below the one on top, over stacks that changed above its     *)
(* watermarks only.                                                        *)
LEMMA OwnBelow ==
  ASSUME NEW g, NEW c, NEW d, CtxType(c), Levels(c), CtxType(d), NEW n, n = Len(c.frames), NEW m \in Nat, m < n,
         m < Len(d.frames),
         \A j \in 1..(m + 1) : /\ d.frames[j].accessBase = c.frames[j].accessBase
                               /\ d.frames[j].childBase = c.frames[j].childBase,
         \A k \in 1..c.frames[n].accessBase : d.access[k] = c.access[k],
         \A k \in 1..c.frames[n].childBase : d.child[k] = c.child[k]
  PROVE  Same(g, c, d, m)
<1> SUFFICES ASSUME NEW j \in 1..m PROVE OwnPaths(g, d, j) = OwnPaths(g, c, j)
  BY DEF Same
<1>1. /\ n \in Nat /\ j \in 1..n /\ j < n /\ n \in 1..n /\ j + 1 \in 1..(m + 1) /\ j \in 1..(m + 1)
      /\ j < Len(d.frames)
  BY CtxFacts
<1>2. /\ AccessEnd(c, j) \in Nat /\ ChildEnd(c, j) \in Nat
      /\ AccessEnd(c, j) = c.frames[j + 1].accessBase /\ ChildEnd(c, j) = c.frames[j + 1].childBase
      /\ AccessEnd(c, j) <= c.frames[n].accessBase /\ ChildEnd(c, j) <= c.frames[n].childBase
  BY <1>1, EndsAt
<1>3. AccessEnd(d, j) = AccessEnd(c, j) /\ ChildEnd(d, j) = ChildEnd(c, j)
  <2>1. AccessEnd(d, j) = d.frames[j + 1].accessBase /\ ChildEnd(d, j) = d.frames[j + 1].childBase
    BY <1>1 DEF AccessEnd, ChildEnd
  <2> QED
    BY <1>1, <1>2, <2>1
<1>4. c.frames[n].accessBase \in Nat /\ c.frames[n].childBase \in Nat
  BY <1>1, CtxFacts
<1>5. /\ \A k \in 1..AccessEnd(c, j) : d.access[k] = c.access[k]
      /\ \A k \in 1..ChildEnd(c, j) : d.child[k] = c.child[k]
  BY <1>2, <1>4, SMTT(30)
<1> QED
  BY <1>1, <1>3, <1>5, OwnSame

LEMMA OwnTop ==
  ASSUME NEW g, NEW c, NEW n, n = Len(c.frames), n \in Nat
  PROVE  OwnPaths(g, c, n) = Flatten(g, Slice(c.access, c.frames[n].accessBase, Len(c.access)),
                                        Slice(c.child, c.frames[n].childBase, Len(c.child)))
BY DEF OwnPaths, AccessEnd, ChildEnd

LEMMA FlattenEmpty == ASSUME NEW g PROVE Flatten(g, {}, {}) = {}
BY DEF Flatten

LEMMA FlattenChild ==
  ASSUME NEW g, NEW A, NEW C, NEW id
  PROVE  /\ Flatten(g, A, C \cup {id}) = Flatten(g, A, C) \cup PathsOf(g, id)
         /\ id = 0 => PathsOf(g, id) = {}
BY DEF Flatten, PathsOf, Items

LEMMA SliceLast ==
  ASSUME NEW s \in Seq(Nat), NEW m \in Nat, m < Len(s) PROVE s[Len(s)] \in Slice(s, m, Len(s))
BY DEF Slice

(* Frames with the same watermarks over the same stacks.                   *)
LEMMA LevelsAlike ==
  ASSUME NEW c, NEW d, CtxType(c), Levels(c), CtxType(d), d.access = c.access, d.child = c.child,
         NEW m \in Nat, Len(d.frames) = m, m <= Len(c.frames),
         \A j \in 1..m : /\ d.frames[j].accessBase = c.frames[j].accessBase
                         /\ d.frames[j].childBase = c.frames[j].childBase
                         /\ d.frames[j].published = c.frames[j].published
  PROVE  Levels(d)
<1>1. 1..m \subseteq 1..Len(c.frames)
  BY CtxFacts
<1> QED
  BY <1>1 DEF Levels

(* The frame on top is given S.                                            *)
AddedTop(g, c, d, n, S) ==
  /\ Good(g, d) /\ d.frames = c.frames
  /\ Same(g, c, d, n - 1) /\ OwnPaths(g, d, n) = OwnPaths(g, c, n) \cup S

LEMMA LevelsGrow ==
  ASSUME NEW c, NEW d, CtxType(c), Levels(c), AllOpen(c), CtxType(d), d.frames = c.frames,
         Len(d.access) >= Len(c.access), Len(d.child) >= Len(c.child)
  PROVE  Levels(d)
<1>1. /\ Len(c.access) \in Nat /\ Len(c.child) \in Nat /\ Len(d.access) \in Nat /\ Len(d.child) \in Nat
      /\ \A i \in 1..Len(c.frames) : c.frames[i].accessBase \in Nat /\ c.frames[i].childBase \in Nat
  BY CtxFacts
<1>2. \A i \in 1..Len(d.frames) :
        /\ d.frames[i].accessBase <= Len(d.access) /\ d.frames[i].childBase <= Len(d.child)
        /\ ~d.frames[i].published
  <2> SUFFICES ASSUME NEW i \in 1..Len(c.frames)
               PROVE  /\ c.frames[i].accessBase <= Len(d.access) /\ c.frames[i].childBase <= Len(d.child)
                      /\ ~c.frames[i].published
    OBVIOUS
  <2>1. c.frames[i].accessBase <= Len(c.access) /\ c.frames[i].childBase <= Len(c.child)
    BY DEF Levels
  <2> QED
    BY <1>1, <2>1 DEF AllOpen
<1> QED
  BY <1>2 DEF Levels

LEMMA AccessAdded ==
  ASSUME NEW g, NEW c, Good(g, c), AllOpen(c), NEW n, n = Len(c.frames), NEW id \in DOMAIN g.accesses, id \in Nat,
         NEW d, d = AddFrameAccess(c, n, id)
  PROVE  AddedTop(g, c, d, n, {g.accesses[id]})
<1> DEFINE a == c.frames[n].accessBase
           S == {g.accesses[id]}
<1> USE DEF Good
<1>1. /\ n \in Nat /\ n \in 1..n /\ a \in Nat /\ c.access \in Seq(Nat) /\ Len(c.access) \in Nat
      /\ n - 1 \in Nat /\ n - 1 < n /\ (n - 1) + 1 = n
  BY CtxFacts
<1>2. /\ CtxType(d) /\ d.child = c.child /\ d.frames = c.frames
      /\ \/ d.access = Append(c.access, id)
         \/ d.access = c.access /\ a < Len(c.access) /\ c.access[Len(c.access)] = id
  <2>1. CtxType(c) /\ n \in 1..Len(c.frames) /\ id \in Nat /\ d = AddFrameAccess(c, n, id)
    BY <1>1
  <2> QED
    BY ONLY <2>1, AddFrameAccessIs
<1>3. a <= Len(c.access)
  BY <1>1 DEF Levels
<1>4. /\ \A k \in 1..Len(c.access) : d.access[k] = c.access[k]
      /\ Len(d.access) >= Len(c.access) /\ Range(d.access) \subseteq Range(c.access) \cup {id}
  <2>1. CASE d.access = Append(c.access, id)
    <3>1. /\ \A k \in 1..Len(c.access) : Append(c.access, id)[k] = c.access[k]
          /\ Len(Append(c.access, id)) = Len(c.access) + 1
      BY <1>1
    <3>2. Range(Append(c.access, id)) = Range(c.access) \cup {id}
      BY <1>1, AppendRange
    <3> QED
      BY <2>1, <3>1, <3>2, <1>1
  <2>2. CASE d.access = c.access
    BY <2>2, <1>1
  <2> QED
    BY <1>2, <2>1, <2>2
<1>5. Good(g, d)
  <2>1. Levels(d)
    BY <1>1, <1>2, <1>4, LevelsGrow
  <2>2. CtxIds(g, d)
    BY <1>2, <1>4 DEF CtxIds
  <2> QED
    BY <1>2, <2>1, <2>2
<1>6. Same(g, c, d, n - 1)
  <2>1. \A k \in 1..a : d.access[k] = c.access[k]
    <3> HIDE DEF a
    <3> QED
      BY ONLY <1>1, <1>3, <1>4
  <2>2. n - 1 < Len(d.frames)
    BY <1>1, <1>2
  <2> QED
    BY <1>1, <1>2, <2>1, <2>2, OwnBelow
<1>7. OwnPaths(g, d, n) = OwnPaths(g, c, n) \cup S
  <2> DEFINE A == Slice(c.access, a, Len(c.access))
             C == Slice(c.child, c.frames[n].childBase, Len(c.child))
  <2>1. OwnPaths(g, c, n) = Flatten(g, A, C)
    BY <1>1, OwnTop
  <2>2. OwnPaths(g, d, n) = Flatten(g, Slice(d.access, a, Len(d.access)), C)
    BY <1>1, <1>2, OwnTop
  <2>3. Slice(d.access, a, Len(d.access)) = A \cup {id}
    <3>1. CASE d.access = Append(c.access, id)
      <4>1. Len(d.access) = Len(c.access) + 1
        BY <3>1, <1>1
      <4>2. Slice(Append(c.access, id), a, Len(c.access) + 1) = Slice(c.access, a, Len(c.access)) \cup {id}
        <5> HIDE DEF a
        <5> QED
          BY ONLY id \in Nat, <1>1, <1>3, SliceAppend
      <4> QED
        BY <3>1, <4>1, <4>2
    <3>2. CASE d.access = c.access /\ a < Len(c.access) /\ c.access[Len(c.access)] = id
      BY <3>2, <1>1, SliceLast
    <3> QED
      BY <1>2, <3>1, <3>2
  <2> HIDE DEF A, C
  <2>4. Flatten(g, A \cup {id}, C) = Flatten(g, A, C) \cup S
    BY DEF Flatten
  <2> HIDE DEF S
  <2> QED
    BY <2>1, <2>2, <2>3, <2>4
<1> QED
  BY <1>2, <1>5, <1>6, <1>7 DEF AddedTop

LEMMA ChildAdded ==
  ASSUME NEW g, GraphInv(g), NEW c, Good(g, c), AllOpen(c), NEW n, n = Len(c.frames), NEW id \in SetIds(g),
         NEW d, d = AddFrameChild(c, n, id)
  PROVE  AddedTop(g, c, d, n, PathsOf(g, id))
<1> DEFINE b == c.frames[n].childBase
           S == PathsOf(g, id)
<1> USE DEF Good
<1>0. id \in Nat /\ (id # 0 => id \in DOMAIN g.accessSets)
  BY GraphType DEF SetIds
<1>1. /\ n \in Nat /\ n \in 1..n /\ b \in Nat /\ c.child \in Seq(Nat) /\ Len(c.child) \in Nat
      /\ n - 1 \in Nat /\ n - 1 < n /\ (n - 1) + 1 = n /\ Len(c.access) \in Nat
  BY CtxFacts
<1>2. /\ CtxType(d) /\ d.access = c.access /\ d.frames = c.frames
      /\ \/ id = 0 /\ d.child = c.child
         \/ id # 0 /\ d.child = Append(c.child, id)
         \/ id # 0 /\ d.child = c.child /\ b < Len(c.child) /\ c.child[Len(c.child)] = id
  <2>1. CtxType(c) /\ n \in 1..Len(c.frames) /\ id \in Nat /\ d = AddFrameChild(c, n, id)
    BY <1>0, <1>1
  <2> QED
    BY ONLY <2>1, AddFrameChildIs
<1>3. b <= Len(c.child)
  BY <1>1 DEF Levels
<1>4. /\ \A k \in 1..Len(c.child) : d.child[k] = c.child[k]
      /\ Len(d.child) >= Len(c.child) /\ Range(d.child) \subseteq Range(c.child) \cup ({id} \ {0})
  <2>1. CASE id # 0 /\ d.child = Append(c.child, id)
    <3>1. /\ \A k \in 1..Len(c.child) : Append(c.child, id)[k] = c.child[k]
          /\ Len(Append(c.child, id)) = Len(c.child) + 1
      BY <1>0, <1>1
    <3>2. Range(Append(c.child, id)) = Range(c.child) \cup {id}
      BY <1>0, <1>1, AppendRange
    <3> QED
      BY <2>1, <3>1, <3>2, <1>1
  <2>2. CASE d.child = c.child
    BY <2>2, <1>1
  <2> QED
    BY <1>2, <2>1, <2>2
<1>5. Good(g, d)
  <2>1. Levels(d)
    BY <1>1, <1>2, <1>4, LevelsGrow
  <2>2. CtxIds(g, d)
    BY <1>0, <1>2, <1>4 DEF CtxIds
  <2> QED
    BY <1>2, <2>1, <2>2
<1>6. Same(g, c, d, n - 1)
  <2>1. \A k \in 1..b : d.child[k] = c.child[k]
    <3> HIDE DEF b
    <3> QED
      BY ONLY <1>1, <1>3, <1>4
  <2>2. n - 1 < Len(d.frames)
    BY <1>1, <1>2
  <2> QED
    BY <1>1, <1>2, <2>1, <2>2, OwnBelow
<1>7. OwnPaths(g, d, n) = OwnPaths(g, c, n) \cup S
  <2> DEFINE A == Slice(c.access, c.frames[n].accessBase, Len(c.access))
             C == Slice(c.child, b, Len(c.child))
             D == Slice(d.child, b, Len(d.child))
  <2>1. OwnPaths(g, c, n) = Flatten(g, A, C)
    BY <1>1, OwnTop
  <2>2. OwnPaths(g, d, n) = Flatten(g, A, D)
    BY <1>1, <1>2, OwnTop
  <2>3. CASE id = 0
    <3>1. D = C /\ S = {}
      BY <2>3, <1>2, FlattenChild
    <3> QED
      BY <2>1, <2>2, <3>1
  <2>4. CASE id # 0
    <3>1. D = C \cup {id}
      <4>1. CASE d.child = Append(c.child, id)
        <5>1. Len(d.child) = Len(c.child) + 1
          BY <4>1, <1>0, <1>1
        <5>2. Slice(Append(c.child, id), b, Len(c.child) + 1) = C \cup {id}
          <6> HIDE DEF b
          <6> QED
            BY ONLY <1>0, <1>1, <1>3, SliceAppend DEF C
        <5> QED
          BY <4>1, <5>1, <5>2
      <4>2. CASE d.child = c.child /\ b < Len(c.child) /\ c.child[Len(c.child)] = id
        BY <4>2, <1>1, SliceLast
      <4> QED
        BY <1>2, <2>4, <4>1, <4>2
    <3> HIDE DEF A, C, D
    <3>2. Flatten(g, A, C \cup {id}) = Flatten(g, A, C) \cup S
      BY FlattenChild
    <3> HIDE DEF S
    <3> QED
      BY <2>1, <2>2, <3>1, <3>2
  <2> QED
    BY <2>3, <2>4
<1> QED
  BY <1>2, <1>5, <1>6, <1>7 DEF AddedTop

(* The code of the frame on top goes on.                                   *)
WentOn(g, c, d, n, f) ==
  /\ Good(g, d) /\ Len(d.frames) = n /\ Same(g, c, d, n)
  /\ \A j \in 1..n : j < n => d.frames[j] = c.frames[j]
  /\ d.frames[n] = f /\ f \in FrameType

LEMMA GoesKeeps ==
  ASSUME NEW g, GraphInv(g), NEW c, Good(g, c), NEW n, n = Len(c.frames),
         NEW at \in Ats, NEW arg \in Args, NEW tmp \in SetIds(g), NEW d, d = Goes(c, at, arg, tmp)
  PROVE  WentOn(g, c, d, n, GoesOn(c.frames[n], at, arg, tmp))
<1> DEFINE f == GoesOn(c.frames[n], at, arg, tmp)
<1> USE DEF Good
<1>0. tmp \in Nat
  BY GraphType DEF SetIds
<1>1. n \in Nat /\ n \in 1..n /\ c.frames[n] \in FrameType
  BY CtxFacts
<1>2. /\ CtxType(d) /\ d.access = c.access /\ d.child = c.child /\ Len(d.frames) = n
      /\ \A j \in 1..n : j < n => d.frames[j] = c.frames[j]
      /\ d.frames[n] = f
  BY ONLY CtxType(c), n = Len(c.frames), at \in Ats, arg \in Args, <1>0, d = Goes(c, at, arg, tmp), GoesIs
<1>3. f \in FrameType /\ Alike(f, c.frames[n]) /\ f.tmp = tmp
  BY <1>0, <1>1, GoesOnIs
<1> HIDE DEF f
<1>4. \A j \in 1..n : Alike(d.frames[j], c.frames[j])
  <2>1. \A j \in 1..n : j = n \/ j < n
    BY <1>1
  <2> QED
    BY <1>2, <1>3, <2>1 DEF Alike
<1>5. Levels(d)
  BY <1>1, <1>2, <1>4, LevelsAlike DEF Alike
<1>6. CtxIds(g, d)
  <2>1. \A j \in 1..n : d.frames[j].tmp \in SetIds(g)
    <3>1. \A j \in 1..n : j = n \/ j < n
      BY <1>1
    <3> QED
      BY <1>2, <1>3, <3>1 DEF CtxIds
  <2> QED
    BY <1>2, <2>1 DEF CtxIds
<1>7. ASSUME NEW j \in 1..n PROVE OwnPaths(g, d, j) = OwnPaths(g, c, j)
  <2>1. d.frames[j].accessBase = c.frames[j].accessBase /\ d.frames[j].childBase = c.frames[j].childBase
    BY <1>4 DEF Alike
  <2>2. AccessEnd(d, j) = AccessEnd(c, j) /\ ChildEnd(d, j) = ChildEnd(c, j)
    <3>1. CASE j < n
      <4>1. j + 1 \in 1..n
        BY <1>1, <3>1
      <4> QED
        BY <1>2, <1>4, <3>1, <4>1 DEF AccessEnd, ChildEnd, Alike
    <3>2. CASE ~(j < n)
      BY <1>2, <3>2 DEF AccessEnd, ChildEnd
    <3> QED
      BY <3>1, <3>2
  <2> QED
    BY <1>2, <2>1, <2>2 DEF OwnPaths
<1> QED
  BY <1>2, <1>3, <1>5, <1>6, <1>7 DEF WentOn, Same, f

(* A frame is entered.                                                     *)
Entered(g, c, d, n, f) ==
  /\ Good(g, d) /\ Len(d.frames) = n + 1 /\ Same(g, c, d, n)
  /\ \A j \in 1..n : d.frames[j] = c.frames[j]
  /\ d.frames[n + 1] = f /\ f \in FrameType /\ OwnPaths(g, d, n + 1) = {}

LEMMA EnterKeeps ==
  ASSUME NEW g, NEW c, Good(g, c), NEW n, n = Len(c.frames),
         NEW role \in Callees, NEW v \in Args, NEW at \in Ats, NEW arg \in Args,
         NEW d, d = Enter(c, role, v, at, arg)
  PROVE  Entered(g, c, d, n, NewFrame(c, role, v, at, arg))
<1> DEFINE f == NewFrame(c, role, v, at, arg)
<1> USE DEF Good
<1>1. /\ n \in Nat /\ n \in 1..n /\ Len(c.access) \in Nat /\ Len(c.child) \in Nat
      /\ \A j \in 1..(n + 1) : j \in 1..n \/ j = n + 1
      /\ \A i \in 1..n : c.frames[i].accessBase \in Nat /\ c.frames[i].childBase \in Nat
  BY CtxFacts
<1>2. /\ CtxType(d) /\ d.access = c.access /\ d.child = c.child /\ Len(d.frames) = n + 1
      /\ \A j \in 1..n : d.frames[j] = c.frames[j]
      /\ d.frames[n + 1] = f /\ f \in FrameType /\ f.tmp = 0
      /\ ~f.published /\ f.accessBase = Len(c.access) /\ f.childBase = Len(c.child)
  BY ONLY CtxType(c), n = Len(c.frames), role \in Callees, v \in Args, at \in Ats, arg \in Args,
          d = Enter(c, role, v, at, arg), EnterIs
<1> HIDE DEF f
<1>3. Levels(d)
  <2>1. ASSUME NEW i \in 1..(n + 1)
        PROVE  /\ d.frames[i].accessBase <= Len(d.access) /\ d.frames[i].childBase <= Len(d.child)
               /\ d.frames[i].published =>
                    d.frames[i].accessBase = Len(d.access) /\ d.frames[i].childBase = Len(d.child)
    <3>1. CASE i \in 1..n
      BY <3>1, <1>2 DEF Levels
    <3>2. CASE i = n + 1
      BY <3>2, <1>1, <1>2
    <3> QED
      BY <1>1, <3>1, <3>2
  <2>2. ASSUME NEW i \in 1..(n + 1), NEW j \in 1..(n + 1), i <= j
        PROVE  /\ d.frames[i].accessBase <= d.frames[j].accessBase
               /\ d.frames[i].childBase <= d.frames[j].childBase
    <3>1. CASE j \in 1..n
      <4>1. i \in 1..n
        BY <1>1, <2>2, <3>1
      <4> QED
        BY <2>2, <3>1, <4>1, <1>2 DEF Levels
    <3>2. CASE j = n + 1
      BY <2>1, <3>2, <1>2
    <3> QED
      BY <1>1, <3>1, <3>2
  <2> QED
    BY <1>2, <2>1, <2>2 DEF Levels
<1>4. CtxIds(g, d)
  <2>1. \A j \in 1..(n + 1) : d.frames[j].tmp \in SetIds(g)
    BY <1>1, <1>2 DEF CtxIds, SetIds
  <2> QED
    BY <1>2, <2>1 DEF CtxIds
<1>5. ASSUME NEW j \in 1..n PROVE OwnPaths(g, d, j) = OwnPaths(g, c, j)
  <2>1. AccessEnd(d, j) = AccessEnd(c, j) /\ ChildEnd(d, j) = ChildEnd(c, j)
    <3>1. CASE j < n
      <4>1. j + 1 \in 1..n /\ j < n + 1
        BY <1>1, <3>1
      <4> QED
        BY <1>2, <3>1, <4>1 DEF AccessEnd, ChildEnd
    <3>2. CASE j = n
      <4>1. j < n + 1 /\ ~(j < n)
        BY <1>1, <3>2
      <4> QED
        BY <1>2, <3>2, <4>1 DEF AccessEnd, ChildEnd
    <3> QED
      BY <1>1, <3>1, <3>2
  <2> QED
    BY <1>2, <2>1 DEF OwnPaths
<1>6. OwnPaths(g, d, n + 1) = {}
  <2>1. Slice(c.access, Len(c.access), Len(c.access)) = {} /\ Slice(c.child, Len(c.child), Len(c.child)) = {}
    <3>1. Len(c.access) <= Len(c.access) /\ Len(c.child) <= Len(c.child)
      BY <1>1
    <3> QED
      BY <1>1, <3>1, SliceEmpty
  <2>2. OwnPaths(g, d, n + 1) = Flatten(g, {}, {})
    <3>1. n + 1 \in Nat
      BY <1>1
    <3>2. OwnPaths(g, d, n + 1) = Flatten(g, Slice(d.access, d.frames[n + 1].accessBase, Len(d.access)),
                                            Slice(d.child, d.frames[n + 1].childBase, Len(d.child)))
      BY <1>2, <3>1, OwnTop
    <3> QED
      BY <1>2, <2>1, <3>2
  <2> QED
    BY <2>2, FlattenEmpty
<1> QED
  BY <1>2, <1>3, <1>4, <1>5, <1>6 DEF Entered, Same, f

LEMMA SliceStep ==
  ASSUME NEW s, NEW m \in Nat, NEW n \in Nat, m <= n
  PROVE  Slice(s, m, n + 1) = Slice(s, m, n) \cup {s[n + 1]}
<1>1. (m + 1)..(n + 1) = ((m + 1)..n) \cup {n + 1}
  OBVIOUS
<1> QED
  BY <1>1 DEF Slice

(* Frame i of c is collapsed to id.                                        *)
CutAt(c, d, i, id) ==
  LET a == c.frames[i].accessBase
      b == c.frames[i].childBase
  IN  /\ CtxType(d) /\ Len(d.frames) = Len(c.frames)
      /\ Len(d.access) = a /\ \A k \in 1..a : d.access[k] = c.access[k]
      /\ \A k \in 1..b : d.child[k] = c.child[k]
      /\ \/ /\ Len(d.child) = b + 1 /\ id # 0 /\ d.child[b + 1] = id
         \/ /\ Len(d.child) = b
            /\ id = 0 \/ (c.frames[i - 1].childBase < b /\ c.child[b] = id)
      /\ \A j \in 1..Len(c.frames) :
           /\ j # i => d.frames[j] = c.frames[j]
           /\ d.frames[j].role = c.frames[j].role /\ d.frames[j].value = c.frames[j].value
           /\ d.frames[j].at = c.frames[j].at /\ d.frames[j].arg = c.frames[j].arg
           /\ d.frames[j].tmp = c.frames[j].tmp
      /\ d.frames[i].published /\ d.frames[i].accessBase = a /\ d.frames[i].childBase = Len(d.child)

LEMMA CutIs ==
  ASSUME NEW c, CtxType(c), NEW i \in 2..Len(c.frames), Levels(c), NEW id \in Nat
  PROVE  CutAt(c, Collapse(c, i, id), i, id)
<1> DEFINE r == Collapse(c, i, id)
           t == Truncated(c, i)
           d == AddFrameChild(t, i - 1, id)
           a == c.frames[i].accessBase
           b == c.frames[i].childBase
<1>1. /\ i \in 1..Len(c.frames) /\ i - 1 \in 1..Len(c.frames) /\ Len(c.frames) \in Nat
      /\ i \in Nat /\ i \in 1..i
  BY CtxFacts
<1>2. /\ a \in Nat /\ b \in Nat /\ c.access \in Seq(Nat) /\ c.child \in Seq(Nat)
      /\ Len(c.access) \in Nat /\ Len(c.child) \in Nat /\ a <= Len(c.access) /\ b <= Len(c.child)
  BY <1>1, CtxFacts DEF Levels
<1>3. /\ CtxType(t) /\ t.frames = c.frames /\ t.access = Shorter(c.access, a) /\ t.child = Shorter(c.child, b)
  BY <1>1, TruncatedIs
<1>4. /\ Len(Shorter(c.access, a)) = a /\ \A k \in 1..a : Shorter(c.access, a)[k] = c.access[k]
  <2> HIDE DEF a
  <2> DEFINE s == Shorter(c.access, a)
  <2>1. Len(s) = IF Len(c.access) > a THEN a ELSE Len(c.access)
    BY <1>2, ShorterIs
  <2>2. \A k \in 1..Len(s) : s[k] = c.access[k]
    BY <1>2, ShorterIs
  <2> HIDE DEF s
  <2>3. Len(s) = a
    BY <1>2, <2>1
  <2> QED
    BY <2>2, <2>3 DEF s
<1>5. /\ Len(Shorter(c.child, b)) = b /\ \A k \in 1..b : Shorter(c.child, b)[k] = c.child[k]
  <2> HIDE DEF b
  <2> DEFINE s == Shorter(c.child, b)
  <2>1. Len(s) = IF Len(c.child) > b THEN b ELSE Len(c.child)
    BY <1>2, ShorterIs
  <2>2. \A k \in 1..Len(s) : s[k] = c.child[k]
    BY <1>2, ShorterIs
  <2> HIDE DEF s
  <2>3. Len(s) = b
    BY <1>2, <2>1
  <2> QED
    BY <2>2, <2>3 DEF s
<1>6. /\ CtxType(r) /\ r.access = d.access /\ r.child = d.child
      /\ Len(r.frames) = Len(c.frames)
      /\ \A j \in 1..Len(c.frames) :
           /\ j # i => r.frames[j] = c.frames[j]
           /\ r.frames[j].role = c.frames[j].role /\ r.frames[j].value = c.frames[j].value
           /\ r.frames[j].at = c.frames[j].at /\ r.frames[j].arg = c.frames[j].arg
           /\ r.frames[j].tmp = c.frames[j].tmp
      /\ r.frames[i].published
      /\ r.frames[i].accessBase = Len(r.access) /\ r.frames[i].childBase = Len(r.child)
  BY ONLY CtxType(c), i \in 2..Len(c.frames), id \in Nat, CollapseIs
<1> HIDE DEF t, r
<1>7. i - 1 \in 1..Len(t.frames)
  BY <1>1, <1>3
<1>8. /\ d.access = t.access
      /\ \/ id = 0 /\ d.child = t.child
         \/ id # 0 /\ d.child = Append(t.child, id)
         \/ /\ id # 0 /\ d.child = t.child /\ t.frames[i - 1].childBase < Len(t.child)
            /\ t.child[Len(t.child)] = id
  BY ONLY <1>3, <1>7, id \in Nat, AddFrameChildIs, Zenon
<1> HIDE DEF d, a, b
<1>9. Len(t.child) = b /\ (\A k \in 1..b : t.child[k] = c.child[k]) /\ t.child \in Seq(Nat)
  BY <1>2, <1>3, <1>5, ShorterIs
<1>10. Len(r.access) = a /\ \A k \in 1..a : r.access[k] = c.access[k]
  BY <1>3, <1>4, <1>6, <1>8
<1>11. CASE id # 0 /\ d.child = Append(t.child, id)
  <2>1. Len(d.child) = b + 1 /\ d.child[b + 1] = id /\ \A k \in 1..b : d.child[k] = t.child[k]
    BY <1>2, <1>9, <1>11
  <2>2. \A k \in 1..b : r.child[k] = c.child[k]
    BY <2>1, <1>9, <1>6
  <2>3. Len(r.child) = b + 1 /\ id # 0 /\ r.child[b + 1] = id
    BY <2>1, <1>6, <1>11
  <2> QED
    BY <1>6, <1>10, <2>2, <2>3 DEF CutAt, a, b, r
<1>12. CASE d.child = t.child /\ (id = 0 \/ (t.frames[i - 1].childBase < Len(t.child) /\ t.child[Len(t.child)] = id))
  <2>1. \A k \in 1..b : r.child[k] = c.child[k]
    BY <1>12, <1>9, <1>6
  <2>2. Len(r.child) = b /\ (id = 0 \/ (c.frames[i - 1].childBase < b /\ c.child[b] = id))
    <3>1. CASE id = 0
      BY <3>1, <1>6, <1>9, <1>12
    <3>2. CASE t.frames[i - 1].childBase < Len(t.child) /\ t.child[Len(t.child)] = id
      <4>1. b \in 1..b
        <5>1. c.frames[i - 1].childBase \in Nat /\ c.frames[i - 1].childBase < b
          BY <3>2, <1>1, <1>3, <1>9, CtxFacts
        <5> QED
          BY <5>1, <1>2
      <4> QED
        BY <3>2, <4>1, <1>3, <1>6, <1>9, <1>12
    <3> QED
      BY <1>12, <3>1, <3>2
  <2> QED
    BY <1>6, <1>10, <2>1, <2>2 DEF CutAt, a, b, r
<1> QED
  BY <1>8, <1>11, <1>12 DEF r

(* The frame on top hands S to the one below.                              *)
HandedOver(g, c, d, n, S) ==
  /\ Good(g, d) /\ Len(d.frames) = n
  /\ \A j \in 1..n : j < n => d.frames[j] = c.frames[j]
  /\ d.frames[n].role = c.frames[n].role /\ d.frames[n].value = c.frames[n].value
  /\ d.frames[n].published /\ d.frames[n] \in FrameType
  /\ Same(g, c, d, n - 2) /\ OwnPaths(g, d, n - 1) = OwnPaths(g, c, n - 1) \cup S
  /\ OwnPaths(g, d, n) = {}

LEMMA PublishedEmpty ==
  ASSUME NEW g, NEW c, CtxType(c), Levels(c), NEW n, n = Len(c.frames), c.frames[n].published
  PROVE  OwnPaths(g, c, n) = {}
<1>1. n \in Nat /\ n \in 1..n /\ Len(c.access) \in Nat /\ Len(c.child) \in Nat
  BY CtxFacts
<1>2. c.frames[n].accessBase = Len(c.access) /\ c.frames[n].childBase = Len(c.child)
  BY <1>1 DEF Levels
<1>3. Slice(c.access, Len(c.access), Len(c.access)) = {} /\ Slice(c.child, Len(c.child), Len(c.child)) = {}
  <2>1. Len(c.access) <= Len(c.access) /\ Len(c.child) <= Len(c.child)
    BY <1>1
  <2> QED
    BY <1>1, <2>1, SliceEmpty
<1> QED
  BY <1>1, <1>2, <1>3, OwnTop, FlattenEmpty

LEMMA CutLevels ==
  ASSUME NEW c, CtxType(c), Levels(c), AllOpen(c), NEW n, n = Len(c.frames), n > 1, NEW id \in Nat,
         NEW d, CutAt(c, d, n, id)
  PROVE  Levels(d)
<1> DEFINE a == c.frames[n].accessBase
           b == c.frames[n].childBase
<1>1. /\ n \in Nat /\ n \in 1..n /\ a \in Nat /\ b \in Nat
      /\ \A j \in 1..n : j < n \/ j = n
      /\ \A j \in 1..n : c.frames[j].accessBase \in Nat /\ c.frames[j].childBase \in Nat
  BY CtxFacts
<1>2. /\ Len(d.frames) = n /\ Len(d.access) = a /\ (Len(d.child) = b \/ Len(d.child) = b + 1)
      /\ \A j \in 1..n : j < n => d.frames[j] = c.frames[j]
      /\ d.frames[n].accessBase = a /\ d.frames[n].childBase = Len(d.child)
  BY <1>1 DEF CutAt
<1> HIDE DEF a, b
<1>3. \A j \in 1..n : c.frames[j].accessBase <= a /\ c.frames[j].childBase <= b
  BY <1>1 DEF Levels, a, b
<1>4. \A j \in 1..n : j < n => ~d.frames[j].published
  BY <1>2 DEF AllOpen
<1>5. ASSUME NEW i \in 1..n
      PROVE  /\ d.frames[i].accessBase <= Len(d.access) /\ d.frames[i].childBase <= Len(d.child)
             /\ d.frames[i].published =>
                  d.frames[i].accessBase = Len(d.access) /\ d.frames[i].childBase = Len(d.child)
  <2>1. CASE i < n
    BY <2>1, <1>1, <1>2, <1>3, <1>4, SMTT(30)
  <2>2. CASE i = n
    BY <2>2, <1>1, <1>2
  <2> QED
    BY <1>1, <2>1, <2>2
<1>6. ASSUME NEW i \in 1..n, NEW j \in 1..n, i <= j
      PROVE  /\ d.frames[i].accessBase <= d.frames[j].accessBase
             /\ d.frames[i].childBase <= d.frames[j].childBase
  <2>1. CASE j < n
    <3>1. i < n
      BY <1>1, <1>6, <2>1
    <3>2. /\ c.frames[i].accessBase <= c.frames[j].accessBase
          /\ c.frames[i].childBase <= c.frames[j].childBase
      BY <1>6 DEF Levels
    <3> QED
      BY <1>2, <2>1, <3>1, <3>2
  <2>2. CASE j = n
    BY <1>2, <1>5, <2>2
  <2> QED
    BY <1>1, <2>1, <2>2
<1> QED
  BY <1>2, <1>5, <1>6 DEF Levels

LEMMA CutIds ==
  ASSUME NEW g, NEW c, Good(g, c), NEW n, n = Len(c.frames), NEW id \in SetIds(g), id \in Nat,
         NEW d, CutAt(c, d, n, id)
  PROVE  CtxIds(g, d)
<1> DEFINE a == c.frames[n].accessBase
           b == c.frames[n].childBase
<1> USE DEF Good
<1>1. /\ n \in Nat /\ n \in 1..n /\ a \in Nat /\ b \in Nat /\ a <= Len(c.access) /\ b <= Len(c.child)
      /\ Len(c.access) \in Nat /\ Len(c.child) \in Nat
      /\ DOMAIN c.access = 1..Len(c.access) /\ DOMAIN c.child = 1..Len(c.child)
  BY CtxFacts DEF Levels
<1>2. /\ CtxType(d) /\ Len(d.frames) = n /\ Len(d.access) = a /\ \A k \in 1..a : d.access[k] = c.access[k]
      /\ \A k \in 1..b : d.child[k] = c.child[k]
      /\ \/ Len(d.child) = b + 1 /\ id # 0 /\ d.child[b + 1] = id
         \/ Len(d.child) = b
      /\ \A j \in 1..n : d.frames[j].tmp = c.frames[j].tmp
  BY DEF CutAt
<1>3. DOMAIN d.access = 1..a /\ DOMAIN d.child = 1..Len(d.child)
  BY <1>2, CtxFacts
<1> HIDE DEF a, b
<1>4. Range(d.access) \subseteq Range(c.access)
  <2>1. \A k \in 1..a : k \in DOMAIN c.access /\ d.access[k] = c.access[k]
    BY <1>1, <1>2
  <2> QED
    BY <1>3, <2>1 DEF Range
<1>5. Range(d.child) \subseteq Range(c.child) \cup ({id} \ {0})
  <2>1. \A k \in 1..b : k \in DOMAIN c.child /\ d.child[k] = c.child[k]
    BY <1>1, <1>2
  <2>2. \A k \in 1..(b + 1) : k \in 1..b \/ k = b + 1
    BY <1>1
  <2>3. \A k \in DOMAIN d.child : d.child[k] \in Range(c.child) \cup ({id} \ {0})
    BY <1>2, <1>3, <2>1, <2>2 DEF Range
  <2> QED
    BY <2>3 DEF Range
<1> QED
  BY <1>2, <1>4, <1>5 DEF CtxIds, SetIds

LEMMA CutKeeps ==
  ASSUME NEW g, GraphInv(g), NEW c, Good(g, c), AllOpen(c), NEW n, n = Len(c.frames), n > 1,
         NEW id \in SetIds(g), NEW d, d = Collapse(c, n, id)
  PROVE  HandedOver(g, c, d, n, PathsOf(g, id))
<1> DEFINE a == c.frames[n].accessBase
           b == c.frames[n].childBase
           p == c.frames[n - 1].accessBase
           q == c.frames[n - 1].childBase
<1> USE DEF Good
<1>0. id \in Nat
  BY GraphType DEF SetIds
<1>1. /\ n \in Nat /\ n \in 2..n /\ n \in 1..n /\ n - 1 \in 1..n /\ n - 1 < n /\ (n - 1) + 1 = n
      /\ n - 2 \in Nat /\ n - 2 < n /\ n - 1 \in Nat /\ (n - 2) + 1 = n - 1 /\ n - 1 <= n
  BY CtxFacts
<1>2. CutAt(c, d, n, id)
  BY <1>0, <1>1, CutIs
<1>3. /\ CtxType(d) /\ Len(d.frames) = n
      /\ Len(d.access) = a /\ \A k \in 1..a : d.access[k] = c.access[k]
      /\ \A k \in 1..b : d.child[k] = c.child[k]
      /\ \/ /\ Len(d.child) = b + 1 /\ id # 0 /\ d.child[b + 1] = id
         \/ /\ Len(d.child) = b
            /\ id = 0 \/ (q < b /\ c.child[b] = id)
      /\ \A j \in 1..n : j # n => d.frames[j] = c.frames[j]
      /\ d.frames[n].role = c.frames[n].role /\ d.frames[n].value = c.frames[n].value
      /\ d.frames[n].published /\ d.frames[n].accessBase = a /\ d.frames[n].childBase = Len(d.child)
  BY <1>1, <1>2 DEF CutAt
<1>4. Good(g, d)
  <2>1. Levels(d)
    BY <1>0, <1>1, <1>2, CutLevels
  <2>2. CtxIds(g, d)
    BY <1>0, <1>1, <1>2, CutIds
  <2> QED
    BY <1>3, <2>1, <2>2
<1>5. d.frames[n] \in FrameType
  BY <1>1, <1>3, CtxFacts
<1>6. OwnPaths(g, d, n) = {}
  BY <1>1, <1>3, <1>4, PublishedEmpty
<1>7. Same(g, c, d, n - 2)
  <2>1. \A j \in 1..((n - 2) + 1) : d.frames[j] = c.frames[j]
    BY <1>1, <1>3
  <2>2. n - 2 < Len(d.frames)
    BY <1>1, <1>3
  <2> QED
    BY <1>1, <1>3, <2>1, <2>2, OwnBelow, ZenonT(60)
<1>8. /\ a \in Nat /\ b \in Nat /\ p \in Nat /\ q \in Nat /\ p <= a /\ q <= b
      /\ a <= Len(c.access) /\ b <= Len(c.child)
  BY <1>1, CtxFacts, SMTT(30) DEF Levels
<1>9. OwnPaths(g, d, n - 1) = OwnPaths(g, c, n - 1) \cup PathsOf(g, id)
  <2> DEFINE A == Slice(c.access, p, a)
             C == Slice(c.child, q, b)
             D == Slice(d.child, q, Len(d.child))
  <2>1. OwnPaths(g, c, n - 1) = Flatten(g, A, C)
    BY <1>1 DEF OwnPaths, AccessEnd, ChildEnd
  <2>2. OwnPaths(g, d, n - 1) = Flatten(g, Slice(d.access, p, a), D)
    BY <1>1, <1>3 DEF OwnPaths, AccessEnd, ChildEnd
  <2>3. Slice(d.access, p, a) = A
    <3>1. \A k \in (p + 1)..a : d.access[k] = c.access[k]
      BY <1>3, <1>8, SMTT(30)
    <3> QED
      BY <3>1 DEF Slice
  <2>4. Slice(d.child, q, b) = C
    <3>1. \A k \in (q + 1)..b : d.child[k] = c.child[k]
      BY <1>3, <1>8, SMTT(30)
    <3> QED
      BY <3>1 DEF Slice
  <2>5. CASE Len(d.child) = b + 1 /\ id # 0 /\ d.child[b + 1] = id
    <3>1. Slice(d.child, q, b + 1) = Slice(d.child, q, b) \cup {d.child[b + 1]}
      <4> HIDE DEF q, b
      <4> QED
        BY <1>8, SliceStep
    <3>2. D = C \cup {id}
      BY <3>1, <2>4, <2>5
    <3> HIDE DEF A, C, D
    <3> QED
      BY ONLY <2>1, <2>2, <2>3, <3>2, FlattenChild
  <2>6. CASE Len(d.child) = b /\ id = 0
    <3>1. PathsOf(g, id) = {} /\ D = C
      BY <2>6, <2>4, FlattenChild
    <3> HIDE DEF A, C, D
    <3> QED
      BY <2>1, <2>2, <2>3, <3>1
  <2>7. CASE Len(d.child) = b /\ q < b /\ c.child[b] = id
    <3>1. b \in (q + 1)..b
      <4> HIDE DEF b, q
      <4> QED
        BY <2>7, <1>8
    <3>2. id \in C
      BY <2>7, <3>1 DEF Slice
    <3>3. D = C \cup {id}
      BY <2>7, <2>4, <3>2
    <3> HIDE DEF A, C, D
    <3> QED
      BY ONLY <2>1, <2>2, <2>3, <3>3, FlattenChild
  <2> QED
    BY <1>3, <2>5, <2>6, <2>7
<1> QED
  <2>1. \A j \in 1..n : j < n => d.frames[j] = c.frames[j]
    BY <1>1, <1>3
  <2> QED
    BY <1>3, <1>4, <1>5, <1>6, <1>7, <1>9, <2>1 DEF HandedOver

(* The frame on top ends, with S for the one below.                        *)
Popped(g, c, d, n, S) ==
  /\ Good(g, d) /\ Len(d.frames) = n - 1
  /\ \A j \in 1..(n - 1) : d.frames[j] = c.frames[j]
  /\ Same(g, c, d, n - 2) /\ OwnPaths(g, d, n - 1) = OwnPaths(g, c, n - 1) \cup S

LEMMA ShorterSame ==
  ASSUME NEW s \in Seq(Nat), NEW m, m = Len(s) PROVE Shorter(s, m) = s
<1>1. m \in Nat /\ Len(s) <= m
  OBVIOUS
<1> QED
  BY <1>1, ShorterIs

LEMMA EndedKeeps ==
  ASSUME NEW g, NEW c, Good(g, c), NEW n, n = Len(c.frames), n > 1, NEW d, d = Ended(c)
  PROVE  Popped(g, c, d, n, OwnPaths(g, c, n))
<1> USE DEF Good
<1>1. /\ n \in Nat /\ n \in 1..n /\ n - 1 \in 1..n /\ n - 1 < n /\ (n - 1) + 1 = n
      /\ n - 2 \in Nat /\ n - 2 < n /\ n - 1 \in Nat /\ (n - 2) + 1 = n - 1 /\ n - 1 <= n
      /\ c.access \in Seq(Nat) /\ c.child \in Seq(Nat) /\ Len(c.access) \in Nat /\ Len(c.child) \in Nat
  BY CtxFacts
<1>2. /\ CtxType(d) /\ d.access = c.access /\ d.child = c.child /\ Len(d.frames) = n - 1
      /\ \A j \in 1..(n - 1) : d.frames[j] = c.frames[j]
  <2> DEFINE t == IF c.frames[n].published THEN Truncated(c, n) ELSE c
  <2>1. /\ CtxType(d) /\ d.access = t.access /\ d.child = t.child /\ Len(d.frames) = n - 1
        /\ \A j \in 1..(n - 1) : d.frames[j] = c.frames[j]
    BY ONLY CtxType(c), n = Len(c.frames), n > 1, d = Ended(c), EndedIs
  <2>2. t.access = c.access /\ t.child = c.child
    <3>1. CASE c.frames[n].published
      <4>1. c.frames[n].accessBase = Len(c.access) /\ c.frames[n].childBase = Len(c.child)
        BY <1>1, <3>1 DEF Levels
      <4>2. Shorter(c.access, Len(c.access)) = c.access /\ Shorter(c.child, Len(c.child)) = c.child
        BY <1>1, ShorterSame
      <4>3. /\ Truncated(c, n).access = Shorter(c.access, c.frames[n].accessBase)
            /\ Truncated(c, n).child = Shorter(c.child, c.frames[n].childBase)
        BY <1>1, TruncatedIs
      <4> QED
        BY <3>1, <4>1, <4>2, <4>3
    <3>2. CASE ~c.frames[n].published
      BY <3>2
    <3> QED
      BY <3>1, <3>2
  <2> HIDE DEF t
  <2> QED
    BY <2>1, <2>2
<1>3. Good(g, d)
  <2>1. Levels(d)
    BY <1>1, <1>2, LevelsAlike
  <2>2. CtxIds(g, d)
    <3>1. \A j \in 1..(n - 1) : j \in 1..n
      BY <1>1
    <3> QED
      BY <1>2, <3>1 DEF CtxIds
  <2> QED
    BY <1>2, <2>1, <2>2
<1>4. Same(g, c, d, n - 2)
  <2>1. n - 2 < Len(d.frames) /\ \A j \in 1..((n - 2) + 1) : d.frames[j] = c.frames[j]
    BY <1>1, <1>2
  <2> QED
    BY <1>1, <1>2, <2>1, OwnBelow
<1>5. OwnPaths(g, d, n - 1) = OwnPaths(g, c, n - 1) \cup OwnPaths(g, c, n)
  <2> DEFINE a == c.frames[n].accessBase
             b == c.frames[n].childBase
             p == c.frames[n - 1].accessBase
             q == c.frames[n - 1].childBase
  <2>1. /\ a \in Nat /\ b \in Nat /\ p \in Nat /\ q \in Nat /\ p <= a /\ q <= b
        /\ a <= Len(c.access) /\ b <= Len(c.child)
    BY <1>1, CtxFacts, SMTT(30) DEF Levels
  <2>2. OwnPaths(g, d, n - 1) = Flatten(g, Slice(c.access, p, Len(c.access)), Slice(c.child, q, Len(c.child)))
    <3>1. n - 1 \in 1..(n - 1)
      BY <1>1
    <3>2. d.frames[n - 1] = c.frames[n - 1]
      BY <1>2, <3>1
    <3> QED
      BY <1>1, <1>2, <3>2 DEF OwnPaths, AccessEnd, ChildEnd
  <2>3. OwnPaths(g, c, n - 1) = Flatten(g, Slice(c.access, p, a), Slice(c.child, q, b))
    BY <1>1 DEF OwnPaths, AccessEnd, ChildEnd
  <2>4. OwnPaths(g, c, n) = Flatten(g, Slice(c.access, a, Len(c.access)), Slice(c.child, b, Len(c.child)))
    BY <1>1, OwnTop
  <2> HIDE DEF a, b, p, q
  <2>5. Slice(c.access, p, Len(c.access)) = Slice(c.access, p, a) \cup Slice(c.access, a, Len(c.access))
    <3> DEFINE l == Len(c.access)
    <3>1. l \in Nat /\ p \in Nat /\ a \in Nat /\ p <= a /\ a <= l
      BY <1>1, <2>1
    <3> HIDE DEF l
    <3>2. (p + 1)..l = ((p + 1)..a) \cup ((a + 1)..l)
      BY ONLY <3>1
    <3> QED
      BY ONLY <3>2 DEF l, Slice
  <2>6. Slice(c.child, q, Len(c.child)) = Slice(c.child, q, b) \cup Slice(c.child, b, Len(c.child))
    <3> DEFINE l == Len(c.child)
    <3>1. l \in Nat /\ q \in Nat /\ b \in Nat /\ q <= b /\ b <= l
      BY <1>1, <2>1
    <3> HIDE DEF l
    <3>2. (q + 1)..l = ((q + 1)..b) \cup ((b + 1)..l)
      BY ONLY <3>1
    <3> QED
      BY ONLY <3>2 DEF l, Slice
  <2> QED
    BY ONLY <2>2, <2>3, <2>4, <2>5, <2>6, FlattenUnion
<1> QED
  BY <1>2, <1>3, <1>4, <1>5 DEF Popped

(* A scope ends that is finished, or a force that failed.                  *)
LEMMA CutEndedKeeps ==
  ASSUME NEW g, GraphInv(g), NEW c, Good(g, c), AllOpen(c), NEW n, n = Len(c.frames), n > 1,
         NEW id \in SetIds(g), NEW d, d = Ended(Collapse(c, n, id))
  PROVE  Popped(g, c, d, n, PathsOf(g, id))
<1> DEFINE e == Collapse(c, n, id)
           S == PathsOf(g, id)
<1>1. HandedOver(g, c, e, n, S)
  BY CutKeeps
<1>2. d = Ended(e)
  OBVIOUS
<1>3. n \in Nat /\ n - 1 \in Nat /\ n - 2 \in Nat /\ \A j \in 1..(n - 1) : j \in 1..n /\ j < n
  BY CtxFacts DEF Good
<1> HIDE DEF e, S
<1>4. Good(g, e) /\ Len(e.frames) = n /\ OwnPaths(g, e, n) = {}
  BY <1>1 DEF HandedOver
<1>5. Popped(g, e, d, n, {})
  BY <1>2, <1>4, EndedKeeps
<1>6. \A j \in 1..(n - 1) : d.frames[j] = c.frames[j]
  BY <1>1, <1>3, <1>5 DEF HandedOver, Popped
<1>7. Same(g, c, d, n - 2)
  BY <1>1, <1>5 DEF HandedOver, Popped, Same
<1>8. OwnPaths(g, d, n - 1) = OwnPaths(g, c, n - 1) \cup S
  BY <1>1, <1>5 DEF HandedOver, Popped
<1> QED
  BY <1>5, <1>6, <1>7, <1>8 DEF Popped, S

(* A graph that grows leaves the sets of the frames as they are.           *)
LEMMA OwnExtended ==
  ASSUME NEW g, NEW h, NEW c, GraphInv(g), Extended(g, h), Good(g, c), NEW n, n = Len(c.frames)
  PROVE  Good(h, c) /\ \A j \in 1..n : OwnPaths(h, c, j) = OwnPaths(g, c, j) /\ OwnPaths(g, c, j) \subseteq Path
<1> USE DEF Good
<1>1. Good(h, c)
  BY DEF CtxIds, Extended, SetIds
<1>2. ASSUME NEW j \in 1..n
      PROVE  OwnPaths(h, c, j) = OwnPaths(g, c, j) /\ OwnPaths(g, c, j) \subseteq Path
  <2> DEFINE ae == AccessEnd(c, j)
             be == ChildEnd(c, j)
             A == Slice(c.access, c.frames[j].accessBase, ae)
             C == Slice(c.child, c.frames[j].childBase, be)
  <2>1. ae \in Nat /\ be \in Nat /\ ae <= Len(c.access) /\ be <= Len(c.child)
    BY EndsAt
  <2> HIDE DEF ae, be
  <2>2. A \subseteq Range(c.access) /\ C \subseteq Range(c.child)
    BY <2>1, CtxFacts, SliceKnown
  <2>3. A \in SUBSET DOMAIN g.accesses /\ C \in SUBSET SetIds(g)
    BY <2>2 DEF CtxIds, SetIds
  <2> HIDE DEF A, C
  <2>4. Flatten(h, A, C) = Flatten(g, A, C) /\ Flatten(g, A, C) \subseteq Path
    BY <2>3, FlattenExtended
  <2> QED
    BY <2>4 DEF OwnPaths, A, C, ae, be
<1> QED
  BY <1>1, <1>2

(* The set a frame is collapsed to is what it collected.                   *)
Collected(g, c, i) ==
  Flatten(g, Slice(c.access, c.frames[i].accessBase, Len(c.access)),
             Slice(c.child, c.frames[i].childBase, Len(c.child)))

LEMMA InternCollected ==
  ASSUME NEW g, GraphInv(g), NEW c, CtxType(c), CtxIds(g, c), NEW i \in 1..Len(c.frames),
         NEW r, r = InternAccessSet(g, Direct(c, i), Children(c, i))
  PROVE  /\ GraphInv(r.graph) /\ Extended(g, r.graph) /\ r.id \in SetIds(r.graph)
         /\ PathsOf(r.graph, r.id) = Collected(g, c, i)
<1> DEFINE ds == Direct(c, i)
           cs == Children(c, i)
           A == Slice(c.access, c.frames[i].accessBase, Len(c.access))
           C == Slice(c.child, c.frames[i].childBase, Len(c.child))
<1>1. /\ c.frames[i].accessBase \in Nat /\ c.frames[i].childBase \in Nat
      /\ c.access \in Seq(Nat) /\ c.child \in Seq(Nat) /\ Len(c.access) \in Nat /\ Len(c.child) \in Nat
  BY CtxFacts
<1>2. ds \in Seq(Nat) /\ Range(ds) = A
  BY <1>1, SliceSuffix DEF Direct
<1>3. cs \in Seq(Nat) /\ Range(cs) = C
  BY <1>1, SliceSuffix DEF Children
<1>4. A \subseteq Range(c.access) /\ C \subseteq Range(c.child)
  <2>1. Len(c.access) <= Len(c.access) /\ Len(c.child) <= Len(c.child)
    BY <1>1
  <2>2. A \subseteq Range(c.access)
    BY <1>1, <2>1, SliceKnown
  <2>3. C \subseteq Range(c.child)
    BY <1>1, <2>1, SliceKnown
  <2> QED
    BY <2>2, <2>3
<1>5. A \subseteq DOMAIN g.accesses /\ C \subseteq DOMAIN g.accessSets
  BY <1>4 DEF CtxIds
<1>6. r = InternAccessSet(g, ds, cs)
  OBVIOUS
<1>7. C \subseteq SetIds(g)
  BY <1>5 DEF SetIds
<1>8. Collected(g, c, i) = Flatten(g, A, C)
  BY DEF Collected
<1> HIDE DEF ds, cs, A, C
<1>9. /\ GraphInv(r.graph) /\ Extended(g, r.graph) /\ r.id \in SetIds(r.graph)
      /\ Items(r.graph, r.id) = A \cup UNION {Items(g, e) : e \in C}
  <2>1. Range(ds) \subseteq DOMAIN g.accesses /\ Range(cs) \subseteq DOMAIN g.accessSets
    BY <1>2, <1>3, <1>5
  <2>2. ds \in Seq(Nat) /\ cs \in Seq(Nat)
    BY <1>2, <1>3
  <2>3. /\ GraphInv(r.graph) /\ Extended(g, r.graph) /\ r.id \in SetIds(r.graph)
        /\ Items(r.graph, r.id) = Range(ds) \cup UNION {Items(g, e) : e \in Range(cs)}
    <3>1. /\ GraphInv(r.graph) /\ Extended(g, r.graph) /\ r.id \in SetIds(r.graph)
          /\ Items(r.graph, r.id) = Union(g, ds, cs)
      BY ONLY GraphInv(g), <1>6, <2>1, <2>2, InternUnion
    <3> QED
      BY <3>1 DEF Union
  <2> QED
    BY <1>2, <1>3, <2>3
<1>10. PathsOf(r.graph, r.id) = {r.graph.accesses[a] : a \in A \cup UNION {Items(g, e) : e \in C}}
  BY <1>9, PathsOfItems
<1>11. A \cup UNION {Items(g, e) : e \in C} \subseteq DOMAIN g.accesses
  BY <1>5, <1>7, ItemsKnown
<1>12. \A a \in A \cup UNION {Items(g, e) : e \in C} : r.graph.accesses[a] = g.accesses[a]
  BY <1>9, <1>11 DEF Extended
<1>13. PathsOf(r.graph, r.id) = {g.accesses[a] : a \in A \cup UNION {Items(g, e) : e \in C}}
  BY <1>10, <1>12
<1> QED
  BY <1>8, <1>9, <1>13 DEF Flatten

LEMMA InternTop ==
  ASSUME NEW g, GraphInv(g), NEW c, Good(g, c), NEW n, n = Len(c.frames),
         NEW r, r = InternAccessSet(g, Direct(c, n), Children(c, n))
  PROVE  /\ GraphInv(r.graph) /\ Extended(g, r.graph) /\ r.id \in SetIds(r.graph)
         /\ PathsOf(r.graph, r.id) = OwnPaths(g, c, n)
<1>1. n \in Nat /\ n \in 1..Len(c.frames) /\ CtxType(c) /\ CtxIds(g, c)
  BY CtxFacts DEF Good
<1>2. OwnPaths(g, c, n) = Collected(g, c, n)
  BY <1>1, OwnTop DEF Collected
<1> QED
  BY <1>1, <1>2, InternCollected

================================================================================
