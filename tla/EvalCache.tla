-------------------------------- MODULE EvalCache -------------------------------
(***************************************************************************)
(* The persistent evaluation cache (tecnix/eval-cache.cc, and its use in   *)
(* primops/tecnix.cc).  Evaluators of one machine share a database whose   *)
(* rows hold, for each target of a shard, a bounded history of candidates: *)
(* a source closure (path and fingerprint pairs) and the payload that was  *)
(* evaluated from it.  A call serves a target from the first candidate     *)
(* whose whole closure matches the tree it evaluates, evaluates the rest,  *)
(* and merges what it learned into the rows, one transaction per shard.    *)
(*                                                                         *)
(* One evaluator is one checkout and, from Pin to Exit, one process making *)
(* one call.  The tree of a call is the commit it pinned, overlaid with    *)
(* the checkout's content of the paths git status reported.  Evaluation    *)
(* itself is a function of that tree; that the closure it records is exact *)
(* is the subject of TrackedEval.  A path here is a file: fingerprints of  *)
(* directories compose those of the files below.                           *)
(***************************************************************************)
EXTENDS Naturals, Sequences, FiniteSets, Functions

CONSTANTS
  Evaluator, Target, Path, Content, Recipe,
  Absent,        \* a path that does not exist
  Clean,         \* the overlay part of a clean path's fingerprint
  Failure,       \* the outcome of a target whose evaluation fails
  Plain,         \* the payload of a target that is no derivation output
  NoFp, NoRow, Unreadable, NoTxn,
  Shard, ShardOf,
  DepsOf,        \* DepsOf[t][tree]: the closure evaluating t on a tree records
  PayloadOf,     \* PayloadOf[t][tree]: what t evaluates to on a tree
  Initial,       \* the trees a checkout may start from
  Calls,         \* the calls made: targets, are values wanted, keepGoing
  History,       \* tecnix-eval-cache-history
  MaxTargets,    \* maxDependencyBlobTargets
  EditsRace,     \* whether files may be edited while a call runs
  MaxEdits, MaxCalls, MaxFaults    \* bounds on the environment

Tree == [Path -> Content \cup {Absent}]
Payload == Recipe \cup {Plain}
Call == [targets : SUBSET Target, values : BOOLEAN, keepGoing : BOOLEAN]

(* A candidate proves its payload because evaluation is deterministic: two *)
(* trees that agree on what it read on one of them cannot be told apart.   *)
ASSUME EvaluationAssumption ==
  /\ DepsOf \in [Target -> [Tree -> SUBSET Path]]
  /\ PayloadOf \in [Target -> [Tree -> Payload \cup {Failure}]]
  /\ \A t \in Target : \A a, b \in Tree :
       (\A p \in DepsOf[t][a] : a[p] = b[p]) =>
         DepsOf[t][b] = DepsOf[t][a] /\ PayloadOf[t][b] = PayloadOf[t][a]

ASSUME CacheAssumption ==
  /\ IsFiniteSet(Target) /\ ShardOf \in [Target -> Shard]
  /\ Calls \subseteq Call /\ Initial \subseteq Tree
  /\ EditsRace \in BOOLEAN
  /\ {History, MaxEdits, MaxCalls, MaxFaults} \subseteq Nat
  /\ MaxTargets \in Nat \ {0}
  /\ Absent \notin Content /\ Clean \notin Content \cup {Absent}
  /\ Failure \notin Payload /\ Plain \notin Recipe

VARIABLES
  head,        \* head[e]: the commit of e's checkout
  disk,        \* disk[e]: its working tree
  store,       \* the recipes present in the store
  rows,        \* rows[s]: NoRow, Unreadable, or a history for each target in it
  txn,         \* txn[e]: the shard and the row e's open transaction has read
  at,          \* where an evaluator's process is
  call,        \* the call it makes
  pinned,      \* the commit it pinned
  dirty,       \* the paths served from the checkout
  memo,        \* its fingerprint cache, one per call
  todo,        \* the shards it has yet to visit
  result,      \* closure and payload, for the targets answered so far
  snapshot,    \* closure without fingerprints, for the targets it evaluated
  edits, calls, faults

worldVars == <<head, disk, store, edits, faults>>
vars == <<worldVars, rows, txn, at, call, pinned, dirty, memo, todo, result, snapshot, calls>>

Empty == <<>>
NoMemo == [p \in Path |-> NoFp]
NoCall == [targets |-> {}, values |-> FALSE, keepGoing |-> FALSE]

Init ==
  /\ \E tree \in Initial : head = [e \in Evaluator |-> tree]
  /\ disk = head /\ pinned = head
  /\ store = {}
  /\ rows = [s \in Shard |-> NoRow]
  /\ txn = [e \in Evaluator |-> NoTxn]
  /\ at = [e \in Evaluator |-> "idle"]
  /\ call = [e \in Evaluator |-> NoCall]
  /\ dirty = [e \in Evaluator |-> {}]
  /\ memo = [e \in Evaluator |-> NoMemo]
  /\ todo = [e \in Evaluator |-> {}]
  /\ result = [e \in Evaluator |-> Empty]
  /\ snapshot = [e \in Evaluator |-> Empty]
  /\ edits = 0 /\ calls = 0 /\ faults = 0

--------------------------------------------------------------------------------
(***************************************************************************)
(* The tree a call evaluates, and the fingerprint of a path in it: the git *)
(* object of the pinned commit and, for a dirty path, the hash of what the *)
(* checkout holds now; a path that is gone is "absent" either way.         *)
(***************************************************************************)
View(e) == [p \in Path |-> IF p \in dirty[e] THEN disk[e][p] ELSE pinned[e][p]]

Fp(base, overlay) == [base |-> base, overlay |-> overlay]

(* Mutant: the dirty overlay is left out.                                  *)
FingerprintOfCommit(e, p) == Fp(pinned[e][p], Clean)

Fingerprint(e, p) ==
  IF p \notin dirty[e] THEN Fp(pinned[e][p], Clean)
  ELSE IF disk[e][p] = Absent THEN Fp(Absent, Clean)
  ELSE Fp(pinned[e][p], disk[e][p])

(* dependencyFingerprintCached: a path is asked for once per call.         *)
Known(e, p) == IF memo[e][p] = NoFp THEN Fingerprint(e, p) ELSE memo[e][p]

Remember(e, ps) ==
  memo' = [memo EXCEPT ![e] = [p \in Path |-> IF p \in ps THEN Known(e, p) ELSE @[p]]]

(* configureTecnixRepoContext resolves HEAD; git status runs later, when   *)
(* the repository is first accessed.                                       *)
Pin(e) ==
  /\ at[e] = "idle" /\ calls < MaxCalls
  /\ calls' = calls + 1
  /\ \E c \in Calls : call' = [call EXCEPT ![e] = c]
  /\ pinned' = [pinned EXCEPT ![e] = head[e]]
  /\ at' = [at EXCEPT ![e] = "status"]
  /\ UNCHANGED <<worldVars, rows, txn, dirty, memo, todo, result, snapshot>>

Status(e) ==
  /\ at[e] = "status"
  /\ dirty' = [dirty EXCEPT ![e] = {p \in Path : disk[e][p] # head[e][p]}]
  /\ todo' = [todo EXCEPT ![e] = {ShardOf[t] : t \in call[e].targets}]
  /\ at' = [at EXCEPT ![e] = "lookup"]
  /\ UNCHANGED <<worldVars, rows, txn, call, pinned, memo, result, snapshot, calls>>

(* Something goes wrong outside the evaluators.                            *)
Fault == faults < MaxFaults /\ faults' = faults + 1

--------------------------------------------------------------------------------
(***************************************************************************)
(* Lookup.  A candidate matches when every pair of its closure does; the   *)
(* newest that matches is taken.  A missing or unreadable row holds none.  *)
(***************************************************************************)
Readable(row) == row \notin {NoRow, Unreadable}
Stored(row) == IF Readable(row) THEN row ELSE Empty

(* Mutant: one current path is enough.                                     *)
MatchesSomewhere(e, c) == \E p \in DOMAIN c.deps : Known(e, p) = c.deps[p]

CandidateMatches(e, c) == \A p \in DOMAIN c.deps : Known(e, p) = c.deps[p]

Matching(e, h) == {k \in DOMAIN h : CandidateMatches(e, h[k])}
FirstMatch(e, h) == h[CHOOSE k \in Matching(e, h) : \A j \in Matching(e, h) : k <= j]

(* The paths whose fingerprints the search of a history asks for.          *)
Examined(e, h) ==
  UNION {DOMAIN h[k].deps : k \in {k \in DOMAIN h : \A j \in Matching(e, h) : k <= j}}

(* What the second function says, except where the first one speaks.       *)
Override(new, old) ==
  [t \in DOMAIN new \cup DOMAIN old |-> IF t \in DOMAIN new THEN new[t] ELSE old[t]]

LookupShard(e) ==
  \E s \in todo[e] :
    LET row == Stored(rows[s])
        found == call[e].targets \cap DOMAIN row
        hits == {t \in found : Matching(e, row[t]) # {}}
    IN
      /\ at[e] = "lookup"
      /\ todo' = [todo EXCEPT ![e] = @ \ {s}]
      /\ Remember(e, UNION {Examined(e, row[t]) : t \in found})
      /\ result' = [result EXCEPT ![e] = Override([t \in hits |-> FirstMatch(e, row[t])], @)]
      /\ UNCHANGED <<worldVars, rows, txn, at, call, pinned, dirty, snapshot, calls>>

(* A row that cannot be read leaves its targets misses.                    *)
LookupFails(e) ==
  /\ at[e] = "lookup" /\ Fault
  /\ \E s \in todo[e] : todo' = [todo EXCEPT ![e] = @ \ {s}]
  /\ UNCHANGED <<head, disk, store, edits, rows, txn, at, call, pinned, dirty, memo, result, snapshot, calls>>

(* materializeCachedTargetValues: where values are wanted, a hit without a *)
(* recipe in the store is a miss.                                          *)
Servable(e, t) == ~call[e].values \/ result[e][t].payload \in store

Materialize(e) ==
  /\ at[e] = "lookup" /\ todo[e] = {}
  /\ result' = [result EXCEPT ![e] = Restrict(@, {t \in DOMAIN @ : Servable(e, t)})]
  /\ at' = [at EXCEPT ![e] = "eval"]
  /\ UNCHANGED <<worldVars, rows, txn, call, pinned, dirty, memo, todo, snapshot, calls>>

(***************************************************************************)
(* The misses are evaluated, which writes their recipes to the store.  A   *)
(* failing target ends the call (Exit), or with keepGoing has no result.   *)
(***************************************************************************)
Misses(e) == call[e].targets \ DOMAIN result[e]
(* Mutant: a failed target is taken for an evaluated one.                  *)
NoneFailing(e) == {t \in Misses(e) : FALSE}

Failing(e) == {t \in Misses(e) : PayloadOf[t][View(e)] = Failure}

EvaluateMisses(e) ==
  LET done == Misses(e) \ Failing(e) IN
    /\ at[e] = "eval"
    /\ Failing(e) = {} \/ call[e].keepGoing
    /\ snapshot' = [snapshot EXCEPT ![e] =
                      [t \in done |-> [paths |-> DepsOf[t][View(e)], payload |-> PayloadOf[t][View(e)]]]]
    /\ store' = store \cup ({PayloadOf[t][View(e)] : t \in done} \ {Plain})
    /\ at' = [at EXCEPT ![e] = "finalize"]
    /\ UNCHANGED <<head, disk, edits, faults, rows, txn, call, pinned, dirty, memo, todo, result, calls>>

(* finalizeSourceAccessSetDependencies: after all evaluation, through the  *)
(* same memo.                                                              *)
Closure(e, ps) == [p \in ps |-> Known(e, p)]

Finalize(e) ==
  LET new == DOMAIN snapshot[e]
      learned == [t \in new |-> [deps |-> Closure(e, snapshot[e][t].paths),
                                 payload |-> snapshot[e][t].payload]]
  IN
    /\ at[e] = "finalize"
    /\ result' = [result EXCEPT ![e] = Override(learned, @)]
    /\ Remember(e, UNION {snapshot[e][t].paths : t \in new})
    /\ todo' = [todo EXCEPT ![e] = {ShardOf[t] : t \in new}]
    /\ at' = [at EXCEPT ![e] = "upsert"]
    /\ UNCHANGED <<worldVars, rows, txn, call, pinned, dirty, snapshot, calls>>

--------------------------------------------------------------------------------
(***************************************************************************)
(* mergedShardRow.  Every stored history is trimmed to Keep; a fresh       *)
(* closure goes first in its target's history and displaces a candidate    *)
(* equal to it.  A row that cannot be read, or that would hold too many    *)
(* targets, is replaced by what was learned.                               *)
(***************************************************************************)
Keep == IF History = 0 THEN 1 ELSE History

Trim(h) == SubSeq(h, 1, IF Len(h) <= Keep THEN Len(h) ELSE Keep)

(* A set of positions listed in increasing order.                          *)
Enumerates(f, S) ==
  /\ \A i, j \in 1..Cardinality(S) : i < j => f[i] < f[j]
  /\ \A k \in S : \E i \in 1..Cardinality(S) : f[i] = k

InOrder(S) == CHOOSE f \in [1..Cardinality(S) -> S] : Enumerates(f, S)

(* The stored candidates that are not equal to c, in their order.          *)
Displace(h, c) ==
  LET kept == {k \in DOMAIN h : h[k] # c}
  IN  [j \in 1..Cardinality(kept) |-> h[InOrder(kept)[j]]]

(* Mutant: an equal candidate is not displaced.                            *)
LearnAgain(h, c) == Trim(<<c>> \o Trim(h))

Learn(h, c) == Trim(<<c>> \o Displace(Trim(h), c))

PlanShardRow(row, fresh) ==
  [t \in DOMAIN row \cup DOMAIN fresh |->
     LET h == IF t \in DOMAIN row THEN row[t] ELSE <<>>
     IN  IF t \in DOMAIN fresh THEN Learn(h, fresh[t]) ELSE Trim(h)]

Fits(row) == Cardinality(DOMAIN row) <= MaxTargets

MergedShardRow(row, fresh) ==
  LET merged == PlanShardRow(Stored(row), fresh)
  IN  IF Fits(merged) THEN merged ELSE PlanShardRow(Empty, fresh)

Fresh(e, s) == Restrict(result[e], {t \in DOMAIN snapshot[e] : ShardOf[t] = s})

(* `begin immediate' takes the database's write lock before the row is     *)
(* read; a busy database is retried.                                       *)
Unlocked == \A d \in Evaluator : txn[d] = NoTxn

(* Mutant: a deferred transaction takes the lock at its write only.        *)
BeginDeferred(e) ==
  \E s \in todo[e] :
    /\ at[e] = "upsert" /\ txn[e] = NoTxn
    /\ txn' = [txn EXCEPT ![e] = [shard |-> s, row |-> rows[s]]]
    /\ todo' = [todo EXCEPT ![e] = @ \ {s}]
    /\ UNCHANGED <<worldVars, rows, at, call, pinned, dirty, memo, result, snapshot, calls>>

BeginUpsert(e) ==
  \E s \in todo[e] :
    /\ at[e] = "upsert" /\ txn[e] = NoTxn /\ Unlocked
    /\ txn' = [txn EXCEPT ![e] = [shard |-> s, row |-> rows[s]]]
    /\ todo' = [todo EXCEPT ![e] = @ \ {s}]
    /\ UNCHANGED <<worldVars, rows, at, call, pinned, dirty, memo, result, snapshot, calls>>

Merged(e) == MergedShardRow(txn[e].row, Fresh(e, txn[e].shard))

CommitUpsert(e) ==
  /\ txn[e] # NoTxn
  /\ Fits(Merged(e))
  /\ rows' = [rows EXCEPT ![txn[e].shard] = Merged(e)]
  /\ txn' = [txn EXCEPT ![e] = NoTxn]
  /\ UNCHANGED <<worldVars, at, call, pinned, dirty, memo, todo, result, snapshot, calls>>

(* A row that is too large or cannot be written costs its own shard only.  *)
SkipShard(e) ==
  /\ txn[e] # NoTxn
  /\ Fault \/ (~Fits(Merged(e)) /\ UNCHANGED faults)
  /\ txn' = [txn EXCEPT ![e] = NoTxn]
  /\ UNCHANGED <<head, disk, store, edits, rows, at, call, pinned, dirty, memo, todo, result, snapshot, calls>>

Answer(e) ==
  /\ at[e] = "upsert" /\ todo[e] = {} /\ txn[e] = NoTxn
  /\ at' = [at EXCEPT ![e] = "done"]
  /\ UNCHANGED <<worldVars, rows, txn, call, pinned, dirty, memo, todo, result, snapshot, calls>>

(* The process ends; an open transaction is rolled back.                   *)
Leave(e) ==
  /\ at' = [at EXCEPT ![e] = "idle"]
  /\ txn' = [txn EXCEPT ![e] = NoTxn]
  /\ call' = [call EXCEPT ![e] = NoCall]
  /\ dirty' = [dirty EXCEPT ![e] = {}]
  /\ memo' = [memo EXCEPT ![e] = NoMemo]
  /\ todo' = [todo EXCEPT ![e] = {}]
  /\ result' = [result EXCEPT ![e] = Empty]
  /\ snapshot' = [snapshot EXCEPT ![e] = Empty]
  /\ UNCHANGED <<head, disk, store, edits, rows, pinned, calls>>

(* With its answer, or because a target failed.                            *)
Exit(e) ==
  /\ at[e] = "done" \/ (at[e] = "eval" /\ Failing(e) # {} /\ ~call[e].keepGoing)
  /\ Leave(e) /\ UNCHANGED faults

(* Or at any moment, killed or interrupted.                                *)
Crash(e) == at[e] # "idle" /\ Fault /\ Leave(e)

--------------------------------------------------------------------------------
(***************************************************************************)
(* The environment: files are edited and committed, the store is collected *)
(* and a row's bytes may be damaged or of another format version.          *)
(***************************************************************************)
procVars == <<txn, at, call, pinned, dirty, memo, todo, result, snapshot, calls>>

Edit(e, p, c) ==
  /\ EditsRace \/ at[e] = "idle"
  /\ edits < MaxEdits /\ edits' = edits + 1
  /\ c # disk[e][p]
  /\ disk' = [disk EXCEPT ![e][p] = c]
  /\ UNCHANGED <<procVars, head, store, rows, faults>>

GitCommit(e) ==
  /\ head[e] # disk[e]
  /\ head' = [head EXCEPT ![e] = disk[e]]
  /\ UNCHANGED <<procVars, disk, store, rows, edits, faults>>

CollectGarbage ==
  /\ Fault
  /\ \E r \in store : store' = store \ {r}
  /\ UNCHANGED <<procVars, head, disk, rows, edits>>

DamageRow(s) ==
  /\ Fault
  /\ Unlocked /\ Readable(rows[s])
  /\ rows' = [rows EXCEPT ![s] = Unreadable]
  /\ UNCHANGED <<procVars, head, disk, store, edits>>

Next ==
  \/ \E e \in Evaluator :
       \/ Pin(e) \/ Status(e) \/ LookupShard(e) \/ LookupFails(e) \/ Materialize(e)
       \/ EvaluateMisses(e) \/ Finalize(e)
       \/ BeginUpsert(e) \/ CommitUpsert(e) \/ SkipShard(e) \/ Answer(e)
       \/ Exit(e) \/ Crash(e)
       \/ GitCommit(e)
       \/ \E p \in Path, c \in Content \cup {Absent} : Edit(e, p, c)
  \/ CollectGarbage
  \/ \E s \in Shard : DamageRow(s)

Spec == Init /\ [][Next]_vars

--------------------------------------------------------------------------------
(***************************************************************************)
(* Properties.                                                             *)
(***************************************************************************)
Fingerprints == [base : Content \cup {Absent}, overlay : Content \cup {Clean}]

Candidate == [deps : UNION {[D -> Fingerprints] : D \in SUBSET Path}, payload : Payload]

IsRow(row) ==
  Readable(row) =>
    DOMAIN row \subseteq Target /\ \A t \in DOMAIN row : row[t] \in Seq(Candidate) \ {<<>>}

(* Every variable has its type: in particular a failed target never gets a *)
(* result, and so never reaches a row (tecnix.cc, evalMiss).               *)
TypeOK ==
  /\ {head, disk, pinned} \subseteq [Evaluator -> Tree]
  /\ store \subseteq Recipe
  /\ DOMAIN rows = Shard /\ \A s \in Shard : IsRow(rows[s])
  /\ DOMAIN txn = Evaluator
  /\ \A e \in Evaluator : txn[e] # NoTxn => txn[e].shard \in Shard /\ IsRow(txn[e].row)
  /\ at \in [Evaluator -> {"idle", "status", "lookup", "eval", "finalize", "upsert", "done"}]
  /\ call \in [Evaluator -> Call]
  /\ dirty \in [Evaluator -> SUBSET Path]
  /\ memo \in [Evaluator -> [Path -> Fingerprints \cup {NoFp}]]
  /\ todo \in [Evaluator -> SUBSET Shard]
  /\ DOMAIN result = Evaluator /\ DOMAIN snapshot = Evaluator
  /\ \A e \in Evaluator : \A t \in DOMAIN result[e] : result[e][t] \in Candidate
  /\ \A e \in Evaluator : DOMAIN snapshot[e] \subseteq call[e].targets
  /\ {edits, calls, faults} \subseteq Nat

(* The content a fingerprint stands for.                                   *)
ContentOf(fp) == IF fp.overlay = Clean THEN fp.base ELSE fp.overlay

Agrees(c, tree) == \A p \in DOMAIN c.deps : tree[p] = ContentOf(c.deps[p])

Proves(t, c) ==
  \A tree \in Tree :
    Agrees(c, tree) => PayloadOf[t][tree] = c.payload /\ DepsOf[t][tree] = DOMAIN c.deps

(* Every stored candidate is a proof: on every tree that has the content   *)
(* its closure names, its target evaluates to its payload and reads just   *)
(* that closure, whoever wrote the row, with whatever dirty files, and     *)
(* whatever the other evaluators did meanwhile (eval-cache.cc, rows).      *)
CandidatesSound ==
  \A s \in Shard : \A t \in DOMAIN Stored(rows[s]) : \A k \in DOMAIN rows[s][t] :
    Proves(t, rows[s][t][k])

(* What a call answers, from the cache or not, is what evaluating its tree *)
(* from nothing gives: the payload, and the closure with its fingerprints. *)
(* With keepGoing exactly the failing targets are missing, and otherwise   *)
(* none is (tecnix.cc, the asserts on results).                            *)
ServedCorrect ==
  \A e \in Evaluator : at[e] = "done" =>
    /\ DOMAIN result[e] = {t \in call[e].targets : PayloadOf[t][View(e)] # Failure}
    /\ DOMAIN result[e] = call[e].targets \/ call[e].keepGoing
    /\ \A t \in DOMAIN result[e] :
         /\ result[e][t].payload = PayloadOf[t][View(e)]
         /\ result[e][t].deps = [p \in DepsOf[t][View(e)] |-> Fingerprint(e, p)]

(* A row keeps at most History candidates of a target and MaxTargets       *)
(* targets, and no two candidates of a target have one closure: an older   *)
(* one could never be served again (planShardRow, mergedShardRow).         *)
HistoryBounded ==
  \A s \in Shard :
    /\ Fits(Stored(rows[s]))
    /\ \A t \in DOMAIN Stored(rows[s]) :
         /\ Len(rows[s][t]) \in 1..Keep
         /\ \A i, j \in DOMAIN rows[s][t] : rows[s][t][i].deps = rows[s][t][j].deps => i = j

(* Evaluators that share the cache accumulate: a write forgets the newest  *)
(* candidate of a target only if the histories hold one candidate or the   *)
(* shard is full, so two overlapping writers never erase each other's      *)
(* (upsertMany, one immediate transaction per shard).                      *)
Forgets(s) ==
  \E t \in DOMAIN Stored(rows[s]) :
    t \notin DOMAIN Stored(rows'[s]) \/ rows[s][t][1] \notin Range(rows'[s][t])

Accumulates ==
  [][\A s \in Shard :
       Readable(rows[s]) /\ Readable(rows'[s]) /\ Keep > 1 /\ Forgets(s) =>
         \E e \in Evaluator :
           /\ txn[e] # NoTxn /\ txn[e].shard = s
           /\ Cardinality(DOMAIN rows[s] \cup DOMAIN Fresh(e, s)) > MaxTargets]_vars

--------------------------------------------------------------------------------
(***************************************************************************)
(* The inductive invariant behind the properties.                          *)
(***************************************************************************)

(* Who has results and snapshots, and of which targets.                    *)
CallInv ==
  \A e \in Evaluator :
    /\ at[e] \in {"idle", "status"} => memo[e] = NoMemo /\ result[e] = Empty
    /\ at[e] \in {"idle", "status", "lookup", "eval"} => snapshot[e] = Empty
    /\ at[e] \in {"upsert", "done"} => DOMAIN snapshot[e] \subseteq DOMAIN result[e]
    /\ DOMAIN result[e] \subseteq call[e].targets
    /\ \A t \in DOMAIN snapshot[e] :
         snapshot[e][t].paths \in SUBSET Path /\ snapshot[e][t].payload \in Payload

(* The write lock: at most one transaction is open, and what it has read   *)
(* is what the database holds.                                             *)
LockInv ==
  \A e \in Evaluator : txn[e] # NoTxn =>
    /\ at[e] = "upsert"
    /\ txn[e].shard \in Shard /\ txn[e].row = rows[txn[e].shard]
    /\ \A d \in Evaluator : txn[d] # NoTxn => d = e

(* A candidate that says what evaluating e's tree from nothing gives.      *)
Exact(e, t) ==
  [deps |-> [p \in DepsOf[t][View(e)] |-> Fingerprint(e, p)], payload |-> PayloadOf[t][View(e)]]

(* A call's memo, results and snapshots are about the tree it evaluates.   *)
ExactInv ==
  \A e \in Evaluator :
    /\ \A p \in Path : memo[e][p] # NoFp => memo[e][p] = Fingerprint(e, p)
    /\ \A t \in DOMAIN result[e] : result[e][t] = Exact(e, t)
    /\ \A t \in DOMAIN snapshot[e] :
         /\ snapshot[e][t].paths = DepsOf[t][View(e)]
         /\ snapshot[e][t].payload = PayloadOf[t][View(e)]

(* Exactly the failing targets are left out.                               *)
AnswerInv ==
  \A e \in Evaluator :
    LET succeeding == {t \in call[e].targets : PayloadOf[t][View(e)] # Failure} IN
      /\ at[e] = "finalize" => DOMAIN result[e] \cup DOMAIN snapshot[e] = succeeding
      /\ at[e] \in {"upsert", "done"} => DOMAIN result[e] = succeeding
      /\ at[e] \in {"finalize", "upsert", "done"} =>
           succeeding = call[e].targets \/ call[e].keepGoing
================================================================================
