----------------------------- MODULE MCParallelEval ----------------------------
(***************************************************************************)
(* Instances of ParallelEval for TLC.  Item names double as evaluator ids. *)
(***************************************************************************)
EXTENDS ParallelEval, TLC

CONSTANTS w1, w2
MCWorker == {w1, w2}

(* The safety runs treat the workers as interchangeable.                   *)
WorkerSymmetry == Permutations(MCWorker)

MCDomain == {"d1", "d2"}

(* Two items and the main thread share a value, one of them through a value *)
(* that forces it.                                                         *)
SharedItem == {"i1", "i2"}
SharedValue == {"lib", "zone"}
SharedNeeds ==
  "lib" :> <<>> @@ "zone" :> <<"lib">> @@
  "i1" :> <<"zone">> @@ "i2" :> <<"lib">> @@ "main" :> <<"lib">>
SharedBatches == <<{"i1", "i2"}>>

(* The order of that graph, and the chains of forces it has in a state.    *)
SharedRank == "lib" :> 0 @@ "zone" :> 1 @@ "i1" :> 2 @@ "i2" :> 1 @@ "main" :> 1
SharedChained == Chained(SharedRank)

(* Three items in two batches, one fiber per worker; a value throws.       *)
LimitItem == {"i1", "i2", "i3"}
LimitNeeds ==
  "lib" :> <<>> @@ "zone" :> <<"lib">> @@
  "i1" :> <<"zone">> @@ "i2" :> <<"lib", "zone">> @@ "i3" :> <<"lib">> @@ "main" :> <<"lib">>
LimitBatches == <<{"i1", "i2"}, {"i3"}>>
LimitDomainOf == "lib" :> "d1" @@ "zone" :> "d2"

(* The two items only, one of them may wait inside the value it owns; the  *)
(* main thread blocks on their futures or drops them.  One waiter domain.  *)
InterruptNeeds ==
  "lib" :> <<>> @@ "zone" :> <<"lib">> @@
  "i1" :> <<"zone">> @@ "i2" :> <<"lib">> @@ "main" :> <<>>
OneDomain == {"d1"}
OneDomainOf == "lib" :> "d1" @@ "zone" :> "d1"

(* Two values that force each other, entered from two items.               *)
CycleNeeds ==
  "lib" :> <<"zone">> @@ "zone" :> <<"lib">> @@
  "i1" :> <<"zone">> @@ "i2" :> <<"lib">> @@ "main" :> <<>>
================================================================================
