------------------------------ MODULE MCEvalCache ------------------------------
(***************************************************************************)
(* Instances of EvalCache for TLC: two checkouts of a two-file repository  *)
(* and targets whose closures depend on what they read.                    *)
(***************************************************************************)
EXTENDS EvalCache, TLC

CONSTANTS e1, e2

EvaluatorSymmetry == Permutations({e1, e2})

MCPath == {"lib.nix", "zone.nix"}
MCContent == {"x", "y"}
MCTarget == {"//zone:app", "//zone:dev", "//lib:doc", "//lib:test"}
MCRecipe == {"r1", "r2"}

(* The resolver reads zone.nix, and lib.nix only if zone.nix imports it; a *)
(* missing file fails app and leaves dev without a derivation.             *)
MCDepsOf ==
  [t \in MCTarget |-> [tree \in Tree |->
     CASE t = "//zone:app" -> {"zone.nix"} \cup IF tree["zone.nix"] = "y" THEN {"lib.nix"} ELSE {}
       [] t = "//zone:dev" -> {"zone.nix"}
       [] OTHER -> {"lib.nix"}]]

MCPayloadOf ==
  [t \in MCTarget |-> [tree \in Tree |->
     CASE t = "//zone:app" ->
            (CASE tree["zone.nix"] = "x" -> "r1"
               [] tree["zone.nix"] = "y" -> (IF tree["lib.nix"] = "x" THEN "r1" ELSE "r2")
               [] OTHER -> Failure)
       [] t = "//zone:dev" -> (IF tree["zone.nix"] = Absent THEN Plain ELSE "r2")
       [] OTHER -> Plain]]

(* The commit to start from: lib.nix is imported and does not exist yet.   *)
MCInitial == {[p \in MCPath |-> IF p = "lib.nix" THEN Absent ELSE "y"]}

(* Three of the targets hash to one shard, one more than a row may hold.   *)
MCShardOf == [t \in MCTarget |-> IF t = "//lib:test" THEN "s2" ELSE "s1"]

request(ts, values, keepGoing) == [targets |-> ts, values |-> values, keepGoing |-> keepGoing]

(* tecnixTargets with values and dependencies, going on past failures, and *)
(* with dependencies only, stopping at one.                                *)
MCCalls ==
  { request({"//zone:app", "//zone:dev", "//lib:test"}, TRUE, TRUE),
    request({"//zone:app", "//zone:dev", "//lib:doc"}, FALSE, FALSE) }
================================================================================
