----------------------------- MODULE MCTrackedEval -----------------------------
(***************************************************************************)
(* Instances of TrackedEval for TLC: small value graphs, each with the     *)
(* sharing, the failures and the tryEval its run is about, and the oracle  *)
(* computed by evaluating every node on its own.                           *)
(***************************************************************************)
EXTENDS TrackedEval, TLC

read(p) == [op |-> "read", arg |-> p]
force(v) == [op |-> "force", arg |-> v]
try(v) == [op |-> "try", arg |-> v]

MCPath == {"resolver.nix", "lib.nix", "zone.nix", "a.nix", "b.nix"}

(* Isolated evaluation of a node: its steps in order, up to the first      *)
(* failure that is not caught.                                             *)
RECURSIVE Isolated(_), Walk(_, _, _)
Walk(n, i, deps) ==
  IF i > Len(Script[n]) THEN [deps |-> deps, out |-> Ends[n]]
  ELSE LET s == Script[n][i] IN
    IF s.op = "read" THEN Walk(n, i + 1, deps \cup {s.arg})
    ELSE LET r == Isolated(s.arg) IN
      IF Catches(s.op, r.out) THEN Walk(n, i + 1, deps \cup r.deps)
      ELSE [deps |-> deps \cup r.deps, out |-> r.out]
Isolated(n) == Walk(n, 1, {})

MCDeps == [n \in Node |-> Isolated(n).deps]
MCOut == [n \in Node |-> Isolated(n).out]

--------------------------------------------------------------------------------
(* Parallel targets over a shared resolver, library and zone.  The second  *)
(* target also meets a shared value whose evaluation throws, uncaught.     *)
SharedTask == {"t1", "t2", "t3"}
SharedValue == {"resolve", "lib", "zone", "bad"}
SharedScript ==
  "resolve" :> <<read("resolver.nix"), force("lib")>> @@
  "lib" :> <<read("lib.nix")>> @@
  "zone" :> <<read("zone.nix"), force("lib")>> @@
  "bad" :> <<force("lib"), read("b.nix")>> @@
  "t1" :> <<force("resolve"), force("zone"), read("a.nix")>> @@
  "t2" :> <<force("zone"), force("bad")>> @@
  "t3" :> <<force("bad"), read("a.nix")>>
SharedEnds == [n \in SharedTask \cup SharedValue |-> IF n = "bad" THEN "throw" ELSE "ok"]

--------------------------------------------------------------------------------
(* Targets that catch the failure of a shared value with tryEval: "bad"    *)
(* throws after reading a path, "worse" fails in a way tryEval does not    *)
(* catch, and an untracked task may force the same values in between.      *)
TryTask == {"t1", "t2", "t3"}
TryValue == {"lib", "bad", "worse", "opt"}
TryScript ==
  "lib" :> <<read("lib.nix")>> @@
  "bad" :> <<read("b.nix"), force("lib")>> @@
  "worse" :> <<try("bad"), read("zone.nix")>> @@
  "opt" :> <<try("bad"), read("a.nix")>> @@
  "t1" :> <<try("bad"), force("lib")>> @@
  "t2" :> <<force("opt"), force("lib")>> @@
  "t3" :> <<try("opt"), try("worse")>>
TryEnds == [n \in TryTask \cup TryValue |->
              CASE n = "bad" -> "throw" [] n = "worse" -> "error" [] OTHER -> "ok"]

--------------------------------------------------------------------------------
(* One target forces a value of the first call's result untracked before   *)
(* the second call, as an expression using tecnixTargets twice does.       *)
TwiceTask == {"t1", "use", "t2"}
TwiceValue == {"lib", "zone"}
TwiceScript ==
  "lib" :> <<read("lib.nix")>> @@
  "zone" :> <<read("zone.nix"), force("lib")>> @@
  "t1" :> <<force("lib")>> @@
  "use" :> <<force("zone")>> @@
  "t2" :> <<force("zone"), read("a.nix")>>
TwiceEnds == [n \in TwiceTask \cup TwiceValue |-> "ok"]
TwiceUntracked == {"use"}
TryUntracked == {"t2"}
================================================================================
