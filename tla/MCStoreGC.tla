----------------------------- MODULE MCStoreGC -----------------------------
(***************************************************************************)
(* Instances of StoreGC for TLC: a small store whose path 2 refers to      *)
(* path 1, shared by two processes and the collector.                      *)
(***************************************************************************)
EXTENDS StoreGC, TLC

CONSTANTS c1, c2

ClientSymmetry == Permutations({c1, c2})

MCPaths == {1, 2}
MCRefs == [p \in MCPaths |-> IF p = 2 THEN {1} ELSE {}]

call(kind, ps) == [kind |-> kind, paths |-> ps]

(* Path 2 is copied together with its reference, or used and kept; path 1  *)
(* is used on its own.                                                     *)
MCJobs == {call("multi", {1, 2}), call("single", {2}), call("use", {1}), call("perm", {1})}

(* Path 1 is added by both functions.                                      *)
MCMixedJobs == {call("multi", {1}), call("single", {1})}

(* Path 2 is added by one function and path 1 by the other.                *)
MCSeparateJobs == {call("multi", {2}), call("single", {1}), call("use", {1}), call("perm", {1})}

(* No collection starts in one of the windows that QuietStart excludes.    *)
SpecQuiet == Init /\ [][Next /\ QuietStart]_vars
=============================================================================
