------------------------------ MODULE MCFrameStack -----------------------------
(* An instance of FrameStack: a plain value that may need itself, and a     *)
(* file that uses it.                                                      *)
EXTENDS FrameStack

CONSTANTS p1, p2, plain, file

MCOwnPath == (file :> p2)
MCUses == (None :> {plain, file}) @@ (MemoKey :> {}) @@ (file :> {plain}) @@ (plain :> {plain})
MCOtherReads ==
  [x \in Value \cup Key |-> IF x \in {file, MemoKey} THEN {{p1, p2}} ELSE {}]
================================================================================
