-------------------------- MODULE MCBuildScheduler --------------------------
(***************************************************************************)
(* Instances of BuildScheduler for TLC.                                    *)
(***************************************************************************)
EXTENDS BuildScheduler

(* a is built from b and c.  b can be substituted, with two references r   *)
(* and s, which are in the substituter too; c cannot.                      *)
MCPath == {"a", "b", "c", "r", "s"}
MCDrv == {"a", "b", "c"}
MCInputs == [d \in MCDrv |-> IF d = "a" THEN {"b", "c"} ELSE {}]
MCSrcs == [d \in MCDrv |-> IF d = "c" THEN {"r"} ELSE {}]
MCRefs == [p \in MCPath |-> IF p = "b" THEN {"r", "s"} ELSE {}]
MCTop == {<<"drv", "a">>}
MCAnswers == [p \in MCPath |-> IF p = "s" THEN {"info", "error"}
                               ELSE IF p \in {"b", "r"} THEN {"info"} ELSE {"invalid"}]

(* b is built, since it allows no substitutes; q is substituted, and b is  *)
(* one of its references.                                                  *)
HangPath == {"b", "q", "r"}
HangDrv == {"b", "q"}
HangNone == [d \in HangDrv |-> {}]
HangRefs == [p \in HangPath |-> IF p = "q" THEN {"b", "r"} ELSE {}]
HangTop == {<<"drv", "b">>, <<"drv", "q">>}
HangAnswers == [p \in HangPath |-> {"info"}]
=============================================================================
