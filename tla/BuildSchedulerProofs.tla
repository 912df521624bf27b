------------------------ MODULE BuildSchedulerProofs ------------------------
(***************************************************************************)
(* Proofs of the safety invariants of BuildScheduler, for every set of     *)
(* paths and derivations, every number of slots and substituters, and      *)
(* every choice of requested goals.                                        *)
(***************************************************************************)
EXTENDS BuildScheduler, FiniteSetTheorems, NaturalsInduction, TLAPS

-----------------------------------------------------------------------------
(* Goals                                                                   *)

LEMMA GoalFacts ==
  ASSUME NEW g \in Goal
  PROVE  /\ g = <<g[1], g[2]>> /\ g[2] \in Path
         /\ g[1] \in {"path", "drv", "res", "bld"} /\ (g[1] # "path" => g[2] \in Drv)
BY SchedulerConstants DEF Goal

LEMMA GoalNames ==
  /\ \A d \in Drv : <<"drv", d>> \in Goal /\ <<"res", d>> \in Goal /\ <<"bld", d>> \in Goal
  /\ \A p \in Path : <<"path", p>> \in Goal
BY DEF Goal

LEMMA PcsFacts ==
  /\ Pcs("path") = {"init", "query", "refs", "run", "copy"}
  /\ Pcs("drv") = {"init", "subst", "res", "bld"}
  /\ Pcs("res") = {"init", "inputs"}
  /\ Pcs("bld") = {"init", "srcs", "try", "local", "ready", "build", "remote", "post"}
BY DEF Pcs

LEMMA WaitableFacts ==
  ASSUME NEW g, NEW pc
  PROVE  /\ g[1] = "path" => Waitable(g, pc) = IF pc = "refs" THEN {<<"path", p>> : p \in Refs[g[2]] \ {g[2]}} ELSE {}
         /\ g[1] = "drv" => Waitable(g, pc) = IF pc = "subst" THEN {<<"path", g[2]>>}
                                              ELSE IF pc = "res" THEN {<<"res", g[2]>>}
                                              ELSE IF pc = "bld" THEN {<<"bld", g[2]>>} ELSE {}
         /\ g[1] = "res" => Waitable(g, pc) = IF pc = "inputs" THEN {"drv"} \X Inputs[g[2]] ELSE {}
         /\ g[1] = "bld" => Waitable(g, pc) = IF pc = "srcs" THEN {<<"path", p>> : p \in Srcs[g[2]]} ELSE {}
BY DEF Waitable

LEMMA WaitableGoals ==
  ASSUME NEW g \in Goal, NEW pc
  PROVE  Waitable(g, pc) \subseteq Goal
<1>1. g[2] \in Path /\ (g[1] # "path" => g[2] \in Drv) /\ g[1] \in {"path", "drv", "res", "bld"}
  BY GoalFacts
<1>2. Refs[g[2]] \subseteq Path
  BY <1>1, SchedulerConstants
<1>3. g[1] # "path" => Inputs[g[2]] \subseteq Drv /\ Srcs[g[2]] \subseteq Path
  BY <1>1, SchedulerConstants
<1>4. CASE g[1] = "path"
  BY <1>2, <1>4, WaitableFacts, GoalNames
<1>5. CASE g[1] = "drv"
  BY <1>1, <1>5, WaitableFacts, GoalNames
<1>6. CASE g[1] = "res"
  <2>1. \A h \in {"drv"} \X Inputs[g[2]] : h = <<"drv", h[2]>> /\ h[2] \in Drv
    BY <1>3, <1>6
  <2>2. {"drv"} \X Inputs[g[2]] \subseteq Goal
    BY <2>1, GoalNames
  <2> QED
    BY <1>6, <2>2, WaitableFacts
<1>7. CASE g[1] = "bld"
  BY <1>3, <1>7, WaitableFacts, GoalNames
<1> QED
  BY <1>1, <1>4, <1>5, <1>6, <1>7

-----------------------------------------------------------------------------
(* Who is held                                                             *)

(* A set of goals that no root is in and no other goal points into.        *)
Cut(gs, roots, C) ==
  /\ C \subseteq DOMAIN gs /\ C \cap roots = {}
  /\ \A h \in DOMAIN gs \ C : Pointers(gs[h]) \cap C = {}

(* The goals that are not held are the largest cut.                        *)
LEMMA HeldFacts ==
  ASSUME NEW gs, NEW roots
  PROVE  /\ Held(gs, roots) \subseteq DOMAIN gs
         /\ Cut(gs, roots, DOMAIN gs \ Held(gs, roots))
         /\ \A C : Cut(gs, roots, C) => C \cap Held(gs, roots) = {}
<1> DEFINE near(S) == S \cup UNION {Pointers(gs[h]) : h \in S \cap DOMAIN gs}
           cuts == {cut \in SUBSET (DOMAIN gs \ near(near(roots))) :
                       \A h \in DOMAIN gs \ cut : Pointers(gs[h]) \cap cut = {}}
<1>1. Held(gs, roots) = DOMAIN gs \ UNION cuts
  BY DEF Held
<1>2. \A S : S \subseteq near(S)
  OBVIOUS
<1>3. \A cut \in cuts : cut \subseteq DOMAIN gs /\ cut \cap roots = {}
  BY <1>2
<1>4. Cut(gs, roots, UNION cuts)
  BY <1>3 DEF Cut
<1>5. ASSUME NEW C, Cut(gs, roots, C) PROVE C \in cuts
  <2>1. ASSUME NEW S, S \cap C = {} PROVE near(S) \cap C = {}
    BY <1>5, <2>1 DEF Cut
  <2>2. near(near(roots)) \cap C = {}
    BY <1>5, <2>1 DEF Cut
  <2> HIDE DEF near
  <2> QED
    BY <1>5, <2>2 DEF Cut
<1> HIDE DEF cuts
<1>6. UNION cuts \subseteq DOMAIN gs
  BY <1>4 DEF Cut
<1>7. DOMAIN gs \ Held(gs, roots) = UNION cuts
  BY <1>1, <1>6
<1> QED
  BY <1>1, <1>4, <1>5, <1>7

LEMMA HeldClosed ==
  ASSUME NEW gs, NEW roots
  PROVE  /\ Held(gs, roots) \subseteq DOMAIN gs /\ roots \cap DOMAIN gs \subseteq Held(gs, roots)
         /\ \A h \in Held(gs, roots) : Pointers(gs[h]) \cap DOMAIN gs \subseteq Held(gs, roots)
BY HeldFacts DEF Cut

-----------------------------------------------------------------------------
(* The shapes of a resumed goal's steps.  Every one suspends, or awaits    *)
(* other goals, or ends, or throws.                                        *)

ChildPcs == {"build", "remote", "post"}

Resumes(g) ==
  /\ phase = "work" /\ joining = {} /\ topGoals # {}
  /\ g \in todo /\ g \in DOMAIN goal /\ goal[g].waitees = {}
  /\ todo' = todo \ {g} /\ UNCHANGED settings

(* Where a suspended goal is put.                                          *)
Parked(g, r) ==
  \/ /\ awake' = awake \cup {g} /\ UNCHANGED waiting
     /\ r.pc \notin ChildPcs \cup {"query", "copy"}
  \/ /\ waitingForAWhile' = waitingForAWhile \cup {g}
     /\ UNCHANGED <<awake, wantingToBuild, wantingToSubstitute, waitingForCompletion>>
     /\ r.pc \notin ChildPcs \cup {"query", "copy"}
  \/ /\ waitingForCompletion' = waitingForCompletion \cup {g}
     /\ UNCHANGED <<awake, wantingToBuild, wantingToSubstitute, waitingForAWhile>>
     /\ r.pc \in {"query", "copy"}
  \/ /\ wantingToBuild' = wantingToBuild \cup {g}
     /\ UNCHANGED <<awake, wantingToSubstitute, waitingForAWhile, waitingForCompletion>>
     /\ r.pc \notin ChildPcs \cup {"query", "copy"}
  \/ /\ wantingToSubstitute' = wantingToSubstitute \cup {g}
     /\ UNCHANGED <<awake, wantingToBuild, waitingForAWhile, waitingForCompletion>>
     /\ r.pc \notin ChildPcs \cup {"query", "copy"}
  \/ /\ UNCHANGED <<awake, waiting>>
     /\ g[1] = "bld" /\ r.pc \in ChildPcs

(* What it does to its child and its slot.                                 *)
SlotStep(g, r) ==
  \/ UNCHANGED slots /\ ~ChildAlive(g) /\ r.pc \notin ChildPcs \cup {"copy"}
  \/ /\ ChildStarted(g, TRUE) /\ ~ChildAlive(g)
     /\ \/ g[1] = "bld" /\ r.pc = "build" /\ nrLocalBuilds < MaxBuildJobs
        \/ g[1] = "path" /\ r.pc = "copy" /\ nrSubstitutions < SubstitutionLimit
  \/ ChildStarted(g, FALSE) /\ ~ChildAlive(g) /\ g[1] = "bld" /\ r.pc = "remote"
  \/ /\ g[1] = "bld" /\ ChildAlive(g) /\ r.pc = "post"
     /\ child' = [child EXCEPT ![g] = FALSE]
     /\ nrLocalBuilds' = nrLocalBuilds - (IF child[g] THEN 1 ELSE 0)
     /\ UNCHANGED nrSubstitutions
  \/ /\ g[1] = "path" /\ r.pc = "query"
     /\ \E ended \in {{}, {g}} : ChildTerminated(ended) /\ (ended = {} => ~ChildAlive(g))

Suspends(g, r) ==
  /\ goal' = [goal EXCEPT ![g] = r] /\ Busy
  /\ r \in GoalState(g) /\ Pointers(r) = {} /\ ReadyAs(g, r)'
  /\ g[1] \in {"path", "bld"}
  /\ Parked(g, r) /\ SlotStep(g, r)
  /\ phase' = phase /\ valid \subseteq valid' /\ StoreInv'

Awaits(g, r, W, required) ==
  /\ goal' = [h \in DOMAIN goal \cup W |->
                IF h = g THEN r ELSE IF h \in DOMAIN goal THEN goal[h] ELSE Created(required)]
  /\ awake' = awake \cup (W \ DOMAIN goal) /\ UNCHANGED waiting /\ Busy
  /\ r \in GoalState(g) /\ r.waitees = W /\ Pointers(r) = W /\ W # {} /\ ReadyAs(g, r)'
  /\ required \in BOOLEAN
  /\ \A h \in W : ReadyAs(h, Created(required))'
  /\ ~ChildAlive(g) /\ ~Failing(g) /\ Pointers(goal[g]) = {}
  /\ r.pc \notin ChildPcs \cup {"query", "copy"}
  /\ UNCHANGED <<slots, lock, valid, phase, delays>>

Ends(g, code, ended) ==
  /\ AmDone(g, code, ended)
  /\ code \in Codes /\ ended \in {{}, {g}} /\ (ended = {} => ~ChildAlive(g))
  /\ code = "success" => Achieved(g) /\ Pointers(goal[g]) = {}
  /\ g[1] = "path" \/ code # "noSubstituters"
  /\ goal[g].nrFailed > 0 /\ (g[1] = "res" \/ (g[1] = "drv" /\ goal[g].pc \in {"res", "bld"}))
     => code = "failed"
  /\ UNCHANGED <<valid, phase, delays>>

Step(g) ==
  /\ Resumes(g)
  /\ \/ \E r : Suspends(g, r)
     \/ \E r, W, required : Awaits(g, r, W, required)
     \/ \E code, ended : Ends(g, code, ended)
     \/ Throw /\ UNCHANGED delays

-----------------------------------------------------------------------------
(* The steps of PathSubstitutionGoal have these shapes.                    *)

Inv == GoalInv /\ QueueInv /\ SlotInv /\ StoreInv /\ WakeInv /\ ReadyInv

LEMMA Resumed ==
  ASSUME Inv, NEW g \in Goal, NEW kind, NEW pc, Resume(g, kind, pc)
  PROVE  /\ Resumes(g) /\ g[1] = kind /\ goal[g].pc = pc
         /\ goal[g] \in GoalState(g) /\ goal[g].waitees = {} /\ ReadyAs(g, goal[g])
         /\ (kind # "res" \/ pc = "init" => Pointers(goal[g]) = {})
<1>1. /\ phase = "work" /\ joining = {} /\ topGoals # {} /\ g \in todo /\ todo' = todo \ {g}
      /\ UNCHANGED settings /\ g[1] = kind /\ goal[g].pc = pc
  BY DEF Resume
<1>2. g \in DOMAIN goal /\ goal[g] \in GoalState(g) /\ ReadyAs(g, goal[g])
  BY <1>1 DEF Inv, GoalInv, QueueInv, ReadyInv
<1>3. OneSource(g)
  BY <1>1, <1>2 DEF Inv, WakeInv
<1>4. Sourced(g, "todo")
  BY <1>1 DEF Sourced
<1>5. ~Sourced(g, "waitees")
  BY <1>3, <1>4 DEF OneSource, Sources
<1>6. goal[g].waitees = {}
  BY <1>5 DEF Sourced
<1>7. goal[g].inputGoals \subseteq (IF g[1] = "res" THEN Waitable(g, goal[g].pc) ELSE {})
  BY <1>2 DEF GoalState
<1>8. kind # "res" \/ pc = "init" => goal[g].inputGoals = {}
  BY <1>1, <1>7, WaitableFacts
<1> QED
  BY <1>1, <1>2, <1>6, <1>8 DEF Resumes, Pointers

(* A new goal, unless it is a building goal, has nothing to be ready for.  *)
LEMMA CreatedReady ==
  ASSUME NEW h, h[1] \in {"path", "drv", "res"}, NEW required
  PROVE  ReadyAs(h, Created(required))'
<1>1. PICK r : r = Created(required)
  OBVIOUS
<1>2. r.pc = "init" /\ Waitable(h, r.pc) = {}
  BY <1>1, WaitableFacts DEF Created
<1>3. ReadyAs(h, r)'
  BY <1>2 DEF ReadyAs
<1> QED
  BY <1>1, <1>3

LEMMA NextSubstituterStep ==
  ASSUME Inv, NEW g \in Goal, g[1] = "path", Resumes(g), NEW r \in GoalState(g), Pointers(r) = {},
         Pointers(goal[g]) = {},
         NEW ended \in {{}, {g}}, ended = {} => ~ChildAlive(g), NextSubstituter(g, r, ended)
  PROVE  Step(g)
<1>1. CASE /\ r.tried < NrSubstituters
           /\ WaitUntilWoken(g, [r EXCEPT !.pc = "query", !.tried = @ + 1,
                                          !.lastException = FALSE, !.reply = "none"])
           /\ ChildTerminated(ended)
           /\ Running /\ UNCHANGED <<lock, valid>>
  <2>1. PICK s : s = [r EXCEPT !.pc = "query", !.tried = @ + 1, !.lastException = FALSE, !.reply = "none"]
    OBVIOUS
  <2>2. /\ s.pc = "query" /\ s.waitees = r.waitees /\ s.inputGoals = r.inputGoals
        /\ r.waitees = {} /\ r.inputGoals = {}
    BY <2>1 DEF GoalState, Pointers
  <2>3. s \in GoalState(g)
    <3>1. r.tried + 1 \in 0 .. NrSubstituters
      BY <1>1, SchedulerConstants DEF GoalState
    <3>2. "query" \in Pcs(g[1]) /\ "none" \in Replies
      BY PcsFacts DEF Replies
    <3> QED
      BY <2>1, <2>2, <3>1, <3>2 DEF GoalState
  <2>4. ReadyAs(g, s)'
    BY <2>2, WaitableFacts DEF ReadyAs
  <2>5. Parked(g, s) /\ SlotStep(g, s)
    BY <1>1, <2>1, <2>2 DEF Parked, SlotStep, WaitUntilWoken, ChildPcs
  <2>6. StoreInv' /\ phase' = phase /\ valid \subseteq valid'
    BY <1>1 DEF Running, Inv, StoreInv
  <2>7. Suspends(g, s)
    BY <1>1, <2>1, <2>2, <2>3, <2>4, <2>5, <2>6 DEF Suspends, WaitUntilWoken, Pointers
  <2> QED
    BY <2>7 DEF Step
<1>2. CASE Throw /\ UNCHANGED delays
  BY <1>2 DEF Step
<1>3. CASE \E code \in {"failed", "noSubstituters"} :
             AmDone(g, code, ended) /\ Running /\ UNCHANGED valid
  <2>1. PICK code \in {"failed", "noSubstituters"} :
             AmDone(g, code, ended) /\ Running /\ UNCHANGED valid
    BY <1>3
  <2>2. Ends(g, code, ended)
    BY <2>1 DEF Ends, Codes, Running
  <2> QED
    BY <2>2 DEF Step
<1> QED
  BY <1>1, <1>2, <1>3 DEF NextSubstituter

LEMMA PathInitStep ==
  ASSUME Inv, NEW g \in Goal, PathInit(g)
  PROVE  Step(g)
<1>1. /\ Resumes(g) /\ g[1] = "path" /\ goal[g].pc = "init" /\ goal[g] \in GoalState(g)
      /\ Pointers(goal[g]) = {}
  BY Resumed DEF PathInit
<1>2. ~ChildAlive(g)
  BY <1>1 DEF ChildAlive
<1>3. CASE g[2] \in valid /\ AmDone(g, "success", {}) /\ Running /\ UNCHANGED valid
  <2>1. Ends(g, "success", {})
    BY <1>1, <1>2, <1>3 DEF Ends, Codes, Running, Achieved
  <2> QED
    BY <1>1, <2>1 DEF Step
<1>4. CASE NextSubstituter(g, goal[g], {})
  BY <1>1, <1>2, <1>4, NextSubstituterStep
<1> QED
  BY <1>3, <1>4 DEF PathInit

LEMMA ReferencesStep ==
  ASSUME Inv, NEW g \in Goal, g[1] = "path", Resumes(g), goal[g].pc # "copy",
         goal[g] \in GoalState(g), Pointers(goal[g]) = {},
         goal[g].nrFailed = 0 => Refs[g[2]] \ {g[2]} \subseteq valid,
         ReferencesRealised(g, goal[g]), Running, UNCHANGED valid
  PROVE  Step(g)
<1>1. ~ChildAlive(g)
  BY DEF ChildAlive
<1>2. CASE \E code \in {"failed", "noSubstituters"} : AmDone(g, code, {})
  <2>1. PICK code \in {"failed", "noSubstituters"} : AmDone(g, code, {})
    BY <1>2
  <2>2. Ends(g, code, {})
    BY <1>1, <2>1 DEF Ends, Codes, Running
  <2> QED
    BY <2>2 DEF Step
<1>3. CASE goal[g].nrFailed = 0 /\ Yield(g, [goal[g] EXCEPT !.pc = "run"]) /\ UNCHANGED <<slots, lock>>
  <2>1. PICK s : s = [goal[g] EXCEPT !.pc = "run"]
    OBVIOUS
  <2>2. /\ s.pc = "run" /\ s.waitees = {} /\ s.inputGoals = {}
    BY <2>1 DEF GoalState, Pointers
  <2>3. s \in GoalState(g)
    BY <2>1, <2>2, PcsFacts DEF GoalState
  <2>4. ReadyAs(g, s)'
    BY <1>3, <2>2, WaitableFacts DEF ReadyAs
  <2>5. Parked(g, s) /\ SlotStep(g, s)
    BY <1>1, <1>3, <2>2 DEF Parked, SlotStep, Yield, ChildPcs
  <2>6. Suspends(g, s)
    BY <1>3, <2>1, <2>2, <2>3, <2>4, <2>5 DEF Suspends, Yield, Pointers, Running, Inv, StoreInv
  <2> QED
    BY <2>6 DEF Step
<1> QED
  BY <1>2, <1>3 DEF ReferencesRealised

LEMMA PathQueriedStep ==
  ASSUME Inv, NEW g \in Goal, PathQueried(g)
  PROVE  Step(g)
<1>1. /\ Resumes(g) /\ g[1] = "path" /\ goal[g].pc = "query" /\ goal[g] \in GoalState(g)
      /\ Pointers(goal[g]) = {} /\ ReadyAs(g, goal[g])
  BY Resumed DEF PathQueried
<1>2. ~ChildAlive(g) /\ ~Failing(g)
  BY <1>1 DEF ChildAlive, Failing
<1> DEFINE refs == Refs[g[2]] \ {g[2]}
<1>3. CASE NextSubstituter(g, [goal[g] EXCEPT !.lastException = (goal[g].reply = "error")], {})
  <2>1. PICK r : r = [goal[g] EXCEPT !.lastException = (goal[g].reply = "error")]
    OBVIOUS
  <2>2. r \in GoalState(g) /\ Pointers(r) = {}
    BY <1>1, <2>1 DEF GoalState, Pointers
  <2>3. NextSubstituter(g, r, {})
    BY <1>3, <2>1
  <2> QED
    BY <1>1, <1>2, <2>2, <2>3, NextSubstituterStep
<1>4. CASE /\ refs # {}
           /\ Await(g, [goal[g] EXCEPT !.pc = "refs"], {<<"path", p>> : p \in refs}, goal[g].pathRequired)
           /\ Running /\ UNCHANGED <<slots, lock, valid>>
  <2>1. PICK r, W, required : /\ W = {<<"path", p>> : p \in refs} /\ required = goal[g].pathRequired
                              /\ r = [goal[g] EXCEPT !.pc = "refs", !.waitees = W]
    OBVIOUS
  <2>2. W \subseteq Goal /\ W # {} /\ W = Waitable(g, "refs") /\ \A h \in W : h[1] = "path"
    <3>1. W = Waitable(g, "refs")
      BY <1>1, <2>1, WaitableFacts
    <3>2. W \subseteq Goal
      BY <3>1, WaitableGoals
    <3>3. W # {} /\ \A h \in W : h[1] = "path"
      <4>1. W = {<<"path", p>> : p \in refs} /\ refs # {}
        BY <1>4, <2>1
      <4> HIDE DEF refs
      <4>2. PICK p \in refs : TRUE
        BY <4>1
      <4>3. <<"path", p>> \in W
        BY <4>1
      <4>4. \A h \in W : h[1] = "path"
        BY <4>1
      <4> QED
        BY <4>3, <4>4
    <3> QED
      BY <3>1, <3>2, <3>3
  <2>3. r.pc = "refs" /\ r.waitees = W /\ r.inputGoals = {} /\ Pointers(r) = W
    BY <1>1, <2>1 DEF GoalState, Pointers
  <2>4. r \in GoalState(g) /\ required \in BOOLEAN
    <3>1. "refs" \in Pcs(g[1])
      BY <1>1, PcsFacts
    <3> QED
      BY <1>1, <2>1, <2>2, <2>3, <3>1 DEF GoalState
  <2>5. ReadyAs(g, r)' /\ \A h \in W : ReadyAs(h, Created(required))'
    <3>1. ReadyAs(g, r)'
      BY <1>1, <2>2, <2>3 DEF ReadyAs
    <3> QED
      BY <2>2, <3>1, CreatedReady
  <2>6. goal' = [h \in DOMAIN goal \cup W |->
                   IF h = g THEN r ELSE IF h \in DOMAIN goal THEN goal[h] ELSE Created(required)]
    BY <1>1, <1>4, <2>1 DEF Await, Resumes
  <2>7. Awaits(g, r, W, required)
    BY <1>1, <1>2, <1>4, <2>1, <2>2, <2>3, <2>4, <2>5, <2>6 DEF Awaits, Await, Running, ChildPcs
  <2> QED
    BY <1>1, <2>7 DEF Step
<1>5. CASE refs = {} /\ ReferencesRealised(g, goal[g]) /\ Running /\ UNCHANGED valid
  BY <1>1, <1>5, ReferencesStep
<1> QED
  BY <1>3, <1>4, <1>5 DEF PathQueried

LEMMA PathReferencesStep ==
  ASSUME Inv, NEW g \in Goal, PathReferences(g)
  PROVE  Step(g)
<1>1. /\ Resumes(g) /\ g[1] = "path" /\ goal[g].pc = "refs" /\ goal[g] \in GoalState(g)
      /\ goal[g].waitees = {} /\ Pointers(goal[g]) = {} /\ ReadyAs(g, goal[g])
  BY Resumed DEF PathReferences
<1>2. ASSUME goal[g].nrFailed = 0 PROVE Refs[g[2]] \ {g[2]} \subseteq valid
  <2>1. \A h \in Waitable(g, "refs") : Achieved(h)
    BY <1>1, <1>2 DEF ReadyAs
  <2>2. \A p \in Refs[g[2]] \ {g[2]} : Achieved(<<"path", p>>)
    BY <1>1, <2>1, WaitableFacts
  <2> QED
    BY <2>2 DEF Achieved
<1> QED
  BY <1>1, <1>2, ReferencesStep DEF PathReferences

LEMMA PathRunStep ==
  ASSUME Inv, NEW g \in Goal, PathRun(g)
  PROVE  Step(g)
<1>1. /\ Resumes(g) /\ g[1] = "path" /\ goal[g].pc = "run" /\ goal[g] \in GoalState(g)
      /\ Pointers(goal[g]) = {} /\ ReadyAs(g, goal[g])
  BY Resumed DEF PathRun
<1>2. ~ChildAlive(g)
  BY <1>1 DEF ChildAlive
<1>3. StoreInv' /\ phase' = phase /\ valid' = valid
  BY DEF PathRun, Running, Inv, StoreInv
<1>4. CASE WaitForBuildSlot(g, goal[g]) /\ UNCHANGED slots
  <2>1. PICK r : r = goal[g]
    OBVIOUS
  <2>2. ReadyAs(g, r)'
    BY <1>1, <1>3, <2>1 DEF ReadyAs, Achieved
  <2>3. Parked(g, r) /\ SlotStep(g, r)
    BY <1>1, <1>2, <1>4, <2>1 DEF Parked, SlotStep, WaitForBuildSlot, ChildPcs
  <2>4. Suspends(g, r)
    BY <1>1, <1>3, <1>4, <2>1, <2>2, <2>3 DEF Suspends, WaitForBuildSlot
  <2> QED
    BY <1>1, <2>4 DEF Step
<1>5. CASE /\ nrSubstitutions < SubstitutionLimit /\ ChildStarted(g, TRUE)
           /\ WaitUntilWoken(g, [goal[g] EXCEPT !.pc = "copy", !.reply = "none"])
  <2>1. PICK r : r = [goal[g] EXCEPT !.pc = "copy", !.reply = "none"]
    OBVIOUS
  <2>2. r.pc = "copy" /\ r.reply = "none" /\ r.waitees = {} /\ r.inputGoals = {}
    BY <1>1, <2>1 DEF GoalState, Pointers
  <2>3. r \in GoalState(g)
    BY <1>1, <2>1, <2>2, PcsFacts DEF GoalState, Replies
  <2>4. ReadyAs(g, r)'
    BY <1>1, <1>3, <2>2, WaitableFacts DEF ReadyAs
  <2>5. Parked(g, r) /\ SlotStep(g, r)
    BY <1>1, <1>2, <1>5, <2>1, <2>2 DEF Parked, SlotStep, WaitUntilWoken, ChildPcs
  <2>6. Suspends(g, r)
    BY <1>1, <1>3, <1>5, <2>1, <2>2, <2>3, <2>4, <2>5 DEF Suspends, WaitUntilWoken, Pointers
  <2> QED
    BY <1>1, <2>6 DEF Step
<1> QED
  BY <1>4, <1>5 DEF PathRun

LEMMA PathCopiedStep ==
  ASSUME Inv, NEW g \in Goal, PathCopied(g)
  PROVE  Step(g)
<1>1. /\ Resumes(g) /\ g[1] = "path" /\ goal[g].pc = "copy" /\ goal[g] \in GoalState(g)
      /\ Pointers(goal[g]) = {} /\ ReadyAs(g, goal[g])
  BY Resumed DEF PathCopied
<1>2. CASE goal[g].reply = "ok" /\ AmDone(g, "success", {g}) /\ Running /\ UNCHANGED valid
  <2>1. Achieved(g)
    BY <1>1, <1>2 DEF ReadyAs, Achieved
  <2>2. Ends(g, "success", {g})
    BY <1>1, <1>2, <2>1 DEF Ends, Codes, Running
  <2> QED
    BY <1>1, <2>2 DEF Step
<1>3. CASE NextSubstituter(g, [goal[g] EXCEPT !.substituterFailed = @ \/ goal[g].reply = "failed"], {g})
  <2>1. PICK r : r = [goal[g] EXCEPT !.substituterFailed = @ \/ goal[g].reply = "failed"]
    OBVIOUS
  <2>2. r \in GoalState(g) /\ Pointers(r) = {}
    BY <1>1, <2>1 DEF GoalState, Pointers
  <2>3. NextSubstituter(g, r, {g})
    BY <1>3, <2>1
  <2> QED
    BY <1>1, <2>2, <2>3, NextSubstituterStep
<1> QED
  BY <1>2, <1>3 DEF PathCopied

-----------------------------------------------------------------------------
(* The steps of DerivationGoal and DerivationResolutionGoal                *)

LEMMA AwaitStep ==
  ASSUME Inv, NEW g \in Goal, Resumes(g), Pointers(goal[g]) = {}, ~ChildAlive(g), ~Failing(g),
         NEW r0, NEW W, NEW required \in BOOLEAN, Await(g, r0, W, required),
         NEW r \in GoalState(g), r = [r0 EXCEPT !.waitees = W], r.waitees = W, r.inputGoals \subseteq W,
         W # {}, r.pc \notin ChildPcs \cup {"query", "copy"},
         ReadyAs(g, r)', \A h \in W : ReadyAs(h, Created(required))',
         UNCHANGED <<slots, lock, valid, phase, delays>>
  PROVE  Step(g)
<1>1. goal' = [h \in DOMAIN goal \cup W |->
                 IF h = g THEN r ELSE IF h \in DOMAIN goal THEN goal[h] ELSE Created(required)]
  BY DEF Await, Resumes
<1>2. Awaits(g, r, W, required)
  BY <1>1 DEF Awaits, Await, Pointers
<1> QED
  BY <1>2 DEF Step

LEMMA DrvAwaits ==
  ASSUME Inv, NEW g \in Goal, g[1] = "drv", Resumes(g), goal[g] \in GoalState(g),
         Pointers(goal[g]) = {}, ~Failing(g), NEW r0 \in GoalState(g), r0.inputGoals = {},
         NEW next \in {<<"subst", "path">>, <<"res", "res">>, <<"bld", "bld">>},
         r0.pc = next[1],
         Await(g, r0, {<<next[2], g[2]>>}, FALSE),
         next[2] = "bld" => Inputs[g[2]] \subseteq valid,
         UNCHANGED <<slots, lock, valid, phase, delays>>
  PROVE  Step(g)
<1> DEFINE W == {<<next[2], g[2]>>}
<1>0. PICK required \in BOOLEAN : required = FALSE
  OBVIOUS
<1>1. PICK r : r = [r0 EXCEPT !.waitees = W]
  OBVIOUS
<1>2. W = Waitable(g, r0.pc) /\ W \subseteq Goal
  <2>1. W = Waitable(g, r0.pc)
    BY WaitableFacts
  <2> QED
    BY <2>1, WaitableGoals
<1>3. r.pc = r0.pc /\ r.waitees = W /\ r.inputGoals = {} /\ r \in GoalState(g)
  BY <1>1, <1>2 DEF GoalState
<1>4. ReadyAs(g, r)'
  BY <1>2, <1>3 DEF ReadyAs
<1>5. \A h \in W : ReadyAs(h, Created(required))'
  <2>1. CASE next[2] \in {"path", "res"}
    <3>1. PICK h : h = <<next[2], g[2]>>
      OBVIOUS
    <3>2. h[1] \in {"path", "drv", "res"}
      BY <2>1, <3>1
    <3>3. ReadyAs(h, Created(required))'
      BY <3>2, CreatedReady
    <3> QED
      BY <3>1, <3>3
  <2>2. CASE next[2] = "bld"
    <3>1. PICK r1 : r1 = Created(required)
      OBVIOUS
    <3>2. PICK h : h = <<"bld", g[2]>>
      OBVIOUS
    <3>3. r1.pc = "init" /\ Waitable(h, r1.pc) = {} /\ h[1] = "bld" /\ h[2] = g[2]
      BY <3>1, <3>2, WaitableFacts DEF Created
    <3>4. ReadyAs(h, r1)'
      BY <2>2, <3>3 DEF ReadyAs
    <3> QED
      BY <2>2, <3>1, <3>2, <3>4
  <2>3. next[2] \in {"path", "res", "bld"}
    OBVIOUS
  <2> QED
    BY <2>1, <2>2, <2>3
<1>6. ~ChildAlive(g)
  BY DEF ChildAlive
<1>7. r.pc \notin ChildPcs \cup {"query", "copy"} /\ W # {}
  BY <1>3 DEF ChildPcs
<1> HIDE DEF W
<1>8. Await(g, r0, W, required)
  BY <1>0 DEF W
<1> QED
  BY <1>1, <1>3, <1>4, <1>5, <1>6, <1>7, <1>8, AwaitStep

LEMMA EndStep ==
  ASSUME Inv, NEW g \in Goal, Resumes(g), ~ChildAlive(g), NEW code \in {"success", "failed"},
         AmDone(g, code, {}), code = "success" => Achieved(g) /\ Pointers(goal[g]) = {},
         goal[g].nrFailed > 0 /\ (g[1] = "res" \/ (g[1] = "drv" /\ goal[g].pc \in {"res", "bld"}))
         => code = "failed",
         UNCHANGED <<valid, phase, delays>>
  PROVE  Step(g)
<1>1. Ends(g, code, {})
  BY DEF Ends, Codes
<1> QED
  BY <1>1 DEF Step

LEMMA MaybeSubstitutedStep ==
  ASSUME Inv, NEW g \in Goal, g[1] = "drv", Resumes(g), goal[g] \in GoalState(g),
         Pointers(goal[g]) = {}, goal[g].pc \in {"init", "subst"},
         MaybeSubstituted(g, goal[g]), Running, UNCHANGED valid
  PROVE  Step(g)
<1>1. ~ChildAlive(g)
  BY DEF ChildAlive
<1>2. CASE AmDone(g, "failed", {})
  BY <1>1, <1>2, EndStep DEF Running
<1>3. CASE g[2] \in valid /\ AmDone(g, "success", {})
  BY <1>1, <1>3, EndStep DEF Running, Achieved
<1>4. CASE /\ Await(g, [goal[g] EXCEPT !.pc = "res", !.nrFailed = 0, !.nrNoSubstituters = 0],
                    {<<"res", g[2]>>}, FALSE)
           /\ UNCHANGED <<slots, lock>>
  <2>1. PICK r0 : r0 = [goal[g] EXCEPT !.pc = "res", !.nrFailed = 0, !.nrNoSubstituters = 0]
    OBVIOUS
  <2>2. r0.pc = "res" /\ r0.waitees = {} /\ r0.inputGoals = {}
    BY <2>1 DEF GoalState, Pointers
  <2>3. r0 \in GoalState(g)
    <3>1. "res" \in Pcs(g[1]) /\ 0 \in Nat /\ 0 <= 0
      BY PcsFacts
    <3> QED
      BY <2>1, <2>2, <3>1 DEF GoalState
  <2>4. PICK next : next = <<"res", "res">>
    OBVIOUS
  <2>5. Await(g, r0, {<<next[2], g[2]>>}, FALSE)
    BY <1>4, <2>1, <2>4
  <2>6. ~Failing(g)
    BY DEF Failing
  <2> QED
    BY <1>4, <2>2, <2>3, <2>4, <2>5, <2>6, DrvAwaits DEF Running
<1> QED
  BY <1>2, <1>3, <1>4 DEF MaybeSubstituted

LEMMA DrvStep ==
  ASSUME Inv, NEW g \in Goal, DrvInit(g) \/ DrvSubstituted(g) \/ DrvResolved(g) \/ DrvBuilt(g)
  PROVE  Step(g)
<1>1. /\ Resumes(g) /\ g[1] = "drv" /\ goal[g] \in GoalState(g)
      /\ goal[g].waitees = {} /\ Pointers(goal[g]) = {} /\ ReadyAs(g, goal[g])
  <2>1. PICK pc : Resume(g, "drv", pc)
    BY DEF DrvInit, DrvSubstituted, DrvResolved, DrvBuilt
  <2> QED
    BY <2>1, Resumed
<1>2. ~ChildAlive(g)
  BY <1>1 DEF ChildAlive
<1>3. Running /\ UNCHANGED valid
  BY DEF DrvInit, DrvSubstituted, DrvResolved, DrvBuilt
<1>4. goal[g].nrFailed \in Nat
  BY <1>1 DEF GoalState
<1>5. CASE DrvInit(g)
  <2>1. goal[g].pc = "init"
    BY <1>5 DEF DrvInit, Resume
  <2>2. CASE g[2] \in valid /\ AmDone(g, "success", {})
    BY <1>1, <1>2, <1>3, <2>1, <2>2, EndStep DEF Running, Achieved
  <2>3. CASE Await(g, [goal[g] EXCEPT !.pc = "subst"], {<<"path", g[2]>>}, FALSE) /\ UNCHANGED <<slots, lock>>
    <3>1. PICK r0 : r0 = [goal[g] EXCEPT !.pc = "subst"]
      OBVIOUS
    <3>2. r0.pc = "subst" /\ r0.waitees = {} /\ r0.inputGoals = {}
      BY <1>1, <3>1 DEF GoalState, Pointers
    <3>3. r0 \in GoalState(g)
      BY <1>1, <3>1, <3>2, PcsFacts DEF GoalState
    <3>4. PICK next : next = <<"subst", "path">>
      OBVIOUS
    <3>5. Await(g, r0, {<<next[2], g[2]>>}, FALSE)
      BY <2>3, <3>1, <3>4
    <3>6. ~Failing(g)
      BY <1>1, <2>1 DEF Failing
    <3> QED
      BY <1>1, <1>3, <2>3, <3>2, <3>3, <3>4, <3>5, <3>6, DrvAwaits DEF Running
  <2>4. CASE MaybeSubstituted(g, goal[g])
    BY <1>1, <1>3, <2>1, <2>4, MaybeSubstitutedStep
  <2> QED
    BY <1>5, <2>2, <2>3, <2>4 DEF DrvInit
<1>6. CASE DrvSubstituted(g)
  BY <1>1, <1>3, <1>6, MaybeSubstitutedStep DEF DrvSubstituted, Resume
<1>7. CASE DrvResolved(g)
  <2>1. goal[g].pc = "res"
    BY <1>7 DEF DrvResolved, Resume
  <2>2. CASE AmDone(g, "failed", {})
    BY <1>1, <1>2, <1>3, <2>2, EndStep DEF Running
  <2>3. CASE /\ goal[g].nrFailed = 0
             /\ Await(g, [goal[g] EXCEPT !.pc = "bld"], {<<"bld", g[2]>>}, FALSE) /\ UNCHANGED <<slots, lock>>
    <3>1. PICK r0 : r0 = [goal[g] EXCEPT !.pc = "bld"]
      OBVIOUS
    <3>2. r0.pc = "bld" /\ r0.waitees = {} /\ r0.inputGoals = {}
      BY <1>1, <3>1 DEF GoalState, Pointers
    <3>3. r0 \in GoalState(g)
      BY <1>1, <3>1, <3>2, PcsFacts DEF GoalState
    <3>4. PICK next : next = <<"bld", "bld">>
      OBVIOUS
    <3>5. Await(g, r0, {<<next[2], g[2]>>}, FALSE)
      BY <2>3, <3>1, <3>4
    <3>6. Achieved(<<"res", g[2]>>)
      BY <1>1, <2>1, <2>3, WaitableFacts DEF ReadyAs
    <3>7. Inputs[g[2]] \subseteq valid
      BY <3>6 DEF Achieved
    <3>8. ~Failing(g)
      BY <2>3 DEF Failing
    <3> QED
      BY <1>1, <1>3, <2>3, <3>2, <3>3, <3>4, <3>5, <3>7, <3>8, DrvAwaits DEF Running
  <2> QED
    BY <1>7, <2>2, <2>3 DEF DrvResolved
<1>8. CASE DrvBuilt(g)
  <2>1. goal[g].pc = "bld" /\ AmDone(g, IF goal[g].nrFailed = 0 THEN "success" ELSE "failed", {})
    BY <1>8 DEF DrvBuilt, Resume
  <2>2. CASE goal[g].nrFailed = 0
    <3>1. Achieved(<<"bld", g[2]>>)
      BY <1>1, <2>1, <2>2, WaitableFacts DEF ReadyAs
    <3>2. Achieved(g)
      BY <1>1, <3>1 DEF Achieved
    <3> QED
      BY <1>1, <1>2, <1>3, <2>1, <2>2, <3>2, EndStep DEF Running
  <2>3. CASE goal[g].nrFailed # 0
    BY <1>1, <1>2, <1>3, <2>1, <2>3, EndStep DEF Running
  <2> QED
    BY <2>2, <2>3
<1> QED
  BY <1>5, <1>6, <1>7, <1>8

LEMMA ResStep ==
  ASSUME Inv, NEW g \in Goal, ResInit(g) \/ ResInputs(g)
  PROVE  Step(g)
<1>1. /\ Resumes(g) /\ g[1] = "res" /\ goal[g] \in GoalState(g) /\ goal[g].pc \in {"init", "inputs"}
      /\ goal[g].waitees = {} /\ ReadyAs(g, goal[g]) /\ (goal[g].pc = "init" => Pointers(goal[g]) = {})
  <2>1. PICK pc \in {"init", "inputs"} : Resume(g, "res", pc)
    BY DEF ResInit, ResInputs
  <2> QED
    BY <2>1, Resumed
<1>2. ~ChildAlive(g)
  BY <1>1 DEF ChildAlive
<1>3. Running /\ UNCHANGED valid /\ goal[g].nrFailed \in Nat
  BY <1>1 DEF ResInit, ResInputs, GoalState
<1>4. goal[g].nrFailed = 0 => Pointers(goal[g]) = {}
  BY <1>1 DEF GoalState, Pointers
<1>5. ASSUME InputsRealised(g, goal[g]), goal[g].nrFailed = 0 => Inputs[g[2]] \subseteq valid
      PROVE  Step(g)
  <2>1. AmDone(g, IF goal[g].nrFailed = 0 THEN "success" ELSE "failed", {})
    BY <1>5 DEF InputsRealised
  <2>2. CASE goal[g].nrFailed = 0
    <3>1. Achieved(g)
      BY <1>1, <1>5, <2>2 DEF Achieved
    <3> QED
      BY <1>1, <1>2, <1>3, <1>4, <2>1, <2>2, <3>1, EndStep DEF Running
  <2>3. CASE goal[g].nrFailed # 0
    BY <1>1, <1>2, <1>3, <2>1, <2>3, EndStep DEF Running
  <2> QED
    BY <2>2, <2>3
<1>6. CASE ResInputs(g)
  <2>1. goal[g].pc = "inputs" /\ InputsRealised(g, goal[g])
    BY <1>6 DEF ResInputs, Resume
  <2>2. ASSUME goal[g].nrFailed = 0, NEW i \in Inputs[g[2]] PROVE i \in valid
    <3>1. <<"drv", i>> \in Waitable(g, "inputs")
      BY <1>1, WaitableFacts
    <3>2. Achieved(<<"drv", i>>)
      BY <1>1, <2>1, <2>2, <3>1 DEF ReadyAs
    <3> QED
      BY <3>2 DEF Achieved
  <2> QED
    BY <1>5, <2>1, <2>2
<1>7. CASE ResInit(g)
  <2>1. goal[g].pc = "init" /\ Pointers(goal[g]) = {}
    BY <1>1, <1>7 DEF ResInit, Resume
  <2>2. CASE Inputs[g[2]] = {} /\ InputsRealised(g, goal[g])
    BY <1>5, <2>2
  <2> DEFINE W == {"drv"} \X Inputs[g[2]]
  <2>3. CASE /\ Inputs[g[2]] # {} /\ UNCHANGED <<slots, lock>>
             /\ Await(g, [goal[g] EXCEPT !.pc = "inputs", !.inputGoals = W], W, FALSE)
    <3>0. PICK required \in BOOLEAN : required = FALSE
      OBVIOUS
    <3>1. PICK r0, r : /\ r0 = [goal[g] EXCEPT !.pc = "inputs", !.inputGoals = W]
                       /\ r = [r0 EXCEPT !.waitees = W]
      OBVIOUS
    <3>2. W = Waitable(g, "inputs") /\ W \subseteq Goal /\ W # {} /\ \A h \in W : h[1] = "drv"
      <4>1. W = Waitable(g, "inputs")
        BY <1>1, WaitableFacts
      <4>2. W \subseteq Goal
        BY <4>1, WaitableGoals
      <4>3. PICK i \in Inputs[g[2]] : TRUE
        BY <2>3
      <4>4. <<"drv", i>> \in W
        OBVIOUS
      <4> QED
        BY <4>1, <4>2, <4>4
    <3>3. r.pc = "inputs" /\ r.waitees = W /\ r.inputGoals = W
      BY <1>1, <3>1 DEF GoalState
    <3>4. r \in GoalState(g)
      <4>1. "inputs" \in Pcs(g[1])
        BY <1>1, PcsFacts
      <4> HIDE DEF W
      <4> QED
        BY <1>1, <3>1, <3>2, <3>3, <4>1 DEF GoalState
    <3>5. Await(g, r0, W, required)
      BY <2>3, <3>0, <3>1
    <3> HIDE DEF W
    <3>6. ReadyAs(g, r)'
      BY <1>1, <3>2, <3>3 DEF ReadyAs
    <3>7. \A h \in W : ReadyAs(h, Created(required))'
      BY <3>2, CreatedReady
    <3>8. r.pc \notin ChildPcs \cup {"query", "copy"}
      BY <3>3 DEF ChildPcs
    <3>9. UNCHANGED <<slots, lock, valid, phase, delays>>
      BY <1>3, <2>3 DEF Running
    <3>10. r = [r0 EXCEPT !.waitees = W] /\ r.inputGoals \subseteq W /\ W # {} /\ Resumes(g)
      BY <1>1, <3>1, <3>2, <3>3
    <3>11. ~Failing(g)
      BY <1>1, <2>1 DEF Failing
    <3> QED
      BY <1>2, <2>1, <3>11, <3>3, <3>4, <3>5, <3>6, <3>7, <3>8, <3>9, <3>10, AwaitStep
  <2> QED
    BY <1>7, <2>2, <2>3 DEF ResInit
<1> QED
  BY <1>6, <1>7

-----------------------------------------------------------------------------
(* The steps of DerivationBuildingGoal                                     *)

(* A suspension keeps the goal's record but for its pc and reply.          *)
LEMMA BldSuspends ==
  ASSUME Inv, NEW g \in Goal, g[1] = "bld", Resumes(g), goal[g] \in GoalState(g),
         Pointers(goal[g]) = {}, ReadyAs(g, goal[g]),
         NEW pc \in Pcs("bld"), pc \notin {"init", "srcs"},
         NEW r, r = [goal[g] EXCEPT !.pc = pc] \/ r = [goal[g] EXCEPT !.pc = pc, !.reply = "none"],
         r.reply # "none" => pc \in ChildPcs,
         goal' = [goal EXCEPT ![g] = r], Busy,
         Srcs[g[2]] \subseteq valid, pc = "post" => g[2] \in valid',
         Parked(g, r), SlotStep(g, r), phase' = phase, valid \subseteq valid', StoreInv'
  PROVE  Step(g)
<1>1. r.pc = pc /\ r.waitees = {} /\ r.inputGoals = {} /\ r.reply \in Replies
  BY DEF GoalState, Pointers, Replies
<1>2. r \in GoalState(g)
  BY <1>1 DEF GoalState, ChildPcs, Replies
<1>3. ReadyAs(g, r)'
  BY <1>1, WaitableFacts DEF ReadyAs
<1>4. Suspends(g, r)
  BY <1>1, <1>2, <1>3 DEF Suspends, Pointers
<1> QED
  BY <1>4 DEF Step

LEMMA BldFacts ==
  ASSUME Inv, NEW g \in Goal, NEW pc, Resume(g, "bld", pc)
  PROVE  /\ Resumes(g) /\ g[1] = "bld" /\ goal[g] \in GoalState(g) /\ goal[g].pc = pc
         /\ goal[g].waitees = {} /\ Pointers(goal[g]) = {} /\ ReadyAs(g, goal[g])
         /\ goal[g].nrFailed \in Nat
         /\ pc \notin ChildPcs => goal[g].reply = "none" /\ ~ChildAlive(g)
         /\ pc \in ChildPcs => ChildAlive(g) /\ g \in DOMAIN child
         /\ pc \notin {"init", "srcs"} => Srcs[g[2]] \subseteq valid
<1>1. /\ Resumes(g) /\ g[1] = "bld" /\ goal[g] \in GoalState(g) /\ goal[g].pc = pc
      /\ goal[g].waitees = {} /\ Pointers(goal[g]) = {} /\ ReadyAs(g, goal[g])
  BY Resumed
<1>2. pc \notin ChildPcs => goal[g].reply = "none" /\ ~ChildAlive(g)
  BY <1>1 DEF GoalState, ChildPcs, ChildAlive
<1>3. pc \in ChildPcs => ChildAlive(g) /\ g \in DOMAIN child
  BY <1>1 DEF ChildPcs, ChildAlive, Resumes, Inv, SlotInv
<1>4. pc \notin {"init", "srcs"} => Srcs[g[2]] \subseteq valid
  BY <1>1 DEF ReadyAs
<1> QED
  BY <1>1, <1>2, <1>3, <1>4 DEF GoalState

LEMMA SourcesStep ==
  ASSUME Inv, NEW g \in Goal, NEW pc \in {"init", "srcs"}, Resume(g, "bld", pc),
         SourcesRealised(g, goal[g]), goal[g].nrFailed = 0 => Srcs[g[2]] \subseteq valid,
         Running, UNCHANGED valid
  PROVE  Step(g)
<1>1. /\ Resumes(g) /\ g[1] = "bld" /\ goal[g] \in GoalState(g) /\ goal[g].pc = pc
      /\ Pointers(goal[g]) = {} /\ ReadyAs(g, goal[g]) /\ goal[g].nrFailed \in Nat
      /\ goal[g].reply = "none" /\ ~ChildAlive(g)
  BY BldFacts DEF ChildPcs
<1>2. CASE AmDone(g, "failed", {})
  BY <1>1, <1>2, EndStep DEF Running
<1>3. CASE goal[g].nrFailed = 0 /\ Yield(g, [goal[g] EXCEPT !.pc = "try"]) /\ UNCHANGED <<slots, lock>>
  <2>1. PICK s : s = [goal[g] EXCEPT !.pc = "try"]
    OBVIOUS
  <2>2. s.pc = "try" /\ s.reply = "none" /\ "try" \in Pcs("bld")
    BY <1>1, <2>1, PcsFacts DEF GoalState
  <2>3. Parked(g, s) /\ SlotStep(g, s) /\ StoreInv'
    BY <1>1, <1>3, <2>2 DEF Parked, SlotStep, Yield, ChildPcs, Running, Inv, StoreInv
  <2>4. goal' = [goal EXCEPT ![g] = s] /\ Busy /\ phase' = phase /\ valid \subseteq valid'
    BY <1>3, <2>1 DEF Yield, Running
  <2> QED
    BY <1>1, <1>3, <2>1, <2>2, <2>3, <2>4, BldSuspends
<1> QED
  BY <1>2, <1>3 DEF SourcesRealised

LEMMA BldInitStep ==
  ASSUME Inv, NEW g \in Goal, BldInit(g)
  PROVE  Step(g)
<1> DEFINE missing == Srcs[g[2]] \ valid
<1>0. Resume(g, "bld", "init") /\ Running /\ UNCHANGED valid
  BY DEF BldInit
<1>1. /\ Resumes(g) /\ g[1] = "bld" /\ goal[g] \in GoalState(g) /\ goal[g].pc = "init"
      /\ goal[g].waitees = {} /\ Pointers(goal[g]) = {} /\ ReadyAs(g, goal[g])
      /\ goal[g].reply = "none" /\ ~ChildAlive(g)
  BY <1>0, BldFacts DEF ChildPcs
<1>2. CASE missing = {} /\ SourcesRealised(g, goal[g])
  BY <1>0, <1>2, SourcesStep
<1>3. CASE /\ missing # {} /\ UNCHANGED <<slots, lock>>
           /\ Await(g, [goal[g] EXCEPT !.pc = "srcs"], {<<"path", p>> : p \in missing}, TRUE)
  <2>0. PICK required \in BOOLEAN : required = TRUE
    OBVIOUS
  <2>1. PICK r0, r, W : /\ r0 = [goal[g] EXCEPT !.pc = "srcs"] /\ W = {<<"path", p>> : p \in missing}
                        /\ r = [r0 EXCEPT !.waitees = W]
    OBVIOUS
  <2>2. W \subseteq Waitable(g, "srcs") /\ W \subseteq Goal /\ \A h \in W : h[1] = "path"
    <3>1. W \subseteq Waitable(g, "srcs")
      BY <1>1, <2>1, WaitableFacts
    <3>2. W \subseteq Goal
      BY <3>1, WaitableGoals
    <3> QED
      BY <2>1, <3>1, <3>2
  <2>3. \A h \in Waitable(g, "srcs") : h \in W \/ Achieved(h)
    <3>1. Waitable(g, "srcs") = {<<"path", p>> : p \in Srcs[g[2]]}
      BY <1>1, WaitableFacts
    <3>2. ASSUME NEW p \in Srcs[g[2]] PROVE <<"path", p>> \in W \/ Achieved(<<"path", p>>)
      BY <2>1 DEF Achieved
    <3> QED
      BY <3>1, <3>2
  <2>4. W # {}
    <3>1. PICK p \in missing : TRUE
      BY <1>3
    <3> QED
      BY <2>1, <3>1
  <2>5. r.pc = "srcs" /\ r.waitees = W /\ r.inputGoals = {} /\ r.reply = "none"
    BY <1>1, <2>1 DEF GoalState, Pointers
  <2>6. r \in GoalState(g)
    <3>1. "srcs" \in Pcs(g[1])
      BY <1>1, PcsFacts
    <3> HIDE DEF missing
    <3> QED
      BY <1>1, <2>1, <2>2, <2>5, <3>1 DEF GoalState
  <2>7. Await(g, r0, W, required)
    BY <1>3, <2>0, <2>1
  <2> HIDE DEF missing
  <2>8. ReadyAs(g, r)'
    BY <1>0, <1>1, <2>3, <2>5 DEF ReadyAs, Achieved
  <2>9. \A h \in W : ReadyAs(h, Created(required))'
    BY <2>2, CreatedReady
  <2>10. r.pc \notin ChildPcs \cup {"query", "copy"}
    BY <2>5 DEF ChildPcs
  <2>11. UNCHANGED <<slots, lock, valid, phase, delays>>
    BY <1>0, <1>3 DEF Running
  <2>12. r = [r0 EXCEPT !.waitees = W] /\ r.inputGoals \subseteq W /\ ~Failing(g)
    BY <1>1, <2>1, <2>5 DEF Failing
  <2> QED
    BY <1>1, <2>4, <2>5, <2>6, <2>7, <2>8, <2>9, <2>10, <2>11, <2>12, AwaitStep
<1> QED
  BY <1>2, <1>3 DEF BldInit

LEMMA BldSourcesStep ==
  ASSUME Inv, NEW g \in Goal, BldSources(g)
  PROVE  Step(g)
<1>0. Resume(g, "bld", "srcs") /\ Running /\ UNCHANGED valid /\ SourcesRealised(g, goal[g])
  BY DEF BldSources
<1>1. g[1] = "bld" /\ goal[g].pc = "srcs" /\ goal[g].waitees = {} /\ ReadyAs(g, goal[g])
  BY <1>0, BldFacts
<1>2. ASSUME goal[g].nrFailed = 0, NEW p \in Srcs[g[2]] PROVE p \in valid
  <2>1. <<"path", p>> \in Waitable(g, "srcs")
    BY <1>1, WaitableFacts
  <2>2. Achieved(<<"path", p>>)
    BY <1>1, <1>2, <2>1 DEF ReadyAs
  <2> QED
    BY <2>2 DEF Achieved
<1> QED
  BY <1>0, <1>2, SourcesStep

(* The steps that polling for the lock takes, and those of waiting.        *)
LEMMA BldPolls ==
  ASSUME Inv, NEW g \in Goal, NEW pc \in {"try", "local", "ready"}, Resume(g, "bld", pc),
         NEW next \in {"try", "local", "ready"}, NEW s, s = [goal[g] EXCEPT !.pc = next],
         Yield(g, s) \/ WaitForAWhile(g, s) \/ WaitForBuildSlot(g, s),
         UNCHANGED <<slots, phase, valid>>, StoreInv'
  PROVE  Step(g)
<1>1. /\ Resumes(g) /\ g[1] = "bld" /\ goal[g] \in GoalState(g) /\ goal[g].pc = pc
      /\ Pointers(goal[g]) = {} /\ ReadyAs(g, goal[g])
      /\ goal[g].reply = "none" /\ ~ChildAlive(g) /\ Srcs[g[2]] \subseteq valid
  BY BldFacts DEF ChildPcs
<1>2. s.pc = next /\ s.reply = "none" /\ next \in Pcs("bld")
  BY <1>1, PcsFacts DEF GoalState
<1>3. SlotStep(g, s)
  BY <1>1, <1>2 DEF SlotStep, ChildPcs
<1>4. Parked(g, s)
  BY <1>1, <1>2 DEF Parked, Yield, WaitForAWhile, WaitForBuildSlot, ChildPcs
<1>5. goal' = [goal EXCEPT ![g] = s] /\ Busy
  BY DEF Yield, WaitForAWhile, WaitForBuildSlot
<1> QED
  BY <1>1, <1>2, <1>3, <1>4, <1>5, BldSuspends

LEMMA LockBusyStep ==
  ASSUME Inv, NEW g \in Goal, NEW pc \in {"try", "local"}, Resume(g, "bld", pc),
         LockBusy(g) \/ BeatenToIt(g)
  PROVE  Step(g)
<1>1. /\ Resumes(g) /\ g[1] = "bld" /\ goal[g] \in GoalState(g) /\ goal[g].pc = pc
      /\ Pointers(goal[g]) = {} /\ ~ChildAlive(g)
  BY BldFacts DEF ChildPcs
<1>2. CASE LockBusy(g)
  <2>1. PICK s : s = [goal[g] EXCEPT !.pc = pc]
    OBVIOUS
  <2>2. s = goal[g]
    BY <1>1, <2>1 DEF GoalState
  <2>3. WaitForAWhile(g, s) /\ UNCHANGED <<slots, phase, valid>>
    BY <1>2, <2>2 DEF LockBusy, Running
  <2>4. StoreInv'
    BY <1>2 DEF LockBusy, Running, Inv, StoreInv
  <2> QED
    BY <2>1, <2>3, <2>4, BldPolls
<1>3. CASE BeatenToIt(g)
  BY <1>1, <1>3, EndStep DEF BeatenToIt, Running, Achieved
<1> QED
  BY <1>2, <1>3

(* What the lock and the delays may become.                                *)
LEMMA StoreStep ==
  ASSUME StoreInv, NEW p \in Path, NEW owner \in Goal \cup {Free, Other},
         lock' = lock \/ lock' = [lock EXCEPT ![p] = owner], valid' \subseteq Path,
         Running \/ Delayed
  PROVE  StoreInv' /\ phase' = phase
<1>1. delays' \in 0 .. MaxDelays /\ phase' = phase
  BY SchedulerConstants DEF StoreInv, Running, Delayed
<1> QED
  BY <1>1 DEF StoreInv

LEMMA BldStarts ==
  ASSUME Inv, NEW g \in Goal, NEW pc \in {"try", "ready"}, Resume(g, "bld", pc),
         NEW next \in {"remote", "build"}, NEW s, s = [goal[g] EXCEPT !.pc = next, !.reply = "none"],
         WaitForChildEvent(g, s),
         \/ next = "remote" /\ ChildStarted(g, FALSE)
         \/ next = "build" /\ ChildStarted(g, TRUE) /\ nrLocalBuilds < MaxBuildJobs,
         UNCHANGED valid, phase' = phase, StoreInv'
  PROVE  Step(g)
<1>1. /\ Resumes(g) /\ g[1] = "bld" /\ goal[g] \in GoalState(g) /\ goal[g].pc = pc
      /\ Pointers(goal[g]) = {} /\ ReadyAs(g, goal[g])
      /\ goal[g].reply = "none" /\ ~ChildAlive(g) /\ Srcs[g[2]] \subseteq valid
  BY BldFacts DEF ChildPcs
<1>2. s.pc = next /\ s.reply = "none" /\ next \in Pcs("bld")
  BY <1>1, PcsFacts DEF GoalState
<1>3. SlotStep(g, s)
  BY <1>1, <1>2 DEF SlotStep
<1>4. Parked(g, s)
  BY <1>1, <1>2 DEF Parked, WaitForChildEvent, ChildPcs
<1>5. goal' = [goal EXCEPT ![g] = s] /\ Busy
  BY DEF WaitForChildEvent
<1> QED
  BY <1>1, <1>2, <1>3, <1>4, <1>5, BldSuspends

LEMMA BldTryStep ==
  ASSUME Inv, NEW g \in Goal, BldTry(g)
  PROVE  Step(g)
<1>0. Resume(g, "bld", "try") /\ g[2] \in Path /\ StoreInv
  BY GoalFacts DEF BldTry, Inv
<1>1. goal[g] \in GoalState(g) /\ goal[g].pc = "try"
  BY <1>0, BldFacts
<1>2. CASE LockBusy(g) \/ BeatenToIt(g)
  BY <1>0, <1>2, LockBusyStep
<1>3. CASE /\ UNCHANGED valid /\ lock' = [lock EXCEPT ![g[2]] = g] /\ ChildStarted(g, FALSE)
           /\ WaitForChildEvent(g, [goal[g] EXCEPT !.pc = "remote", !.reply = "none"]) /\ Running
  <2>1. StoreInv' /\ phase' = phase
    BY <1>0, <1>3, StoreStep DEF StoreInv
  <2> QED
    BY <1>0, <1>3, <2>1, BldStarts
<1>4. CASE UNCHANGED valid /\ WaitForAWhile(g, goal[g]) /\ Delayed /\ UNCHANGED <<slots, lock>>
  <2>1. StoreInv' /\ phase' = phase
    BY <1>0, <1>4, StoreStep DEF StoreInv
  <2>2. PICK s : s = [goal[g] EXCEPT !.pc = "try"]
    OBVIOUS
  <2>3. s = goal[g]
    BY <1>1, <2>2 DEF GoalState
  <2>4. UNCHANGED <<slots, phase, valid>> /\ WaitForAWhile(g, s)
    BY <1>4, <2>1, <2>3
  <2> QED
    BY <1>0, <2>1, <2>2, <2>4, BldPolls
<1>5. CASE /\ UNCHANGED valid /\ lock' = [lock EXCEPT ![g[2]] = g]
           /\ Yield(g, [goal[g] EXCEPT !.pc = "ready"]) /\ Running /\ UNCHANGED slots
  <2>1. StoreInv' /\ phase' = phase
    BY <1>0, <1>5, StoreStep DEF StoreInv
  <2>2. PICK s : s = [goal[g] EXCEPT !.pc = "ready"]
    OBVIOUS
  <2>3. UNCHANGED <<slots, phase, valid>> /\ Yield(g, s)
    BY <1>5, <2>1, <2>2
  <2> QED
    BY <1>0, <2>1, <2>2, <2>3, BldPolls
<1>6. CASE /\ UNCHANGED valid /\ lock' = [lock EXCEPT ![g[2]] = Other]
           /\ WaitForAWhile(g, [goal[g] EXCEPT !.pc = "local"]) /\ Delayed /\ UNCHANGED slots
  <2>1. StoreInv' /\ phase' = phase
    BY <1>0, <1>6, StoreStep DEF StoreInv
  <2>2. PICK s : s = [goal[g] EXCEPT !.pc = "local"]
    OBVIOUS
  <2>3. UNCHANGED <<slots, phase, valid>> /\ WaitForAWhile(g, s)
    BY <1>6, <2>1, <2>2
  <2> QED
    BY <1>0, <2>1, <2>2, <2>3, BldPolls
<1> QED
  BY <1>2, <1>3, <1>4, <1>5, <1>6 DEF BldTry

LEMMA BldLocalStep ==
  ASSUME Inv, NEW g \in Goal, BldLocal(g)
  PROVE  Step(g)
<1>0. Resume(g, "bld", "local") /\ g[2] \in Path /\ StoreInv
  BY GoalFacts DEF BldLocal, Inv
<1>1. CASE LockBusy(g) \/ BeatenToIt(g)
  BY <1>0, <1>1, LockBusyStep
<1>2. CASE /\ lock' = [lock EXCEPT ![g[2]] = g] /\ Yield(g, [goal[g] EXCEPT !.pc = "ready"])
           /\ Running /\ UNCHANGED <<slots, valid>>
  <2>1. StoreInv' /\ phase' = phase
    BY <1>0, <1>2, StoreStep DEF StoreInv
  <2>2. PICK s : s = [goal[g] EXCEPT !.pc = "ready"]
    OBVIOUS
  <2>3. UNCHANGED <<slots, phase, valid>> /\ Yield(g, s)
    BY <1>2, <2>1, <2>2
  <2> QED
    BY <1>0, <2>1, <2>2, <2>3, BldPolls
<1> QED
  BY <1>1, <1>2 DEF BldLocal

LEMMA BldReadyStep ==
  ASSUME Inv, NEW g \in Goal, BldReady(g)
  PROVE  Step(g)
<1>0. Resume(g, "bld", "ready") /\ g[2] \in Path /\ StoreInv /\ UNCHANGED valid
  BY GoalFacts DEF BldReady, Inv
<1>1. goal[g] \in GoalState(g) /\ goal[g].pc = "ready"
  BY <1>0, BldFacts
<1>2. CASE /\ lock' = [lock EXCEPT ![g[2]] = Free]
           /\ WaitForBuildSlot(g, [goal[g] EXCEPT !.pc = "try"]) /\ Running /\ UNCHANGED slots
  <2>1. StoreInv' /\ phase' = phase
    BY <1>0, <1>2, StoreStep DEF StoreInv
  <2>2. PICK s : s = [goal[g] EXCEPT !.pc = "try"]
    OBVIOUS
  <2>3. UNCHANGED <<slots, phase, valid>> /\ WaitForBuildSlot(g, s)
    BY <1>0, <1>2, <2>1, <2>2
  <2> QED
    BY <1>0, <2>1, <2>2, <2>3, BldPolls
<1>3. CASE WaitForAWhile(g, goal[g]) /\ Delayed /\ UNCHANGED <<slots, lock>>
  <2>1. StoreInv' /\ phase' = phase
    BY <1>0, <1>3, StoreStep DEF StoreInv
  <2>2. PICK s : s = [goal[g] EXCEPT !.pc = "ready"]
    OBVIOUS
  <2>3. s = goal[g]
    BY <1>1, <2>2 DEF GoalState
  <2>4. UNCHANGED <<slots, phase, valid>> /\ WaitForAWhile(g, s)
    BY <1>0, <1>3, <2>1, <2>3
  <2> QED
    BY <1>0, <2>1, <2>2, <2>4, BldPolls
<1>4. CASE /\ nrLocalBuilds < MaxBuildJobs /\ ChildStarted(g, TRUE)
           /\ WaitForChildEvent(g, [goal[g] EXCEPT !.pc = "build", !.reply = "none"])
           /\ Running /\ UNCHANGED lock
  <2>1. StoreInv' /\ phase' = phase
    BY <1>0, <1>4, StoreStep DEF StoreInv
  <2> QED
    BY <1>0, <1>4, <2>1, BldStarts
<1> QED
  BY <1>2, <1>3, <1>4 DEF BldReady

LEMMA BldEndedStep ==
  ASSUME Inv, NEW g \in Goal, BldEnded(g) \/ BldPostBuildHook(g)
  PROVE  Step(g)
<1>0. PICK pc \in ChildPcs : Resume(g, "bld", pc)
  BY DEF BldEnded, BldPostBuildHook, ChildPcs
<1>1. /\ Resumes(g) /\ g[1] = "bld" /\ goal[g] \in GoalState(g) /\ goal[g].pc = pc
      /\ Pointers(goal[g]) = {} /\ ReadyAs(g, goal[g])
      /\ ChildAlive(g) /\ g \in DOMAIN child /\ Srcs[g[2]] \subseteq valid
  BY <1>0, BldFacts DEF ChildPcs
<1>2. g[2] \in Path /\ StoreInv
  BY GoalFacts DEF Inv
<1>3. ASSUME NEW code \in {"failed", "success"}, AmDone(g, code, {g}), Running, UNCHANGED valid,
             code = "success" => g[2] \in valid
      PROVE  Step(g)
  <2>1. Ends(g, code, {g})
    BY <1>1, <1>3 DEF Ends, Codes, Running, Achieved
  <2> QED
    BY <1>1, <2>1 DEF Step
<1>4. CASE /\ valid' = valid \cup {g[2]} /\ child' = [child EXCEPT ![g] = FALSE]
           /\ nrLocalBuilds' = nrLocalBuilds - (IF child[g] THEN 1 ELSE 0)
           /\ WaitForChildEvent(g, [goal[g] EXCEPT !.pc = "post", !.reply = "none"])
           /\ UNCHANGED <<nrSubstitutions, lock>> /\ Running
  <2>1. StoreInv' /\ phase' = phase
    BY <1>2, <1>4, StoreStep DEF StoreInv
  <2>2. PICK s : s = [goal[g] EXCEPT !.pc = "post", !.reply = "none"]
    OBVIOUS
  <2>3. s.pc = "post" /\ s.reply = "none" /\ "post" \in Pcs("bld") /\ "post" \in ChildPcs
    BY <1>1, <2>2, PcsFacts DEF GoalState, ChildPcs
  <2>4. SlotStep(g, s)
    BY <1>1, <1>4, <2>3 DEF SlotStep
  <2>5. Parked(g, s)
    BY <1>1, <1>4, <2>3 DEF Parked, WaitForChildEvent
  <2>6. goal' = [goal EXCEPT ![g] = s] /\ Busy
    BY <1>4, <2>2 DEF WaitForChildEvent
  <2>7. valid \subseteq valid' /\ g[2] \in valid'
    BY <1>4
  <2> QED
    BY <1>1, <2>1, <2>2, <2>3, <2>4, <2>5, <2>6, <2>7, BldSuspends
<1>5. CASE AmDone(g, "failed", {g}) /\ UNCHANGED valid /\ Running
  BY <1>3, <1>5
<1>6. CASE BldPostBuildHook(g)
  <2>1. goal[g].pc = "post"
    BY <1>6 DEF BldPostBuildHook, Resume
  <2>2. g[2] \in valid
    BY <1>1, <2>1 DEF ReadyAs
  <2>3. CASE AmDone(g, "success", {g}) /\ Running /\ UNCHANGED valid
    BY <1>3, <2>2, <2>3
  <2>4. CASE Throw /\ UNCHANGED delays
    BY <1>1, <2>4 DEF Step
  <2> QED
    BY <1>6, <2>3, <2>4 DEF BldPostBuildHook
<1> QED
  BY <1>4, <1>5, <1>6 DEF BldEnded

(* Every step of a resumed goal has one of the shapes.                     *)
LEMMA WorkStep ==
  ASSUME Inv, NEW g \in Goal, Work(g)
  PROVE  Step(g)
<1>1. CASE PathInit(g) \/ PathQueried(g) \/ PathReferences(g) \/ PathRun(g) \/ PathCopied(g)
  BY <1>1, PathInitStep, PathQueriedStep, PathReferencesStep, PathRunStep, PathCopiedStep
<1>2. CASE DrvInit(g) \/ DrvSubstituted(g) \/ DrvResolved(g) \/ DrvBuilt(g) \/ ResInit(g) \/ ResInputs(g)
  BY <1>2, DrvStep, ResStep
<1>3. CASE BldInit(g) \/ BldSources(g) \/ BldTry(g) \/ BldLocal(g) \/ BldReady(g)
  BY <1>3, BldInitStep, BldSourcesStep, BldTryStep, BldLocalStep, BldReadyStep
<1>4. CASE BldEnded(g) \/ BldPostBuildHook(g)
  BY <1>4, BldEndedStep
<1> QED
  BY <1>1, <1>2, <1>3, <1>4 DEF Work

-----------------------------------------------------------------------------
(* Slots and children                                                      *)

LEMMA SlotsFinite ==
  ASSUME SlotInv, NEW kind
  PROVE  IsFiniteSet(SlotsTaken(kind)) /\ Cardinality(SlotsTaken(kind)) \in Nat
<1>1. SlotsTaken(kind) \in SUBSET DOMAIN child
  BY DEF SlotsTaken
<1>2. IsFiniteSet(SlotsTaken(kind))
  BY <1>1, FS_Subset DEF SlotInv
<1> QED
  BY <1>2, FS_CardinalityType

(* The conjuncts of SlotInv that count.                                    *)
Counted ==
  /\ IsFiniteSet(DOMAIN child) /\ DOMAIN child \subseteq Goal
  /\ nrLocalBuilds = Cardinality(SlotsTaken("bld")) /\ nrLocalBuilds <= MaxBuildJobs
  /\ nrSubstitutions = Cardinality(SlotsTaken("path")) /\ nrSubstitutions <= SubstitutionLimit

LEMMA Limits == MaxBuildJobs \in Nat \ {0} /\ SubstitutionLimit \in Nat \ {0}
BY SchedulerConstants DEF SubstitutionLimit

LEMMA TerminatedCounts ==
  ASSUME SlotInv, NEW gs, ChildTerminated(gs)
  PROVE  /\ Counted' /\ DOMAIN child' = DOMAIN child \ gs
         /\ \A h \in DOMAIN child' : child'[h] = child[h]
<1>1. DOMAIN child' = DOMAIN child \ gs /\ \A h \in DOMAIN child' : child'[h] = child[h]
  BY DEF ChildTerminated, Restrict
<1>2. ASSUME NEW kind
      PROVE  /\ SlotsTaken(kind)' = SlotsTaken(kind) \ gs
             /\ {h \in gs \cap DOMAIN child : child[h] /\ h[1] = kind} = SlotsTaken(kind) \cap gs
             /\ Cardinality(SlotsTaken(kind) \ gs)
                  = Cardinality(SlotsTaken(kind)) - Cardinality(SlotsTaken(kind) \cap gs)
             /\ Cardinality(SlotsTaken(kind) \cap gs) \in Nat
  <2>1. SlotsTaken(kind)' = SlotsTaken(kind) \ gs
    BY <1>1 DEF SlotsTaken
  <2>2. {h \in gs \cap DOMAIN child : child[h] /\ h[1] = kind} = SlotsTaken(kind) \cap gs
    BY DEF SlotsTaken
  <2>3. IsFiniteSet(SlotsTaken(kind) \cap gs)
    BY SlotsFinite, FS_Intersection
  <2> QED
    BY <2>1, <2>2, <2>3, SlotsFinite, FS_Difference, FS_CardinalityType
<1>3. /\ nrLocalBuilds' = nrLocalBuilds - Cardinality(SlotsTaken("bld") \cap gs)
      /\ nrSubstitutions' = nrSubstitutions - Cardinality(SlotsTaken("path") \cap gs)
  BY <1>2 DEF ChildTerminated
<1>4. /\ nrLocalBuilds' = Cardinality(SlotsTaken("bld")') /\ nrLocalBuilds' <= MaxBuildJobs
      /\ nrSubstitutions' = Cardinality(SlotsTaken("path")') /\ nrSubstitutions' <= SubstitutionLimit
  <2>1. /\ nrLocalBuilds = Cardinality(SlotsTaken("bld")) /\ nrLocalBuilds <= MaxBuildJobs
        /\ nrSubstitutions = Cardinality(SlotsTaken("path")) /\ nrSubstitutions <= SubstitutionLimit
    BY DEF SlotInv
  <2>2. nrLocalBuilds \in Nat /\ nrSubstitutions \in Nat
    BY <2>1, SlotsFinite
  <2>3. nrLocalBuilds' = Cardinality(SlotsTaken("bld")') /\ nrSubstitutions' = Cardinality(SlotsTaken("path")')
    BY <1>2, <1>3, <2>1
  <2>4. Cardinality(SlotsTaken("bld") \cap gs) \in Nat /\ Cardinality(SlotsTaken("path") \cap gs) \in Nat
    BY <1>2
  <2>5. nrLocalBuilds' <= MaxBuildJobs /\ nrSubstitutions' <= SubstitutionLimit
    BY <1>3, <2>1, <2>2, <2>4, Limits
  <2> QED
    BY <2>3, <2>5
<1>5. IsFiniteSet(DOMAIN child') /\ DOMAIN child' \subseteq Goal
  <2>1. IsFiniteSet(DOMAIN child) /\ DOMAIN child \subseteq Goal
    BY DEF SlotInv
  <2>2. IsFiniteSet(DOMAIN child \ gs)
    BY <2>1, FS_Difference
  <2> QED
    BY <1>1, <2>1, <2>2
<1> QED
  BY <1>1, <1>4, <1>5 DEF Counted

(* A goal that takes a slot, has a child outside the slots, or leaves its  *)
(* slot to the post-build hook.                                            *)
LEMMA StartedCounts ==
  ASSUME SlotInv, NEW g \in Goal, g \notin joining, ~RunsInSlot(g), g[1] \in {"path", "bld"},
         NEW inSlot \in BOOLEAN, ChildStarted(g, inSlot),
         inSlot => \/ g[1] = "bld" /\ nrLocalBuilds < MaxBuildJobs
                   \/ g[1] = "path" /\ nrSubstitutions < SubstitutionLimit
  PROVE  /\ Counted' /\ DOMAIN child' = DOMAIN child \cup {g} /\ child'[g] = inSlot
         /\ \A h \in DOMAIN child \ {g} : child'[h] = child[h]
<1>1. /\ DOMAIN child' = DOMAIN child \cup {g} /\ child'[g] = inSlot
      /\ \A h \in DOMAIN child \ {g} : child'[h] = child[h]
  BY DEF ChildStarted
<1>2. \A kind : g \notin SlotsTaken(kind)
  BY DEF SlotInv, SlotsTaken
<1>3. ASSUME NEW kind, kind # g[1] \/ ~inSlot PROVE SlotsTaken(kind)' = SlotsTaken(kind)
  BY <1>1, <1>2, <1>3 DEF SlotsTaken
<1>4. ASSUME inSlot PROVE /\ SlotsTaken(g[1])' = SlotsTaken(g[1]) \cup {g}
                          /\ Cardinality(SlotsTaken(g[1]) \cup {g}) = Cardinality(SlotsTaken(g[1])) + 1
  <2>1. SlotsTaken(g[1])' = SlotsTaken(g[1]) \cup {g}
    BY <1>1, <1>4 DEF SlotsTaken
  <2> QED
    BY <1>2, <2>1, SlotsFinite, FS_AddElement
<1>5. IsFiniteSet(DOMAIN child') /\ DOMAIN child' \subseteq Goal
  BY <1>1, FS_AddElement DEF SlotInv
<1>6. CASE ~inSlot
  <2>1. nrLocalBuilds' = nrLocalBuilds /\ nrSubstitutions' = nrSubstitutions
    BY <1>6, SlotsFinite DEF ChildStarted, SlotInv
  <2> QED
    BY <1>1, <1>3, <1>5, <1>6, <2>1 DEF Counted, SlotInv
<1>7. CASE inSlot /\ g[1] = "bld"
  <2>1. nrLocalBuilds' = nrLocalBuilds + 1 /\ nrSubstitutions' = nrSubstitutions
    BY <1>7, SlotsFinite DEF ChildStarted, SlotInv
  <2>2. nrLocalBuilds' <= MaxBuildJobs
    BY <1>7, <2>1, SlotsFinite, Limits DEF SlotInv
  <2> QED
    BY <1>1, <1>3, <1>4, <1>5, <1>7, <2>1, <2>2 DEF Counted, SlotInv
<1>8. CASE inSlot /\ g[1] = "path"
  <2>1. nrLocalBuilds' = nrLocalBuilds /\ nrSubstitutions' = nrSubstitutions + 1
    BY <1>8, SlotsFinite DEF ChildStarted, SlotInv
  <2>2. nrSubstitutions' <= SubstitutionLimit
    BY <1>8, <2>1, SlotsFinite, Limits DEF SlotInv
  <2> QED
    BY <1>1, <1>3, <1>4, <1>5, <1>8, <2>1, <2>2 DEF Counted, SlotInv
<1> QED
  BY <1>6, <1>7, <1>8

LEMMA HookCounts ==
  ASSUME SlotInv, NEW g \in DOMAIN child, g[1] = "bld", child' = [child EXCEPT ![g] = FALSE],
         nrLocalBuilds' = nrLocalBuilds - (IF child[g] THEN 1 ELSE 0), UNCHANGED nrSubstitutions
  PROVE  Counted'
<1>1. SlotsTaken("bld")' = SlotsTaken("bld") \ {g} /\ SlotsTaken("path")' = SlotsTaken("path")
  BY DEF SlotsTaken
<1>2. Cardinality(SlotsTaken("bld") \ {g})
        = IF g \in SlotsTaken("bld") THEN Cardinality(SlotsTaken("bld")) - 1 ELSE Cardinality(SlotsTaken("bld"))
  BY SlotsFinite, FS_RemoveElement
<1>3. g \in SlotsTaken("bld") <=> child[g]
  BY DEF SlotsTaken
<1>4. nrLocalBuilds' = Cardinality(SlotsTaken("bld")') /\ nrLocalBuilds' <= MaxBuildJobs
  <2>1. nrLocalBuilds = Cardinality(SlotsTaken("bld")) /\ nrLocalBuilds <= MaxBuildJobs
    BY DEF SlotInv
  <2>2. nrLocalBuilds \in Nat
    BY <2>1, SlotsFinite
  <2>3. nrLocalBuilds' = Cardinality(SlotsTaken("bld")')
    <3>1. CASE child[g]
      BY <1>1, <1>2, <1>3, <2>1, <3>1
    <3>2. CASE ~child[g]
      <4>1. nrLocalBuilds' = nrLocalBuilds
        BY <2>2, <3>2
      <4> QED
        BY <1>1, <1>2, <1>3, <2>1, <3>2, <4>1
    <3> QED
      BY <3>1, <3>2
  <2>4. nrLocalBuilds' <= nrLocalBuilds /\ nrLocalBuilds' \in Int
    BY <2>2
  <2> QED
    BY <2>1, <2>2, <2>3, <2>4, Limits
<1>5. DOMAIN child' = DOMAIN child
  OBVIOUS
<1> QED
  BY <1>1, <1>4, <1>5 DEF Counted, SlotInv

-----------------------------------------------------------------------------
(* Sources                                                                 *)

LEMMA OnlySource ==
  ASSUME NEW h, OneSource(h), NEW s \in Sources, Sourced(h, s)
  PROVE  \A t \in Sources : Sourced(h, t) <=> t = s
BY DEF OneSource

LEMMA SameSources ==
  ASSUME NEW h, OneSource(h), \A s \in Sources : Sourced(h, s)' <=> Sourced(h, s)
  PROVE  OneSource(h)'
BY DEF OneSource

LEMMA NewSource ==
  ASSUME NEW h, NEW s \in Sources, Sourced(h, s)', \A t \in Sources : Sourced(h, t)' => t = s
  PROVE  OneSource(h)'
BY DEF OneSource

LEMMA TodoOnly ==
  ASSUME Inv, NEW g, Resumes(g)
  PROVE  /\ g \notin awake /\ g \notin wantingToBuild /\ g \notin wantingToSubstitute
         /\ g \notin waitingForAWhile /\ g \notin waitingForCompletion /\ goal[g].waitees = {}
<1>1. OneSource(g) /\ Sourced(g, "todo")
  BY DEF Resumes, Inv, WakeInv, Sourced
<1>2. \A t \in Sources : Sourced(g, t) => t = "todo"
  BY <1>1 DEF OneSource, Sources
<1> QED
  BY <1>2 DEF Sources, Sourced

LEMMA ReadyGrows ==
  ASSUME valid \subseteq valid', NEW h, NEW r, ReadyAs(h, r)
  PROVE  ReadyAs(h, r)'
BY DEF ReadyAs, Achieved

LEMMA AchievedGrows ==
  ASSUME valid \subseteq valid', NEW h, Achieved(h)
  PROVE  Achieved(h)'
BY DEF Achieved

LEMMA GoalStateSame ==
  ASSUME UNCHANGED settings, NEW h
  PROVE  GoalState(h)' = GoalState(h)
BY DEF GoalState, settings

-----------------------------------------------------------------------------
(* A goal that suspends keeps the invariant.                               *)

LEMMA SuspendsSlots ==
  ASSUME Inv, NEW g \in Goal, Resumes(g), NEW r, Suspends(g, r)
  PROVE  SlotInv'
<1>1. /\ joining = {} /\ g \in DOMAIN goal /\ SlotInv
      /\ g[1] \in {"path", "bld"} /\ goal' = [goal EXCEPT ![g] = r] /\ joining' = joining
  BY DEF Resumes, Suspends, Busy, Inv
<1>2. /\ DOMAIN goal' = DOMAIN goal /\ goal'[g] = r
      /\ \A h \in DOMAIN goal \ {g} : goal'[h] = goal[h]
  BY <1>1
<1>3. \A h : h # g => (RunsInSlot(h)' <=> RunsInSlot(h))
  BY <1>2 DEF RunsInSlot
<1>4. joining' \subseteq {"path"} \X Path
  BY <1>1 DEF SlotInv
<1>5. ~ChildAlive(g) => ~RunsInSlot(g)
  BY DEF ChildAlive, RunsInSlot
(* What is left once the slots are counted.                                *)
<1>6. ASSUME Counted', \A h \in DOMAIN child \ {g} : h \in DOMAIN child' => child'[h] = child[h],
             DOMAIN child \ {g} \subseteq DOMAIN child', DOMAIN child' \subseteq DOMAIN child \cup {g},
             g \in DOMAIN child' => /\ child'[g] \in BOOLEAN /\ (child'[g] => RunsInSlot(g)')
                                    /\ (g[1] = "path" => child'[g]),
             g[1] = "bld" /\ r.pc \in ChildPcs => g \in DOMAIN child'
      PROVE  SlotInv'
  <2>1. \A h \in DOMAIN child' : /\ child'[h] \in BOOLEAN
                                 /\ child'[h] => h \in joining' \/ RunsInSlot(h)'
                                 /\ h[1] = "path" => child'[h]
    BY <1>1, <1>3, <1>6 DEF SlotInv
  <2>2. \A h \in DOMAIN goal' :
          h[1] = "bld" /\ goal'[h].pc \in {"build", "remote", "post"} => h \in DOMAIN child'
    BY <1>1, <1>2, <1>6 DEF SlotInv, ChildPcs
  <2> QED
    BY <1>4, <1>6, <2>1, <2>2 DEF SlotInv, Counted
<1>7. CASE UNCHANGED slots /\ ~ChildAlive(g) /\ r.pc \notin ChildPcs \cup {"copy"}
  <2>1. UNCHANGED <<child, nrLocalBuilds, nrSubstitutions>>
    BY <1>7 DEF slots
  <2>2. Counted'
    BY <1>1, <2>1 DEF SlotInv, Counted, SlotsTaken
  <2>3. g \in DOMAIN child' => /\ child'[g] \in BOOLEAN /\ (child'[g] => RunsInSlot(g)')
                               /\ (g[1] = "path" => child'[g])
    BY <1>1, <1>5, <1>7, <2>1 DEF SlotInv
  <2> QED
    BY <1>6, <1>7, <2>1, <2>2, <2>3
<1>8. CASE /\ ChildStarted(g, TRUE) /\ ~ChildAlive(g)
           /\ \/ g[1] = "bld" /\ r.pc = "build" /\ nrLocalBuilds < MaxBuildJobs
              \/ g[1] = "path" /\ r.pc = "copy" /\ nrSubstitutions < SubstitutionLimit
  <2>0. PICK inSlot \in BOOLEAN : inSlot = TRUE
    OBVIOUS
  <2>1. ChildStarted(g, inSlot)
    BY <1>8, <2>0
  <2>2. /\ Counted' /\ DOMAIN child' = DOMAIN child \cup {g} /\ child'[g] = inSlot
        /\ \A h \in DOMAIN child \ {g} : child'[h] = child[h]
    BY <1>1, <1>5, <1>8, <2>1, StartedCounts
  <2>3. RunsInSlot(g)'
    BY <1>1, <1>2, <1>8 DEF RunsInSlot
  <2> QED
    BY <1>6, <2>0, <2>2, <2>3
<1>9. CASE ChildStarted(g, FALSE) /\ ~ChildAlive(g) /\ g[1] = "bld" /\ r.pc = "remote"
  <2>0. PICK inSlot \in BOOLEAN : inSlot = FALSE
    OBVIOUS
  <2>1. ChildStarted(g, inSlot)
    BY <1>9, <2>0
  <2>2. /\ Counted' /\ DOMAIN child' = DOMAIN child \cup {g} /\ child'[g] = inSlot
        /\ \A h \in DOMAIN child \ {g} : child'[h] = child[h]
    BY <1>1, <1>5, <1>9, <2>0, <2>1, StartedCounts
  <2> QED
    BY <1>6, <1>9, <2>0, <2>2
<1>10. CASE /\ g[1] = "bld" /\ ChildAlive(g) /\ r.pc = "post"
            /\ child' = [child EXCEPT ![g] = FALSE]
            /\ nrLocalBuilds' = nrLocalBuilds - (IF child[g] THEN 1 ELSE 0)
            /\ UNCHANGED nrSubstitutions
  <2>1. g \in DOMAIN child
    BY <1>1, <1>10 DEF ChildAlive, SlotInv
  <2>2. Counted'
    BY <1>1, <1>10, <2>1, HookCounts
  <2>3. /\ DOMAIN child' = DOMAIN child /\ child'[g] = FALSE
        /\ \A h \in DOMAIN child \ {g} : child'[h] = child[h]
    BY <1>10, <2>1
  <2> QED
    BY <1>6, <1>10, <2>1, <2>2, <2>3
<1>11. CASE /\ g[1] = "path" /\ r.pc = "query"
            /\ \E ended \in {{}, {g}} : ChildTerminated(ended) /\ (ended = {} => ~ChildAlive(g))
  <2>1. PICK ended \in {{}, {g}} : ChildTerminated(ended) /\ (ended = {} => ~ChildAlive(g))
    BY <1>11
  <2>2. /\ Counted' /\ DOMAIN child' = DOMAIN child \ ended
        /\ \A h \in DOMAIN child' : child'[h] = child[h]
    BY <1>1, <2>1, TerminatedCounts
  <2>3. g \notin DOMAIN child'
    BY <1>1, <1>5, <1>11, <2>1, <2>2 DEF SlotInv
  <2> QED
    BY <1>6, <1>11, <2>1, <2>2, <2>3
<1> QED
  BY <1>7, <1>8, <1>9, <1>10, <1>11 DEF Suspends, SlotStep

LEMMA SuspendsWake ==
  ASSUME Inv, NEW g \in Goal, Resumes(g), NEW r, Suspends(g, r)
  PROVE  WakeInv'
<1>1. /\ g \in DOMAIN goal /\ goal' = [goal EXCEPT ![g] = r] /\ todo' = todo \ {g}
      /\ phase = "work" /\ Parked(g, r) /\ SlotStep(g, r) /\ r.waitees = {} /\ SlotInv
  BY DEF Resumes, Suspends, Inv, Pointers
<1>2. /\ DOMAIN goal' = DOMAIN goal /\ goal'[g] = r
      /\ \A h \in DOMAIN goal \ {g} : goal'[h] = goal[h]
  BY <1>1
<1>3. /\ g \notin awake /\ g \notin wantingToBuild /\ g \notin wantingToSubstitute
      /\ g \notin waitingForAWhile /\ g \notin waitingForCompletion
  BY TodoOnly
<1>4. \A h : h # g => (h \in DOMAIN child' <=> h \in DOMAIN child)
  <2>1. CASE \E ended \in {{}, {g}} : ChildTerminated(ended)
    BY <1>1, <2>1, TerminatedCounts
  <2>2. CASE \E b \in BOOLEAN : ChildStarted(g, b)
    BY <2>2 DEF ChildStarted
  <2>3. CASE UNCHANGED slots
    BY <2>3 DEF slots
  <2> QED
    BY <1>1, <2>1, <2>2, <2>3 DEF SlotStep
<1>5. ASSUME NEW h \in DOMAIN goal, h # g PROVE OneSource(h)'
  <2>1. OneSource(h)
    BY <1>1 DEF Inv, WakeInv
  <2>2. /\ h \in awake' <=> h \in awake
        /\ h \in wantingToBuild' <=> h \in wantingToBuild
        /\ h \in wantingToSubstitute' <=> h \in wantingToSubstitute
        /\ h \in waitingForAWhile' <=> h \in waitingForAWhile
        /\ h \in waitingForCompletion' <=> h \in waitingForCompletion
    BY <1>1, <1>5 DEF Parked, waiting
  <2>3. h \in todo' <=> h \in todo
    BY <1>1, <1>5
  <2>4. goal'[h] = goal[h] /\ (h \in DOMAIN child' <=> h \in DOMAIN child)
    BY <1>2, <1>4, <1>5
  <2>5. ASSUME NEW s \in Sources PROVE Sourced(h, s)' <=> Sourced(h, s)
    BY <2>2, <2>3, <2>4 DEF Sourced
  <2> QED
    BY <2>1, <2>5, SameSources
<1>6. g \notin todo' /\ goal'[g].waitees = {}
  BY <1>1, <1>2
<1>7. OneSource(g)'
  <2>1. CASE r.pc \in ChildPcs /\ g[1] = "bld"
    <3>1. UNCHANGED <<awake, waiting>>
      BY <1>1, <2>1 DEF Parked, ChildPcs
    <3>2. g \in DOMAIN child'
      BY <1>1, <1>2, <2>1, SuspendsSlots DEF SlotInv, ChildPcs
    <3>3. Sourced(g, "child")' /\ "child" \in Sources
      BY <1>2, <1>6, <2>1, <3>2 DEF Sourced, ChildPcs, Sources
    <3>4. \A t \in Sources : Sourced(g, t)' => t = "child"
      BY <1>3, <1>6, <3>1 DEF Sourced, waiting
    <3> QED
      BY <3>3, <3>4, NewSource
  <2>2. CASE r.pc \notin ChildPcs
    <3>1. PICK s \in Sources : Sourced(g, s)' /\ s \in {"awake", "wantingToBuild", "wantingToSubstitute", "aWhile", "completion"}
      BY <1>1, <2>2 DEF Parked, Sources, Sourced
    <3>2. \A t \in Sources : Sourced(g, t)' => t \in {"awake", "wantingToBuild", "wantingToSubstitute", "aWhile", "completion"}
      BY <1>2, <1>6, <2>2 DEF Sourced, Sources, ChildPcs
    <3>3. \A t \in {"awake", "wantingToBuild", "wantingToSubstitute", "aWhile", "completion"} : Sourced(g, t)' => t = s
      BY <1>1, <1>3, <2>2, <3>1 DEF Sourced, Parked, waiting
    <3> QED
      BY <3>1, <3>2, <3>3, NewSource
  <2>3. r.pc \in ChildPcs => g[1] = "bld"
    BY <1>1 DEF Parked, ChildPcs
  <2> QED
    BY <2>1, <2>2, <2>3
<1> QED
  BY <1>2, <1>5, <1>7 DEF WakeInv

LEMMA SuspendsInv ==
  ASSUME Inv, NEW g \in Goal, Resumes(g), NEW r, Suspends(g, r)
  PROVE  Inv'
<1>1. /\ g \in DOMAIN goal /\ goal' = [goal EXCEPT ![g] = r] /\ todo' = todo \ {g}
      /\ phase = "work" /\ phase' = phase /\ Parked(g, r) /\ UNCHANGED settings
      /\ UNCHANGED <<outcome, topGoals, batch, joining, wakeupQueue>>
      /\ r \in GoalState(g) /\ Pointers(r) = {} /\ ReadyAs(g, r)' /\ StoreInv' /\ valid \subseteq valid'
  BY DEF Resumes, Suspends, Busy
<1>2. /\ DOMAIN goal' = DOMAIN goal /\ goal'[g] = r
      /\ \A h \in DOMAIN goal \ {g} : goal'[h] = goal[h]
  BY <1>1
<1>3. GoalInv'
  <2>1. \A h \in DOMAIN goal' : goal'[h] \in GoalState(h) /\ Pointers(goal'[h]) \subseteq DOMAIN goal'
    BY <1>1, <1>2 DEF Inv, GoalInv
  <2>2. \A h \in DOMAIN goal' : goal'[h] \in GoalState(h)'
    BY <1>1, <2>1, GoalStateSame
  <2> QED
    BY <1>1, <1>2, <2>1, <2>2 DEF Inv, GoalInv, Requested, settings, Pointers
<1>4. QueueInv'
  <2>1. g \notin wakeupQueue
    BY TodoOnly DEF Inv, QueueInv
  <2>2. IsFiniteSet(wantingToBuild') /\ IsFiniteSet(wantingToSubstitute')
    BY <1>1, FS_AddElement DEF Parked, waiting, Inv, QueueInv
  <2>3. /\ wantingToBuild' \subseteq DOMAIN goal' /\ wantingToSubstitute' \subseteq DOMAIN goal'
        /\ waitingForAWhile' \subseteq DOMAIN goal' /\ waitingForCompletion' \subseteq DOMAIN goal'
        /\ wakeupQueue' \subseteq waitingForCompletion' /\ awake' \subseteq Goal
        /\ waitingForCompletion \subseteq waitingForCompletion'
    BY <1>1, <1>2 DEF Parked, waiting, Inv, QueueInv
  <2>4. \A h \in wakeupQueue' : goal'[h].reply # "none"
    BY <1>1, <1>2, <2>1 DEF Inv, QueueInv
  <2>5. r.pc \in {"query", "copy"} /\ g[1] = "path" => g \in waitingForCompletion'
    BY <1>1 DEF Parked, ChildPcs
  <2>6. \A h \in DOMAIN goal' :
          h[1] = "path" /\ goal'[h].pc \in {"query", "copy"} /\ goal'[h].reply = "none"
          => h \in waitingForCompletion'
    BY <1>2, <2>3, <2>5 DEF Inv, QueueInv
  <2>7. todo' \subseteq batch' /\ batch' \subseteq DOMAIN goal' /\ phase' = "work"
    BY <1>1, <1>2 DEF Inv, QueueInv
  <2>8. \A h \in wantingToBuild' \cup wantingToSubstitute' \cup waitingForAWhile' \cup waitingForCompletion' :
          h[1] \in {"path", "bld"}
    BY <1>1 DEF Parked, waiting, Suspends, Inv, QueueInv
  <2> QED
    BY <2>2, <2>3, <2>4, <2>6, <2>7, <2>8 DEF QueueInv
<1>5. ReadyInv'
  <2>1. ASSUME NEW h \in DOMAIN goal' PROVE ReadyAs(h, goal[h])'
    <3>1. CASE h = g
      BY <1>1, <1>2, <3>1
    <3>2. CASE h # g
      <4>1. PICK q : q = goal[h]
        OBVIOUS
      <4>2. ReadyAs(h, q)'
        BY <1>1, <1>2, <2>1, <4>1, ReadyGrows DEF Inv, ReadyInv
      <4>3. q = goal'[h]
        BY <1>2, <2>1, <3>2, <4>1
      <4> QED
        BY <4>2, <4>3
    <3> QED
      BY <3>1, <3>2
  <2>2. \A h \in DOMAIN outcome' : outcome'[h] = "success" => Achieved(h)'
    BY <1>1, AchievedGrows DEF Inv, ReadyInv
  <2> QED
    BY <2>1, <2>2 DEF ReadyInv
<1> QED
  BY <1>1, <1>3, <1>4, <1>5, SuspendsSlots, SuspendsWake DEF Inv

-----------------------------------------------------------------------------
(* A goal that awaits others, and an exception, keep the invariant.        *)

LEMMA CreatedFacts ==
  ASSUME NEW h \in Goal, NEW required \in BOOLEAN
  PROVE  /\ Created(required) \in GoalState(h) /\ Created(required).pc = "init"
         /\ Created(required).waitees = {} /\ Pointers(Created(required)) = {}
         /\ Created(required).reply = "none"
<1>1. "init" \in Pcs(h[1]) /\ "none" \in Replies /\ 0 \in 0 .. NrSubstituters
  BY GoalFacts, PcsFacts, SchedulerConstants DEF Replies
<1>2. /\ Created(required).pc = "init" /\ Created(required).waitees = {}
      /\ Created(required).inputGoals = {} /\ Created(required).reply = "none"
      /\ Created(required).nrNoSubstituters = 0 /\ Created(required).nrFailed = 0
  BY DEF Created
<1>3. Created(required) \in [pc : Pcs(h[1]), waitees : SUBSET Goal, inputGoals : SUBSET Goal, nrFailed : Nat,
            nrNoSubstituters : Nat, tried : 0 .. NrSubstituters, pathRequired : BOOLEAN,
            substituterFailed : BOOLEAN, lastException : BOOLEAN, reply : Replies]
  BY <1>1 DEF Created
<1> QED
  BY <1>2, <1>3 DEF GoalState, Pointers

LEMMA AwaitsFacts ==
  ASSUME Inv, NEW g \in Goal, Resumes(g), NEW r, NEW W, NEW required, Awaits(g, r, W, required)
  PROVE  /\ g \in DOMAIN goal /\ DOMAIN goal' = DOMAIN goal \cup W /\ goal'[g] = r /\ W \subseteq Goal
         /\ \A h \in DOMAIN goal \ {g} : goal'[h] = goal[h]
         /\ \A h \in W \ DOMAIN goal : goal'[h] = Created(required)
<1>1. g \in DOMAIN goal
  BY DEF Resumes
<1>2. goal' = [h \in DOMAIN goal \cup W |->
                IF h = g THEN r ELSE IF h \in DOMAIN goal THEN goal[h] ELSE Created(required)]
  BY DEF Awaits
<1>3. W \subseteq Goal
  BY DEF Awaits, GoalState
<1> QED
  BY <1>1, <1>2, <1>3

LEMMA AwaitsWake ==
  ASSUME Inv, NEW g \in Goal, Resumes(g), NEW r, NEW W, NEW required, Awaits(g, r, W, required)
  PROVE  WakeInv'
<1>1. /\ g \in DOMAIN goal /\ DOMAIN goal' = DOMAIN goal \cup W /\ goal'[g] = r /\ W \subseteq Goal
      /\ \A h \in DOMAIN goal \ {g} : goal'[h] = goal[h]
      /\ \A h \in W \ DOMAIN goal : goal'[h] = Created(required)
  BY AwaitsFacts
<1>2. /\ awake' = awake \cup (W \ DOMAIN goal) /\ todo' = todo \ {g} /\ r.waitees = W /\ W # {}
      /\ r.pc \notin ChildPcs /\ required \in BOOLEAN /\ phase = "work" /\ child' = child
      /\ UNCHANGED <<wantingToBuild, wantingToSubstitute, waitingForAWhile, waitingForCompletion>>
  BY DEF Awaits, Resumes, waiting, slots
<1>3. /\ g \notin awake /\ g \notin wantingToBuild /\ g \notin wantingToSubstitute
      /\ g \notin waitingForAWhile /\ g \notin waitingForCompletion
  BY TodoOnly
<1>4. ASSUME NEW h \in DOMAIN goal, h # g PROVE OneSource(h)'
  <2>1. OneSource(h)
    BY <1>2 DEF Inv, WakeInv
  <2>2. ASSUME NEW s \in Sources PROVE Sourced(h, s)' <=> Sourced(h, s)
    BY <1>1, <1>2, <1>4 DEF Sourced
  <2> QED
    BY <2>1, <2>2, SameSources
<1>5. OneSource(g)'
  <2>1. Sourced(g, "waitees")' /\ "waitees" \in Sources
    BY <1>1, <1>2 DEF Sourced, Sources
  <2>2. \A t \in Sources : Sourced(g, t)' => t = "waitees"
    BY <1>1, <1>2, <1>3 DEF Sourced, ChildPcs
  <2> QED
    BY <2>1, <2>2, NewSource
<1>6. ASSUME NEW h \in W \ DOMAIN goal PROVE OneSource(h)'
  <2>1. goal'[h].pc = "init" /\ goal'[h].waitees = {}
    BY <1>1, <1>2, CreatedFacts
  <2>2. /\ h \notin todo' /\ h \notin wantingToBuild' /\ h \notin wantingToSubstitute'
        /\ h \notin waitingForAWhile' /\ h \notin waitingForCompletion'
    BY <1>2 DEF Inv, QueueInv
  <2>3. Sourced(h, "awake")' /\ "awake" \in Sources
    BY <1>2 DEF Sourced, Sources
  <2>4. \A t \in Sources : Sourced(h, t)' => t = "awake"
    BY <2>1, <2>2 DEF Sourced
  <2> QED
    BY <2>3, <2>4, NewSource
<1> QED
  BY <1>1, <1>4, <1>5, <1>6 DEF WakeInv

LEMMA AwaitsInv ==
  ASSUME Inv, NEW g \in Goal, Resumes(g), NEW r, NEW W, NEW required, Awaits(g, r, W, required)
  PROVE  Inv'
<1>1. /\ g \in DOMAIN goal /\ DOMAIN goal' = DOMAIN goal \cup W /\ goal'[g] = r /\ W \subseteq Goal
      /\ \A h \in DOMAIN goal \ {g} : goal'[h] = goal[h]
      /\ \A h \in W \ DOMAIN goal : goal'[h] = Created(required)
  BY AwaitsFacts
<1>2. /\ awake' = awake \cup (W \ DOMAIN goal) /\ todo' = todo \ {g} /\ UNCHANGED settings
      /\ r.pc \notin ChildPcs \cup {"query", "copy"} /\ required \in BOOLEAN
      /\ phase = "work" /\ Pointers(r) = W /\ ~ChildAlive(g) /\ r \in GoalState(g)
      /\ UNCHANGED <<wantingToBuild, wantingToSubstitute, waitingForAWhile, waitingForCompletion>>
      /\ UNCHANGED <<outcome, topGoals, batch, joining, wakeupQueue>>
      /\ UNCHANGED <<child, nrLocalBuilds, nrSubstitutions, lock, valid, phase, delays>>
  BY DEF Awaits, Resumes, waiting, slots, Busy
<1>3. \A h \in W \ DOMAIN goal : /\ goal'[h] \in GoalState(h) /\ goal'[h].pc = "init"
                                 /\ Pointers(goal'[h]) = {}
  BY <1>1, <1>2, CreatedFacts
<1>4. GoalInv'
  <2>1. ASSUME NEW h \in DOMAIN goal'
        PROVE  goal'[h] \in GoalState(h)' /\ Pointers(goal'[h]) \subseteq DOMAIN goal'
    <3>1. GoalState(h)' = GoalState(h)
      BY <1>2, GoalStateSame
    <3>2. CASE h = g
      BY <1>1, <1>2, <3>1, <3>2
    <3>3. CASE h \in DOMAIN goal \ {g}
      BY <1>1, <3>1, <3>3 DEF Inv, GoalInv
    <3>4. CASE h \in W \ DOMAIN goal
      BY <1>3, <3>1, <3>4
    <3> QED
      BY <1>1, <3>2, <3>3, <3>4
  <2>2. (\A h \in DOMAIN goal : goal[h] \in GoalState(h) /\ Pointers(goal[h]) \subseteq DOMAIN goal)'
    BY <2>1
  <2> QED
    BY <1>1, <1>2, <2>2 DEF Inv, GoalInv, Requested, settings
<1>5. QueueInv'
  <2>1. g \notin wakeupQueue
    BY TodoOnly DEF Inv, QueueInv
  <2>2. \A h \in wakeupQueue' : goal'[h].reply # "none"
    BY <1>1, <1>2, <2>1 DEF Inv, QueueInv
  <2>3. \A h \in DOMAIN goal' :
          h[1] = "path" /\ goal'[h].pc \in {"query", "copy"} /\ goal'[h].reply = "none"
          => h \in waitingForCompletion'
    BY <1>1, <1>2, <1>3 DEF Inv, QueueInv
  <2>4. awake' \subseteq Goal /\ todo' \subseteq batch' /\ batch' \subseteq DOMAIN goal'
    BY <1>1, <1>2 DEF Inv, QueueInv
  <2> QED
    BY <1>1, <1>2, <2>2, <2>3, <2>4 DEF Inv, QueueInv
<1>6. SlotInv'
  <2>1. \A h : RunsInSlot(h) => RunsInSlot(h)'
    BY <1>1, <1>2 DEF RunsInSlot, ChildAlive
  <2>2. \A h \in DOMAIN goal' :
          h[1] = "bld" /\ goal'[h].pc \in {"build", "remote", "post"} => h \in DOMAIN child'
    BY <1>1, <1>2, <1>3 DEF Inv, SlotInv, ChildPcs
  <2>3. SlotsTaken("bld")' = SlotsTaken("bld") /\ SlotsTaken("path")' = SlotsTaken("path")
    BY <1>2 DEF SlotsTaken
  <2> QED
    BY <1>2, <2>1, <2>2, <2>3 DEF Inv, SlotInv
<1>7. StoreInv'
  BY <1>2 DEF Inv, StoreInv
<1>8. ReadyInv'
  <2>1. ASSUME NEW h \in DOMAIN goal' PROVE ReadyAs(h, goal[h])'
    <3>1. CASE h = g
      BY <1>1, <3>1 DEF Awaits
    <3>2. CASE h \in DOMAIN goal \ {g}
      <4>1. PICK q : q = goal[h]
        OBVIOUS
      <4>2. ReadyAs(h, q)'
        BY <1>2, <3>2, <4>1, ReadyGrows DEF Inv, ReadyInv
      <4>3. q = goal'[h]
        BY <1>1, <3>2, <4>1
      <4> QED
        BY <4>2, <4>3
    <3>3. CASE h \in W \ DOMAIN goal
      <4>1. PICK q : q = Created(required)
        OBVIOUS
      <4>2. ReadyAs(h, q)'
        BY <3>3, <4>1 DEF Awaits
      <4>3. q = goal'[h]
        BY <1>1, <3>3, <4>1
      <4> QED
        BY <4>2, <4>3
    <3> QED
      BY <1>1, <3>1, <3>2, <3>3
  <2>2. \A h \in DOMAIN outcome' : outcome'[h] = "success" => Achieved(h)'
    BY <1>2, AchievedGrows DEF Inv, ReadyInv
  <2> QED
    BY <2>1, <2>2 DEF ReadyInv
<1> QED
  BY <1>4, <1>5, <1>6, <1>7, <1>8, AwaitsWake DEF Inv

(* What does not touch the goals, their slots or their sources.            *)
LEMMA ThrowInv ==
  ASSUME Inv, NEW g \in Goal, Resumes(g), Throw, UNCHANGED delays
  PROVE  Inv'
<1>1. /\ phase' = "thrown" /\ todo' = todo \ {g} /\ UNCHANGED <<keepGoing, fallback>>
      /\ UNCHANGED <<goal, outcome, topGoals, awake, batch, wakeupQueue, joining, lock, valid, delays>>
      /\ UNCHANGED <<wantingToBuild, wantingToSubstitute, waitingForAWhile, waitingForCompletion>>
      /\ UNCHANGED <<child, nrLocalBuilds, nrSubstitutions>>
  BY DEF Throw, Resumes, settings, waiting, slots
<1>2. GoalInv'
  <2>1. \A h : GoalState(h)' = GoalState(h)
    BY <1>1, GoalStateSame DEF settings
  <2> QED
    BY <1>1, <2>1 DEF Inv, GoalInv, Requested, Pointers
<1>3. QueueInv'
  BY <1>1 DEF Inv, QueueInv
<1>4. SlotInv'
  BY <1>1 DEF Inv, SlotInv, SlotsTaken, RunsInSlot
<1>5. StoreInv' /\ WakeInv' /\ ReadyInv'
  BY <1>1 DEF Inv, StoreInv, WakeInv, ReadyInv, ReadyAs, Achieved
<1> QED
  BY <1>2, <1>3, <1>4, <1>5 DEF Inv

-----------------------------------------------------------------------------
(* A goal that ends keeps the invariant.                                   *)

(* What is left of a goal once it is told that g has ended.                *)
Told(g, code, h) ==
  IF g \notin Pointers(goal[h])
  THEN goal[h]
  ELSE IF g \notin goal[h].waitees
  THEN [goal[h] EXCEPT !.inputGoals = @ \ {g}]
  ELSE [goal[h] EXCEPT
           !.waitees = IF h \in Wakes(g, code) THEN {} ELSE @ \ {g},
           !.inputGoals = @ \ {g},
           !.nrFailed = @ + (IF code = "success" THEN 0 ELSE 1),
           !.nrNoSubstituters = @ + (IF code = "noSubstituters" THEN 1 ELSE 0)]

Rest(g, code) == [h \in DOMAIN goal \ {g} |-> Told(g, code, h)]

Dead(g, code) == DOMAIN Rest(g, code) \ Held(Rest(g, code), (batch \cup Requested) \ {g})

ToldShape(g, code, h, r) ==
  /\ r \in GoalState(h) /\ r.pc = goal[h].pc /\ r.reply = goal[h].reply
  /\ r.inputGoals = goal[h].inputGoals \ {g}
  /\ r.waitees = IF h \in Wakes(g, code) THEN {} ELSE goal[h].waitees \ {g}
  /\ (r.waitees # {} <=> goal[h].waitees # {} /\ h \notin Wakes(g, code))
  /\ Pointers(r) \subseteq Pointers(goal[h]) \ {g}
  /\ r.nrFailed = goal[h].nrFailed + (IF g \in goal[h].waitees /\ code # "success" THEN 1 ELSE 0)
  /\ goal[h].nrFailed \in Nat

LEMMA TellFacts ==
  ASSUME GoalInv, NEW g \in DOMAIN goal, NEW code \in Codes, NEW h \in DOMAIN goal,
         NEW r, r = Told(g, code, h)
  PROVE  ToldShape(g, code, h, r)
<1>0. h \in Wakes(g, code) <=> g \in goal[h].waitees /\ (goal[h].waitees = {g} \/ (code = "failed" /\ ~keepGoing))
  BY DEF Wakes
<1>1. goal[h] \in GoalState(h)
  BY DEF GoalInv
<1>2. goal[h] \in [pc : Pcs(h[1]), waitees : SUBSET Goal, inputGoals : SUBSET Goal, nrFailed : Nat,
            nrNoSubstituters : Nat, tried : 0 .. NrSubstituters, pathRequired : BOOLEAN,
            substituterFailed : BOOLEAN, lastException : BOOLEAN, reply : Replies]
  BY <1>1 DEF GoalState
<1>3. CASE g \notin Pointers(goal[h])
  <2>1. r = goal[h] /\ g \notin goal[h].waitees /\ g \notin goal[h].inputGoals
    BY <1>3 DEF Told, Pointers
  <2> QED
    BY <1>0, <1>1, <1>2, <2>1 DEF Pointers, ToldShape
<1>4. CASE g \in Pointers(goal[h]) /\ g \notin goal[h].waitees
  <2>1. r = [goal[h] EXCEPT !.inputGoals = @ \ {g}]
    BY <1>4 DEF Told
  <2>2. /\ r.pc = goal[h].pc /\ r.reply = goal[h].reply /\ r.waitees = goal[h].waitees
        /\ r.inputGoals = goal[h].inputGoals \ {g} /\ r.nrFailed = goal[h].nrFailed
        /\ r.nrNoSubstituters = goal[h].nrNoSubstituters
    BY <1>2, <2>1
  <2>3. g \in goal[h].inputGoals /\ goal[h].inputGoals # goal[h].waitees
    BY <1>4 DEF Pointers
  <2>4. r \in GoalState(h)
    BY <1>1, <1>2, <2>1, <2>2, <2>3 DEF GoalState
  <2> QED
    BY <1>0, <1>2, <1>4, <2>2, <2>4 DEF Pointers, ToldShape
<1>5. CASE g \in goal[h].waitees
  <2> DEFINE left == IF h \in Wakes(g, code) THEN {} ELSE goal[h].waitees \ {g}
             nf == goal[h].nrFailed + (IF code = "success" THEN 0 ELSE 1)
             ns == goal[h].nrNoSubstituters + (IF code = "noSubstituters" THEN 1 ELSE 0)
  <2>1. r = [goal[h] EXCEPT !.waitees = left, !.inputGoals = @ \ {g}, !.nrFailed = nf, !.nrNoSubstituters = ns]
    BY <1>5 DEF Told, Pointers
  <2>2. nf \in Nat /\ ns \in Nat /\ ns <= nf /\ goal[h].nrFailed <= nf /\ (code # "success" => nf > 0)
    BY <1>1, <1>2 DEF GoalState
  <2>3. left \subseteq goal[h].waitees /\ (left # {} <=> h \notin Wakes(g, code)) /\ g \notin left
    BY <1>0, <1>5
  <2>4. /\ r.pc = goal[h].pc /\ r.reply = goal[h].reply /\ r.waitees = left
        /\ r.inputGoals = goal[h].inputGoals \ {g} /\ r.nrFailed = nf /\ r.nrNoSubstituters = ns
    BY <1>2, <2>1
  <2>5. h[1] = "res" /\ r.inputGoals # r.waitees => ~keepGoing /\ r.nrFailed > 0 /\ r.waitees = {}
    <3>1. CASE code = "failed" /\ ~keepGoing
      BY <1>0, <1>5, <2>2, <2>4, <3>1
    <3>2. CASE ~(code = "failed" /\ ~keepGoing)
      <4>1. left = goal[h].waitees \ {g}
        BY <1>0, <3>2
      <4>2. h[1] = "res" => r.inputGoals = r.waitees
        BY <1>1, <1>5, <2>4, <4>1 DEF GoalState
      <4> QED
        BY <4>2
    <3> QED
      BY <3>1, <3>2
  <2> HIDE DEF left, nf, ns
  <2>6. r \in [pc : Pcs(h[1]), waitees : SUBSET Goal, inputGoals : SUBSET Goal, nrFailed : Nat,
            nrNoSubstituters : Nat, tried : 0 .. NrSubstituters, pathRequired : BOOLEAN,
            substituterFailed : BOOLEAN, lastException : BOOLEAN, reply : Replies]
    BY <1>2, <2>1, <2>2, <2>3
  <2>7. r \in GoalState(h)
    BY <1>1, <2>2, <2>3, <2>4, <2>5, <2>6 DEF GoalState
  <2>8. r.nrFailed = goal[h].nrFailed + (IF g \in goal[h].waitees /\ code # "success" THEN 1 ELSE 0)
    BY <1>5, <2>4 DEF nf
  <2>9. r.waitees = IF h \in Wakes(g, code) THEN {} ELSE goal[h].waitees \ {g}
    BY <2>4 DEF left
  <2>10. Pointers(r) \subseteq Pointers(goal[h]) \ {g}
    BY <2>3, <2>4 DEF Pointers
  <2>11. r.waitees # {} <=> goal[h].waitees # {} /\ h \notin Wakes(g, code)
    BY <1>5, <2>3, <2>4
  <2> QED
    BY <1>2, <2>4, <2>7, <2>8, <2>9, <2>10, <2>11 DEF ToldShape
<1> QED
  BY <1>3, <1>4, <1>5 DEF Pointers

EndShape(g, code, ended, dead) ==
  /\ DOMAIN goal' = (DOMAIN goal \ {g}) \ dead
  /\ \A h \in DOMAIN goal' : goal'[h] = Told(g, code, h)
  /\ dead \subseteq DOMAIN goal \ {g} /\ dead \cap (batch \cup Requested) = {}
  /\ \A h \in DOMAIN goal' : Pointers(goal'[h]) \cap dead = {}
  /\ outcome' = [h \in DOMAIN outcome \cup (topGoals \cap {g}) |->
                     IF h = g /\ g \in topGoals THEN code ELSE outcome[h]]
  /\ topGoals' = IF g \in topGoals /\ code = "failed" /\ ~keepGoing THEN {} ELSE topGoals \ {g}
  /\ batch' = batch \ {g} /\ awake' = awake \cup Wakes(g, code)
  /\ wantingToBuild' = wantingToBuild \ dead
  /\ wantingToSubstitute' = wantingToSubstitute \ dead
  /\ Destroyed(dead, ended)
  /\ lock' = [p \in Path |-> IF lock[p] \in dead \cup {g} THEN Free ELSE lock[p]]

LEMMA EndFacts ==
  ASSUME NEW g \in DOMAIN goal, NEW code, NEW ended, AmDone(g, code, ended),
         NEW dead, dead = Dead(g, code)
  PROVE  EndShape(g, code, ended, dead)
<1> DEFINE tell(h) == IF g \notin Pointers(goal[h])
                   THEN goal[h]
                   ELSE IF g \notin goal[h].waitees
                   THEN [goal[h] EXCEPT !.inputGoals = @ \ {g}]
                   ELSE [goal[h] EXCEPT
                            !.waitees = IF h \in Wakes(g, code) THEN {} ELSE @ \ {g},
                            !.inputGoals = @ \ {g},
                            !.nrFailed = @ + (IF code = "success" THEN 0 ELSE 1),
                            !.nrNoSubstituters = @ + (IF code = "noSubstituters" THEN 1 ELSE 0)]
           rest == [h \in DOMAIN goal \ {g} |-> tell(h)]
           roots == (batch \cup Requested) \ {g}
<1>1. rest = Rest(g, code)
  BY DEF Rest, Told
<1>2. dead = DOMAIN rest \ Held(rest, roots)
  BY <1>1 DEF Dead
<1>3. /\ goal' = Restrict(rest, Held(rest, roots))
      /\ outcome' = [h \in DOMAIN outcome \cup (topGoals \cap {g}) |->
                         IF h = g /\ g \in topGoals THEN code ELSE outcome[h]]
      /\ topGoals' = IF g \in topGoals /\ code = "failed" /\ ~keepGoing THEN {} ELSE topGoals \ {g}
      /\ batch' = batch \ {g} /\ awake' = awake \cup Wakes(g, code)
      /\ wantingToBuild' = wantingToBuild \ dead
      /\ wantingToSubstitute' = wantingToSubstitute \ dead
      /\ Destroyed(dead, ended)
      /\ lock' = [p \in Path |-> IF lock[p] \in dead \cup {g} THEN Free ELSE lock[p]]
  BY <1>2, Zenon DEF AmDone
<1>4. DOMAIN rest = DOMAIN goal \ {g} /\ \A h \in DOMAIN rest : rest[h] = Told(g, code, h)
  BY <1>1 DEF Rest
<1> HIDE DEF rest, roots
<1>5. Cut(rest, roots, DOMAIN rest \ Held(rest, roots)) /\ Held(rest, roots) \subseteq DOMAIN rest
  BY HeldFacts
<1>6. DOMAIN goal' = Held(rest, roots) /\ \A h \in DOMAIN goal' : goal'[h] = rest[h]
  BY <1>3 DEF Restrict
<1>7. DOMAIN goal' = (DOMAIN goal \ {g}) \ dead /\ \A h \in DOMAIN goal' : goal'[h] = Told(g, code, h)
  BY <1>2, <1>4, <1>5, <1>6
<1>8. dead \subseteq DOMAIN goal \ {g} /\ dead \cap roots = {}
  BY <1>2, <1>4, <1>5 DEF Cut
<1>9. \A h \in DOMAIN goal' : Pointers(goal'[h]) \cap dead = {}
  BY <1>2, <1>5, <1>6 DEF Cut
<1>10. dead \cap (batch \cup Requested) = {}
  BY <1>8 DEF roots
<1> QED
  BY <1>3, <1>7, <1>8, <1>9, <1>10 DEF EndShape

(* Which children end with the goals that are destroyed.                   *)
LEMMA DestroyedFacts ==
  ASSUME SlotInv, NEW dead, NEW ended, Destroyed(dead, ended)
  PROVE  /\ Counted' /\ DOMAIN child' \subseteq DOMAIN child \ ended
         /\ \A h \in DOMAIN child' : child'[h] = child[h]
         /\ \A h \in DOMAIN child \ ended : h \notin dead => h \in DOMAIN child'
         /\ \A h \in dead \cap DOMAIN child' :
               /\ goal[h].pc \notin {"build", "remote"}
               /\ h[1] = "path" /\ goal[h].pc = "copy" => h \in joining'
         /\ joining' \subseteq {h \in dead : h[1] = "path"}
         /\ wakeupQueue' = wakeupQueue \ dead
         /\ waitingForAWhile' = waitingForAWhile \ dead
         /\ waitingForCompletion' = waitingForCompletion \ dead
<1> DEFINE copying == {h \in dead : h[1] = "path" /\ goal[h].pc = "copy"}
           unfinished == {h \in copying : goal[h].reply = "none"}
           gone == ended \cup (copying \ unfinished) \cup {h \in dead : goal[h].pc \in {"build", "remote"}}
<1>1. /\ ChildTerminated(gone) /\ joining' = unfinished /\ wakeupQueue' = wakeupQueue \ dead
      /\ waitingForAWhile' = waitingForAWhile \ dead
      /\ waitingForCompletion' = waitingForCompletion \ dead
  BY DEF Destroyed
<1>2. /\ Counted' /\ DOMAIN child' = DOMAIN child \ gone
      /\ \A h \in DOMAIN child' : child'[h] = child[h]
  BY <1>1, TerminatedCounts
<1>3. gone \subseteq ended \cup dead /\ ended \subseteq gone
  OBVIOUS
<1>4. \A h \in dead \cap DOMAIN child' : goal[h].pc \notin {"build", "remote"} /\ (h \in copying => h \in unfinished)
  BY <1>2
<1> QED
  BY <1>1, <1>2, <1>3, <1>4

LEMMA EndsWake ==
  ASSUME Inv, NEW g \in Goal, Resumes(g), NEW code, NEW ended, Ends(g, code, ended)
  PROVE  WakeInv'
<1>0. /\ g \in DOMAIN goal /\ code \in Codes /\ AmDone(g, code, ended) /\ ended \subseteq {g}
      /\ todo' = todo \ {g} /\ phase = "work" /\ SlotInv /\ GoalInv
  BY DEF Resumes, Ends, Inv
<1>1. PICK dead : dead = Dead(g, code)
  OBVIOUS
<1>2. /\ DOMAIN goal' = (DOMAIN goal \ {g}) \ dead
      /\ \A h \in DOMAIN goal' : goal'[h] = Told(g, code, h)
      /\ awake' = awake \cup Wakes(g, code)
      /\ wantingToBuild' = wantingToBuild \ dead /\ wantingToSubstitute' = wantingToSubstitute \ dead
      /\ Destroyed(dead, ended)
  <2>1. EndShape(g, code, ended, dead)
    BY <1>0, <1>1, EndFacts
  <2> QED
    BY <2>1 DEF EndShape
<1>3. /\ DOMAIN child' \subseteq DOMAIN child
      /\ \A h \in DOMAIN child \ {g} : h \notin dead => h \in DOMAIN child'
      /\ waitingForAWhile' = waitingForAWhile \ dead
      /\ waitingForCompletion' = waitingForCompletion \ dead
  BY <1>0, <1>2, DestroyedFacts
<1>4. ASSUME NEW h \in DOMAIN goal' PROVE OneSource(h)'
  <2>1. h \in DOMAIN goal /\ h # g /\ h \notin dead /\ OneSource(h)
    BY <1>0, <1>2 DEF Inv, WakeInv
  <2>2. PICK r : r = Told(g, code, h)
    OBVIOUS
  <2>3. /\ goal'[h] = r /\ r.pc = goal[h].pc
        /\ (r.waitees # {} <=> goal[h].waitees # {} /\ h \notin Wakes(g, code))
    <3>1. ToldShape(g, code, h, r)
      BY <1>0, <2>1, <2>2, TellFacts
    <3> QED
      BY <1>2, <2>2, <3>1 DEF ToldShape
  <2>4. /\ h \in todo' <=> h \in todo
        /\ h \in wantingToBuild' <=> h \in wantingToBuild
        /\ h \in wantingToSubstitute' <=> h \in wantingToSubstitute
        /\ h \in waitingForAWhile' <=> h \in waitingForAWhile
        /\ h \in waitingForCompletion' <=> h \in waitingForCompletion
        /\ h \in DOMAIN child' <=> h \in DOMAIN child
    BY <1>0, <1>2, <1>3, <2>1
  <2>5. CASE h \notin Wakes(g, code)
    <3>1. ASSUME NEW s \in Sources PROVE Sourced(h, s)' <=> Sourced(h, s)
      BY <1>2, <2>3, <2>4, <2>5 DEF Sourced
    <3> QED
      BY <2>1, <3>1, SameSources
  <2>6. CASE h \in Wakes(g, code)
    <3>1. Sourced(h, "waitees") /\ "waitees" \in Sources /\ "awake" \in Sources
      BY <2>6 DEF Wakes, Sourced, Sources
    <3>2. \A t \in Sources : Sourced(h, t) => t = "waitees"
      BY <2>1, <3>1, OnlySource
    <3>3. Sourced(h, "awake")'
      BY <1>2, <2>6 DEF Sourced
    <3>4. ASSUME NEW t \in Sources, Sourced(h, t)' PROVE t = "awake"
      <4>1. t # "awake" => Sourced(h, t) /\ t # "waitees"
        BY <2>3, <2>4, <2>6, <3>4 DEF Sourced
      <4> QED
        BY <3>2, <4>1
    <3> QED
      BY <3>1, <3>3, <3>4, NewSource
  <2> QED
    BY <2>5, <2>6
<1> QED
  BY <1>4 DEF WakeInv

LEMMA EndsReady ==
  ASSUME Inv, NEW g \in Goal, Resumes(g), NEW code, NEW ended, Ends(g, code, ended)
  PROVE  ReadyInv'
<1>0. /\ g \in DOMAIN goal /\ code \in Codes /\ AmDone(g, code, ended) /\ GoalInv
      /\ valid' = valid /\ (code = "success" => Achieved(g)) /\ ReadyInv
  BY DEF Resumes, Ends, Inv
<1>1. PICK dead : dead = Dead(g, code)
  OBVIOUS
<1>2. /\ DOMAIN goal' = (DOMAIN goal \ {g}) \ dead
      /\ \A h \in DOMAIN goal' : goal'[h] = Told(g, code, h)
      /\ outcome' = [h \in DOMAIN outcome \cup (topGoals \cap {g}) |->
                         IF h = g /\ g \in topGoals THEN code ELSE outcome[h]]
  <2>1. EndShape(g, code, ended, dead)
    BY <1>0, <1>1, EndFacts
  <2> QED
    BY <2>1 DEF EndShape
<1>3. ASSUME NEW h \in DOMAIN goal' PROVE ReadyAs(h, goal[h])'
  <2>1. h \in DOMAIN goal /\ ReadyAs(h, goal[h])
    BY <1>0, <1>2 DEF ReadyInv
  <2>2. PICK r : r = Told(g, code, h)
    OBVIOUS
  <2>3. /\ goal'[h] = r /\ r.pc = goal[h].pc /\ r.reply = goal[h].reply
        /\ r.waitees = IF h \in Wakes(g, code) THEN {} ELSE goal[h].waitees \ {g}
        /\ r.nrFailed = goal[h].nrFailed + (IF g \in goal[h].waitees /\ code # "success" THEN 1 ELSE 0)
        /\ goal[h].nrFailed \in Nat
    <3>1. ToldShape(g, code, h, r)
      BY <1>0, <2>1, <2>2, TellFacts
    <3> QED
      BY <1>2, <2>2, <3>1 DEF ToldShape
  <2>4. ASSUME r.nrFailed = 0, NEW k \in Waitable(h, r.pc) PROVE k \in r.waitees \/ Achieved(k)
    <3>1. goal[h].nrFailed = 0 /\ (g \in goal[h].waitees => code = "success")
      BY <2>3, <2>4
    <3>2. k \in goal[h].waitees \/ Achieved(k)
      BY <2>1, <2>3, <2>4, <3>1 DEF ReadyAs
    <3>3. h \in Wakes(g, code) => goal[h].waitees = {g} /\ code = "success"
      BY <3>1 DEF Wakes
    <3>4. CASE k = g /\ g \in goal[h].waitees
      BY <1>0, <3>1, <3>4
    <3>5. CASE k # g
      BY <2>3, <3>2, <3>3, <3>5
    <3> QED
      BY <3>2, <3>4, <3>5
  <2>5. ReadyAs(h, r)
    BY <2>1, <2>3, <2>4 DEF ReadyAs
  <2>6. ReadyAs(h, r)'
    BY <1>0, <2>5, ReadyGrows
  <2> QED
    BY <2>3, <2>6
<1>4. ASSUME NEW h \in DOMAIN outcome', outcome'[h] = "success" PROVE Achieved(h)'
  <2>1. Achieved(h)
    BY <1>0, <1>2, <1>4 DEF ReadyInv
  <2> QED
    BY <1>0, <2>1, AchievedGrows
<1> QED
  BY <1>3, <1>4 DEF ReadyInv

LEMMA EndsInv ==
  ASSUME Inv, NEW g \in Goal, Resumes(g), NEW code, NEW ended, Ends(g, code, ended)
  PROVE  Inv'
<1>0. /\ g \in DOMAIN goal /\ code \in Codes /\ AmDone(g, code, ended) /\ GoalInv /\ SlotInv
      /\ UNCHANGED settings /\ todo' = todo \ {g} /\ topGoals # {} /\ joining = {}
      /\ ended \in {{}, {g}} /\ (ended = {} => ~ChildAlive(g)) /\ phase = "work"
      /\ UNCHANGED <<valid, phase, delays>> /\ g \in todo
  BY DEF Resumes, Ends, Inv
<1>1. PICK dead : dead = Dead(g, code)
  OBVIOUS
<1>2. /\ DOMAIN goal' = (DOMAIN goal \ {g}) \ dead
      /\ \A h \in DOMAIN goal' : goal'[h] = Told(g, code, h)
      /\ dead \subseteq DOMAIN goal \ {g} /\ dead \cap (batch \cup Requested) = {}
      /\ \A h \in DOMAIN goal' : Pointers(goal'[h]) \cap dead = {}
      /\ outcome' = [h \in DOMAIN outcome \cup (topGoals \cap {g}) |->
                         IF h = g /\ g \in topGoals THEN code ELSE outcome[h]]
      /\ topGoals' = IF g \in topGoals /\ code = "failed" /\ ~keepGoing THEN {} ELSE topGoals \ {g}
      /\ batch' = batch \ {g} /\ awake' = awake \cup Wakes(g, code)
      /\ wantingToBuild' = wantingToBuild \ dead
      /\ wantingToSubstitute' = wantingToSubstitute \ dead
      /\ Destroyed(dead, ended)
      /\ lock' = [p \in Path |-> IF lock[p] \in dead \cup {g} THEN Free ELSE lock[p]]
  <2>1. EndShape(g, code, ended, dead)
    BY <1>0, <1>1, EndFacts
  <2> QED
    BY <2>1 DEF EndShape
<1>3. /\ Counted' /\ DOMAIN child' \subseteq DOMAIN child \ ended
      /\ \A h \in DOMAIN child' : child'[h] = child[h]
      /\ \A h \in DOMAIN child \ ended : h \notin dead => h \in DOMAIN child'
      /\ \A h \in dead \cap DOMAIN child' :
            /\ goal[h].pc \notin {"build", "remote"}
            /\ h[1] = "path" /\ goal[h].pc = "copy" => h \in joining'
      /\ joining' \subseteq {h \in dead : h[1] = "path"}
      /\ wakeupQueue' = wakeupQueue \ dead
      /\ waitingForAWhile' = waitingForAWhile \ dead
      /\ waitingForCompletion' = waitingForCompletion \ dead
  BY <1>0, <1>2, DestroyedFacts
<1>4. \A h \in DOMAIN goal' : /\ goal'[h] \in GoalState(h) /\ goal'[h].pc = goal[h].pc
                              /\ goal'[h].reply = goal[h].reply /\ h \in DOMAIN goal
                              /\ Pointers(goal'[h]) \subseteq Pointers(goal[h]) \ {g}
  <2> SUFFICES ASSUME NEW h \in DOMAIN goal'
               PROVE  /\ goal'[h] \in GoalState(h) /\ goal'[h].pc = goal[h].pc
                      /\ goal'[h].reply = goal[h].reply /\ h \in DOMAIN goal
                      /\ Pointers(goal'[h]) \subseteq Pointers(goal[h]) \ {g}
    OBVIOUS
  <2>1. PICK r : r = Told(g, code, h)
    OBVIOUS
  <2>2. h \in DOMAIN goal
    BY <1>2
  <2>3. ToldShape(g, code, h, r)
    BY <1>0, <2>1, <2>2, TellFacts
  <2> QED
    BY <1>2, <2>1, <2>2, <2>3 DEF ToldShape
<1>5. GoalInv'
  <2>1. \A h \in DOMAIN goal' : goal'[h] \in GoalState(h)'
    BY <1>0, <1>4, GoalStateSame
  <2>2. ASSUME NEW h \in DOMAIN goal' PROVE Pointers(goal'[h]) \subseteq DOMAIN goal'
    BY <1>0, <1>2, <1>4 DEF GoalInv
  <2>3. topGoals = Requested /\ Requested \subseteq DOMAIN goal
    BY <1>0 DEF GoalInv
  <2>4. Requested' = Requested \ {g}
    BY <1>2, <2>3 DEF Requested
  <2>5. Requested' \subseteq DOMAIN goal'
    BY <1>2, <2>3, <2>4
  <2>6. topGoals' = Requested' \/ (topGoals' = {} /\ ~keepGoing')
    BY <1>0, <1>2, <2>3, <2>4 DEF settings
  <2>7. DOMAIN outcome' \subseteq Top /\ \A h \in DOMAIN outcome' : outcome'[h] \in Codes
    BY <1>0, <1>2, <2>3 DEF GoalInv, Requested
  <2>8. keepGoing' \in BOOLEAN /\ fallback' \in BOOLEAN
    BY <1>0 DEF GoalInv, settings
  <2>9. DOMAIN goal' \subseteq Goal
    BY <1>0, <1>2 DEF GoalInv
  <2>10. (\A h \in DOMAIN goal : goal[h] \in GoalState(h) /\ Pointers(goal[h]) \subseteq DOMAIN goal)'
    BY <2>1, <2>2 DEF Pointers
  <2> QED
    BY <2>5, <2>6, <2>7, <2>8, <2>9, <2>10 DEF GoalInv
<1>6. QueueInv'
  <2>1. /\ awake \subseteq Goal /\ todo \subseteq batch /\ batch \subseteq DOMAIN goal
        /\ wantingToBuild \subseteq DOMAIN goal /\ wantingToSubstitute \subseteq DOMAIN goal
        /\ IsFiniteSet(wantingToBuild) /\ IsFiniteSet(wantingToSubstitute)
        /\ waitingForAWhile \subseteq DOMAIN goal /\ waitingForCompletion \subseteq DOMAIN goal
        /\ wakeupQueue \subseteq waitingForCompletion
        /\ \A h \in wakeupQueue : goal[h].reply # "none"
    BY DEF Inv, QueueInv
  <2>2. /\ g \notin wantingToBuild /\ g \notin wantingToSubstitute
        /\ g \notin waitingForAWhile /\ g \notin waitingForCompletion
    BY TodoOnly
  <2>3. /\ awake' \subseteq Goal /\ todo' \subseteq batch' /\ batch' \subseteq DOMAIN goal'
    BY <1>0, <1>2, <2>1 DEF GoalInv, Wakes
  <2>4. /\ wantingToBuild' \subseteq DOMAIN goal' /\ wantingToSubstitute' \subseteq DOMAIN goal'
        /\ waitingForAWhile' \subseteq DOMAIN goal' /\ waitingForCompletion' \subseteq DOMAIN goal'
        /\ wakeupQueue' \subseteq waitingForCompletion'
    BY <1>2, <1>3, <2>1, <2>2
  <2>5. IsFiniteSet(wantingToBuild') /\ IsFiniteSet(wantingToSubstitute')
    BY <1>2, <2>1, FS_Difference
  <2>6. \A h \in wakeupQueue' : goal'[h].reply # "none"
    BY <1>3, <1>4, <2>1, <2>4
  <2>7. \A h \in DOMAIN goal' :
          h[1] = "path" /\ goal'[h].pc \in {"query", "copy"} /\ goal'[h].reply = "none"
          => h \in waitingForCompletion'
    BY <1>2, <1>3, <1>4 DEF Inv, QueueInv
  <2>8. \A h \in wantingToBuild' \cup wantingToSubstitute' \cup waitingForAWhile' \cup waitingForCompletion' :
          h[1] \in {"path", "bld"}
    BY <1>2, <1>3 DEF Inv, QueueInv
  <2> QED
    BY <1>0, <2>3, <2>4, <2>5, <2>6, <2>7, <2>8 DEF QueueInv
<1>7. SlotInv'
  <2>1. ASSUME NEW h \in DOMAIN child', child'[h] PROVE h \in joining' \/ RunsInSlot(h)'
    <3>1. RunsInSlot(h) /\ h \notin ended
      BY <1>0, <1>3, <2>1 DEF SlotInv
    <3>2. h # g
      BY <1>0, <3>1 DEF RunsInSlot, ChildAlive
    <3>3. h \in dead => h \in joining'
      BY <1>3, <3>1 DEF RunsInSlot
    <3>4. h \notin dead => RunsInSlot(h)'
      BY <1>2, <1>4, <3>1, <3>2 DEF RunsInSlot
    <3> QED
      BY <3>3, <3>4
  <2>2. \A h \in DOMAIN child' : child'[h] \in BOOLEAN /\ (h[1] = "path" => child'[h])
    BY <1>0, <1>3 DEF SlotInv
  <2>3. joining' \subseteq {"path"} \X Path
    <3>1. ASSUME NEW h \in joining' PROVE h \in {"path"} \X Path
      <4>1. h \in Goal /\ h[1] = "path"
        BY <1>0, <1>2, <1>3 DEF GoalInv
      <4> QED
        BY <4>1, GoalFacts
    <3> QED
      BY <3>1
  <2>4. \A h \in DOMAIN goal' :
          h[1] = "bld" /\ goal'[h].pc \in {"build", "remote", "post"} => h \in DOMAIN child'
    BY <1>0, <1>2, <1>3, <1>4 DEF SlotInv
  <2> QED
    BY <1>3, <2>1, <2>2, <2>3, <2>4 DEF SlotInv, Counted
<1>8. StoreInv'
  <2>1. lock' \in [Path -> Goal \cup {Free, Other}]
    BY <1>2 DEF Inv, StoreInv
  <2> QED
    BY <1>0, <2>1 DEF Inv, StoreInv
<1> QED
  BY <1>5, <1>6, <1>7, <1>8, EndsWake, EndsReady DEF Inv

-----------------------------------------------------------------------------
(* What runs beside the event loop keeps the invariant.                    *)

Replies1(g, reply) ==
  /\ g \in DOMAIN goal /\ goal[g].reply = "none" /\ reply \in Replies \ {"none"} /\ Reply(g, reply)
  /\ \/ g[1] = "path" /\ goal[g].pc \in {"query", "copy"} /\ wakeupQueue' = wakeupQueue \cup {g}
     \/ g[1] = "bld" /\ goal[g].pc \in ChildPcs /\ UNCHANGED wakeupQueue
  /\ g[1] = "path" /\ goal[g].pc = "copy" /\ reply = "ok" => g[2] \in valid'
  /\ valid \subseteq valid' /\ valid' \subseteq Path

LEMMA ReplyShape ==
  ASSUME Inv, NEW g \in Goal, SubstituterAnswers(g) \/ CopyEnds(g) \/ ChildEnds(g)
  PROVE  \E reply : Replies1(g, reply)
<1>1. g[2] \in Path /\ valid \subseteq Path
  BY GoalFacts DEF Inv, StoreInv
<1>2. CASE SubstituterAnswers(g)
  <2>1. PICK a \in Answers[g[2]] : Reply(g, a)
    BY <1>2 DEF SubstituterAnswers
  <2>2. a \in {"info", "invalid", "error"}
    BY <1>1, SchedulerConstants
  <2>3. Replies1(g, a)
    BY <1>1, <1>2, <2>1, <2>2 DEF SubstituterAnswers, Pending, Replies1, Replies
  <2> QED
    BY <2>3
<1>3. CASE CopyEnds(g)
  <2>1. PICK a \in {"ok", "gone", "failed"} : Reply(g, a) /\ (a = "ok" => g[2] \in valid')
    BY <1>3 DEF CopyEnds
  <2>2. valid \subseteq valid' /\ valid' \subseteq Path
    BY <1>1, <1>3 DEF CopyEnds
  <2>3. Replies1(g, a)
    BY <1>3, <2>1, <2>2 DEF CopyEnds, Pending, Replies1, Replies
  <2> QED
    BY <2>3
<1>4. CASE ChildEnds(g)
  <2>1. PICK a \in {"ok", "failed"} : Reply(g, a)
    BY <1>4 DEF ChildEnds
  <2>2. valid \subseteq valid' /\ valid' \subseteq Path
    BY <1>1, <1>4 DEF ChildEnds
  <2>3. Replies1(g, a)
    BY <1>4, <2>1, <2>2 DEF ChildEnds, Pending, Replies1, Replies, ChildPcs
  <2> QED
    BY <2>3
<1> QED
  BY <1>2, <1>3, <1>4

LEMMA ReplyInv ==
  ASSUME Inv, NEW g, NEW reply, Replies1(g, reply)
  PROVE  Inv'
<1>1. /\ g \in DOMAIN goal /\ goal' = [goal EXCEPT ![g].reply = reply]
      /\ UNCHANGED <<keepGoing, fallback, outcome, topGoals, awake, batch, todo, joining, lock, phase, delays>>
      /\ UNCHANGED <<wantingToBuild, wantingToSubstitute, waitingForAWhile, waitingForCompletion>>
      /\ UNCHANGED <<child, nrLocalBuilds, nrSubstitutions>>
      /\ valid \subseteq valid' /\ valid' \subseteq Path /\ reply \in Replies \ {"none"}
  BY DEF Replies1, Reply, settings, waiting, slots
<1>2. goal[g] \in GoalState(g)
  BY <1>1 DEF Inv, GoalInv
<1>3. PICK r : r = [goal[g] EXCEPT !.reply = reply]
  OBVIOUS
<1>4. /\ r.reply = reply /\ r.pc = goal[g].pc /\ r.waitees = goal[g].waitees
      /\ r.inputGoals = goal[g].inputGoals /\ r.nrFailed = goal[g].nrFailed
  BY <1>2, <1>3 DEF GoalState
<1>5. r \in GoalState(g)
  BY <1>1, <1>2, <1>3, <1>4 DEF GoalState, Replies1, ChildPcs
<1>6. /\ DOMAIN goal' = DOMAIN goal /\ goal'[g] = r
      /\ \A h \in DOMAIN goal \ {g} : goal'[h] = goal[h]
  BY <1>1, <1>3
<1>7. \A h \in DOMAIN goal : /\ goal'[h].pc = goal[h].pc /\ goal'[h].waitees = goal[h].waitees
                             /\ Pointers(goal'[h]) = Pointers(goal[h])
  BY <1>4, <1>6 DEF Pointers
<1>8. GoalInv'
  <2>1. \A h \in DOMAIN goal : goal'[h] \in GoalState(h)'
    BY <1>1, <1>5, <1>6, GoalStateSame DEF Inv, GoalInv, settings
  <2>2. (\A h \in DOMAIN goal : goal[h] \in GoalState(h) /\ Pointers(goal[h]) \subseteq DOMAIN goal)'
    BY <1>6, <1>7, <2>1 DEF Inv, GoalInv, Pointers
  <2> QED
    BY <1>1, <1>6, <2>2 DEF Inv, GoalInv, Requested
<1>9. QueueInv'
  <2>1. g[1] = "path" => g \in waitingForCompletion
    BY <1>1 DEF Replies1, Inv, QueueInv, ChildPcs
  <2>2. wakeupQueue' \subseteq waitingForCompletion' /\ \A h \in wakeupQueue' : goal'[h].reply # "none"
    BY <1>1, <1>4, <1>6, <2>1 DEF Replies1, Inv, QueueInv
  <2>3. \A h \in DOMAIN goal' :
          h[1] = "path" /\ goal'[h].pc \in {"query", "copy"} /\ goal'[h].reply = "none"
          => h \in waitingForCompletion'
    BY <1>1, <1>4, <1>6 DEF Inv, QueueInv
  <2> QED
    BY <1>1, <1>6, <2>2, <2>3 DEF Inv, QueueInv
<1>10. SlotInv'
  <2>1. \A h : RunsInSlot(h)' <=> RunsInSlot(h)
    BY <1>6, <1>7 DEF RunsInSlot
  <2>2. \A h \in DOMAIN goal' :
          h[1] = "bld" /\ goal'[h].pc \in {"build", "remote", "post"} => h \in DOMAIN child'
    BY <1>1, <1>6, <1>7 DEF Inv, SlotInv
  <2>3. SlotsTaken("bld")' = SlotsTaken("bld") /\ SlotsTaken("path")' = SlotsTaken("path")
    BY <1>1 DEF SlotsTaken
  <2> QED
    BY <1>1, <2>1, <2>2, <2>3 DEF Inv, SlotInv
<1>11. StoreInv'
  BY <1>1 DEF Inv, StoreInv
<1>12. WakeInv'
  <2>1. ASSUME NEW h \in DOMAIN goal, phase \in {"work", "asleep"} PROVE OneSource(h)'
    <3>1. OneSource(h)
      BY <2>1 DEF Inv, WakeInv
    <3>2. ASSUME NEW s \in Sources PROVE Sourced(h, s)' <=> Sourced(h, s)
      BY <1>1, <1>7 DEF Sourced
    <3> QED
      BY <3>1, <3>2, SameSources
  <2> QED
    BY <1>1, <1>6, <2>1 DEF WakeInv
<1>13. ReadyInv'
  <2>1. ASSUME NEW h \in DOMAIN goal' PROVE ReadyAs(h, goal[h])'
    <3>1. ReadyAs(h, goal[h])
      BY <1>6 DEF Inv, ReadyInv
    <3>2. PICK q : q = goal'[h]
      OBVIOUS
    <3>3. CASE h = g
      <4>1. ReadyAs(h, q)'
        BY <1>1, <1>4, <1>6, <3>1, <3>2, <3>3 DEF Replies1, ReadyAs, Achieved
      <4> QED
        BY <3>2, <4>1
    <3>4. CASE h # g
      <4>1. q = goal[h]
        BY <1>6, <2>1, <3>2, <3>4
      <4>2. ReadyAs(h, q)'
        BY <1>1, <3>1, <4>1, ReadyGrows
      <4> QED
        BY <3>2, <4>2
    <3> QED
      BY <3>3, <3>4
  <2>2. \A h \in DOMAIN outcome' : outcome'[h] = "success" => Achieved(h)'
    BY <1>1, AchievedGrows DEF Inv, ReadyInv
  <2> QED
    BY <2>1, <2>2 DEF ReadyInv
<1> QED
  BY <1>8, <1>9, <1>10, <1>11, <1>12, <1>13 DEF Inv

(* Other processes, and stuttering.                                        *)
LEMMA OutsideInv ==
  ASSUME Inv, StoreInv', valid \subseteq valid',
         UNCHANGED <<keepGoing, fallback, goal, outcome, topGoals, awake, batch, todo, wantingToBuild,
                     wantingToSubstitute, waitingForAWhile, waitingForCompletion, wakeupQueue,
                     child, nrLocalBuilds, nrSubstitutions, joining, phase>>
  PROVE  Inv'
<1>1. GoalInv'
  BY DEF Inv, GoalInv, GoalState, Requested
<1>2. QueueInv'
  BY DEF Inv, QueueInv
<1>3. SlotInv'
  BY DEF Inv, SlotInv, SlotsTaken, RunsInSlot
<1>4. WakeInv'
  BY DEF Inv, WakeInv, OneSource, Sourced
<1>5. ReadyInv'
  BY DEF Inv, ReadyInv, ReadyAs, Achieved
<1> QED
  BY <1>1, <1>2, <1>3, <1>4, <1>5 DEF Inv

LEMMA JoinedInv ==
  ASSUME Inv, NEW g \in Goal, Joined(g)
  PROVE  Inv'
<1>1. /\ UNCHANGED <<keepGoing, fallback, goal, outcome, topGoals, awake, batch, todo, lock, phase, delays>>
      /\ UNCHANGED <<wantingToBuild, wantingToSubstitute, waitingForAWhile, waitingForCompletion, wakeupQueue>>
      /\ ChildTerminated({g}) /\ joining' = joining \ {g} /\ g \in joining
      /\ valid' = valid \cup {g[2]} \/ valid' = valid
  BY DEF Joined, settings, waiting
<1>2. g[1] = "path" /\ g[2] \in Path /\ SlotInv
  BY <1>1 DEF Inv, SlotInv
<1>3. /\ Counted' /\ DOMAIN child' = DOMAIN child \ {g} /\ \A h \in DOMAIN child' : child'[h] = child[h]
  BY <1>1, <1>2, TerminatedCounts
<1>4. GoalInv'
  BY <1>1 DEF Inv, GoalInv, GoalState, Requested
<1>5. QueueInv'
  BY <1>1 DEF Inv, QueueInv
<1>6. SlotInv'
  <2>1. \A h \in DOMAIN child' : /\ child'[h] \in BOOLEAN
                                 /\ child'[h] => h \in joining' \/ RunsInSlot(h)'
                                 /\ h[1] = "path" => child'[h]
    BY <1>1, <1>2, <1>3 DEF SlotInv, RunsInSlot
  <2>2. \A h \in DOMAIN goal' :
          h[1] = "bld" /\ goal'[h].pc \in {"build", "remote", "post"} => h \in DOMAIN child'
    BY <1>1, <1>2, <1>3 DEF SlotInv
  <2>3. joining' \subseteq {"path"} \X Path
    BY <1>1, <1>2 DEF SlotInv
  <2> QED
    BY <1>3, <2>1, <2>2, <2>3 DEF SlotInv, Counted
<1>7. StoreInv'
  BY <1>1, <1>2 DEF Inv, StoreInv
<1>8. WakeInv'
  <2>1. ASSUME NEW h \in DOMAIN goal, phase \in {"work", "asleep"} PROVE OneSource(h)'
    <3>1. OneSource(h)
      BY <2>1 DEF Inv, WakeInv
    <3>2. h = g => goal[h].pc \notin {"build", "remote", "post"}
      BY <1>2, PcsFacts DEF Inv, GoalInv, GoalState
    <3>3. ASSUME NEW s \in Sources PROVE Sourced(h, s)' <=> Sourced(h, s)
      BY <1>1, <1>3, <3>2 DEF Sourced
    <3> QED
      BY <3>1, <3>3, SameSources
  <2> QED
    BY <1>1, <2>1 DEF WakeInv
<1>9. ReadyInv'
  BY <1>1 DEF Inv, ReadyInv, ReadyAs, Achieved
<1> QED
  BY <1>4, <1>5, <1>6, <1>7, <1>8, <1>9 DEF Inv

-----------------------------------------------------------------------------
(* The event loop keeps the invariant.                                     *)

(* What waitForInput() does, with the goals it wakes.                      *)
Polls(late, tick, woken) ==
  /\ late \subseteq SlotsTaken("bld")
  /\ woken = {g \in DOMAIN child \cap DOMAIN goal : g[1] = "bld" /\ goal[g].reply # "none"}
               \cup late \cup wakeupQueue \cup (IF tick THEN waitingForAWhile ELSE {})
  /\ goal' = [g \in DOMAIN goal |-> IF g \in late THEN [goal[g] EXCEPT !.reply = "late"] ELSE goal[g]]
  /\ waitingForAWhile' = IF tick THEN {} ELSE waitingForAWhile
  /\ waitingForCompletion' = waitingForCompletion \ wakeupQueue /\ wakeupQueue' = {}
  /\ batch' = woken \cap DOMAIN goal /\ todo' = woken \cap DOMAIN goal /\ awake' = {}
  /\ phase = "asleep" /\ phase' = "work"
  /\ UNCHANGED <<keepGoing, fallback, outcome, topGoals, wantingToBuild, wantingToSubstitute, child,
                 nrLocalBuilds, nrSubstitutions, joining, lock, valid, delays>>

LEMMA PollsFacts ==
  ASSUME Inv, NEW late, NEW tick, NEW woken, Polls(late, tick, woken)
  PROVE  /\ DOMAIN goal' = DOMAIN goal
         /\ \A h \in late : h \in DOMAIN goal /\ h[1] = "bld" /\ goal[h].pc = "build"
         /\ \A h \in DOMAIN goal :
               /\ goal'[h] \in GoalState(h) /\ goal'[h].pc = goal[h].pc
               /\ goal'[h].waitees = goal[h].waitees /\ Pointers(goal'[h]) = Pointers(goal[h])
               /\ goal'[h].nrFailed = goal[h].nrFailed
               /\ h[1] = "path" => goal'[h] = goal[h]
<1>1. joining = {} /\ SlotInv /\ GoalInv
  BY DEF Inv, QueueInv, Polls
<1>2. \A h \in late : h \in DOMAIN goal /\ h[1] = "bld" /\ goal[h].pc = "build"
  BY <1>1 DEF Polls, SlotsTaken, SlotInv, RunsInSlot
<1>3. DOMAIN goal' = DOMAIN goal
  BY DEF Polls
<1>4. ASSUME NEW h \in DOMAIN goal
      PROVE  /\ goal'[h] \in GoalState(h) /\ goal'[h].pc = goal[h].pc
             /\ goal'[h].waitees = goal[h].waitees /\ Pointers(goal'[h]) = Pointers(goal[h])
             /\ goal'[h].nrFailed = goal[h].nrFailed
             /\ h[1] = "path" => goal'[h] = goal[h]
  <2>1. goal[h] \in GoalState(h)
    BY <1>1 DEF GoalInv
  <2>2. CASE h \notin late
    <3>1. goal'[h] = goal[h]
      BY <2>2 DEF Polls
    <3> QED
      BY <2>1, <3>1
  <2>3. CASE h \in late
    <3>1. goal'[h] = [goal[h] EXCEPT !.reply = "late"]
      BY <2>3 DEF Polls
    <3>2. /\ goal'[h].pc = goal[h].pc /\ goal'[h].waitees = goal[h].waitees
          /\ goal'[h].inputGoals = goal[h].inputGoals /\ goal'[h].nrFailed = goal[h].nrFailed
      BY <2>1, <3>1 DEF GoalState
    <3>3. goal'[h] \in GoalState(h)
      BY <1>2, <2>1, <2>3, <3>1, <3>2 DEF GoalState, Replies
    <3> QED
      BY <1>2, <2>3, <3>2, <3>3 DEF Pointers
  <2> QED
    BY <2>2, <2>3
<1> QED
  BY <1>2, <1>3, <1>4

LEMMA PollsWake ==
  ASSUME Inv, NEW late, NEW tick, NEW woken, Polls(late, tick, woken)
  PROVE  WakeInv'
<1>1. /\ DOMAIN goal' = DOMAIN goal
      /\ \A h \in late : h \in DOMAIN goal /\ h[1] = "bld" /\ goal[h].pc = "build"
      /\ \A h \in DOMAIN goal : goal'[h].pc = goal[h].pc /\ goal'[h].waitees = goal[h].waitees
  BY PollsFacts
<1>2. todo = {} /\ awake = {} /\ SlotInv /\ GoalInv /\ wakeupQueue \subseteq waitingForCompletion
  BY DEF Inv, QueueInv, Polls
<1>3. ASSUME NEW h \in DOMAIN goal PROVE OneSource(h)'
  <2>1. OneSource(h)
    BY DEF Inv, WakeInv, Polls
  <2>2. CASE h \notin woken
    <3>1. h \notin wakeupQueue /\ (tick => h \notin waitingForAWhile) /\ h \notin todo'
      BY <2>2 DEF Polls
    <3>2. ASSUME NEW s \in Sources PROVE Sourced(h, s)' <=> Sourced(h, s)
      BY <1>1, <1>2, <3>1 DEF Sourced, Polls
    <3> QED
      BY <2>1, <3>2, SameSources
  <2>3. CASE h \in woken
    <3>1. Sourced(h, "todo")' /\ "todo" \in Sources
      BY <1>1, <2>3 DEF Sourced, Sources, Polls
    <3>2. PICK s \in {"child", "completion", "aWhile"} :
              /\ Sourced(h, s)
              /\ s = "completion" => h \in wakeupQueue
              /\ s = "aWhile" => tick /\ h \in waitingForAWhile
      <4>1. CASE h \in late
        <5>1. Sourced(h, "child")
          BY <1>1, <1>2, <4>1 DEF Sourced, Polls, SlotsTaken
        <5> QED
          BY <5>1
      <4>2. CASE h \in DOMAIN child /\ h[1] = "bld" /\ goal[h].reply # "none"
        <5>1. goal[h].pc \in {"build", "remote", "post"}
          BY <1>2, <4>2 DEF GoalInv, GoalState
        <5>2. Sourced(h, "child")
          BY <1>2, <4>2, <5>1 DEF Sourced
        <5> QED
          BY <5>2
      <4>3. CASE h \in wakeupQueue
        <5>1. Sourced(h, "completion")
          BY <1>2, <4>3 DEF Sourced
        <5> QED
          BY <4>3, <5>1
      <4>4. CASE tick /\ h \in waitingForAWhile
        <5>1. Sourced(h, "aWhile")
          BY <4>4 DEF Sourced
        <5> QED
          BY <4>4, <5>1
      <4> QED
        BY <2>3, <4>1, <4>2, <4>3, <4>4 DEF Polls
    <3>3. \A t \in Sources : Sourced(h, t) => t = s
      BY <2>1, <3>2, OnlySource DEF Sources
    <3>4. ASSUME NEW t \in Sources, Sourced(h, t)' PROVE t = "todo"
      <4>1. h \in todo'
        BY <3>1 DEF Sourced
      <4>2. t # "todo" => Sourced(h, t)
        BY <1>1, <1>2, <3>4 DEF Sourced, Polls
      <4>3. t # "todo" => t = s
        BY <3>3, <4>2
      <4>4. t # s
        BY <3>2, <3>4, <4>1 DEF Sourced, Polls
      <4> QED
        BY <4>3, <4>4
    <3> QED
      BY <3>1, <3>4, NewSource
  <2> QED
    BY <2>2, <2>3
<1> QED
  BY <1>1, <1>3 DEF WakeInv

LEMMA PollsInv ==
  ASSUME Inv, NEW late, NEW tick, NEW woken, Polls(late, tick, woken)
  PROVE  Inv'
<1>1. /\ DOMAIN goal' = DOMAIN goal
      /\ \A h \in late : h \in DOMAIN goal /\ h[1] = "bld" /\ goal[h].pc = "build"
      /\ \A h \in DOMAIN goal :
            /\ goal'[h] \in GoalState(h) /\ goal'[h].pc = goal[h].pc
            /\ goal'[h].waitees = goal[h].waitees /\ Pointers(goal'[h]) = Pointers(goal[h])
            /\ goal'[h].nrFailed = goal[h].nrFailed
            /\ h[1] = "path" => goal'[h] = goal[h]
  BY PollsFacts
<1>2. GoalInv'
  <2>1. \A h \in DOMAIN goal : goal'[h] \in GoalState(h)'
    <3>1. UNCHANGED settings
      BY DEF Polls, settings
    <3>2. \A h : GoalState(h)' = GoalState(h)
      BY <3>1, GoalStateSame
    <3> QED
      BY <1>1, <3>2
  <2>2. (\A h \in DOMAIN goal : goal[h] \in GoalState(h) /\ Pointers(goal[h]) \subseteq DOMAIN goal)'
    BY <1>1, <2>1 DEF Inv, GoalInv, Pointers
  <2> QED
    BY <1>1, <2>2 DEF Inv, GoalInv, Requested, Polls
<1>3. QueueInv'
  <2>1. wakeupQueue \subseteq waitingForCompletion /\ waitingForCompletion \subseteq DOMAIN goal
    BY DEF Inv, QueueInv
  <2>2. \A h \in DOMAIN goal' :
          h[1] = "path" /\ goal'[h].pc \in {"query", "copy"} /\ goal'[h].reply = "none"
          => h \in waitingForCompletion'
    BY <1>1 DEF Inv, QueueInv, Polls
  <2>3. /\ waitingForAWhile' \subseteq DOMAIN goal' /\ waitingForCompletion' \subseteq DOMAIN goal'
        /\ wakeupQueue' \subseteq waitingForCompletion'
    BY <1>1, <2>1 DEF Inv, QueueInv, Polls
  <2>4. /\ phase' = "work" /\ awake' \subseteq Goal /\ todo' \subseteq batch' /\ batch' \subseteq DOMAIN goal'
        /\ wantingToBuild' \subseteq DOMAIN goal' /\ wantingToSubstitute' \subseteq DOMAIN goal'
        /\ IsFiniteSet(wantingToBuild') /\ IsFiniteSet(wantingToSubstitute')
        /\ \A h \in wakeupQueue' : goal'[h].reply # "none"
    BY <1>1 DEF Inv, QueueInv, Polls
  <2>5. \A h \in wantingToBuild' \cup wantingToSubstitute' \cup waitingForAWhile' \cup waitingForCompletion' :
          h[1] \in {"path", "bld"}
    BY DEF Inv, QueueInv, Polls
  <2> QED
    BY <2>2, <2>3, <2>4, <2>5 DEF QueueInv
<1>4. SlotInv'
  <2>1. \A h : RunsInSlot(h)' <=> RunsInSlot(h)
    BY <1>1 DEF RunsInSlot
  <2>2. \A h \in DOMAIN goal' :
          h[1] = "bld" /\ goal'[h].pc \in {"build", "remote", "post"} => h \in DOMAIN child'
    BY <1>1 DEF Inv, SlotInv, Polls
  <2>3. SlotsTaken("bld")' = SlotsTaken("bld") /\ SlotsTaken("path")' = SlotsTaken("path")
    BY DEF SlotsTaken, Polls
  <2> QED
    BY <2>1, <2>2, <2>3 DEF Inv, SlotInv, Polls
<1>5. StoreInv'
  BY DEF Inv, StoreInv, Polls
<1>6. ReadyInv'
  <2>1. ASSUME NEW h \in DOMAIN goal' PROVE ReadyAs(h, goal[h])'
    <3>1. ReadyAs(h, goal[h]) /\ h \in DOMAIN goal
      BY <1>1 DEF Inv, ReadyInv
    <3>2. PICK q : q = goal'[h]
      OBVIOUS
    <3>3. ReadyAs(h, q)
      BY <1>1, <3>1, <3>2 DEF ReadyAs
    <3>4. ReadyAs(h, q)'
      BY <3>3, ReadyGrows DEF Polls
    <3> QED
      BY <3>2, <3>4
  <2>2. \A h \in DOMAIN outcome' : outcome'[h] = "success" => Achieved(h)'
    BY AchievedGrows DEF Inv, ReadyInv, Polls
  <2> QED
    BY <2>1, <2>2 DEF ReadyInv
<1> QED
  BY <1>2, <1>3, <1>4, <1>5, <1>6, PollsWake DEF Inv

LEMMA WaitForInputShape ==
  ASSUME WaitForInput
  PROVE  \E late, tick, woken : Polls(late, tick, woken)
<1>1. PICK late \in SUBSET {g \in DOMAIN child : child[g] /\ g[1] = "bld"}, tick \in BOOLEAN :
        LET ended == {g \in DOMAIN child \cap DOMAIN goal : g[1] = "bld" /\ goal[g].reply # "none"}
            woken == ended \cup late \cup wakeupQueue \cup (IF tick THEN waitingForAWhile ELSE {})
        IN /\ goal' = [g \in DOMAIN goal |-> IF g \in late THEN [goal[g] EXCEPT !.reply = "late"]
                                                           ELSE goal[g]]
           /\ waitingForAWhile' = IF tick THEN {} ELSE waitingForAWhile
           /\ waitingForCompletion' = waitingForCompletion \ wakeupQueue
           /\ wakeupQueue' = {}
           /\ StartPass(DOMAIN goal, woken)
  BY Zenon DEF WaitForInput
<1>2. PICK woken : woken = {g \in DOMAIN child \cap DOMAIN goal : g[1] = "bld" /\ goal[g].reply # "none"}
                           \cup late \cup wakeupQueue \cup (IF tick THEN waitingForAWhile ELSE {})
  OBVIOUS
<1>3. StartPass(DOMAIN goal, woken)
  BY <1>1, <1>2, Zenon
<1>4. Polls(late, tick, woken)
  BY <1>1, <1>2, <1>3 DEF Polls, WaitForInput, StartPass, settings, slots, SlotsTaken
<1> QED
  BY <1>4

(* What the end of a pass does, with the slot waiters it wakes and the     *)
(* goals it destroys.                                                      *)
Passes(s, b, dead, woken) ==
  /\ phase = "work" /\ joining = {} /\ (todo = {} \/ topGoals = {})
  /\ s \in SlotWaiters(wantingToSubstitute, nrSubstitutions, SubstitutionLimit)
  /\ b \in SlotWaiters(wantingToBuild, nrLocalBuilds, MaxBuildJobs)
  /\ dead = DOMAIN goal \ Held(goal, Requested) /\ woken = awake \cup s \cup b
  /\ DOMAIN goal' = DOMAIN goal \ dead /\ \A h \in DOMAIN goal' : goal'[h] = goal[h]
  /\ wantingToSubstitute' = wantingToSubstitute \ (s \cup dead)
  /\ wantingToBuild' = wantingToBuild \ (b \cup dead)
  /\ Destroyed(dead, {})
  /\ lock' = [p \in Path |-> IF lock[p] \in dead THEN Free ELSE lock[p]]
  /\ \/ /\ topGoals = {}
        /\ phase' = "end" /\ batch' = {} /\ todo' = {} /\ awake' = woken
     \/ /\ topGoals # {} /\ woken = {}
        /\ phase' = "asleep" /\ batch' = {} /\ todo' = {} /\ awake' = {}
     \/ /\ topGoals # {} /\ woken # {} /\ phase' = "work"
        /\ batch' = woken \cap DOMAIN goal' /\ todo' = batch' /\ awake' = {}
  /\ UNCHANGED <<keepGoing, fallback, outcome, topGoals, valid, delays>>

LEMMA EndPassShape ==
  ASSUME EndPass
  PROVE  \E s, b, dead, woken : Passes(s, b, dead, woken)
<1>1. PICK live : live = Held(goal, Requested)
  OBVIOUS
<1>2. live \subseteq DOMAIN goal
  BY <1>1, HeldFacts
<1>3. PICK dead : dead = DOMAIN goal \ live
  OBVIOUS
<1>4. PICK s \in SlotWaiters(wantingToSubstitute, nrSubstitutions, SubstitutionLimit),
           b \in SlotWaiters(wantingToBuild, nrLocalBuilds, MaxBuildJobs) :
         /\ goal' = Restrict(goal, live)
         /\ wantingToSubstitute' = wantingToSubstitute \ (s \cup dead)
         /\ wantingToBuild' = wantingToBuild \ (b \cup dead)
         /\ Destroyed(dead, {})
         /\ lock' = [p \in Path |-> IF lock[p] \in dead THEN Free ELSE lock[p]]
         /\ \/ /\ topGoals = {}
               /\ phase' = "end" /\ batch' = {} /\ todo' = {} /\ awake' = awake \cup s \cup b
            \/ /\ topGoals # {} /\ awake \cup s \cup b = {}
               /\ phase' = "asleep" /\ batch' = {} /\ todo' = {} /\ awake' = {}
            \/ /\ topGoals # {} /\ awake \cup s \cup b # {}
               /\ StartPass(live, awake \cup s \cup b)
               /\ UNCHANGED phase
  <2>1. PICK s \in SlotWaiters(wantingToSubstitute, nrSubstitutions, SubstitutionLimit),
             b \in SlotWaiters(wantingToBuild, nrLocalBuilds, MaxBuildJobs),
             l \in {Held(goal, Requested)} :
         /\ goal' = Restrict(goal, l)
         /\ wantingToSubstitute' = wantingToSubstitute \ (s \cup (DOMAIN goal \ l))
         /\ wantingToBuild' = wantingToBuild \ (b \cup (DOMAIN goal \ l))
         /\ Destroyed(DOMAIN goal \ l, {})
         /\ lock' = [p \in Path |-> IF lock[p] \in DOMAIN goal \ l THEN Free ELSE lock[p]]
         /\ \/ /\ topGoals = {}
               /\ phase' = "end" /\ batch' = {} /\ todo' = {} /\ awake' = awake \cup s \cup b
            \/ /\ topGoals # {} /\ awake \cup s \cup b = {}
               /\ phase' = "asleep" /\ batch' = {} /\ todo' = {} /\ awake' = {}
            \/ /\ topGoals # {} /\ awake \cup s \cup b # {}
               /\ StartPass(l, awake \cup s \cup b)
               /\ UNCHANGED phase
    BY Zenon DEF EndPass
  <2>2. l = live
    BY <1>1
  <2> QED
    BY <1>3, <2>1, <2>2, Zenon
<1>5. PICK woken : woken = awake \cup s \cup b
  OBVIOUS
<1>6. DOMAIN goal' = live /\ \A h \in DOMAIN goal' : goal'[h] = goal[h]
  BY <1>4 DEF Restrict
<1>7. phase = "work" /\ joining = {} /\ (todo = {} \/ topGoals = {})
      /\ UNCHANGED <<keepGoing, fallback, outcome, topGoals, valid, delays>>
  BY DEF EndPass, settings
<1>8. live = DOMAIN goal \ dead
  BY <1>2, <1>3
<1>9. StartPass(live, woken) => batch' = woken \cap DOMAIN goal' /\ todo' = batch' /\ awake' = {}
  BY <1>6 DEF StartPass
<1>10. Passes(s, b, dead, woken)
  BY <1>1, <1>3, <1>4, <1>5, <1>6, <1>7, <1>8, <1>9 DEF Passes
<1> QED
  BY <1>10

LEMMA PassesFacts ==
  ASSUME Inv, NEW s, NEW b, NEW dead, NEW woken, Passes(s, b, dead, woken)
  PROVE  /\ dead \subseteq DOMAIN goal /\ dead \cap Requested = {}
         /\ \A h \in DOMAIN goal' : Pointers(goal[h]) \cap dead = {}
         /\ s \subseteq wantingToSubstitute /\ b \subseteq wantingToBuild /\ woken \subseteq Goal
         /\ topGoals # {} => todo = {}
<1>1. Cut(goal, Requested, dead)
  BY HeldFacts DEF Passes
<1>2. s \subseteq wantingToSubstitute /\ b \subseteq wantingToBuild
  BY DEF Passes, SlotWaiters
<1>3. woken \subseteq Goal
  BY <1>2 DEF Passes, Inv, QueueInv, GoalInv
<1> QED
  BY <1>1, <1>2, <1>3 DEF Passes, Cut

LEMMA PassesWake ==
  ASSUME Inv, NEW s, NEW b, NEW dead, NEW woken, Passes(s, b, dead, woken)
  PROVE  WakeInv'
<1>1. /\ dead \subseteq DOMAIN goal /\ s \subseteq wantingToSubstitute /\ b \subseteq wantingToBuild
      /\ topGoals # {} => todo = {}
  BY PassesFacts
<1>2. /\ DOMAIN goal' = DOMAIN goal \ dead /\ \A h \in DOMAIN goal' : goal'[h] = goal[h]
      /\ wantingToSubstitute' = wantingToSubstitute \ (s \cup dead)
      /\ wantingToBuild' = wantingToBuild \ (b \cup dead)
      /\ woken = awake \cup s \cup b /\ Destroyed(dead, {}) /\ phase = "work"
  BY DEF Passes
<1>3. /\ \A h \in DOMAIN child : h \notin dead => h \in DOMAIN child'
      /\ DOMAIN child' \subseteq DOMAIN child
      /\ waitingForAWhile' = waitingForAWhile \ dead
      /\ waitingForCompletion' = waitingForCompletion \ dead
  BY <1>2, DestroyedFacts DEF Inv
<1>4. ASSUME NEW h \in DOMAIN goal', phase' # "end" PROVE OneSource(h)'
  <2>1. h \in DOMAIN goal /\ h \notin dead /\ goal'[h] = goal[h] /\ OneSource(h)
    BY <1>2 DEF Inv, WakeInv
  <2>2. topGoals # {} /\ todo = {} /\ awake' = {} /\ (h \in todo' <=> h \in woken)
    BY <1>1, <1>2, <1>4 DEF Passes
  <2>3. /\ h \in waitingForAWhile' <=> h \in waitingForAWhile
        /\ h \in waitingForCompletion' <=> h \in waitingForCompletion
        /\ h \in DOMAIN child' <=> h \in DOMAIN child
    BY <1>3, <2>1
  <2>4. CASE h \notin woken
    <3>1. ASSUME NEW t \in Sources PROVE Sourced(h, t)' <=> Sourced(h, t)
      BY <1>2, <2>1, <2>2, <2>3, <2>4 DEF Sourced
    <3> QED
      BY <2>1, <3>1, SameSources
  <2>5. CASE h \in woken
    <3>1. PICK t \in {"awake", "wantingToSubstitute", "wantingToBuild"} :
              /\ Sourced(h, t)
              /\ t = "wantingToSubstitute" => h \in s
              /\ t = "wantingToBuild" => h \in b
      <4>1. h \in awake => Sourced(h, "awake")
        BY DEF Sourced
      <4>2. h \in s => Sourced(h, "wantingToSubstitute")
        BY <1>1 DEF Sourced
      <4>3. h \in b => Sourced(h, "wantingToBuild")
        BY <1>1 DEF Sourced
      <4> QED
        BY <1>2, <2>5, <4>1, <4>2, <4>3
    <3>2. \A u \in Sources : Sourced(h, u) => u = t
      BY <2>1, <3>1, OnlySource DEF Sources
    <3>3. Sourced(h, "todo")' /\ "todo" \in Sources
      BY <2>2, <2>5 DEF Sourced, Sources
    <3>4. ASSUME NEW u \in Sources, Sourced(h, u)' PROVE u = "todo"
      <4>1. u # "todo" => Sourced(h, u)
        BY <1>2, <2>1, <2>2, <2>3, <3>4 DEF Sourced
      <4>2. u # "todo" => u = t
        BY <3>2, <4>1
      <4>3. u # t
        BY <1>2, <2>2, <3>1, <3>4 DEF Sourced
      <4> QED
        BY <4>2, <4>3
    <3> QED
      BY <3>3, <3>4, NewSource
  <2> QED
    BY <2>4, <2>5
<1>5. phase' \in {"work", "asleep"} => phase' # "end"
  OBVIOUS
<1> QED
  BY <1>4, <1>5 DEF WakeInv

LEMMA PassesInv ==
  ASSUME Inv, HeldInv, NEW s, NEW b, NEW dead, NEW woken, Passes(s, b, dead, woken)
  PROVE  Inv'
<1>1. /\ dead \subseteq DOMAIN goal /\ dead \cap Requested = {}
      /\ \A h \in DOMAIN goal' : Pointers(goal[h]) \cap dead = {}
      /\ s \subseteq wantingToSubstitute /\ b \subseteq wantingToBuild /\ woken \subseteq Goal
      /\ topGoals # {} => todo = {}
  BY PassesFacts
<1>2. /\ DOMAIN goal' = DOMAIN goal \ dead /\ \A h \in DOMAIN goal' : goal'[h] = goal[h]
      /\ wantingToSubstitute' = wantingToSubstitute \ (s \cup dead)
      /\ wantingToBuild' = wantingToBuild \ (b \cup dead)
      /\ woken = awake \cup s \cup b /\ Destroyed(dead, {}) /\ phase = "work" /\ joining = {}
      /\ lock' = [p \in Path |-> IF lock[p] \in dead THEN Free ELSE lock[p]]
      /\ UNCHANGED <<keepGoing, fallback, outcome, topGoals, valid, delays>>
      /\ dead = DOMAIN goal \ Held(goal, Requested)
  BY DEF Passes
<1>3. /\ Counted' /\ DOMAIN child' \subseteq DOMAIN child
      /\ \A h \in DOMAIN child' : child'[h] = child[h]
      /\ \A h \in DOMAIN child : h \notin dead => h \in DOMAIN child'
      /\ \A h \in dead \cap DOMAIN child' :
            /\ goal[h].pc \notin {"build", "remote"}
            /\ h[1] = "path" /\ goal[h].pc = "copy" => h \in joining'
      /\ joining' \subseteq {h \in dead : h[1] = "path"}
      /\ wakeupQueue' = wakeupQueue \ dead
      /\ waitingForAWhile' = waitingForAWhile \ dead
      /\ waitingForCompletion' = waitingForCompletion \ dead
  BY <1>2, DestroyedFacts DEF Inv
<1>4. GoalInv'
  <2>1. \A h \in DOMAIN goal' : goal'[h] \in GoalState(h)'
    BY <1>2, GoalStateSame DEF Inv, GoalInv, settings
  <2>2. \A h \in DOMAIN goal' : Pointers(goal'[h]) \subseteq DOMAIN goal'
    BY <1>1, <1>2 DEF Inv, GoalInv
  <2>3. (\A h \in DOMAIN goal : goal[h] \in GoalState(h) /\ Pointers(goal[h]) \subseteq DOMAIN goal)'
    BY <2>1, <2>2 DEF Pointers
  <2>4. Requested' = Requested /\ Requested \subseteq DOMAIN goal'
    BY <1>1, <1>2 DEF Inv, GoalInv, Requested
  <2> QED
    BY <1>2, <2>3, <2>4 DEF Inv, GoalInv
<1>5. QueueInv'
  <2>1. /\ IsFiniteSet(wantingToBuild) /\ IsFiniteSet(wantingToSubstitute)
        /\ wantingToBuild \subseteq DOMAIN goal /\ wantingToSubstitute \subseteq DOMAIN goal
        /\ waitingForAWhile \subseteq DOMAIN goal /\ waitingForCompletion \subseteq DOMAIN goal
        /\ wakeupQueue \subseteq waitingForCompletion
        /\ \A h \in wakeupQueue : goal[h].reply # "none"
    BY DEF Inv, QueueInv
  <2>2. IsFiniteSet(wantingToBuild') /\ IsFiniteSet(wantingToSubstitute')
    BY <1>2, <2>1, FS_Difference
  <2>3. /\ wantingToBuild' \subseteq DOMAIN goal' /\ wantingToSubstitute' \subseteq DOMAIN goal'
        /\ waitingForAWhile' \subseteq DOMAIN goal' /\ waitingForCompletion' \subseteq DOMAIN goal'
        /\ wakeupQueue' \subseteq waitingForCompletion'
    BY <1>2, <1>3, <2>1
  <2>4. \A h \in wakeupQueue' : goal'[h].reply # "none"
    BY <1>2, <1>3, <2>1, <2>3
  <2>5. \A h \in DOMAIN goal' :
          h[1] = "path" /\ goal'[h].pc \in {"query", "copy"} /\ goal'[h].reply = "none"
          => h \in waitingForCompletion'
    BY <1>2, <1>3 DEF Inv, QueueInv
  <2>6. /\ phase' \in {"work", "asleep", "end"} /\ awake' \subseteq Goal
        /\ todo' \subseteq batch' /\ batch' \subseteq DOMAIN goal'
        /\ phase' = "asleep" => awake' = {} /\ todo' = {} /\ batch' = {} /\ topGoals # {} /\ woken = {}
    BY <1>1 DEF Passes
  <2>7. phase' = "asleep" => joining' = {}
    BY <1>2, <1>3, <2>6 DEF HeldInv
  <2>8. \A h \in wantingToBuild' \cup wantingToSubstitute' \cup waitingForAWhile' \cup waitingForCompletion' :
          h[1] \in {"path", "bld"}
    BY <1>2, <1>3 DEF Inv, QueueInv
  <2> QED
    BY <1>2, <2>2, <2>3, <2>4, <2>5, <2>6, <2>7, <2>8 DEF QueueInv
<1>6. SlotInv'
  <2>1. ASSUME NEW h \in DOMAIN child', child'[h] PROVE h \in joining' \/ RunsInSlot(h)'
    <3>1. RunsInSlot(h)
      BY <1>2, <1>3, <2>1 DEF Inv, SlotInv
    <3>2. h \in dead => h \in joining'
      BY <1>3, <3>1 DEF RunsInSlot
    <3>3. h \notin dead => RunsInSlot(h)'
      BY <1>2, <3>1 DEF RunsInSlot
    <3> QED
      BY <3>2, <3>3
  <2>2. \A h \in DOMAIN child' : child'[h] \in BOOLEAN /\ (h[1] = "path" => child'[h])
    BY <1>3 DEF Inv, SlotInv
  <2>3. ASSUME NEW h \in joining' PROVE h \in {"path"} \X Path
    <3>1. h \in Goal /\ h[1] = "path"
      BY <1>1, <1>3 DEF Inv, GoalInv
    <3> QED
      BY <3>1, GoalFacts
  <2>4. \A h \in DOMAIN goal' :
          h[1] = "bld" /\ goal'[h].pc \in {"build", "remote", "post"} => h \in DOMAIN child'
    BY <1>2, <1>3 DEF Inv, SlotInv
  <2> QED
    BY <1>3, <2>1, <2>2, <2>3, <2>4 DEF SlotInv, Counted
<1>7. StoreInv'
  <2>1. lock' \in [Path -> Goal \cup {Free, Other}]
    BY <1>2 DEF Inv, StoreInv
  <2> QED
    BY <1>2, <2>1 DEF Inv, StoreInv
<1>8. ReadyInv'
  <2>1. ASSUME NEW h \in DOMAIN goal' PROVE ReadyAs(h, goal[h])'
    <3>1. PICK q : q = goal[h]
      OBVIOUS
    <3>2. ReadyAs(h, q)
      BY <1>2, <3>1 DEF Inv, ReadyInv
    <3>3. ReadyAs(h, q)'
      BY <1>2, <3>2, ReadyGrows
    <3>4. q = goal'[h]
      BY <1>2, <3>1
    <3> QED
      BY <3>3, <3>4
  <2>2. \A h \in DOMAIN outcome' : outcome'[h] = "success" => Achieved(h)'
    BY <1>2, AchievedGrows DEF Inv, ReadyInv
  <2> QED
    BY <2>1, <2>2 DEF ReadyInv
<1> QED
  BY <1>4, <1>5, <1>6, <1>7, <1>8, PassesWake DEF Inv

-----------------------------------------------------------------------------
(* Who stays held                                                          *)

(* More goals with more pointers hold more.                                *)
LEMMA HeldGrows ==
  ASSUME NEW gs, NEW hs, NEW roots, DOMAIN gs \subseteq DOMAIN hs,
         \A h \in DOMAIN gs : Pointers(gs[h]) \subseteq Pointers(hs[h])
  PROVE  Held(gs, roots) \subseteq Held(hs, roots)
<1> DEFINE C == DOMAIN hs \ Held(hs, roots)
           D == C \cap DOMAIN gs
<1>1. Cut(hs, roots, C)
  BY HeldFacts
<1>2. Cut(gs, roots, D)
  BY <1>1 DEF Cut
<1> HIDE DEF D
<1>3. D \cap Held(gs, roots) = {} /\ Held(gs, roots) \subseteq DOMAIN gs
  BY <1>2, HeldFacts
<1> QED
  BY <1>3 DEF D

LEMMA HeldSame ==
  ASSUME NEW gs, NEW hs, NEW roots, DOMAIN hs = DOMAIN gs,
         \A h \in DOMAIN gs : Pointers(hs[h]) = Pointers(gs[h])
  PROVE  Held(hs, roots) = Held(gs, roots)
<1>1. Held(gs, roots) \subseteq Held(hs, roots)
  BY HeldGrows
<1>2. Held(hs, roots) \subseteq Held(gs, roots)
  BY HeldGrows
<1> QED
  BY <1>1, <1>2

(* Destroying goals that no other points to lets go of no other.           *)
LEMMA HeldRestrict ==
  ASSUME NEW gs, NEW hs, NEW roots, NEW dead, dead \cap roots = {}, DOMAIN hs = DOMAIN gs \ dead,
         \A h \in DOMAIN hs : hs[h] = gs[h] /\ Pointers(gs[h]) \cap dead = {}
  PROVE  Held(gs, roots) \subseteq Held(hs, roots)
<1> DEFINE C == DOMAIN hs \ Held(hs, roots)
           D == C \cup (dead \cap DOMAIN gs)
<1>1. Cut(hs, roots, C) /\ Held(hs, roots) \subseteq DOMAIN hs
  BY HeldFacts
<1>2. Cut(gs, roots, D)
  <2>1. D \subseteq DOMAIN gs /\ D \cap roots = {}
    BY <1>1 DEF Cut
  <2>2. ASSUME NEW h \in DOMAIN gs \ D PROVE Pointers(gs[h]) \cap D = {}
    BY <1>1 DEF Cut
  <2> QED
    BY <2>1, <2>2 DEF Cut
<1>3. D \cap Held(gs, roots) = {} /\ Held(gs, roots) \subseteq DOMAIN gs
  BY <1>2, HeldFacts
<1> QED
  BY <1>1, <1>3

LEMMA StillHeld ==
  ASSUME DOMAIN goal' = DOMAIN goal, \A h \in DOMAIN goal : Pointers(goal'[h]) = Pointers(goal[h]),
         UNCHANGED outcome
  PROVE  Held(goal, Requested)' = Held(goal, Requested)
<1>1. PICK gs : gs = goal'
  OBVIOUS
<1>2. PICK rs : rs = Requested
  OBVIOUS
<1>3. Requested' = rs
  BY <1>2 DEF Requested
<1>4. Held(gs, rs) = Held(goal, rs)
  BY <1>1, HeldSame
<1> QED
  BY <1>1, <1>2, <1>3, <1>4

-----------------------------------------------------------------------------
(* The steps that leave every pointer keep whom the requested goals hold.  *)

LEMMA SuspendsChildren ==
  ASSUME Inv, NEW g \in Goal, Resumes(g), NEW r, Suspends(g, r), NEW h \in DOMAIN child'
  PROVE  /\ h # g => h \in DOMAIN child /\ (ChildAlive(h)' <=> ChildAlive(h))
         /\ h = g => ChildAlive(g)' \/ (g \in DOMAIN child /\ ~ChildAlive(g))
<1>1. /\ g \in DOMAIN goal /\ goal' = [goal EXCEPT ![g] = r] /\ SlotStep(g, r) /\ SlotInv
  BY DEF Resumes, Suspends, Inv
<1>2. /\ DOMAIN goal' = DOMAIN goal /\ goal'[g] = r
      /\ \A k \in DOMAIN goal \ {g} : goal'[k] = goal[k]
  BY <1>1
<1>3. ASSUME h # g PROVE h \in DOMAIN child /\ (ChildAlive(h)' <=> ChildAlive(h))
  <2>1. ChildAlive(h)' <=> ChildAlive(h)
    BY <1>2, <1>3 DEF ChildAlive
  <2>2. CASE \E ended \in {{}, {g}} : ChildTerminated(ended)
    BY <1>1, <2>1, <2>2, TerminatedCounts
  <2>3. CASE \E b \in BOOLEAN : ChildStarted(g, b)
    BY <1>3, <2>1, <2>3 DEF ChildStarted
  <2>4. CASE child' = [child EXCEPT ![g] = FALSE]
    BY <2>1, <2>4
  <2>5. CASE UNCHANGED slots
    BY <2>1, <2>5 DEF slots
  <2> QED
    BY <1>1, <2>2, <2>3, <2>4, <2>5 DEF SlotStep
<1>4. ASSUME h = g PROVE ChildAlive(g)' \/ (g \in DOMAIN child /\ ~ChildAlive(g))
  <2>1. CASE UNCHANGED slots /\ ~ChildAlive(g)
    BY <1>4, <2>1 DEF slots
  <2>2. CASE \/ g[1] = "bld" /\ r.pc \in {"build", "remote", "post"}
             \/ g[1] = "path" /\ r.pc = "copy"
    BY <1>1, <1>2, <2>2 DEF ChildAlive
  <2>3. CASE \E ended \in {{}, {g}} : ChildTerminated(ended) /\ (ended = {} => ~ChildAlive(g))
    <3>1. PICK ended \in {{}, {g}} : ChildTerminated(ended) /\ (ended = {} => ~ChildAlive(g))
      BY <2>3
    <3>2. DOMAIN child' = DOMAIN child \ ended
      BY <1>1, <3>1, TerminatedCounts
    <3> QED
      BY <1>4, <3>1, <3>2
  <2> QED
    BY <1>1, <2>1, <2>2, <2>3 DEF SlotStep
<1> QED
  BY <1>3, <1>4

LEMMA SuspendsHeld ==
  ASSUME Inv, HeldInv, NEW g \in Goal, Resumes(g), NEW r, Suspends(g, r)
  PROVE  HeldInv'
<1>1. /\ g \in DOMAIN goal /\ goal' = [goal EXCEPT ![g] = r] /\ todo' = todo \ {g}
      /\ UNCHANGED <<keepGoing, outcome, topGoals, joining, phase>> /\ Pointers(r) = {}
      /\ joining = {} /\ phase = "work" /\ g[1] \in {"path", "bld"}
      /\ awake' = awake \cup {g} \/ awake' = awake
  BY DEF Resumes, Suspends, Busy, settings, Parked
<1>2. /\ DOMAIN goal' = DOMAIN goal /\ goal'[g] = r
      /\ \A h \in DOMAIN goal \ {g} : goal'[h] = goal[h]
  BY <1>1
<1>3. Pointers(goal[g]) = {}
  BY <1>1, TodoOnly DEF Pointers, Inv, GoalInv, GoalState
<1>4. Held(goal, Requested)' = Held(goal, Requested)
  BY <1>1, <1>2, <1>3, StillHeld
<1>5. Doom => Doom'
  <2>1. ASSUME NEW d \in DOMAIN goal, Doomed(d) PROVE Doomed(d)'
    <3>1. d # g
      BY <1>1, <2>1 DEF Doomed, Failing
    <3>2. goal'[d] = goal[d]
      BY <1>2, <3>1
    <3> QED
      BY <1>1, <1>4, <2>1, <3>1, <3>2 DEF Doomed, Failing
  <2> QED
    BY <1>1, <1>2, <2>1 DEF Doom
<1>6. ASSUME \A h \in DOMAIN child : h \in joining \/ ChildAlive(h)
      PROVE  \A h \in DOMAIN child' : ChildAlive(h)'
  BY <1>1, <1>6, SuspendsChildren
<1>7. ~Doom' => /\ \A h \in DOMAIN goal' : h[1] # "path" => h \in Held(goal, Requested)'
                /\ \A h \in DOMAIN child' : h \in joining' \/ ChildAlive(h)'
  BY <1>1, <1>2, <1>4, <1>5, <1>6 DEF HeldInv
<1>8. awake' = {} /\ topGoals' # {} => DOMAIN goal' \subseteq Held(goal, Requested)'
  BY <1>1, <1>2, <1>4 DEF HeldInv
<1>9. keepGoing' => /\ DOMAIN goal' \subseteq Held(goal, Requested)'
                    /\ awake' \subseteq DOMAIN goal' /\ joining' = {}
                    /\ \A h \in DOMAIN child' : ChildAlive(h)'
  BY <1>1, <1>2, <1>4, <1>6 DEF HeldInv
<1> QED
  BY <1>1, <1>7, <1>8, <1>9 DEF HeldInv

(* Steps beside the event loop, and the wakeups of waitForInput().         *)
LEMMA SamePointersHeld ==
  ASSUME Inv, HeldInv, DOMAIN goal' = DOMAIN goal,
         \A h \in DOMAIN goal : /\ Pointers(goal'[h]) = Pointers(goal[h])
                                /\ goal'[h].pc = goal[h].pc /\ goal'[h].nrFailed = goal[h].nrFailed,
         UNCHANGED <<keepGoing, outcome, topGoals>>, joining' \subseteq joining,
         DOMAIN child' \subseteq DOMAIN child, \A h \in DOMAIN child' : h \in joining => h \in joining',
         \/ UNCHANGED <<awake, todo, phase>>
         \/ phase = "asleep" /\ phase' = "work" /\ awake' = {}
  PROVE  HeldInv'
<1>1. Held(goal, Requested)' = Held(goal, Requested)
  BY StillHeld
<1>2. \A h : ChildAlive(h)' <=> ChildAlive(h)
  BY DEF ChildAlive
<1>3. CASE UNCHANGED <<awake, todo, phase>>
  <2>1. Doom => Doom'
    BY <1>1, <1>3 DEF Doom, Doomed, Failing
  <2> QED
    BY <1>1, <1>2, <1>3, <2>1 DEF HeldInv
<1>4. CASE phase = "asleep" /\ phase' = "work" /\ awake' = {}
  <2>1. ~Doom /\ joining = {}
    BY <1>4 DEF Doom, Doomed, Inv, QueueInv
  <2> QED
    BY <1>1, <1>2, <1>4, <2>1 DEF HeldInv
<1> QED
  BY <1>3, <1>4

(* A goal that awaits others holds them as well.                           *)
LEMMA AwaitsHeld ==
  ASSUME Inv, HeldInv, NEW g \in Goal, Resumes(g), NEW r, NEW W, NEW required, Awaits(g, r, W, required)
  PROVE  HeldInv'
<1>1. /\ g \in DOMAIN goal /\ DOMAIN goal' = DOMAIN goal \cup W /\ goal'[g] = r /\ W \subseteq Goal
      /\ \A h \in DOMAIN goal \ {g} : goal'[h] = goal[h]
  BY AwaitsFacts
<1>2. /\ awake' = awake \cup (W \ DOMAIN goal) /\ todo' = todo \ {g} /\ Pointers(r) = W
      /\ ~ChildAlive(g) /\ ~Failing(g) /\ phase = "work" /\ joining = {} /\ topGoals # {}
      /\ UNCHANGED <<keepGoing, outcome, topGoals, joining, child, phase>>
      /\ r \in GoalState(g) /\ r.waitees = W /\ Pointers(goal[g]) = {}
  BY DEF Awaits, Resumes, settings, slots, Busy
<1>3. Held(goal, Requested) \subseteq Held(goal, Requested)'
  <2>1. PICK gs : gs = goal'
    OBVIOUS
  <2>2. PICK rs : rs = Requested
    OBVIOUS
  <2>3. Requested' = rs
    BY <1>2, <2>2 DEF Requested
  <2>4. Held(goal, rs) \subseteq Held(gs, rs)
    BY <1>1, <1>2, <2>1, HeldGrows
  <2> QED
    BY <2>1, <2>2, <2>3, <2>4
<1>4. g \in Held(goal, Requested) => W \subseteq Held(goal, Requested)'
  <2>1. PICK gs, rs : gs = goal' /\ rs = Requested'
    OBVIOUS
  <2>2. g \in Held(gs, rs) => W \subseteq Held(gs, rs)
    BY <1>1, <1>2, <2>1, HeldClosed
  <2> QED
    BY <1>3, <2>1, <2>2
<1>5. Doom => Doom'
  <2>1. ASSUME NEW d \in DOMAIN goal, Doomed(d) PROVE Doomed(d)' /\ d \in DOMAIN goal'
    <3>1. d # g
      BY <1>2, <2>1 DEF Doomed
    <3>2. goal'[d] = goal[d]
      BY <1>1, <3>1
    <3> QED
      BY <1>1, <1>2, <1>3, <2>1, <3>1, <3>2 DEF Doomed, Failing
  <2> QED
    BY <1>2, <2>1 DEF Doom
<1>6. \A h : ChildAlive(h) => ChildAlive(h)'
  BY <1>1, <1>2 DEF ChildAlive
<1>7. ASSUME NEW h \in W, h[1] # "path" PROVE g[1] # "path"
  <2>1. h \in Waitable(g, r.pc)
    BY <1>2 DEF GoalState
  <2> QED
    BY <1>7, <2>1, WaitableFacts
<1>8. ~Doom' => /\ \A h \in DOMAIN goal' : h[1] # "path" => h \in Held(goal, Requested)'
                /\ \A h \in DOMAIN child' : h \in joining' \/ ChildAlive(h)'
  <2> SUFFICES ASSUME ~Doom'
               PROVE  /\ \A h \in DOMAIN goal' : h[1] # "path" => h \in Held(goal, Requested)'
                      /\ \A h \in DOMAIN child' : h \in joining' \/ ChildAlive(h)'
    OBVIOUS
  <2>1. /\ \A h \in DOMAIN goal : h[1] # "path" => h \in Held(goal, Requested)
        /\ \A h \in DOMAIN child : h \in joining \/ ChildAlive(h)
    BY <1>2, <1>5 DEF HeldInv
  <2>2. \A h \in DOMAIN child' : h \in joining' \/ ChildAlive(h)'
    BY <1>2, <1>6, <2>1
  <2>3. ASSUME NEW h \in DOMAIN goal', h[1] # "path" PROVE h \in Held(goal, Requested)'
    <3>1. CASE h \in DOMAIN goal
      BY <1>3, <2>1, <2>3, <3>1
    <3>2. CASE h \in W
      BY <1>1, <1>4, <1>7, <2>1, <2>3, <3>2
    <3> QED
      BY <1>1, <3>1, <3>2
  <2> QED
    BY <2>2, <2>3
<1>9. awake' = {} /\ topGoals' # {} => DOMAIN goal' \subseteq Held(goal, Requested)'
  <2>1. awake' = {} => DOMAIN goal' = DOMAIN goal /\ awake = {}
    BY <1>1, <1>2
  <2> QED
    BY <1>2, <1>3, <2>1 DEF HeldInv
<1>10. keepGoing' => /\ DOMAIN goal' \subseteq Held(goal, Requested)'
                     /\ awake' \subseteq DOMAIN goal' /\ joining' = {}
                     /\ \A h \in DOMAIN child' : ChildAlive(h)'
  <2> SUFFICES ASSUME keepGoing
               PROVE  /\ DOMAIN goal' \subseteq Held(goal, Requested)'
                      /\ awake' \subseteq DOMAIN goal' /\ joining' = {}
                      /\ \A h \in DOMAIN child' : ChildAlive(h)'
    BY <1>2
  <2>1. /\ DOMAIN goal \subseteq Held(goal, Requested) /\ awake \subseteq DOMAIN goal
        /\ \A h \in DOMAIN child : ChildAlive(h)
    BY <1>2 DEF HeldInv
  <2> QED
    BY <1>1, <1>2, <1>3, <1>4, <1>6, <2>1
<1> QED
  BY <1>2, <1>8, <1>9, <1>10 DEF HeldInv

(* At the end of a pass whoever is not held is destroyed.                  *)
LEMMA PassesHeld ==
  ASSUME Inv, HeldInv, NEW s, NEW b, NEW dead, NEW woken, Passes(s, b, dead, woken)
  PROVE  HeldInv'
<1>1. /\ dead \subseteq DOMAIN goal /\ dead \cap Requested = {}
      /\ \A h \in DOMAIN goal' : Pointers(goal[h]) \cap dead = {}
      /\ s \subseteq wantingToSubstitute /\ b \subseteq wantingToBuild
      /\ topGoals # {} => todo = {}
  BY PassesFacts
<1>2. /\ DOMAIN goal' = DOMAIN goal \ dead /\ \A h \in DOMAIN goal' : goal'[h] = goal[h]
      /\ woken = awake \cup s \cup b /\ Destroyed(dead, {}) /\ phase = "work" /\ joining = {}
      /\ UNCHANGED <<keepGoing, outcome, topGoals>>
      /\ dead = DOMAIN goal \ Held(goal, Requested)
  BY DEF Passes
<1>3. /\ DOMAIN child' \subseteq DOMAIN child
      /\ \A h \in dead \cap DOMAIN child' :
            /\ goal[h].pc \notin {"build", "remote"}
            /\ h[1] = "path" /\ goal[h].pc = "copy" => h \in joining'
      /\ joining' \subseteq dead
  BY <1>2, DestroyedFacts DEF Inv
<1>4. DOMAIN goal' \subseteq Held(goal, Requested)'
  <2>1. PICK gs, rs : gs = goal' /\ rs = Requested
    OBVIOUS
  <2>2. Requested' = rs
    BY <1>2, <2>1 DEF Requested
  <2>3. Held(goal, rs) \subseteq Held(gs, rs)
    BY <1>1, <1>2, <2>1, HeldRestrict
  <2> QED
    BY <1>2, <2>1, <2>2, <2>3
<1>5. \A h : h \notin dead /\ ChildAlive(h) => ChildAlive(h)'
  BY <1>2 DEF ChildAlive
<1>6. ASSUME phase' # "end", Doom PROVE Doom'
  <2>1. topGoals # {} /\ todo = {}
    BY <1>1, <1>6 DEF Passes
  <2>2. PICK d \in DOMAIN goal : Doomed(d)
    BY <1>6, <2>1 DEF Doom
  <2>3. d \in DOMAIN goal' /\ d \in woken /\ goal'[d] = goal[d]
    BY <1>2, <2>1, <2>2 DEF Doomed
  <2>4. d \in todo'
    BY <1>6, <2>3 DEF Passes
  <2>5. Doomed(d)'
    BY <1>4, <2>2, <2>3, <2>4 DEF Doomed, Failing
  <2> QED
    BY <1>2, <1>6, <2>3, <2>5 DEF Doom
<1>7. ASSUME phase' # "end", ~Doom' PROVE \A h \in DOMAIN child' : h \in joining' \/ ChildAlive(h)'
  <2>1. /\ \A h \in DOMAIN goal : h[1] # "path" => h \in Held(goal, Requested)
        /\ \A h \in DOMAIN child : h \in joining \/ ChildAlive(h)
    BY <1>2, <1>6, <1>7 DEF HeldInv
  <2>2. ASSUME NEW h \in DOMAIN child' PROVE h \in joining' \/ ChildAlive(h)'
    <3>1. ChildAlive(h)
      BY <1>2, <1>3, <2>1
    <3>2. h \in dead => h[1] = "path" /\ goal[h].pc = "copy"
      BY <1>2, <2>1, <3>1 DEF ChildAlive
    <3> QED
      BY <1>3, <1>5, <3>1, <3>2
  <2> QED
    BY <2>2
<1>8. keepGoing' => /\ awake' \subseteq DOMAIN goal' /\ joining' = {}
                    /\ \A h \in DOMAIN child' : ChildAlive(h)'
  <2> SUFFICES ASSUME keepGoing
               PROVE  /\ awake' \subseteq DOMAIN goal' /\ joining' = {}
                      /\ \A h \in DOMAIN child' : ChildAlive(h)'
    BY <1>2
  <2>1. dead = {} /\ awake \subseteq DOMAIN goal /\ \A h \in DOMAIN child : ChildAlive(h)
    BY <1>2 DEF HeldInv
  <2>2. awake' \subseteq woken
    BY DEF Passes
  <2>3. s \subseteq DOMAIN goal /\ b \subseteq DOMAIN goal
    BY <1>1 DEF Inv, QueueInv
  <2> QED
    BY <1>2, <1>3, <1>5, <2>1, <2>2, <2>3
<1> QED
  BY <1>4, <1>7, <1>8 DEF HeldInv

-----------------------------------------------------------------------------
(* Who stays held when a goal ends.                                        *)

(* Whom the requested goals hold once g is gone.                           *)
Kept(g, code) == Held(Rest(g, code), Requested \ {g})

(* A set K of goals that g does not point into, whose pointers from other  *)
(* goals come from K and survive, stays held.                              *)
LEMMA KeptHeld ==
  ASSUME GoalInv, NEW g \in DOMAIN goal, NEW code, NEW K,
         \A x \in DOMAIN goal \ {g} : \A k \in K \ {g} :
            k \in Pointers(goal[x]) => x \in K /\ k \in Pointers(Told(g, code, x)),
         g \in Held(goal, Requested) => Pointers(goal[g]) \cap K = {}
  PROVE  (K \cap Held(goal, Requested)) \ {g} \subseteq Kept(g, code)
<1> DEFINE rest == Rest(g, code)
           X == Held(rest, Requested \ {g})
           H == Held(goal, Requested)
           lost == {y \in K \cap H : y # g /\ y \notin X}
           D == (DOMAIN goal \ H) \cup lost
<1>1. DOMAIN rest = DOMAIN goal \ {g} /\ \A h \in DOMAIN rest : rest[h] = Told(g, code, h)
  BY DEF Rest
<1> HIDE DEF rest
<1>2. /\ (Requested \ {g}) \cap DOMAIN rest \subseteq X
      /\ \A h \in X : Pointers(rest[h]) \cap DOMAIN rest \subseteq X
      /\ X \subseteq DOMAIN rest
  BY HeldClosed
<1>3. /\ H \subseteq DOMAIN goal /\ Requested \cap DOMAIN goal \subseteq H
      /\ \A h \in H : Pointers(goal[h]) \cap DOMAIN goal \subseteq H
  BY HeldClosed
<1> HIDE DEF X, H
<1>4. D \subseteq DOMAIN goal /\ D \cap Requested = {}
  BY <1>1, <1>2, <1>3
<1>5. ASSUME NEW h \in DOMAIN goal \ D, NEW k \in Pointers(goal[h]), k \in D PROVE FALSE
  <2>1. h \in H /\ k \in lost
    BY <1>3, <1>5
  <2>2. k \in K \ {g} /\ k \in DOMAIN rest /\ k \notin X
    BY <1>1, <1>3, <2>1
  <2>3. h # g
    BY <1>5, <2>1, <2>2 DEF H
  <2>4. h \in K /\ k \in Pointers(rest[h]) /\ h \in DOMAIN rest
    BY <1>1, <1>5, <2>2, <2>3
  <2>5. h \in X
    BY <1>5, <2>1, <2>3, <2>4
  <2> QED
    BY <1>2, <2>2, <2>4, <2>5
<1>6. Cut(goal, Requested, D)
  BY <1>4, <1>5 DEF Cut
<1>7. D \cap Held(goal, Requested) = {}
  BY <1>6, HeldFacts
<1> QED
  BY <1>7 DEF Kept, H, X, rest

(* A held goal that was not requested is pointed to by one that stays.     *)
LEMMA PointerTo ==
  ASSUME GoalInv, NEW g \in DOMAIN goal, NEW code, NEW K,
         \A x \in DOMAIN goal \ {g} : \A k \in K \ {g} :
            k \in Pointers(goal[x]) => x \in K /\ k \in Pointers(Told(g, code, x)),
         \A x \in DOMAIN goal : g \in Pointers(goal[x]) => x \in K,
         g \in Held(goal, Requested), g \notin Requested
  PROVE  \E x \in Kept(g, code) : g \in Pointers(goal[x])
<1> DEFINE rest == Rest(g, code)
           X == Held(rest, Requested \ {g})
           H == Held(goal, Requested)
           lost == {y \in K \cap H : y # g /\ y \notin X}
           D == (DOMAIN goal \ H) \cup lost \cup {g}
<1>1. DOMAIN rest = DOMAIN goal \ {g} /\ \A h \in DOMAIN rest : rest[h] = Told(g, code, h)
  BY DEF Rest
<1> HIDE DEF rest
<1>2. /\ (Requested \ {g}) \cap DOMAIN rest \subseteq X
      /\ \A h \in X : Pointers(rest[h]) \cap DOMAIN rest \subseteq X
      /\ X \subseteq DOMAIN rest
  BY HeldClosed
<1>3. /\ H \subseteq DOMAIN goal /\ Requested \cap DOMAIN goal \subseteq H
      /\ \A h \in H : Pointers(goal[h]) \cap DOMAIN goal \subseteq H
  BY HeldClosed
<1>0. SUFFICES ASSUME \A x \in X : g \notin Pointers(goal[x]) PROVE FALSE
  BY DEF Kept, rest
<1> HIDE DEF X, H
<1>4. D \subseteq DOMAIN goal /\ D \cap Requested = {}
  BY <1>1, <1>2, <1>3
<1>5. ASSUME NEW h \in DOMAIN goal \ D, NEW k \in Pointers(goal[h]), k \in D PROVE FALSE
  <2>1. h \in H /\ k \in lost \cup {g} /\ h # g
    BY <1>3, <1>5
  <2>2. h \in K => h \in X
    BY <1>5, <2>1
  <2>3. CASE k = g
    BY <1>0, <1>5, <2>2, <2>3
  <2>4. CASE k \in lost
    <3>1. k \in K \ {g} /\ k \in DOMAIN rest /\ k \notin X
      BY <1>1, <1>3, <2>4
    <3>2. h \in K /\ k \in Pointers(rest[h]) /\ h \in DOMAIN rest
      BY <1>1, <1>5, <2>1, <3>1
    <3> QED
      BY <1>2, <2>2, <3>1, <3>2
  <2> QED
    BY <2>1, <2>3, <2>4
<1>6. Cut(goal, Requested, D)
  BY <1>4, <1>5 DEF Cut
<1>7. D \cap Held(goal, Requested) = {}
  BY <1>6, HeldFacts
<1> QED
  BY <1>7

(* Which pointers survive the end of g: all but those to g, except that a  *)
(* goal that waits for several paths lets go of them when one fails.       *)
LEMMA EndKeepsPointers ==
  ASSUME GoalInv, NEW g \in DOMAIN goal, NEW code \in Codes, NEW x \in DOMAIN goal,
         NEW k \in Pointers(goal[x]), k # g
  PROVE  /\ k[1] # "path" => x[1] # "path" /\ k \in Pointers(Told(g, code, x))
         /\ keepGoing \/ Wakes(g, code) = {} => k \in Pointers(Told(g, code, x))
<1>1. PICK r : r = Told(g, code, x)
  OBVIOUS
<1>2. ToldShape(g, code, x, r)
  BY <1>1, TellFacts
<1>3. /\ r.inputGoals = goal[x].inputGoals \ {g}
      /\ r.waitees = IF x \in Wakes(g, code) THEN {} ELSE goal[x].waitees \ {g}
  BY <1>2 DEF ToldShape
<1>4. /\ goal[x].waitees \subseteq Waitable(x, goal[x].pc)
      /\ goal[x].inputGoals \subseteq (IF x[1] = "res" THEN Waitable(x, goal[x].pc) ELSE {})
      /\ x[1] = "res" /\ goal[x].inputGoals # goal[x].waitees => goal[x].waitees = {}
      /\ x \in Goal
  BY DEF GoalInv, GoalState
<1>5. x \in Wakes(g, code) => g \in goal[x].waitees /\ (goal[x].waitees = {g} \/ ~keepGoing)
  BY DEF Wakes
<1>6. k \in goal[x].waitees \/ k \in goal[x].inputGoals
  BY DEF Pointers
<1>7. keepGoing \/ Wakes(g, code) = {} => k \in Pointers(r)
  BY <1>3, <1>5, <1>6 DEF Pointers
<1>8. ASSUME k[1] # "path" PROVE x[1] # "path" /\ k \in Pointers(r)
  <2>1. x[1] \in {"path", "drv", "res", "bld"} /\ k \in Waitable(x, goal[x].pc)
    BY <1>4, <1>6, GoalFacts
  <2>2. x[1] \notin {"path", "bld"}
    BY <1>8, <2>1, WaitableFacts
  <2>3. CASE x[1] = "res"
    BY <1>3, <1>4, <1>6, <2>3 DEF Pointers
  <2>4. CASE x[1] = "drv"
    <3>1. goal[x].waitees = {k}
      BY <1>4, <1>6, <2>1, <2>4, WaitableFacts
    <3> QED
      BY <1>3, <1>5, <2>4, <3>1 DEF Pointers
  <2> QED
    BY <2>1, <2>2, <2>3, <2>4
<1> QED
  BY <1>1, <1>7, <1>8

(* Facts about the goal that ends, and about those that are left.          *)
EndingShape(g, code, ended, dead) ==
  /\ g \in DOMAIN goal /\ code \in Codes /\ g \in todo /\ todo' = todo \ {g} /\ joining = {}
  /\ topGoals = Requested /\ topGoals # {} /\ phase = "work" /\ phase' = "work" /\ keepGoing' = keepGoing
  /\ goal[g].waitees = {} /\ g \notin awake
  /\ Pointers(goal[g]) # {} => g[1] = "res" /\ Failing(g) /\ ~keepGoing
  /\ Failing(g) => code = "failed"
  /\ Kept(g, code) \subseteq Held(goal, Requested)' /\ Kept(g, code) \subseteq DOMAIN goal'
  /\ dead \cap Kept(g, code) = {} /\ dead \subseteq DOMAIN goal
  /\ DOMAIN goal' = (DOMAIN goal \ {g}) \ dead
  /\ \A h \in DOMAIN goal' : /\ goal'[h].pc = goal[h].pc /\ goal[h].nrFailed \in Nat
                             /\ goal'[h].nrFailed = goal[h].nrFailed
                                  + (IF g \in goal[h].waitees /\ code # "success" THEN 1 ELSE 0)
  /\ awake' = awake \cup Wakes(g, code)
  /\ topGoals' = IF g \in topGoals /\ code = "failed" /\ ~keepGoing THEN {} ELSE topGoals \ {g}
  /\ DOMAIN child' \subseteq DOMAIN child \ ended
  /\ \A h \in dead \cap DOMAIN child' : h[1] = "path" /\ goal[h].pc = "copy" => h \in joining'
  /\ joining' \subseteq dead /\ (ended = {} => ~ChildAlive(g)) /\ ended \in {{}, {g}}

LEMMA EndingFacts ==
  ASSUME Inv, NEW g \in Goal, Resumes(g), NEW code, NEW ended, Ends(g, code, ended),
         NEW dead, dead = Dead(g, code)
  PROVE  EndingShape(g, code, ended, dead)
<1>1. /\ g \in DOMAIN goal /\ code \in Codes /\ AmDone(g, code, ended) /\ GoalInv /\ SlotInv
      /\ todo' = todo \ {g} /\ topGoals # {} /\ joining = {} /\ keepGoing' = keepGoing
      /\ ended \in {{}, {g}} /\ (ended = {} => ~ChildAlive(g)) /\ phase = "work" /\ phase' = "work"
      /\ g \in todo
  BY DEF Resumes, Ends, Inv, settings
<1>2. topGoals = Requested
  BY <1>1 DEF GoalInv
<1>3. goal[g].waitees = {} /\ g \notin awake
  BY TodoOnly
<1>4. Pointers(goal[g]) # {} => g[1] = "res" /\ Failing(g) /\ ~keepGoing
  <2>1. /\ goal[g].inputGoals \subseteq (IF g[1] = "res" THEN Waitable(g, goal[g].pc) ELSE {})
        /\ g[1] = "res" /\ goal[g].inputGoals # goal[g].waitees => ~keepGoing /\ goal[g].nrFailed > 0
    BY <1>1 DEF GoalInv, GoalState
  <2> QED
    BY <1>3, <2>1, WaitableFacts DEF Failing, Pointers
<1>5. Failing(g) => code = "failed"
  BY DEF Failing, Ends
<1>6. EndShape(g, code, ended, dead)
  BY <1>1, EndFacts
<1>7. /\ DOMAIN goal' = (DOMAIN goal \ {g}) \ dead
      /\ \A h \in DOMAIN goal' : goal'[h] = Told(g, code, h)
      /\ dead \subseteq DOMAIN goal \ {g} /\ dead \cap (batch \cup Requested) = {}
      /\ \A h \in DOMAIN goal' : Pointers(goal'[h]) \cap dead = {}
      /\ outcome' = [h \in DOMAIN outcome \cup (topGoals \cap {g}) |->
                         IF h = g /\ g \in topGoals THEN code ELSE outcome[h]]
      /\ topGoals' = IF g \in topGoals /\ code = "failed" /\ ~keepGoing THEN {} ELSE topGoals \ {g}
      /\ awake' = awake \cup Wakes(g, code)
      /\ Destroyed(dead, ended)
  BY <1>6 DEF EndShape
<1>8. /\ DOMAIN child' \subseteq DOMAIN child \ ended
      /\ \A h \in dead \cap DOMAIN child' : h[1] = "path" /\ goal[h].pc = "copy" => h \in joining'
      /\ joining' \subseteq dead
  BY <1>1, <1>7, DestroyedFacts
<1>9. \A h \in DOMAIN goal' : /\ goal'[h].pc = goal[h].pc /\ goal[h].nrFailed \in Nat
                              /\ goal'[h].nrFailed = goal[h].nrFailed
                                   + (IF g \in goal[h].waitees /\ code # "success" THEN 1 ELSE 0)
  <2> SUFFICES ASSUME NEW h \in DOMAIN goal'
               PROVE  /\ goal'[h].pc = goal[h].pc /\ goal[h].nrFailed \in Nat
                      /\ goal'[h].nrFailed = goal[h].nrFailed
                           + (IF g \in goal[h].waitees /\ code # "success" THEN 1 ELSE 0)
    OBVIOUS
  <2>1. PICK r : r = Told(g, code, h)
    OBVIOUS
  <2>2. h \in DOMAIN goal /\ goal'[h] = r
    BY <1>7, <2>1
  <2>3. ToldShape(g, code, h, r)
    BY <1>1, <2>1, <2>2, TellFacts
  <2> QED
    BY <2>2, <2>3 DEF ToldShape
<1>10. Kept(g, code) \subseteq Held(goal, Requested)' /\ Held(goal, Requested)' \subseteq DOMAIN goal'
  <2>1. PICK gs, rs, rest : gs = goal' /\ rs = Requested \ {g} /\ rest = Rest(g, code)
    OBVIOUS
  <2>2. Requested' = rs
    BY <1>2, <1>7, <2>1 DEF Requested
  <2>3. DOMAIN rest = DOMAIN goal \ {g} /\ \A h \in DOMAIN rest : rest[h] = Told(g, code, h)
    BY <2>1 DEF Rest
  <2>4. /\ DOMAIN gs = DOMAIN rest \ dead /\ dead \cap rs = {}
        /\ \A h \in DOMAIN gs : gs[h] = rest[h] /\ Pointers(rest[h]) \cap dead = {}
    <3>1. \A h \in DOMAIN gs : gs[h] = rest[h]
      BY <1>7, <2>1, <2>3
    <3>2. \A h \in DOMAIN gs : Pointers(gs[h]) \cap dead = {}
      BY <1>7, <2>1 DEF Pointers
    <3> QED
      BY <1>7, <2>1, <2>3, <3>1, <3>2
  <2>5. Held(rest, rs) \subseteq Held(gs, rs)
    BY <2>4, HeldRestrict
  <2>6. Held(gs, rs) \subseteq DOMAIN gs
    BY HeldFacts
  <2> QED
    BY <2>1, <2>2, <2>5, <2>6 DEF Kept
<1> QED
  BY <1>1, <1>2, <1>3, <1>4, <1>5, <1>7, <1>8, <1>9, <1>10 DEF EndingShape

(* The goals of other kinds than "path".                                   *)
LEMMA OthersKept ==
  ASSUME GoalInv, NEW g \in DOMAIN goal, NEW code \in Codes,
         g \in Held(goal, Requested) => Pointers(goal[g]) = {},
         NEW h \in Held(goal, Requested), h # g, h[1] # "path"
  PROVE  h \in Kept(g, code)
<1> DEFINE K == {x \in DOMAIN goal : x[1] # "path"}
<1>1. \A x \in DOMAIN goal \ {g} : \A k \in K \ {g} :
         k \in Pointers(goal[x]) => x \in K /\ k \in Pointers(Told(g, code, x))
  BY EndKeepsPointers
<1>2. h \in DOMAIN goal
  BY HeldFacts
<1>3. h \in K
  BY <1>2
<1> HIDE DEF K
<1>4. (K \cap Held(goal, Requested)) \ {g} \subseteq Kept(g, code)
  BY <1>1, KeptHeld
<1> QED
  BY <1>3, <1>4

LEMMA AllKept ==
  ASSUME GoalInv, NEW g \in DOMAIN goal, NEW code \in Codes, Pointers(goal[g]) = {},
         keepGoing \/ Wakes(g, code) = {}, DOMAIN goal \subseteq Held(goal, Requested)
  PROVE  DOMAIN goal \ {g} \subseteq Kept(g, code)
<1> DEFINE K == DOMAIN goal
<1>1. \A x \in DOMAIN goal \ {g} : \A k \in K \ {g} :
         k \in Pointers(goal[x]) => x \in K /\ k \in Pointers(Told(g, code, x))
  BY EndKeepsPointers
<1> HIDE DEF K
<1>4. (K \cap Held(goal, Requested)) \ {g} \subseteq Kept(g, code)
  BY <1>1, KeptHeld
<1> QED
  BY <1>4 DEF K

(* A derivation's or resolution goal that is held and was not requested    *)
(* has someone who stays to tell of its failure.                           *)
LEMMA FailureIsHeard ==
  ASSUME GoalInv, NEW g \in DOMAIN goal, NEW code \in Codes, g[1] \in {"drv", "res"},
         g \in Held(goal, Requested), g \notin Requested
  PROVE  \E x \in Kept(g, code) :
            /\ x \in DOMAIN goal /\ x # g
            /\ \/ g[1] = "res" /\ x[1] = "drv" /\ goal[x].pc = "res" /\ g \in goal[x].waitees
               \/ /\ g[1] = "drv" /\ x[1] = "res" /\ goal[x].pc = "inputs"
                  /\ g \in goal[x].waitees \/ (goal[x].waitees = {} /\ goal[x].nrFailed > 0)
<1> DEFINE K == {x \in DOMAIN goal : x[1] # "path"}
<1>1. \A x \in DOMAIN goal \ {g} : \A k \in K \ {g} :
         k \in Pointers(goal[x]) => x \in K /\ k \in Pointers(Told(g, code, x))
  BY EndKeepsPointers
<1>2. ASSUME NEW x \in DOMAIN goal, g \in Pointers(goal[x])
      PROVE  /\ x # g
             /\ \/ g[1] = "res" /\ x[1] = "drv" /\ goal[x].pc = "res" /\ g \in goal[x].waitees
                \/ /\ g[1] = "drv" /\ x[1] = "res" /\ goal[x].pc = "inputs"
                   /\ g \in goal[x].waitees \/ (goal[x].waitees = {} /\ goal[x].nrFailed > 0)
  <2>1. /\ goal[x].waitees \subseteq Waitable(x, goal[x].pc)
        /\ goal[x].inputGoals \subseteq (IF x[1] = "res" THEN Waitable(x, goal[x].pc) ELSE {})
        /\ x[1] = "res" /\ goal[x].inputGoals # goal[x].waitees => goal[x].waitees = {} /\ goal[x].nrFailed > 0
        /\ x \in Goal
    BY <1>2 DEF GoalInv, GoalState
  <2>2. /\ g \in Waitable(x, goal[x].pc) /\ x[1] \in {"path", "drv", "res", "bld"}
        /\ x[1] # "res" => g \in goal[x].waitees
    BY <1>2, <2>1, GoalFacts DEF Pointers
  <2>3. CASE x[1] \in {"path", "bld"}
    BY <2>2, <2>3, WaitableFacts
  <2>4. CASE x[1] = "drv"
    BY <2>2, <2>4, WaitableFacts
  <2>5. CASE x[1] = "res"
    <3>1. g[1] = "drv" /\ goal[x].pc = "inputs"
      BY <2>2, <2>5, WaitableFacts
    <3> QED
      BY <1>2, <2>1, <2>5, <3>1 DEF Pointers
  <2> QED
    BY <2>2, <2>3, <2>4, <2>5
<1>3. \A x \in DOMAIN goal : g \in Pointers(goal[x]) => x \in K
  BY <1>2
<1> HIDE DEF K
<1>4. \E x \in Kept(g, code) : g \in Pointers(goal[x])
  BY <1>1, <1>3, PointerTo
<1>5. Kept(g, code) \subseteq DOMAIN goal
  <2>1. PICK rest, rs : rest = Rest(g, code) /\ rs = Requested \ {g}
    OBVIOUS
  <2>2. DOMAIN rest \subseteq DOMAIN goal
    BY <2>1 DEF Rest
  <2>3. Held(rest, rs) \subseteq DOMAIN rest
    BY HeldFacts
  <2> QED
    BY <2>1, <2>2, <2>3 DEF Kept
<1> QED
  BY <1>2, <1>4, <1>5

(* When a held goal that must fail does, its dependents are doomed.        *)
LEMMA FailureDooms ==
  ASSUME Inv, NEW g \in Goal, Resumes(g), NEW code, NEW ended, Ends(g, code, ended),
         g \in Held(goal, Requested), Failing(g), ~keepGoing
  PROVE  Doom' /\ (g[1] = "res" => Wakes(g, code) # {})
<1>0. PICK dead : dead = Dead(g, code)
  OBVIOUS
<1>1. EndingShape(g, code, ended, dead)
  BY <1>0, EndingFacts
<1>2. /\ g \in DOMAIN goal /\ code \in Codes /\ code = "failed" /\ topGoals = Requested /\ keepGoing' = keepGoing
      /\ topGoals' = IF g \in topGoals /\ code = "failed" /\ ~keepGoing THEN {} ELSE topGoals \ {g}
      /\ Kept(g, code) \subseteq Held(goal, Requested)' /\ Kept(g, code) \subseteq DOMAIN goal'
      /\ awake' = awake \cup Wakes(g, code) /\ todo' = todo \ {g}
      /\ \A h \in DOMAIN goal' : /\ goal'[h].pc = goal[h].pc /\ goal[h].nrFailed \in Nat
                                 /\ goal'[h].nrFailed = goal[h].nrFailed
                                      + (IF g \in goal[h].waitees /\ code # "success" THEN 1 ELSE 0)
  BY <1>1 DEF EndingShape
<1>3. g[1] \in {"drv", "res"}
  BY DEF Failing
<1>4. CASE g \in Requested
  <2>1. topGoals' = {}
    BY <1>2, <1>4
  <2>2. g[1] = "drv"
    BY <1>3, <1>4, TopAreGoals DEF Requested
  <2> QED
    BY <1>2, <2>1, <2>2 DEF Doom
<1>5. CASE g \notin Requested
  <2>1. PICK x \in Kept(g, code) :
            /\ x \in DOMAIN goal /\ x # g
            /\ \/ g[1] = "res" /\ x[1] = "drv" /\ goal[x].pc = "res" /\ g \in goal[x].waitees
               \/ /\ g[1] = "drv" /\ x[1] = "res" /\ goal[x].pc = "inputs"
                  /\ g \in goal[x].waitees \/ (goal[x].waitees = {} /\ goal[x].nrFailed > 0)
    BY <1>2, <1>3, <1>5, FailureIsHeard DEF Inv
  <2>2. x \in Held(goal, Requested)' /\ x \in DOMAIN goal'
    BY <1>2
  <2>3. x \in awake' \cup todo' /\ (g[1] = "res" => x \in Wakes(g, code))
    <3>1. CASE g \in goal[x].waitees
      <4>1. x \in Wakes(g, code)
        BY <1>2, <2>1, <3>1 DEF Wakes
      <4> QED
        BY <1>2, <4>1
    <3>2. CASE g \notin goal[x].waitees
      <4>1. x[1] = "res" /\ goal[x].pc = "inputs" /\ goal[x].waitees = {} /\ g[1] = "drv"
        BY <2>1, <3>2
      <4>2. OneSource(x)
        BY <2>1 DEF Inv, WakeInv, Resumes
      <4>3. /\ x \notin wantingToBuild /\ x \notin wantingToSubstitute
            /\ x \notin waitingForAWhile /\ x \notin waitingForCompletion
        BY <4>1 DEF Inv, QueueInv
      <4>4. x \in awake \/ x \in todo
        BY <4>1, <4>2, <4>3 DEF OneSource, Sourced
      <4> QED
        BY <1>2, <2>1, <4>1, <4>4
    <3> QED
      BY <3>1, <3>2
  <2>4. goal'[x].nrFailed > 0 /\ goal'[x].pc = goal[x].pc
    <3>1. /\ goal'[x].pc = goal[x].pc /\ goal[x].nrFailed \in Nat
          /\ goal'[x].nrFailed = goal[x].nrFailed + (IF g \in goal[x].waitees /\ code # "success" THEN 1 ELSE 0)
      BY <1>2, <2>2
    <3> QED
      BY <1>2, <2>1, <3>1
  <2>5. Failing(x)'
    BY <2>1, <2>4 DEF Failing
  <2>6. Doomed(x)'
    BY <2>2, <2>3, <2>5 DEF Doomed
  <2> QED
    BY <1>2, <2>2, <2>3, <2>6 DEF Doom
<1> QED
  BY <1>4, <1>5

LEMMA EndsHeld ==
  ASSUME Inv, HeldInv, NEW g \in Goal, Resumes(g), NEW code, NEW ended, Ends(g, code, ended)
  PROVE  HeldInv'
<1>0. PICK dead : dead = Dead(g, code)
  OBVIOUS
<1>1. EndingShape(g, code, ended, dead)
  BY <1>0, EndingFacts
<1>2. GoalInv /\ g \in DOMAIN goal /\ code \in Codes
  BY <1>1 DEF Inv, EndingShape
<1>3. /\ g \in todo /\ todo' = todo \ {g} /\ joining = {} /\ topGoals # {} /\ phase = "work" /\ phase' = "work"
      /\ keepGoing' = keepGoing /\ goal[g].waitees = {} /\ g \notin awake
      /\ awake' = awake \cup Wakes(g, code)
      /\ Pointers(goal[g]) # {} => g[1] = "res" /\ Failing(g) /\ ~keepGoing
  BY <1>1 DEF EndingShape
<1>4. /\ Kept(g, code) \subseteq Held(goal, Requested)' /\ Kept(g, code) \subseteq DOMAIN goal'
      /\ dead \cap Kept(g, code) = {} /\ dead \subseteq DOMAIN goal
      /\ DOMAIN goal' = (DOMAIN goal \ {g}) \ dead
      /\ \A h \in DOMAIN goal' : /\ goal'[h].pc = goal[h].pc /\ goal[h].nrFailed \in Nat
                                 /\ goal'[h].nrFailed = goal[h].nrFailed
                                      + (IF g \in goal[h].waitees /\ code # "success" THEN 1 ELSE 0)
  BY <1>1 DEF EndingShape
<1>5. /\ DOMAIN child' \subseteq DOMAIN child \ ended
      /\ \A h \in dead \cap DOMAIN child' : h[1] = "path" /\ goal[h].pc = "copy" => h \in joining'
      /\ joining' \subseteq dead /\ (ended = {} => ~ChildAlive(g)) /\ ended \in {{}, {g}}
  BY <1>1 DEF EndingShape
<1>6. ASSUME NEW h, ChildAlive(h), h # g, h \notin dead PROVE ChildAlive(h)'
  BY <1>4, <1>6 DEF ChildAlive
<1>7. Doom => Doom'
  <2> SUFFICES ASSUME Doom PROVE Doom'
    OBVIOUS
  <2>1. ~keepGoing
    BY DEF Doom
  <2>2. PICK d \in DOMAIN goal : Doomed(d)
    BY <1>3 DEF Doom
  <2>3. CASE d = g \/ (g \in Held(goal, Requested) /\ Pointers(goal[g]) # {})
    <3>1. g \in Held(goal, Requested) /\ Failing(g)
      BY <1>3, <2>2, <2>3 DEF Doomed
    <3> QED
      BY <2>1, <3>1, FailureDooms
  <2>4. CASE d # g /\ (g \in Held(goal, Requested) => Pointers(goal[g]) = {})
    <3>1. d \in Held(goal, Requested) /\ d \in awake \cup todo /\ Failing(d)
      BY <2>2 DEF Doomed
    <3>2. d[1] # "path"
      BY <3>1 DEF Failing
    <3>3. d \in Kept(g, code)
      BY <1>2, <2>4, <3>1, <3>2, OthersKept
    <3>4. d \in Held(goal, Requested)' /\ d \in DOMAIN goal' /\ d \in awake' \cup todo'
      BY <1>3, <1>4, <2>4, <3>1, <3>3
    <3>5. goal'[d].pc = goal[d].pc /\ goal'[d].nrFailed > 0
      <4>1. /\ goal'[d].pc = goal[d].pc /\ goal[d].nrFailed \in Nat
            /\ goal'[d].nrFailed = goal[d].nrFailed + (IF g \in goal[d].waitees /\ code # "success" THEN 1 ELSE 0)
        BY <1>4, <3>4
      <4>2. goal[d].nrFailed > 0
        BY <3>1 DEF Failing
      <4> QED
        BY <4>1, <4>2
    <3>6. Failing(d)'
      BY <3>1, <3>5 DEF Failing
    <3>7. Doomed(d)'
      BY <3>4, <3>6 DEF Doomed
    <3> QED
      BY <1>3, <2>1, <3>4, <3>7 DEF Doom
  <2> QED
    BY <2>3, <2>4
<1>8. ASSUME ~Doom'
      PROVE  /\ \A h \in DOMAIN goal' : h[1] # "path" => h \in Held(goal, Requested)'
             /\ \A h \in DOMAIN child' : h \in joining' \/ ChildAlive(h)'
  <2>1. /\ \A h \in DOMAIN goal : h[1] # "path" => h \in Held(goal, Requested)
        /\ \A h \in DOMAIN child : ChildAlive(h)
    BY <1>3, <1>7, <1>8 DEF HeldInv
  <2>2. Pointers(goal[g]) = {}
    <3>1. ASSUME Pointers(goal[g]) # {} PROVE FALSE
      <4>1. g \in Held(goal, Requested) /\ Failing(g) /\ ~keepGoing
        BY <1>2, <1>3, <2>1, <3>1
      <4> QED
        BY <1>8, <4>1, FailureDooms
    <3> QED
      BY <3>1
  <2>3. ASSUME NEW h \in DOMAIN goal, h # g, h[1] # "path" PROVE h \in Kept(g, code)
    BY <1>2, <2>1, <2>2, <2>3, OthersKept
  <2>4. \A h \in DOMAIN goal' : h[1] # "path" => h \in Held(goal, Requested)'
    BY <1>4, <2>3
  <2>5. ASSUME NEW h \in DOMAIN child' PROVE h \in joining' \/ ChildAlive(h)'
    <3>1. ChildAlive(h) /\ h # g
      BY <1>5, <2>1
    <3>2. h \in dead => h[1] = "path" /\ goal[h].pc = "copy"
      BY <1>4, <2>3, <3>1 DEF ChildAlive
    <3> QED
      BY <1>5, <1>6, <3>1, <3>2
  <2> QED
    BY <2>4, <2>5
<1>9. ASSUME awake' = {} PROVE DOMAIN goal' \subseteq Held(goal, Requested)'
  <2>1. awake = {} /\ Wakes(g, code) = {}
    BY <1>3, <1>9
  <2>2. DOMAIN goal \subseteq Held(goal, Requested)
    BY <1>3, <2>1 DEF HeldInv
  <2>3. Pointers(goal[g]) = {}
    BY <1>2, <1>3, <2>1, <2>2, FailureDooms
  <2>4. DOMAIN goal \ {g} \subseteq Kept(g, code)
    BY <1>2, <2>1, <2>2, <2>3, AllKept
  <2> QED
    BY <1>4, <2>4
<1>10. ASSUME keepGoing
       PROVE  /\ DOMAIN goal' \subseteq Held(goal, Requested)'
              /\ awake' \subseteq DOMAIN goal' /\ joining' = {}
              /\ \A h \in DOMAIN child' : ChildAlive(h)'
  <2>1. /\ DOMAIN goal \subseteq Held(goal, Requested) /\ awake \subseteq DOMAIN goal
        /\ \A h \in DOMAIN child : ChildAlive(h)
    BY <1>3, <1>10 DEF HeldInv
  <2>2. DOMAIN goal \ {g} \subseteq Kept(g, code)
    BY <1>2, <1>3, <1>10, <2>1, AllKept
  <2>3. dead = {} /\ DOMAIN goal' = DOMAIN goal \ {g}
    <3>1. g \notin dead
      BY <1>0 DEF Dead, Rest
    <3> QED
      BY <1>4, <2>2, <3>1
  <2>4. g \notin Wakes(g, code) /\ Wakes(g, code) \subseteq DOMAIN goal
    BY <1>3 DEF Wakes
  <2>5. ASSUME NEW h \in DOMAIN child' PROVE ChildAlive(h)'
    <3>1. ChildAlive(h) /\ h # g
      BY <1>5, <2>1
    <3> QED
      BY <1>6, <2>3, <3>1
  <2> QED
    BY <1>3, <1>4, <1>5, <2>1, <2>2, <2>3, <2>4, <2>5
<1> QED
  BY <1>3, <1>8, <1>9, <1>10 DEF HeldInv

-----------------------------------------------------------------------------
(* A worker that goes to sleep has given away every free slot.             *)

LEMMA NoneWoken ==
  ASSUME NEW waiters, IsFiniteSet(waiters), NEW running \in Nat, NEW limit \in Nat, running <= limit,
         {} \in SlotWaiters(waiters, running, limit), waiters # {}
  PROVE  running = limit
<1> DEFINE c == Cardinality(waiters)
           f == IF running < limit THEN limit - running ELSE 0
<1>1. c \in Nat /\ c # 0
  BY FS_EmptySet, FS_CardinalityType
<1>2. f \in Nat
  OBVIOUS
<1>3. Cardinality({}) = Min({c, f})
  BY DEF SlotWaiters
<1> HIDE DEF c, f
<1>4. \E x \in {c, f} : \A y \in {c, f} : x <= y
  <2>1. CASE c <= f
    BY <1>1, <1>2, <2>1
  <2>2. CASE f <= c
    BY <1>1, <1>2, <2>2
  <2> QED
    BY <1>1, <1>2, <2>1, <2>2
<1>5. Min({c, f}) \in {c, f}
  BY <1>4 DEF Min
<1>6. f = 0
  BY <1>1, <1>3, <1>5, FS_EmptySet
<1> QED
  BY <1>6 DEF f

LEMMA PassesIdle ==
  ASSUME Inv, HeldInv, NEW s, NEW b, NEW dead, NEW woken, Passes(s, b, dead, woken)
  PROVE  IdleInv'
<1>1. phase' = "end" => topGoals' = {}
  BY DEF Passes
<1>2. ASSUME phase' = "asleep"
      PROVE  /\ wantingToBuild' # {} => nrLocalBuilds' = MaxBuildJobs
             /\ wantingToSubstitute' # {} => nrSubstitutions' = SubstitutionLimit
  <2>1. /\ awake = {} /\ s = {} /\ b = {} /\ topGoals # {} /\ phase = "work" /\ Destroyed(dead, {})
        /\ dead = DOMAIN goal \ Held(goal, Requested)
        /\ s \in SlotWaiters(wantingToSubstitute, nrSubstitutions, SubstitutionLimit)
        /\ b \in SlotWaiters(wantingToBuild, nrLocalBuilds, MaxBuildJobs)
        /\ wantingToSubstitute' = wantingToSubstitute \ (s \cup dead)
        /\ wantingToBuild' = wantingToBuild \ (b \cup dead)
    BY <1>2 DEF Passes
  <2>2. dead = {}
    BY <2>1 DEF HeldInv
  <2>3. /\ Counted' /\ DOMAIN child' = DOMAIN child /\ \A h \in DOMAIN child' : child'[h] = child[h]
    BY <2>1, <2>2, DestroyedFacts DEF Inv
  <2>4. SlotsTaken("bld")' = SlotsTaken("bld") /\ SlotsTaken("path")' = SlotsTaken("path")
    BY <2>3 DEF SlotsTaken
  <2>5. nrLocalBuilds' = nrLocalBuilds /\ nrSubstitutions' = nrSubstitutions
    BY <2>3, <2>4 DEF Counted, Inv, SlotInv
  <2>6. /\ nrLocalBuilds \in Nat /\ nrLocalBuilds <= MaxBuildJobs
        /\ nrSubstitutions \in Nat /\ nrSubstitutions <= SubstitutionLimit
    <3>1. IsFiniteSet(SlotsTaken("bld")) /\ IsFiniteSet(SlotsTaken("path"))
      BY SlotsFinite DEF Inv
    <3> QED
      BY <3>1, FS_CardinalityType DEF Inv, SlotInv
  <2>7. IsFiniteSet(wantingToBuild) /\ IsFiniteSet(wantingToSubstitute)
    BY DEF Inv, QueueInv
  <2>8. MaxBuildJobs \in Nat /\ SubstitutionLimit \in Nat
    BY Limits
  <2>9. wantingToBuild # {} => nrLocalBuilds = MaxBuildJobs
    BY <2>1, <2>6, <2>7, <2>8, NoneWoken
  <2>10. wantingToSubstitute # {} => nrSubstitutions = SubstitutionLimit
    BY <2>1, <2>6, <2>7, <2>8, NoneWoken
  <2> QED
    BY <2>1, <2>5, <2>9, <2>10
<1> QED
  BY <1>1, <1>2 DEF IdleInv

-----------------------------------------------------------------------------
(* The inductive invariant                                                 *)

IInv == Inv /\ HeldInv /\ IdleInv

LEMMA InitIInv == Init => IInv
<1> SUFFICES ASSUME Init PROVE IInv
  OBVIOUS
<1>1. PICK r : r = Created(FALSE)
  OBVIOUS
<1>2. /\ goal = [g \in Top |-> r] /\ DOMAIN goal = Top /\ outcome = [g \in {} |-> "success"]
      /\ DOMAIN outcome = {} /\ topGoals = Top /\ awake = {} /\ batch = Top /\ todo = Top
      /\ wantingToBuild = {} /\ wantingToSubstitute = {}
      /\ waitingForAWhile = {} /\ waitingForCompletion = {} /\ wakeupQueue = {}
      /\ DOMAIN child = {} /\ nrLocalBuilds = 0 /\ nrSubstitutions = 0
      /\ joining = {} /\ lock = [p \in Path |-> Free] /\ valid = {} /\ phase = "work" /\ delays = 0
      /\ keepGoing \in BOOLEAN /\ fallback \in BOOLEAN
  BY <1>1 DEF Init
<1>3. Requested = Top
  BY <1>2 DEF Requested
<1>4. \A g \in Top : g \in Goal /\ g[1] \in {"drv", "path"}
  BY TopAreGoals DEF Goal
<1>5. \A g \in Top : goal[g] = r
  BY <1>2
<1>6. /\ r.pc = "init" /\ r.waitees = {} /\ r.inputGoals = {} /\ r.nrFailed = 0 /\ r.reply = "none"
      /\ Pointers(r) = {}
  BY <1>1 DEF Created, Pointers
<1>7. \A g \in Top : r \in GoalState(g)
  BY <1>1, <1>4, CreatedFacts
<1>8. GoalInv
  BY <1>2, <1>3, <1>4, <1>5, <1>6, <1>7 DEF GoalInv
<1>9. QueueInv
  BY <1>2, <1>4, <1>5, <1>6, FS_EmptySet DEF QueueInv
<1>10. SlotInv
  <2>1. SlotsTaken("bld") = {} /\ SlotsTaken("path") = {}
    BY <1>2 DEF SlotsTaken
  <2>2. Cardinality({}) = 0 /\ IsFiniteSet({})
    BY FS_EmptySet
  <2>3. nrLocalBuilds = Cardinality(SlotsTaken("bld")) /\ nrSubstitutions = Cardinality(SlotsTaken("path"))
    BY <1>2, <2>1, <2>2
  <2>4. nrLocalBuilds <= MaxBuildJobs /\ nrSubstitutions <= SubstitutionLimit
    BY <1>2, Limits
  <2>5. \A g \in DOMAIN goal : goal[g].pc \notin {"build", "remote", "post"}
    BY <1>2, <1>5, <1>6
  <2> QED
    BY <1>2, <2>2, <2>3, <2>4, <2>5 DEF SlotInv
<1>11. StoreInv
  BY <1>2, SchedulerConstants DEF StoreInv
<1>12. WakeInv
  <2>1. ASSUME NEW g \in Top PROVE OneSource(g)
    <3>1. Sourced(g, "todo")
      BY <1>2 DEF Sourced
    <3>2. ASSUME NEW t \in Sources, Sourced(g, t) PROVE t = "todo"
      BY <1>2, <1>5, <1>6, <3>2 DEF Sourced
    <3> QED
      BY <3>1, <3>2 DEF OneSource, Sources
  <2> QED
    BY <1>2, <2>1 DEF WakeInv
<1>13. ReadyInv
  <2>1. ASSUME NEW g \in Top PROVE ReadyAs(g, r)
    <3>1. Waitable(g, r.pc) = {}
      BY <1>4, <1>6, WaitableFacts
    <3> QED
      BY <1>4, <1>6, <3>1 DEF ReadyAs
  <2> QED
    BY <1>2, <1>5, <2>1 DEF ReadyInv
<1>14. HeldInv
  <2>1. DOMAIN goal \subseteq Held(goal, Requested)
    BY <1>2, <1>3, HeldClosed
  <2> QED
    BY <1>2, <2>1 DEF HeldInv
<1>15. IdleInv
  BY <1>2 DEF IdleInv
<1> QED
  BY <1>8, <1>9, <1>10, <1>11, <1>12, <1>13, <1>14, <1>15 DEF IInv, Inv

LEMMA WorkIInv ==
  ASSUME IInv, NEW g \in Goal, Work(g)
  PROVE  IInv'
<1>0. Inv /\ HeldInv
  BY DEF IInv
<1>1. Step(g)
  BY <1>0, WorkStep
<1>2. Resumes(g)
  BY <1>1 DEF Step
<1>3. CASE \E r : Suspends(g, r)
  <2>1. PICK r : Suspends(g, r)
    BY <1>3
  <2>2. IdleInv'
    BY <1>2, <2>1 DEF Suspends, Resumes, IdleInv
  <2> QED
    BY <1>0, <1>2, <2>1, <2>2, SuspendsInv, SuspendsHeld DEF IInv
<1>4. CASE \E r, W, required : Awaits(g, r, W, required)
  <2>1. PICK r, W, required : Awaits(g, r, W, required)
    BY <1>4
  <2>2. IdleInv'
    BY <1>2, <2>1 DEF Awaits, Resumes, IdleInv
  <2> QED
    BY <1>0, <1>2, <2>1, <2>2, AwaitsInv, AwaitsHeld DEF IInv
<1>5. CASE \E code, ended : Ends(g, code, ended)
  <2>1. PICK code, ended : Ends(g, code, ended)
    BY <1>5
  <2>2. IdleInv'
    BY <1>2, <2>1 DEF Ends, Resumes, IdleInv
  <2> QED
    BY <1>0, <1>2, <2>1, <2>2, EndsInv, EndsHeld DEF IInv
<1>6. CASE Throw /\ UNCHANGED delays
  <2>1. Inv'
    BY <1>0, <1>2, <1>6, ThrowInv
  <2>2. HeldInv' /\ IdleInv'
    BY <1>6 DEF Throw, HeldInv, IdleInv
  <2> QED
    BY <2>1, <2>2 DEF IInv
<1> QED
  BY <1>1, <1>3, <1>4, <1>5, <1>6 DEF Step

LEMMA LoopIInv ==
  ASSUME IInv, EndPass \/ WaitForInput
  PROVE  IInv'
<1>0. Inv /\ HeldInv
  BY DEF IInv
<1>1. CASE EndPass
  <2>1. PICK s, b, dead, woken : Passes(s, b, dead, woken)
    BY <1>1, EndPassShape
  <2> QED
    BY <1>0, <2>1, PassesInv, PassesHeld, PassesIdle DEF IInv
<1>2. CASE WaitForInput
  <2>1. PICK late, tick, woken : Polls(late, tick, woken)
    BY <1>2, WaitForInputShape
  <2>2. Inv'
    BY <1>0, <2>1, PollsInv
  <2>3. DOMAIN goal' = DOMAIN goal /\ \A h \in DOMAIN goal :
           h \in late \/ goal'[h] = goal[h]
    BY <2>1 DEF Polls
  <2>4. ASSUME NEW h \in DOMAIN goal
        PROVE  /\ Pointers(goal'[h]) = Pointers(goal[h])
               /\ goal'[h].pc = goal[h].pc /\ goal'[h].nrFailed = goal[h].nrFailed
    <3>1. CASE h \notin late
      BY <2>3, <3>1
    <3>2. CASE h \in late
      <4>1. goal'[h] = [goal[h] EXCEPT !.reply = "late"]
        BY <2>1, <3>2 DEF Polls
      <4>2. goal[h] \in [pc : Pcs(h[1]), waitees : SUBSET Goal, inputGoals : SUBSET Goal, nrFailed : Nat,
               nrNoSubstituters : Nat, tried : 0 .. NrSubstituters, pathRequired : BOOLEAN,
               substituterFailed : BOOLEAN, lastException : BOOLEAN, reply : Replies]
        BY <1>0 DEF Inv, GoalInv, GoalState
      <4> QED
        BY <4>1, <4>2 DEF Pointers
    <3> QED
      BY <3>1, <3>2
  <2>5. /\ UNCHANGED <<keepGoing, outcome, topGoals, joining, child>>
        /\ phase = "asleep" /\ phase' = "work" /\ awake' = {}
    BY <2>1 DEF Polls
  <2>6. HeldInv'
    BY <1>0, <2>3, <2>4, <2>5, SamePointersHeld
  <2> QED
    BY <2>2, <2>5, <2>6 DEF IInv, IdleInv
<1> QED
  BY <1>1, <1>2

LEMMA BesideIInv ==
  ASSUME IInv, NEW g \in Goal, Joined(g) \/ SubstituterAnswers(g) \/ CopyEnds(g) \/ ChildEnds(g)
  PROVE  IInv'
<1>0. Inv /\ HeldInv /\ IdleInv
  BY DEF IInv
<1>1. CASE Joined(g)
  <2>1. /\ UNCHANGED <<keepGoing, goal, outcome, topGoals, awake, todo, phase>>
        /\ ChildTerminated({g}) /\ joining' = joining \ {g} /\ g \in joining
    BY <1>1 DEF Joined, settings
  <2>2. DOMAIN child' = DOMAIN child \ {g}
    BY <1>0, <2>1, TerminatedCounts DEF Inv
  <2>3. HeldInv'
    BY <1>0, <2>1, <2>2, SamePointersHeld
  <2>4. IdleInv'
    BY <1>0, <2>1 DEF IdleInv, Inv, QueueInv
  <2> QED
    BY <1>0, <1>1, <2>3, <2>4, JoinedInv DEF IInv
<1>2. CASE SubstituterAnswers(g) \/ CopyEnds(g) \/ ChildEnds(g)
  <2>1. PICK reply : Replies1(g, reply)
    BY <1>0, <1>2, ReplyShape
  <2>2. /\ g \in DOMAIN goal /\ goal' = [goal EXCEPT ![g].reply = reply]
        /\ UNCHANGED <<keepGoing, outcome, topGoals, awake, todo, phase, joining>>
        /\ UNCHANGED <<wantingToBuild, wantingToSubstitute, child, nrLocalBuilds, nrSubstitutions>>
    BY <2>1 DEF Replies1, Reply, settings, waiting, slots
  <2>3. ASSUME NEW h \in DOMAIN goal
        PROVE  /\ Pointers(goal'[h]) = Pointers(goal[h])
               /\ goal'[h].pc = goal[h].pc /\ goal'[h].nrFailed = goal[h].nrFailed
    <3>1. CASE h # g
      BY <2>2, <3>1
    <3>2. CASE h = g
      <4>1. goal'[h] = [goal[h] EXCEPT !.reply = reply]
        BY <2>2, <3>2
      <4>2. goal[h] \in [pc : Pcs(h[1]), waitees : SUBSET Goal, inputGoals : SUBSET Goal, nrFailed : Nat,
               nrNoSubstituters : Nat, tried : 0 .. NrSubstituters, pathRequired : BOOLEAN,
               substituterFailed : BOOLEAN, lastException : BOOLEAN, reply : Replies]
        BY <1>0 DEF Inv, GoalInv, GoalState
      <4> QED
        BY <4>1, <4>2 DEF Pointers
    <3> QED
      BY <3>1, <3>2
  <2>4. DOMAIN goal' = DOMAIN goal
    BY <2>2
  <2>5. HeldInv'
    BY <1>0, <2>2, <2>3, <2>4, SamePointersHeld
  <2>6. IdleInv'
    BY <1>0, <2>2 DEF IdleInv
  <2>7. Inv'
    BY <1>0, <2>1, ReplyInv
  <2> QED
    BY <2>5, <2>6, <2>7 DEF IInv
<1> QED
  BY <1>1, <1>2

LEMMA OthersIInv ==
  ASSUME IInv, (\E p \in Drv : OtherLocks(p) \/ OtherUnlocks(p)) \/ UNCHANGED vars
  PROVE  IInv'
<1>0. Inv /\ HeldInv /\ IdleInv
  BY DEF IInv
<1>1. /\ UNCHANGED <<keepGoing, fallback, goal, outcome, topGoals, awake, batch, todo, wantingToBuild,
                     wantingToSubstitute, waitingForAWhile, waitingForCompletion, wakeupQueue>>
      /\ UNCHANGED <<child, nrLocalBuilds, nrSubstitutions, joining, phase>>
  BY DEF OtherLocks, OtherUnlocks, vars, settings, waiting, slots
<1>2. StoreInv' /\ valid \subseteq valid'
  <2>1. lock \in [Path -> Goal \cup {Free, Other}] /\ valid \subseteq Path /\ delays \in 0 .. MaxDelays
    BY <1>0 DEF Inv, StoreInv
  <2>2. ASSUME NEW p \in Drv, OtherLocks(p) PROVE StoreInv' /\ valid \subseteq valid'
    <3>1. lock' \in [Path -> Goal \cup {Free, Other}] /\ valid' = valid
      BY <2>1, <2>2 DEF OtherLocks
    <3>2. delays' \in 0 .. MaxDelays
      BY <2>1, <2>2, SchedulerConstants DEF OtherLocks
    <3> QED
      BY <2>1, <3>1, <3>2 DEF StoreInv
  <2>3. ASSUME NEW p \in Drv, OtherUnlocks(p) PROVE StoreInv' /\ valid \subseteq valid'
    <3>1. lock' \in [Path -> Goal \cup {Free, Other}]
      BY <2>1, <2>3 DEF OtherUnlocks
    <3>2. valid' \subseteq Path /\ valid \subseteq valid' /\ delays' = delays
      BY <2>1, <2>3, SchedulerConstants DEF OtherUnlocks
    <3> QED
      BY <2>1, <3>1, <3>2 DEF StoreInv
  <2>4. CASE UNCHANGED vars
    BY <2>1, <2>4 DEF vars, StoreInv
  <2> QED
    BY <2>2, <2>3, <2>4
<1>3. Inv'
  BY <1>0, <1>1, <1>2, OutsideInv
<1>4. HeldInv'
  BY <1>0, <1>1, SamePointersHeld
<1>5. IdleInv'
  BY <1>0, <1>1 DEF IdleInv
<1> QED
  BY <1>3, <1>4, <1>5 DEF IInv

LEMMA NextIInv ==
  ASSUME IInv, [Next]_vars
  PROVE  IInv'
BY WorkIInv, LoopIInv, BesideIInv, OthersIInv DEF Next

-----------------------------------------------------------------------------
(* A sleeping worker has something to wait for.                            *)

(* References and inputs lead to no cycle: a store path's name is computed *)
(* from its references', and a derivation's from its inputs'.              *)
Acyclic(refRank, inputRank) ==
  /\ refRank \in [Path -> Nat] /\ \A p \in Path : \A q \in Refs[p] \ {p} : refRank[q] < refRank[p]
  /\ inputRank \in [Drv -> Nat] /\ \A d \in Drv : \A e \in Inputs[d] : inputRank[e] < inputRank[d]

LEMMA LeastGoal ==
  ASSUME NEW S, S # {}, NEW rank, \A g \in S : rank[g[2]] \in Nat
  PROVE  \E g \in S : \A h \in S : rank[g[2]] <= rank[h[2]]
<1> DEFINE T == {rank[g[2]] : g \in S}
<1>1. T \in SUBSET Nat /\ T # {}
  OBVIOUS
<1> HIDE DEF T
<1>2. IsWellFoundedOn(OpToRel(<, Nat), Nat)
  BY NatLessThanWellFounded
<1>3. PICK n \in T : \A m \in T : ~(<<m, n>> \in OpToRel(<, Nat))
  BY <1>1, <1>2, WFMin
<1>4. \A m \in T : n <= m
  <2>1. \A m \in T : ~(m < n) /\ m \in Nat /\ n \in Nat
    BY <1>1, <1>3 DEF OpToRel
  <2> QED
    BY <2>1
<1> QED
  BY <1>4 DEF T

LEMMA SleepsForSomething ==
  ASSUME IInv, NEW refRank, NEW inputRank, Acyclic(refRank, inputRank), phase = "asleep"
  PROVE  DOMAIN child \cup waitingForAWhile \cup waitingForCompletion # {}
<1> SUFFICES ASSUME DOMAIN child = {}, waitingForAWhile = {}, waitingForCompletion = {} PROVE FALSE
  OBVIOUS
<1>0. /\ GoalInv /\ SlotInv /\ WakeInv /\ IdleInv /\ awake = {} /\ todo = {} /\ topGoals # {}
  BY DEF IInv, Inv, QueueInv
<1>1. wantingToBuild = {} /\ wantingToSubstitute = {}
  <2>1. SlotsTaken("bld") = {} /\ SlotsTaken("path") = {}
    BY DEF SlotsTaken
  <2>2. Cardinality({}) = 0
    BY FS_EmptySet
  <2>3. nrLocalBuilds = 0 /\ nrSubstitutions = 0
    BY <1>0, <2>1, <2>2 DEF SlotInv
  <2> QED
    BY <1>0, <2>3, Limits DEF IdleInv
<1>2. ASSUME NEW g \in DOMAIN goal
      PROVE  /\ g \in Goal /\ goal[g].waitees # {} /\ goal[g].waitees \subseteq DOMAIN goal
             /\ goal[g].waitees \subseteq Waitable(g, goal[g].pc)
  <2>1. OneSource(g)
    BY <1>0 DEF WakeInv
  <2>2. goal[g].waitees # {}
    BY <1>0, <1>1, <2>1 DEF OneSource, Sourced
  <2> QED
    BY <1>0, <2>2 DEF GoalInv, GoalState, Pointers
<1>3. \A g \in DOMAIN goal : g[1] # "path"
  <2> DEFINE S == {g \in DOMAIN goal : g[1] = "path"}
  <2> SUFFICES ASSUME S # {} PROVE FALSE
    OBVIOUS
  <2>1. \A g \in S : g[2] \in Path /\ refRank[g[2]] \in Nat
    BY <1>2, GoalFacts DEF Acyclic
  <2>2. PICK g \in S : \A h \in S : refRank[g[2]] <= refRank[h[2]]
    <3> HIDE DEF S
    <3> QED
      BY <2>1, LeastGoal
  <2>3. PICK h \in goal[g].waitees : h \in DOMAIN goal /\ h \in Waitable(g, goal[g].pc)
    BY <1>2
  <2>4. h \in {<<"path", p>> : p \in Refs[g[2]] \ {g[2]}}
    BY <2>3, WaitableFacts
  <2>5. h[1] = "path" /\ h[2] \in Refs[g[2]] \ {g[2]}
    BY <2>4
  <2>6. h \in S /\ refRank[h[2]] < refRank[g[2]]
    BY <2>1, <2>3, <2>5 DEF Acyclic
  <2>7. refRank[g[2]] <= refRank[h[2]] /\ refRank[g[2]] \in Nat /\ refRank[h[2]] \in Nat
    BY <2>1, <2>2, <2>6
  <2> QED
    BY <2>6, <2>7
<1>4. \A g \in DOMAIN goal : g[1] # "bld"
  <2> SUFFICES ASSUME NEW g \in DOMAIN goal, g[1] = "bld" PROVE FALSE
    OBVIOUS
  <2>1. PICK h \in goal[g].waitees : h \in DOMAIN goal /\ h \in Waitable(g, goal[g].pc)
    BY <1>2
  <2>2. h[1] = "path"
    BY <2>1, WaitableFacts
  <2> QED
    BY <1>3, <2>1, <2>2
<1>5. ASSUME NEW g \in DOMAIN goal, g[1] = "res"
      PROVE  \E h \in DOMAIN goal : h[1] = "drv" /\ h[2] \in Inputs[g[2]]
  <2>1. PICK h \in goal[g].waitees : h \in DOMAIN goal /\ h \in Waitable(g, goal[g].pc)
    BY <1>2
  <2>2. h \in {"drv"} \X Inputs[g[2]]
    BY <1>5, <2>1, WaitableFacts
  <2> QED
    BY <2>1, <2>2
<1>6. ASSUME NEW g \in DOMAIN goal, g[1] = "drv"
      PROVE  \E h \in DOMAIN goal : h[1] = "drv" /\ h[2] \in Inputs[g[2]]
  <2>1. PICK h \in goal[g].waitees : h \in DOMAIN goal /\ h \in Waitable(g, goal[g].pc)
    BY <1>2
  <2>2. h[1] # "path" /\ h[1] # "bld"
    BY <1>3, <1>4, <2>1
  <2>3. h[1] = "res" /\ h[2] = g[2]
    BY <1>6, <2>1, <2>2, WaitableFacts
  <2> QED
    BY <1>5, <2>1, <2>3
<1> DEFINE S == {g \in DOMAIN goal : g[1] = "drv"}
<1>7. S # {}
  <2>1. PICK g : g \in DOMAIN goal
    BY <1>0 DEF GoalInv
  <2>2. g[1] \in {"drv", "res"}
    BY <1>2, <1>3, <1>4, <2>1, GoalFacts
  <2> QED
    BY <1>5, <2>1, <2>2
<1>8. \A g \in S : g[2] \in Drv /\ inputRank[g[2]] \in Nat
  BY <1>2, GoalFacts DEF Acyclic
<1>9. PICK g \in S : \A h \in S : inputRank[g[2]] <= inputRank[h[2]]
  <2> HIDE DEF S
  <2> QED
    BY <1>7, <1>8, LeastGoal
<1>10. PICK h \in S : h[2] \in Inputs[g[2]]
  BY <1>6
<1>11. inputRank[h[2]] < inputRank[g[2]]
  BY <1>8, <1>10 DEF Acyclic
<1>12. inputRank[g[2]] <= inputRank[h[2]] /\ inputRank[g[2]] \in Nat /\ inputRank[h[2]] \in Nat
  BY <1>8, <1>9, <1>10
<1> QED
  BY <1>11, <1>12

LEMMA SourcesCounted ==
  ASSUME NEW g, OneSource(g)
  PROVE  Cardinality(WakeSources(g)) = 1
<1>1. ASSUME NEW s \in Sources PROVE s \in WakeSources(g) <=> Sourced(g, s)
  <2>1. CASE s = "awake" \/ s = "todo"
    BY <2>1 DEF WakeSources, Sourced
  <2>2. CASE s = "wantingToBuild" \/ s = "wantingToSubstitute"
    BY <2>2 DEF WakeSources, Sourced
  <2>3. CASE s = "aWhile" \/ s = "completion"
    BY <2>3 DEF WakeSources, Sourced
  <2>4. CASE s = "waitees" \/ s = "child"
    BY <2>4 DEF WakeSources, Sourced
  <2> QED
    BY <2>1, <2>2, <2>3, <2>4 DEF Sources
<1>2. WakeSources(g) \subseteq Sources
  BY DEF WakeSources, Sources
<1>3. PICK s \in Sources : Sourced(g, s) /\ \A t \in Sources : Sourced(g, t) => t = s
  BY DEF OneSource
<1>4. WakeSources(g) = {s}
  BY <1>1, <1>2, <1>3
<1> QED
  BY <1>4, FS_Singleton

-----------------------------------------------------------------------------
(* The theorems                                                            *)

(* The inductive invariant.                                                *)
THEOREM InvariantHolds == Spec => []IInv
<1>1. Init => IInv
  BY InitIInv
<1>2. IInv /\ [Next]_vars => IInv'
  BY NextIInv
<1> QED
  BY <1>1, <1>2, PTL DEF Spec

(* The worker's state is well typed, and no goal that a live one waits for *)
(* has been destroyed (the weak and strong pointers of worker.hh and       *)
(* goal.hh).                                                               *)
THEOREM TypeCorrect == Spec => []TypeOK
<1>1. IInv => TypeOK
  <2> SUFFICES ASSUME IInv PROVE TypeOK
    OBVIOUS
  <2>1. GoalInv /\ QueueInv /\ SlotInv /\ StoreInv
    BY DEF IInv, Inv
  <2>2. \A g \in DOMAIN goal :
          /\ goal[g].waitees \cup goal[g].inputGoals \subseteq DOMAIN goal
          /\ goal[g].nrNoSubstituters <= goal[g].nrFailed
          /\ goal[g].tried \in 0 .. NrSubstituters
    BY <2>1 DEF GoalInv, GoalState, Pointers
  <2>3. topGoals \subseteq Top
    BY <2>1 DEF GoalInv, Requested
  <2>4. nrLocalBuilds \in Nat /\ nrSubstitutions \in Nat
    BY <2>1, SlotsFinite DEF SlotInv
  <2> QED
    BY <2>1, <2>2, <2>3, <2>4 DEF TypeOK, GoalInv, QueueInv, SlotInv, StoreInv
<1> QED
  BY <1>1, InvariantHolds, PTL

(* However goals fail, are cancelled or are shared, a path is copied only  *)
(* once its references are valid and a derivation is built only once its   *)
(* inputs are (tryToRun() and tryToBuild() rely on it), and a requested    *)
(* goal that succeeded left its path valid.                                *)
THEOREM InputsAreReady == Spec => []InputsReady
<1>1. IInv => InputsReady
  <2> SUFFICES ASSUME IInv PROVE InputsReady
    OBVIOUS
  <2>1. ReadyInv /\ DOMAIN outcome \subseteq Top
    BY DEF IInv, Inv, GoalInv
  <2>2. ASSUME NEW g \in DOMAIN goal
        PROVE  /\ g[1] = "path" /\ goal[g].pc = "copy" => Refs[g[2]] \ {g[2]} \subseteq valid
               /\ g[1] = "bld" /\ goal[g].pc \in {"try", "local", "ready", "build", "remote"} =>
                     Inputs[g[2]] \cup Srcs[g[2]] \subseteq valid
    BY <2>1 DEF ReadyInv, ReadyAs
  <2>3. ASSUME NEW g \in DOMAIN outcome, outcome[g] = "success" PROVE g[2] \in valid
    <3>1. g[1] # "res"
      BY <2>1, TopAreGoals
    <3> QED
      BY <2>1, <2>3, <3>1 DEF ReadyInv, Achieved
  <2> QED
    BY <2>2, <2>3 DEF InputsReady
<1> QED
  BY <1>1, InvariantHolds, PTL

(* The counters of running builds and substitutions are right and within   *)
(* the limits, and the worker never sleeps while a goal waits for a slot   *)
(* that is free (childStarted(), childTerminated(), wakeSlotWaiters()).    *)
THEOREM NoSlotIdle == Spec => []NoIdleSlot
<1>1. IInv => NoIdleSlot
  BY DEF IInv, Inv, SlotInv, SlotsTaken, IdleInv, NoIdleSlot
<1> QED
  BY <1>1, InvariantHolds, PTL

(* The assertions at the end of Worker::run hold: with keep-going nothing  *)
(* is awake, waits for a slot or runs once every requested goal is done.   *)
THEOREM RunExitsClean == Spec => []ExitClean
<1>1. IInv => ExitClean
  <2> SUFFICES ASSUME IInv, phase = "end", keepGoing
               PROVE  /\ awake = {} /\ wantingToBuild = {} /\ wantingToSubstitute = {}
                      /\ DOMAIN child = {} /\ DOMAIN outcome = Top
    BY DEF ExitClean
  <2>1. topGoals = {} /\ Requested = {}
    BY DEF IInv, Inv, GoalInv, IdleInv
  <2>2. DOMAIN goal = {}
    <3>1. Cut(goal, {}, DOMAIN goal)
      BY DEF Cut
    <3>2. DOMAIN goal \cap Held(goal, {}) = {}
      BY <3>1, HeldFacts
    <3>3. DOMAIN goal \subseteq Held(goal, Requested)
      BY DEF IInv, HeldInv
    <3> QED
      BY <2>1, <3>2, <3>3
  <2>3. awake \subseteq DOMAIN goal /\ \A g \in DOMAIN child : g \in DOMAIN goal
    BY DEF IInv, HeldInv, ChildAlive
  <2>4. wantingToBuild \subseteq DOMAIN goal /\ wantingToSubstitute \subseteq DOMAIN goal
    BY DEF IInv, Inv, QueueInv
  <2>5. DOMAIN outcome = Top
    BY <2>1 DEF IInv, Inv, GoalInv, Requested
  <2> QED
    BY <2>2, <2>3, <2>4, <2>5
<1> QED
  BY <1>1, InvariantHolds, PTL

(* While the worker loops, every goal has exactly one thing that will      *)
(* resume it; and when it polls (waitForInput()), there is something to    *)
(* poll for and every child belongs to a live goal, as the assertions      *)
(* there say, if references and inputs have no cycle.                      *)
THEOREM WakesOnce ==
  ASSUME NEW CONSTANT refRank, NEW CONSTANT inputRank, Acyclic(refRank, inputRank)
  PROVE  Spec => []OneWakeSource
<1>1. IInv => OneWakeSource
  <2> SUFFICES ASSUME IInv PROVE OneWakeSource
    OBVIOUS
  <2>1. ASSUME phase \in {"work", "asleep"}, NEW g \in DOMAIN goal PROVE Cardinality(WakeSources(g)) = 1
    BY <2>1, SourcesCounted DEF IInv, Inv, WakeInv
  <2>2. ASSUME phase = "asleep"
        PROVE  /\ DOMAIN child \cup waitingForAWhile \cup waitingForCompletion # {}
               /\ DOMAIN child \subseteq DOMAIN goal
    <3>1. awake = {} /\ todo = {} /\ topGoals # {} /\ joining = {}
      BY <2>2 DEF IInv, Inv, QueueInv
    <3>2. ~Doom
      BY <3>1 DEF Doom, Doomed
    <3>3. \A g \in DOMAIN child : ChildAlive(g)
      BY <2>2, <3>1, <3>2 DEF IInv, HeldInv
    <3> QED
      BY <2>2, <3>3, SleepsForSomething DEF ChildAlive
  <2> QED
    BY <2>1, <2>2 DEF OneWakeSource
<1> QED
  BY <1>1, InvariantHolds, PTL
================================================================================
