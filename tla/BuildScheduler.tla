--------------------------- MODULE BuildScheduler ---------------------------
(***************************************************************************)
(* The goal scheduler that realises store paths: libstore/build/worker.cc  *)
(* and the goals it runs.  One thread runs the event loop of Worker::run;  *)
(* goals are coroutines it resumes one after the other, and everything     *)
(* else (builders, the build hook, threads that copy a path from a         *)
(* substituter, other Nix processes) runs beside it.                       *)
(*                                                                         *)
(* A goal is a pair <<kind, path>>; a derivation is named by its single    *)
(* output path.                                                            *)
(*   "drv"   DerivationGoal: substitute the output, else build it          *)
(*   "res"   DerivationResolutionGoal: realise the input derivations       *)
(*   "bld"   DerivationBuildingGoal: lock the output and build it          *)
(*   "path"  PathSubstitutionGoal: copy the path and its references        *)
(* The worker's maps of goals are weak: a goal lives as long as it is      *)
(* requested by the caller, waited for by a live goal, or in the batch of  *)
(* goals being resumed.  One that nobody holds any longer is destroyed,    *)
(* which kills its builder or joins its copying thread.                    *)
(*                                                                         *)
(* Left out: the trampoline goals (they hand their outputs' derivation     *)
(* goals on), content-addressed and impure derivations, repair and check   *)
(* modes, log output other than the line that exceeds the limit, max-jobs  *)
(* of zero, and interrupts.                                                *)
(***************************************************************************)
EXTENDS Naturals, FiniteSets, FiniteSetsExt, Functions

CONSTANTS
    Path,           \* store paths
    Drv,            \* the paths that are outputs of a derivation
    Inputs,         \* [Drv -> SUBSET Drv]: input derivations
    Srcs,           \* [Drv -> SUBSET Path]: input sources
    Refs,           \* [Path -> SUBSET Path]: references, as substituters list them
    Unsubstituted,  \* the derivations that do not allow substitutes
    Top,            \* the goals requested by the caller of Worker::run
    NrSubstituters, \* how many substituters are asked in turn
    Answers,        \* what a substituter may answer about a path
    MaxBuildJobs, MaxSubstitutionJobs,  \* the settings of these names
    MaxDelays,      \* bound: postponed builds, missing build users, foreign locks
    Free, Other     \* nobody holds the lock on an output path; another process does

ASSUME SchedulerConstants ==
    /\ Drv \subseteq Path /\ Unsubstituted \subseteq Drv
    /\ Inputs \in [Drv -> SUBSET Drv] /\ Srcs \in [Drv -> SUBSET Path]
    /\ Refs \in [Path -> SUBSET Path]
    /\ Answers \in [Path -> SUBSET {"info", "invalid", "error"}]
    /\ MaxBuildJobs \in Nat \ {0} /\ MaxSubstitutionJobs \in Nat
    /\ NrSubstituters \in Nat /\ MaxDelays \in Nat

Goal == ({"drv", "res", "bld"} \X Drv) \cup ({"path"} \X Path)

(* Callers ask for derivations and for paths (entry-points.cc).            *)
ASSUME TopAreGoals == Top \subseteq ({"drv"} \X Drv) \cup ({"path"} \X Path)

VARIABLES
    keepGoing, fallback,    \* the settings; they never change
    goal,           \* the goals that exist, each with its coroutine's state
    outcome,        \* how the requested goals that are done ended
    topGoals,
    awake,          \* to be resumed in the next pass
    batch, todo,    \* awake2 of this pass, and those of it not yet resumed
    wantingToBuild, wantingToSubstitute, waitingForAWhile, waitingForCompletion,
    wakeupQueue,    \* goals whose completion callback or thread has ended
    child,          \* the children list: does the goal's child hold a slot?
    nrLocalBuilds, nrSubstitutions,
    joining,        \* destroyed goals whose copying thread is being joined
    lock,           \* who holds the lock on each output path
    valid,          \* the valid store paths
    phase,          \* where Worker::run is
    delays

settings == <<keepGoing, fallback>>
waiting == <<wantingToBuild, wantingToSubstitute, waitingForAWhile, waitingForCompletion>>
slots == <<child, nrLocalBuilds, nrSubstitutions>>
vars == <<settings, goal, outcome, topGoals, awake, batch, todo, waiting, wakeupQueue,
          slots, joining, lock, valid, phase, delays>>

Created(required) ==
    [pc |-> "init", waitees |-> {}, inputGoals |-> {}, nrFailed |-> 0, nrNoSubstituters |-> 0,
     tried |-> 0, pathRequired |-> required, substituterFailed |-> FALSE, lastException |-> FALSE,
     reply |-> "none"]

Init ==
    /\ keepGoing \in BOOLEAN /\ fallback \in BOOLEAN
    /\ goal = [g \in Top |-> Created(FALSE)]
    /\ outcome = [g \in {} |-> "success"]
    /\ topGoals = Top
    /\ awake = {} /\ batch = Top /\ todo = Top
    /\ wantingToBuild = {} /\ wantingToSubstitute = {}
    /\ waitingForAWhile = {} /\ waitingForCompletion = {} /\ wakeupQueue = {}
    /\ child = [g \in {} |-> TRUE] /\ nrLocalBuilds = 0 /\ nrSubstitutions = 0
    /\ joining = {} /\ lock = [p \in Path |-> Free] /\ valid = {}
    /\ phase = "work" /\ delays = 0

-----------------------------------------------------------------------------
(* Mutant: only what the held goals wait for directly is kept.             *)
HeldDirectly(gs, roots) ==
    UNION {{h} \cup gs[h].waitees : h \in roots \cap DOMAIN gs}

Pointers(r) == r.waitees \cup r.inputGoals

(* The goals held, directly or not, by a goal of roots: what the strong    *)
(* pointers of Goal::waitees, and of the map of input goals on the stack   *)
(* of a resolution goal, keep alive.  The others can be cut off: they are  *)
(* in a set without a root and without a pointer into it from outside.     *)
(* (What two steps from the roots reach never is, and is not tried.)       *)
Held(gs, roots) ==
    LET near(S) == S \cup UNION {Pointers(gs[h]) : h \in S \cap DOMAIN gs}
        cuts == {cut \in SUBSET (DOMAIN gs \ near(near(roots))) :
                    \A h \in DOMAIN gs \ cut : Pointers(gs[h]) \cap cut = {}}
    IN DOMAIN gs \ UNION cuts

(* Requested goals are held by the caller of run() until they are done.    *)
Requested == Top \ DOMAIN outcome

(* childTerminated(): the goals' children leave the list, and their slots. *)
ChildTerminated(gs) ==
    LET inSlot(kind) == {h \in gs \cap DOMAIN child : child[h] /\ h[1] = kind}
    IN /\ child' = Restrict(child, DOMAIN child \ gs)
       /\ nrLocalBuilds' = nrLocalBuilds - Cardinality(inSlot("bld"))
       /\ nrSubstitutions' = nrSubstitutions - Cardinality(inSlot("path"))

(* childStarted() *)
ChildStarted(g, inBuildSlot) ==
    LET more == IF inBuildSlot THEN 1 ELSE 0
    IN /\ child' = [h \in DOMAIN child \cup {g} |-> IF h = g THEN inBuildSlot ELSE child[h]]
       /\ nrLocalBuilds' = nrLocalBuilds + (IF g[1] = "bld" THEN more ELSE 0)
       /\ nrSubstitutions' = nrSubstitutions + (IF g[1] = "path" THEN more ELSE 0)

(* Destroying goals: their coroutine frames release the locks, and their   *)
(* builder or hook is killed.  A copying thread is joined, which may take  *)
(* time.  The post-build hook's frame does not call childTerminated().     *)
Destroyed(dead, ended) ==
    LET copying == {h \in dead : h[1] = "path" /\ goal[h].pc = "copy"}
        unfinished == {h \in copying : goal[h].reply = "none"}
    IN /\ ChildTerminated(ended \cup (copying \ unfinished)
                          \cup {h \in dead : goal[h].pc \in {"build", "remote"}})
       /\ joining' = unfinished
       /\ wakeupQueue' = wakeupQueue \ dead
       /\ waitingForAWhile' = waitingForAWhile \ dead
       /\ waitingForCompletion' = waitingForCompletion \ dead

-----------------------------------------------------------------------------
(* The ways a resumed goal gives control back to the event loop.           *)

Busy == UNCHANGED <<outcome, topGoals, batch, joining, wakeupQueue>>

(* Mutant: the goal suspends without having woken itself.                  *)
YieldUnwoken(g, r) ==
    /\ goal' = [goal EXCEPT ![g] = r]
    /\ Busy /\ UNCHANGED <<awake, waiting>>

(* yield() *)
Yield(g, r) ==
    /\ goal' = [goal EXCEPT ![g] = r]
    /\ awake' = awake \cup {g}
    /\ Busy /\ UNCHANGED waiting

(* waitForAWhile() *)
WaitForAWhile(g, r) ==
    /\ goal' = [goal EXCEPT ![g] = r]
    /\ waitingForAWhile' = waitingForAWhile \cup {g}
    /\ Busy /\ UNCHANGED <<awake, wantingToBuild, wantingToSubstitute, waitingForCompletion>>

(* waitUntilWoken(), and the AsyncCallback of a query *)
WaitUntilWoken(g, r) ==
    /\ goal' = [goal EXCEPT ![g] = r]
    /\ waitingForCompletion' = waitingForCompletion \cup {g}
    /\ Busy /\ UNCHANGED <<awake, wantingToBuild, wantingToSubstitute, waitingForAWhile>>

(* waitForBuildSlot(): with a slot free the goal would be woken right     *)
(* away; the callers have found none.                                      *)
WaitForBuildSlot(g, r) ==
    /\ goal' = [goal EXCEPT ![g] = r]
    /\ \/ g[1] = "path" /\ nrSubstitutions >= MaxSubstitutionJobs
          /\ wantingToSubstitute' = wantingToSubstitute \cup {g}
          /\ UNCHANGED wantingToBuild
       \/ g[1] = "bld" /\ nrLocalBuilds >= MaxBuildJobs
          /\ wantingToBuild' = wantingToBuild \cup {g}
          /\ UNCHANGED wantingToSubstitute
    /\ Busy /\ UNCHANGED <<awake, waitingForAWhile, waitingForCompletion>>

(* Waiting for output or the end of a child (WaitForChildEvent)            *)
WaitForChildEvent(g, r) ==
    /\ goal' = [goal EXCEPT ![g] = r]
    /\ Busy /\ UNCHANGED <<awake, waiting>>

(* Mutant: a goal that had to be made is not woken.                        *)
AwaitUnwoken(g, r, waitees, required) ==
    LET gs == [goal EXCEPT ![g] = [r EXCEPT !.waitees = waitees]]
    IN /\ goal' = [h \in DOMAIN gs \cup waitees |->
                        IF h \in DOMAIN gs THEN gs[h] ELSE Created(required)]
       /\ Busy /\ UNCHANGED <<awake, waiting>>

(* await(): the goals come from the worker's maps, or are made and woken   *)
(* (initGoalIfNeeded).  An existing goal keeps its own pathRequired.       *)
Await(g, r, waitees, required) ==
    LET gs == [goal EXCEPT ![g] = [r EXCEPT !.waitees = waitees]]
    IN /\ goal' = [h \in DOMAIN gs \cup waitees |->
                        IF h \in DOMAIN gs THEN gs[h] ELSE Created(required)]
       /\ awake' = awake \cup (waitees \ DOMAIN goal)
       /\ Busy /\ UNCHANGED waiting

(* Mutant: a failure cuts its waiters loose even with keep-going.          *)
WakesOnFailure(g, code) ==
    {h \in DOMAIN goal : /\ g \in goal[h].waitees
                         /\ goal[h].waitees = {g} \/ code = "failed"}

(* The waiters that g's end wakes: those with nothing left to wait for,    *)
(* and without keep-going everyone who waits for a goal that failed.       *)
Wakes(g, code) ==
    {h \in DOMAIN goal : /\ g \in goal[h].waitees
                         /\ \/ goal[h].waitees = {g}
                            \/ code = "failed" /\ ~keepGoing}

(* amDone() and removeGoal().  ended is {g} when the child of g ends too.  *)
AmDone(g, code, ended) ==
    LET woken == Wakes(g, code)
        tell(h) == IF g \notin Pointers(goal[h])
                   THEN goal[h]
                   ELSE IF g \notin goal[h].waitees
                   THEN [goal[h] EXCEPT !.inputGoals = @ \ {g}]
                   ELSE [goal[h] EXCEPT
                            !.waitees = IF h \in woken THEN {} ELSE @ \ {g},
                            !.inputGoals = @ \ {g},
                            !.nrFailed = @ + (IF code = "success" THEN 0 ELSE 1),
                            !.nrNoSubstituters = @ + (IF code = "noSubstituters" THEN 1 ELSE 0)]
        rest == [h \in DOMAIN goal \ {g} |-> tell(h)]
        mine == g \in topGoals
    IN \E live \in {Held(rest, (batch \cup Requested) \ {g})} :
        LET dead == DOMAIN rest \ live
        IN /\ goal' = Restrict(rest, live)
           /\ outcome' = [h \in DOMAIN outcome \cup (topGoals \cap {g}) |->
                            IF h = g /\ mine THEN code ELSE outcome[h]]
           /\ topGoals' = IF mine /\ code = "failed" /\ ~keepGoing THEN {} ELSE topGoals \ {g}
           /\ batch' = batch \ {g}
           /\ awake' = awake \cup woken
           /\ wantingToBuild' = wantingToBuild \ dead
           /\ wantingToSubstitute' = wantingToSubstitute \ dead
           /\ Destroyed(dead, ended)
           /\ lock' = [p \in Path |-> IF lock[p] \in dead \cup {g} THEN Free ELSE lock[p]]

(* An exception leaves the goal's coroutine and Worker::run.               *)
Throw ==
    /\ phase' = "thrown"
    /\ UNCHANGED <<goal, outcome, topGoals, awake, batch, waiting, wakeupQueue, slots,
                   joining, lock, valid>>

(* run() resumes a goal of the batch (goal->work()).  Goals are taken in   *)
(* the order of their keys; the names in the keys are arbitrary.           *)
Resume(g, kind, pc) ==
    /\ phase = "work" /\ joining = {} /\ topGoals # {}
    /\ g \in todo /\ g[1] = kind /\ goal[g].pc = pc
    /\ todo' = todo \ {g}
    /\ UNCHANGED settings

Running == UNCHANGED <<phase, delays>>

-----------------------------------------------------------------------------
(* PathSubstitutionGoal                                                    *)

(* The loop over the substituters, and what is left after the last.        *)
NextSubstituter(g, r, ended) ==
    \/ /\ r.tried < NrSubstituters
       /\ WaitUntilWoken(g, [r EXCEPT !.pc = "query", !.tried = @ + 1,
                                      !.lastException = FALSE, !.reply = "none"])
       /\ ChildTerminated(ended)
       /\ Running /\ UNCHANGED <<lock, valid>>
    \/ /\ r.tried = NrSubstituters
       /\ r.lastException /\ ~fallback
       /\ Throw /\ UNCHANGED delays
    \/ /\ r.tried = NrSubstituters
       /\ r.lastException => fallback
       /\ AmDone(g, IF r.substituterFailed \/ r.pathRequired THEN "failed" ELSE "noSubstituters",
                 ended)
       /\ Running /\ UNCHANGED valid

(* Mutant: a reference that has no substitute does not count as failed.    *)
ReferencesOptional(g, r) ==
    \/ /\ r.nrFailed > r.nrNoSubstituters
       /\ AmDone(g, "failed", {})
    \/ /\ r.nrFailed = r.nrNoSubstituters
       /\ Yield(g, [r EXCEPT !.pc = "run"])
       /\ UNCHANGED <<slots, lock>>

(* tryToRun() up to its yield: the references are realised, or not.        *)
ReferencesRealised(g, r) ==
    \/ /\ r.nrFailed > 0
       /\ AmDone(g, IF r.nrNoSubstituters > 0 THEN "noSubstituters" ELSE "failed", {})
    \/ /\ r.nrFailed = 0
       /\ Yield(g, [r EXCEPT !.pc = "run"])
       /\ UNCHANGED <<slots, lock>>

PathInit(g) ==
    /\ Resume(g, "path", "init")
    /\ \/ /\ g[2] \in valid
          /\ AmDone(g, "success", {})
          /\ Running /\ UNCHANGED valid
       \/ /\ g[2] \notin valid
          /\ NextSubstituter(g, goal[g], {})

PathQueried(g) ==
    LET r == goal[g]
        refs == Refs[g[2]] \ {g[2]}
    IN /\ Resume(g, "path", "query")
       /\ \/ /\ r.reply # "info"
             /\ NextSubstituter(g, [r EXCEPT !.lastException = (r.reply = "error")], {})
          \/ /\ r.reply = "info" /\ refs # {}
             /\ Await(g, [r EXCEPT !.pc = "refs"], {<<"path", p>> : p \in refs}, r.pathRequired)
             /\ Running /\ UNCHANGED <<slots, lock, valid>>
          \/ /\ r.reply = "info" /\ refs = {}
             /\ ReferencesRealised(g, r)
             /\ Running /\ UNCHANGED valid

PathReferences(g) ==
    /\ Resume(g, "path", "refs")
    /\ ReferencesRealised(g, goal[g])
    /\ Running /\ UNCHANGED valid

(* Even when max-substitution-jobs is zero one substitution may run.       *)
SubstitutionLimit == IF MaxSubstitutionJobs = 0 THEN 1 ELSE MaxSubstitutionJobs

PathRun(g) ==
    /\ Resume(g, "path", "run")
    /\ \/ /\ nrSubstitutions >= SubstitutionLimit
          /\ WaitForBuildSlot(g, goal[g])
          /\ UNCHANGED slots
       \/ /\ nrSubstitutions < SubstitutionLimit
          /\ ChildStarted(g, TRUE)
          /\ WaitUntilWoken(g, [goal[g] EXCEPT !.pc = "copy", !.reply = "none"])
    /\ Running /\ UNCHANGED <<lock, valid>>

PathCopied(g) ==
    LET r == goal[g]
    IN /\ Resume(g, "path", "copy")
       /\ \/ /\ r.reply = "ok"
             /\ AmDone(g, "success", {g})
             /\ Running /\ UNCHANGED valid
          \/ /\ r.reply # "ok"
             /\ NextSubstituter(g, [r EXCEPT !.substituterFailed = @ \/ r.reply = "failed"], {g})

-----------------------------------------------------------------------------
(* DerivationGoal and DerivationResolutionGoal                             *)

(* After the substitution of the output, or without it.                    *)
MaybeSubstituted(g, r) ==
    \/ /\ r.nrFailed > r.nrNoSubstituters /\ ~fallback
       /\ AmDone(g, "failed", {})
    \/ /\ r.nrFailed > r.nrNoSubstituters => fallback
       /\ g[2] \in valid
       /\ AmDone(g, "success", {})
    \/ /\ r.nrFailed > r.nrNoSubstituters => fallback
       /\ g[2] \notin valid
       /\ Await(g, [r EXCEPT !.pc = "res", !.nrFailed = 0, !.nrNoSubstituters = 0],
                {<<"res", g[2]>>}, FALSE)
       /\ UNCHANGED <<slots, lock>>

DrvInit(g) ==
    /\ Resume(g, "drv", "init")
    /\ \/ /\ g[2] \in valid
          /\ AmDone(g, "success", {})
       \/ /\ g[2] \notin valid /\ g[2] \notin Unsubstituted
          /\ Await(g, [goal[g] EXCEPT !.pc = "subst"], {<<"path", g[2]>>}, FALSE)
          /\ UNCHANGED <<slots, lock>>
       \/ /\ g[2] \notin valid /\ g[2] \in Unsubstituted
          /\ MaybeSubstituted(g, goal[g])
    /\ Running /\ UNCHANGED valid

DrvSubstituted(g) ==
    /\ Resume(g, "drv", "subst")
    /\ MaybeSubstituted(g, goal[g])
    /\ Running /\ UNCHANGED valid

DrvResolved(g) ==
    /\ Resume(g, "drv", "res")
    /\ \/ /\ goal[g].nrFailed # 0
          /\ AmDone(g, "failed", {})
       \/ /\ goal[g].nrFailed = 0
          /\ Await(g, [goal[g] EXCEPT !.pc = "bld"], {<<"bld", g[2]>>}, FALSE)
          /\ UNCHANGED <<slots, lock>>
    /\ Running /\ UNCHANGED valid

(* The goal ends as its building goal did.                                 *)
DrvBuilt(g) ==
    /\ Resume(g, "drv", "bld")
    /\ AmDone(g, IF goal[g].nrFailed = 0 THEN "success" ELSE "failed", {})
    /\ Running /\ UNCHANGED valid

InputsRealised(g, r) == AmDone(g, IF r.nrFailed = 0 THEN "success" ELSE "failed", {})

ResInit(g) ==
    /\ Resume(g, "res", "init")
    /\ \/ /\ Inputs[g[2]] # {}
          /\ LET inputs == {"drv"} \X Inputs[g[2]]
             IN Await(g, [goal[g] EXCEPT !.pc = "inputs", !.inputGoals = inputs], inputs, FALSE)
          /\ UNCHANGED <<slots, lock>>
       \/ /\ Inputs[g[2]] = {}
          /\ InputsRealised(g, goal[g])
    /\ Running /\ UNCHANGED valid

ResInputs(g) ==
    /\ Resume(g, "res", "inputs")
    /\ InputsRealised(g, goal[g])
    /\ Running /\ UNCHANGED valid

-----------------------------------------------------------------------------
(* DerivationBuildingGoal                                                  *)

SourcesRealised(g, r) ==
    \/ /\ r.nrFailed # 0
       /\ AmDone(g, "failed", {})
    \/ /\ r.nrFailed = 0
       /\ Yield(g, [r EXCEPT !.pc = "try"])
       /\ UNCHANGED <<slots, lock>>

BldInit(g) ==
    LET missing == Srcs[g[2]] \ valid
    IN /\ Resume(g, "bld", "init")
       /\ \/ /\ missing # {}
             /\ Await(g, [goal[g] EXCEPT !.pc = "srcs"], {<<"path", p>> : p \in missing}, TRUE)
             /\ UNCHANGED <<slots, lock>>
          \/ /\ missing = {}
             /\ SourcesRealised(g, goal[g])
       /\ Running /\ UNCHANGED valid

BldSources(g) ==
    /\ Resume(g, "bld", "srcs")
    /\ SourcesRealised(g, goal[g])
    /\ Running /\ UNCHANGED valid

(* acquireResources(): the lock is polled for; once it is held, a path     *)
(* that became valid in the meantime needs no build.                       *)
LockBusy(g) ==
    /\ lock[g[2]] # Free
    /\ WaitForAWhile(g, goal[g])
    /\ Running /\ UNCHANGED <<slots, lock, valid>>

BeatenToIt(g) ==
    /\ lock[g[2]] = Free /\ g[2] \in valid
    /\ AmDone(g, "success", {})
    /\ Running /\ UNCHANGED valid

MustBuild(g) == lock[g[2]] = Free /\ g[2] \notin valid

Delayed == delays < MaxDelays /\ delays' = delays + 1 /\ UNCHANGED phase

(* tryToBuild(): the hook is asked under the lock.  When it declines, the  *)
(* lock is given up and taken again for the local build, and another       *)
(* process may come in between.                                            *)
BldTry(g) ==
    LET r == goal[g]
        try == MustBuild(g) /\ UNCHANGED valid
    IN /\ Resume(g, "bld", "try")
       /\ \/ LockBusy(g)
          \/ BeatenToIt(g)
          \/ /\ try                                                 \* rpAccept
             /\ lock' = [lock EXCEPT ![g[2]] = g]
             /\ ChildStarted(g, FALSE)
             /\ WaitForChildEvent(g, [r EXCEPT !.pc = "remote", !.reply = "none"])
             /\ Running
          \/ /\ try                                                 \* rpPostpone
             /\ WaitForAWhile(g, r)
             /\ Delayed /\ UNCHANGED <<slots, lock>>
          \/ /\ try                                                 \* rpDecline
             /\ lock' = [lock EXCEPT ![g[2]] = g]
             /\ Yield(g, [r EXCEPT !.pc = "ready"])
             /\ Running /\ UNCHANGED slots
          \/ /\ try                                                 \* rpDecline, beaten to the lock
             /\ lock' = [lock EXCEPT ![g[2]] = Other]
             /\ WaitForAWhile(g, [r EXCEPT !.pc = "local"])
             /\ Delayed /\ UNCHANGED slots

BldLocal(g) ==
    /\ Resume(g, "bld", "local")
    /\ \/ LockBusy(g)
       \/ BeatenToIt(g)
       \/ /\ MustBuild(g)
          /\ lock' = [lock EXCEPT ![g[2]] = g]
          /\ Yield(g, [goal[g] EXCEPT !.pc = "ready"])
          /\ Running /\ UNCHANGED <<slots, valid>>

(* buildLocally() up to the start of the builder.  Waiting for a slot      *)
(* gives the lock up and starts over; waiting for a build user keeps it.   *)
BldReady(g) ==
    LET r == goal[g]
    IN /\ Resume(g, "bld", "ready")
       /\ \/ /\ nrLocalBuilds >= MaxBuildJobs
             /\ lock' = [lock EXCEPT ![g[2]] = Free]
             /\ WaitForBuildSlot(g, [r EXCEPT !.pc = "try"])
             /\ Running /\ UNCHANGED slots
          \/ /\ nrLocalBuilds < MaxBuildJobs
             /\ WaitForAWhile(g, r)
             /\ Delayed /\ UNCHANGED <<slots, lock>>
          \/ /\ nrLocalBuilds < MaxBuildJobs
             /\ ChildStarted(g, TRUE)
             /\ WaitForChildEvent(g, [r EXCEPT !.pc = "build", !.reply = "none"])
             /\ Running /\ UNCHANGED lock
       /\ UNCHANGED valid

(* The builder or the hook has ended, or was killed for its time or its    *)
(* log.  A build that succeeded registers its output and runs the          *)
(* post-build hook, outside any slot, still under the lock.                *)
BldEnded(g) ==
    LET r == goal[g]
    IN /\ \/ Resume(g, "bld", "build")
          \/ Resume(g, "bld", "remote")
       /\ \/ /\ r.reply = "ok"
             /\ valid' = valid \cup {g[2]}
             /\ child' = [child EXCEPT ![g] = FALSE]
             /\ nrLocalBuilds' = nrLocalBuilds - (IF child[g] THEN 1 ELSE 0)
             /\ WaitForChildEvent(g, [r EXCEPT !.pc = "post", !.reply = "none"])
             /\ UNCHANGED <<nrSubstitutions, lock>>
          \/ /\ r.reply # "ok"
             /\ AmDone(g, "failed", {g})
             /\ UNCHANGED valid
       /\ Running

BldPostBuildHook(g) ==
    /\ Resume(g, "bld", "post")
    /\ \/ /\ goal[g].reply = "ok"
          /\ AmDone(g, "success", {g})
          /\ Running /\ UNCHANGED valid
       \/ /\ goal[g].reply # "ok"
          /\ Throw /\ UNCHANGED delays

-----------------------------------------------------------------------------
(* The event loop                                                          *)

(* Mutant: the last free slot is not given away.                           *)
SlotWaitersShort(waiters, running, limit) ==
    {ws \in SUBSET waiters :
        Cardinality(ws) = Min({Cardinality(waiters),
                               IF running + 1 < limit THEN limit - running - 1 ELSE 0})}

(* wakeSlotWaiters(): as many waiters as there are free slots              *)
SlotWaiters(waiters, running, limit) ==
    {ws \in SUBSET waiters :
        Cardinality(ws) = Min({Cardinality(waiters), IF running < limit THEN limit - running ELSE 0})}

(* A pass begins: awake2 holds the goals of awake that still exist.        *)
StartPass(alive, woken) ==
    /\ batch' = woken \cap alive
    /\ todo' = woken \cap alive
    /\ awake' = {}

(* The end of a pass of the inner loop: slot waiters are woken, then       *)
(* awake2 goes out of scope, and either another pass begins, or run()      *)
(* returns, or it waits for input.                                         *)
EndPass ==
    /\ phase = "work" /\ joining = {}
    /\ todo = {} \/ topGoals = {}
    /\ \E s \in SlotWaiters(wantingToSubstitute, nrSubstitutions, SubstitutionLimit),
          b \in SlotWaiters(wantingToBuild, nrLocalBuilds, MaxBuildJobs),
          live \in {Held(goal, Requested)} :
        LET dead == DOMAIN goal \ live
            woken == awake \cup s \cup b
        IN /\ goal' = Restrict(goal, live)
           /\ wantingToSubstitute' = wantingToSubstitute \ (s \cup dead)
           /\ wantingToBuild' = wantingToBuild \ (b \cup dead)
           /\ Destroyed(dead, {})
           /\ lock' = [p \in Path |-> IF lock[p] \in dead THEN Free ELSE lock[p]]
           /\ \/ /\ topGoals = {}
                 /\ phase' = "end" /\ batch' = {} /\ todo' = {} /\ awake' = woken
              \/ /\ topGoals # {} /\ woken = {}
                 /\ phase' = "asleep" /\ batch' = {} /\ todo' = {} /\ awake' = {}
              \/ /\ topGoals # {} /\ woken # {}
                 /\ StartPass(live, woken)
                 /\ UNCHANGED phase
    /\ UNCHANGED <<settings, outcome, topGoals, valid, delays>>

(* A destroyed goal's copying thread ends, and the event loop, which       *)
(* joined it, goes on.  The thread needs the lock to register its path.    *)
CanRegister(p) == p \in valid \/ lock[p] = Free

Joined(g) ==
    /\ g \in joining
    /\ \/ CanRegister(g[2]) /\ valid' = valid \cup {g[2]}
       \/ UNCHANGED valid
    /\ ChildTerminated({g})
    /\ joining' = joining \ {g}
    /\ UNCHANGED <<settings, goal, outcome, topGoals, awake, batch, todo, waiting, wakeupQueue,
                   lock, phase, delays>>

(* waitForInput(): every child that has closed its pipe, every builder     *)
(* that is past its time or log limit (which overrides its end), the       *)
(* wakeup queue, and after the poll interval those who wait for a while.   *)
WaitForInput ==
    /\ phase = "asleep"
    /\ \E late \in SUBSET {g \in DOMAIN child : child[g] /\ g[1] = "bld"}, tick \in BOOLEAN :
        LET ended == {g \in DOMAIN child \cap DOMAIN goal : g[1] = "bld" /\ goal[g].reply # "none"}
            woken == ended \cup late \cup wakeupQueue \cup (IF tick THEN waitingForAWhile ELSE {})
        IN /\ Cardinality(late) <= 1
           /\ woken # {}
           /\ goal' = [g \in DOMAIN goal |-> IF g \in late THEN [goal[g] EXCEPT !.reply = "late"]
                                                           ELSE goal[g]]
           /\ waitingForAWhile' = IF tick THEN {} ELSE waitingForAWhile
           /\ waitingForCompletion' = waitingForCompletion \ wakeupQueue
           /\ wakeupQueue' = {}
           /\ StartPass(DOMAIN goal, woken)
    /\ phase' = "work"
    /\ UNCHANGED <<settings, outcome, topGoals, wantingToBuild, wantingToSubstitute, slots,
                   joining, lock, valid, delays>>

-----------------------------------------------------------------------------
(* What runs beside the event loop                                         *)

Reply(g, reply) ==
    /\ goal' = [goal EXCEPT ![g].reply = reply]
    /\ UNCHANGED <<settings, outcome, topGoals, awake, batch, todo, waiting, slots, joining,
                   lock, phase, delays>>

Pending(g, kind, pcs) ==
    /\ phase \in {"work", "asleep"}
    /\ g \in DOMAIN goal /\ g[1] = kind /\ goal[g].pc \in pcs /\ goal[g].reply = "none"

(* A substituter answers a query of the path's metadata.                   *)
SubstituterAnswers(g) ==
    /\ Pending(g, "path", {"query"})
    /\ \E a \in Answers[g[2]] : Reply(g, a)
    /\ wakeupQueue' = wakeupQueue \cup {g}
    /\ UNCHANGED valid

(* A copying thread ends: the path is registered (under its lock), or is   *)
(* gone from the substituter, or the copy fails.                           *)
CopyEnds(g) ==
    /\ Pending(g, "path", {"copy"})
    /\ \/ /\ CanRegister(g[2])
          /\ valid' = valid \cup {g[2]}
          /\ Reply(g, "ok")
       \/ /\ \E e \in {"gone", "failed"} : Reply(g, e)
          /\ UNCHANGED valid
    /\ wakeupQueue' = wakeupQueue \cup {g}

(* A builder or a post-build hook ends, or the build hook, which registers *)
(* the output itself.                                                      *)
ChildEnds(g) ==
    /\ Pending(g, "bld", {"build", "remote", "post"})
    /\ \/ /\ Reply(g, "ok")
          /\ valid' = IF goal[g].pc = "remote" THEN valid \cup {g[2]} ELSE valid
       \/ Reply(g, "failed") /\ UNCHANGED valid
    /\ UNCHANGED wakeupQueue

(* Another process locks an output; it may register it before it unlocks.  *)
OtherLocks(p) ==
    /\ phase \in {"work", "asleep"}
    /\ lock[p] = Free /\ delays < MaxDelays
    /\ lock' = [lock EXCEPT ![p] = Other]
    /\ delays' = delays + 1
    /\ UNCHANGED <<settings, goal, outcome, topGoals, awake, batch, todo, waiting, wakeupQueue,
                   slots, joining, valid, phase>>

OtherUnlocks(p) ==
    /\ lock[p] = Other
    /\ lock' = [lock EXCEPT ![p] = Free]
    /\ valid' \in {valid, valid \cup {p}}
    /\ UNCHANGED <<settings, goal, outcome, topGoals, awake, batch, todo, waiting, wakeupQueue,
                   slots, joining, phase, delays>>

Work(g) ==
    \/ PathInit(g) \/ PathQueried(g) \/ PathReferences(g) \/ PathRun(g) \/ PathCopied(g)
    \/ DrvInit(g) \/ DrvSubstituted(g) \/ DrvResolved(g) \/ DrvBuilt(g)
    \/ ResInit(g) \/ ResInputs(g)
    \/ BldInit(g) \/ BldSources(g) \/ BldTry(g) \/ BldLocal(g) \/ BldReady(g)
    \/ BldEnded(g) \/ BldPostBuildHook(g)

Next ==
    \/ \E g \in Goal : Work(g)
    \/ EndPass \/ WaitForInput
    \/ \E g \in Goal : Joined(g) \/ SubstituterAnswers(g) \/ CopyEnds(g) \/ ChildEnds(g)
    \/ \E p \in Drv : OtherLocks(p) \/ OtherUnlocks(p)

Spec == Init /\ [][Next]_vars

(* What the event loop may have to wait for: a substituter's answer, the   *)
(* end of a child, a copy of a path nobody else has locked, and the unlock *)
(* of another process.                                                     *)
Outside ==
    \/ \E g \in DOMAIN goal : SubstituterAnswers(g) \/ ChildEnds(g)
    \/ \E g \in DOMAIN goal : CanRegister(g[2]) /\ CopyEnds(g)
    \/ \E g \in joining : CanRegister(g[2]) /\ Joined(g)
    \/ \E p \in Drv : OtherUnlocks(p)

(* The event loop runs when it can, and the world outside answers.         *)
Fairness ==
    /\ WF_vars(EndPass \/ WaitForInput \/ \E g \in todo : Work(g))
    /\ WF_vars(Outside)

FairSpec == Spec /\ Fairness

-----------------------------------------------------------------------------
(* Properties                                                              *)

Codes == {"success", "failed", "noSubstituters"}

(* The types of the worker's state.  Every waitee exists, so that a goal's *)
(* waiters and waitees never dangle (worker.hh, goal.hh).                  *)
TypeOK ==
    /\ DOMAIN goal \subseteq Goal /\ awake \subseteq Goal
    /\ \A g \in DOMAIN goal :
        /\ goal[g].waitees \cup goal[g].inputGoals \subseteq DOMAIN goal
        /\ goal[g].nrNoSubstituters <= goal[g].nrFailed
        /\ goal[g].tried \in 0 .. NrSubstituters
    /\ DOMAIN outcome \subseteq Top /\ \A g \in DOMAIN outcome : outcome[g] \in Codes
    /\ topGoals \subseteq Top
    /\ todo \subseteq batch /\ batch \subseteq DOMAIN goal
    /\ nrLocalBuilds \in Nat /\ nrSubstitutions \in Nat
    /\ lock \in [Path -> Goal \cup {Free, Other}]
    /\ valid \subseteq Path /\ joining \subseteq {"path"} \X Path
    /\ phase \in {"work", "asleep", "end", "thrown"}
    /\ delays \in 0 .. MaxDelays

(* What can resume a suspended goal: a place where the worker will find    *)
(* it, a goal it waits for, or its child.                                  *)
WakeSources(g) ==
    {s \in {"awake", "todo", "wantingToBuild", "wantingToSubstitute", "aWhile", "completion",
            "waitees", "child"} :
        CASE s = "awake" -> g \in awake
          [] s = "todo" -> g \in todo
          [] s = "wantingToBuild" -> g \in wantingToBuild
          [] s = "wantingToSubstitute" -> g \in wantingToSubstitute
          [] s = "aWhile" -> g \in waitingForAWhile
          [] s = "completion" -> g \in waitingForCompletion
          [] s = "waitees" -> goal[g].waitees # {}
          [] s = "child" -> /\ g \in DOMAIN child /\ g \notin todo
                            /\ goal[g].pc \in {"build", "remote", "post"}}

(* While run() loops, every goal has exactly one thing that will resume    *)
(* it: with none it would hang, and the loop's assert(!awake.empty())      *)
(* could fail; with two it would be resumed where it does not expect it,   *)
(* in await() with waitees left or after amDone().  Slots and children     *)
(* agree, and when the loop polls, each child's goal is alive (the         *)
(* assert(goal) of waitForInput).                                          *)
OneWakeSource ==
    /\ phase \in {"work", "asleep"} => \A g \in DOMAIN goal : Cardinality(WakeSources(g)) = 1
    /\ phase = "asleep" =>
        /\ DOMAIN child \cup waitingForAWhile \cup waitingForCompletion # {}
        /\ DOMAIN child \subseteq DOMAIN goal

(* The loop never sleeps while a goal waits for a slot that is free, and   *)
(* no more builds or substitutions run than there are slots.               *)
NoIdleSlot ==
    /\ nrLocalBuilds = Cardinality({g \in DOMAIN child : child[g] /\ g[1] = "bld"})
    /\ nrSubstitutions = Cardinality({g \in DOMAIN child : child[g] /\ g[1] = "path"})
    /\ nrLocalBuilds <= MaxBuildJobs /\ nrSubstitutions <= SubstitutionLimit
    /\ phase = "asleep" =>
        /\ wantingToBuild # {} => nrLocalBuilds = MaxBuildJobs
        /\ wantingToSubstitute # {} => nrSubstitutions = SubstitutionLimit

(* A path is copied only once its references are valid, and a derivation   *)
(* is built only once its inputs are, whatever failed or was cancelled on  *)
(* the way: the check in tryToRun() that throws "is not a valid path"      *)
(* never does.  A requested goal that succeeded left its path valid.       *)
InputsReady ==
    /\ \A g \in DOMAIN goal :
        /\ g[1] = "path" /\ goal[g].pc = "copy" => Refs[g[2]] \ {g[2]} \subseteq valid
        /\ g[1] = "bld" /\ goal[g].pc \in {"try", "local", "ready", "build", "remote"} =>
              Inputs[g[2]] \cup Srcs[g[2]] \subseteq valid
    /\ \A g \in DOMAIN outcome : outcome[g] = "success" => g[2] \in valid

(* The assertions at the end of run(): with keep-going nothing is left     *)
(* awake, waiting for a slot or running when the loop ends.                *)
ExitClean ==
    phase = "end" /\ keepGoing =>
        /\ awake = {} /\ wantingToBuild = {} /\ wantingToSubstitute = {}
        /\ DOMAIN child = {} /\ DOMAIN outcome = Top

(* run() returns or throws: no set of goals waits for each other, for a    *)
(* lock or for a slot forever.                                             *)
Finishes == <>(phase \in {"end", "thrown"})

(* The documentation of the setting fallback: "Nix falls back to building  *)
(* from source if a binary substitute fails" (worker-settings.hh:48-49).   *)
(* When a reference of a derivation's output could not be substituted, a   *)
(* building goal is made for the derivation, or its output becomes valid   *)
(* in another way, or run() ends.                                          *)
FallsBack ==
    \A d \in Drv :
        /\ fallback /\ <<"drv", d>> \in DOMAIN goal /\ <<"path", d>> \in DOMAIN goal
        /\ goal[<<"path", d>>].nrFailed > 0
      ~> \/ <<"bld", d>> \in DOMAIN goal
         \/ d \in valid
         \/ phase \in {"end", "thrown"}

-----------------------------------------------------------------------------
(* The parts of the inductive invariant                                    *)

Pcs(kind) ==
    CASE kind = "path" -> {"init", "query", "refs", "run", "copy"}
      [] kind = "drv" -> {"init", "subst", "res", "bld"}
      [] kind = "res" -> {"init", "inputs"}
      [] kind = "bld" -> {"init", "srcs", "try", "local", "ready", "build", "remote", "post"}

Replies == {"none", "info", "invalid", "error", "ok", "gone", "failed", "late"}

(* What a goal of this kind and pc may wait for.                           *)
Waitable(g, pc) ==
    CASE g[1] = "path" /\ pc = "refs" -> {<<"path", p>> : p \in Refs[g[2]] \ {g[2]}}
      [] g[1] = "drv" /\ pc = "subst" -> {<<"path", g[2]>>}
      [] g[1] = "drv" /\ pc = "res" -> {<<"res", g[2]>>}
      [] g[1] = "drv" /\ pc = "bld" -> {<<"bld", g[2]>>}
      [] g[1] = "res" /\ pc = "inputs" -> {"drv"} \X Inputs[g[2]]
      [] g[1] = "bld" /\ pc = "srcs" -> {<<"path", p>> : p \in Srcs[g[2]]}
      [] OTHER -> {}

GoalState(g) ==
    {r \in [pc : Pcs(g[1]), waitees : SUBSET Goal, inputGoals : SUBSET Goal, nrFailed : Nat,
            nrNoSubstituters : Nat, tried : 0 .. NrSubstituters, pathRequired : BOOLEAN,
            substituterFailed : BOOLEAN, lastException : BOOLEAN, reply : Replies] :
        /\ r.nrNoSubstituters <= r.nrFailed
        /\ r.waitees \subseteq Waitable(g, r.pc)
        /\ r.inputGoals \subseteq (IF g[1] = "res" THEN Waitable(g, r.pc) ELSE {})
        /\ g[1] = "res" /\ r.inputGoals # r.waitees => ~keepGoing /\ r.nrFailed > 0 /\ r.waitees = {}
        /\ g[1] = "bld" /\ r.reply # "none" => r.pc \in {"build", "remote", "post"}}

(* The goals, and the requested ones among them.                           *)
GoalInv ==
    /\ keepGoing \in BOOLEAN /\ fallback \in BOOLEAN
    /\ DOMAIN goal \subseteq Goal
    /\ \A g \in DOMAIN goal : goal[g] \in GoalState(g) /\ Pointers(goal[g]) \subseteq DOMAIN goal
    /\ DOMAIN outcome \subseteq Top /\ \A g \in DOMAIN outcome : outcome[g] \in Codes
    /\ Requested \subseteq DOMAIN goal
    /\ topGoals = Requested \/ (topGoals = {} /\ ~keepGoing)

(* The worker's sets of goals.                                             *)
QueueInv ==
    /\ phase \in {"work", "asleep", "end", "thrown"}
    /\ awake \subseteq Goal
    /\ todo \subseteq batch /\ batch \subseteq DOMAIN goal
    /\ wantingToBuild \subseteq DOMAIN goal /\ wantingToSubstitute \subseteq DOMAIN goal
    /\ IsFiniteSet(wantingToBuild) /\ IsFiniteSet(wantingToSubstitute)
    /\ \A g \in wantingToBuild \cup wantingToSubstitute \cup waitingForAWhile \cup waitingForCompletion :
        g[1] \in {"path", "bld"}
    /\ waitingForAWhile \subseteq DOMAIN goal /\ waitingForCompletion \subseteq DOMAIN goal
    /\ wakeupQueue \subseteq waitingForCompletion
    /\ \A g \in wakeupQueue : goal[g].reply # "none"
    /\ \A g \in DOMAIN goal :
        g[1] = "path" /\ goal[g].pc \in {"query", "copy"} /\ goal[g].reply = "none"
        => g \in waitingForCompletion
    /\ phase = "asleep" => awake = {} /\ todo = {} /\ batch = {} /\ topGoals # {} /\ joining = {}

(* The slots and the children.                                             *)
SlotsTaken(kind) == {g \in DOMAIN child : child[g] /\ g[1] = kind}

RunsInSlot(g) ==
    /\ g \in DOMAIN goal
    /\ \/ g[1] = "bld" /\ goal[g].pc = "build"
       \/ g[1] = "path" /\ goal[g].pc = "copy"

SlotInv ==
    /\ IsFiniteSet(DOMAIN child) /\ DOMAIN child \subseteq Goal
    /\ \A g \in DOMAIN child : /\ child[g] \in BOOLEAN
                               /\ child[g] => g \in joining \/ RunsInSlot(g)
                               /\ g[1] = "path" => child[g]
    /\ joining \subseteq {"path"} \X Path
    /\ nrLocalBuilds = Cardinality(SlotsTaken("bld")) /\ nrLocalBuilds <= MaxBuildJobs
    /\ nrSubstitutions = Cardinality(SlotsTaken("path")) /\ nrSubstitutions <= SubstitutionLimit
    /\ \A g \in DOMAIN goal :
        g[1] = "bld" /\ goal[g].pc \in {"build", "remote", "post"} => g \in DOMAIN child

StoreInv ==
    /\ lock \in [Path -> Goal \cup {Free, Other}] /\ valid \subseteq Path /\ delays \in 0 .. MaxDelays

(* One source for each goal.                                               *)
Sourced(g, s) ==
    \/ s = "awake" /\ g \in awake
    \/ s = "todo" /\ g \in todo
    \/ s = "wantingToBuild" /\ g \in wantingToBuild
    \/ s = "wantingToSubstitute" /\ g \in wantingToSubstitute
    \/ s = "aWhile" /\ g \in waitingForAWhile
    \/ s = "completion" /\ g \in waitingForCompletion
    \/ s = "waitees" /\ goal[g].waitees # {}
    \/ /\ s = "child" /\ g \in DOMAIN child /\ g \notin todo
       /\ goal[g].pc \in {"build", "remote", "post"}

Sources == {"awake", "todo", "wantingToBuild", "wantingToSubstitute", "aWhile", "completion",
            "waitees", "child"}

OneSource(g) == \E s \in Sources : Sourced(g, s) /\ \A t \in Sources : Sourced(g, t) => t = s

WakeInv == phase \in {"work", "asleep"} => \A g \in DOMAIN goal : OneSource(g)

(* What a goal's success means, and what a goal knows of those it waited   *)
(* for and that have not failed.                                           *)
Achieved(g) == IF g[1] = "res" THEN Inputs[g[2]] \subseteq valid ELSE g[2] \in valid

ReadyAs(g, r) ==
    /\ g[1] = "path" /\ r.pc \in {"run", "copy"} => Refs[g[2]] \ {g[2]} \subseteq valid
    /\ g[1] = "path" /\ r.pc = "copy" /\ r.reply = "ok" => g[2] \in valid
    /\ g[1] = "bld" => Inputs[g[2]] \subseteq valid
    /\ g[1] = "bld" /\ r.pc \notin {"init", "srcs"} => Srcs[g[2]] \subseteq valid
    /\ g[1] = "bld" /\ r.pc = "post" => g[2] \in valid
    /\ r.nrFailed = 0 => \A h \in Waitable(g, r.pc) : h \in r.waitees \/ Achieved(h)

ReadyInv ==
    /\ \A g \in DOMAIN goal : ReadyAs(g, goal[g])
    /\ \A g \in DOMAIN outcome : outcome[g] = "success" => Achieved(g)

(* Whom the requested goals hold.  A goal is doomed when it will fail as   *)
(* soon as it is resumed, because one it depends on has.                   *)
Failing(g) ==
    /\ goal[g].nrFailed > 0
    /\ \/ g[1] = "res" /\ goal[g].pc = "inputs"
       \/ g[1] = "drv" /\ goal[g].pc \in {"res", "bld"}

Doomed(g) == g \in Held(goal, Requested) /\ g \in awake \cup todo /\ Failing(g)

Doom == ~keepGoing /\ (topGoals = {} \/ \E g \in DOMAIN goal : Doomed(g))

ChildAlive(g) ==
    /\ g \in DOMAIN goal
    /\ \/ g[1] = "bld" /\ goal[g].pc \in {"build", "remote", "post"}
       \/ g[1] = "path" /\ goal[g].pc = "copy"

HeldInv ==
    /\ phase \in {"work", "asleep"} /\ ~Doom =>
        /\ \A g \in DOMAIN goal : g[1] # "path" => g \in Held(goal, Requested)
        /\ \A g \in DOMAIN child : g \in joining \/ ChildAlive(g)
    /\ phase = "work" /\ awake = {} /\ topGoals # {} => DOMAIN goal \subseteq Held(goal, Requested)
    /\ phase = "asleep" => DOMAIN goal \subseteq Held(goal, Requested)
    /\ keepGoing /\ phase # "thrown" =>
        /\ DOMAIN goal \subseteq Held(goal, Requested)
        /\ awake \subseteq DOMAIN goal /\ joining = {}
        /\ \A g \in DOMAIN child : ChildAlive(g)

(* The slots that are free while the worker sleeps, and what it is done    *)
(* with when it stops.                                                     *)
IdleInv ==
    /\ phase = "asleep" => /\ wantingToBuild # {} => nrLocalBuilds = MaxBuildJobs
                           /\ wantingToSubstitute # {} => nrSubstitutions = SubstitutionLimit
    /\ phase = "end" => topGoals = {}
================================================================================
