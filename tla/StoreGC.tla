------------------------------ MODULE StoreGC ------------------------------
(***************************************************************************)
(* The local store shared by several processes and one garbage collector:  *)
(* adding paths (LocalStore::addToStore, addMultipleToStore), temporary    *)
(* roots (addTempRoots: one file per process, and the roots socket of a    *)
(* running collection), permanent roots, and collectGarbage itself.        *)
(*                                                                         *)
(* Every process may die at any step: its file locks vanish, what it wrote *)
(* stays.  A dead process may be followed by a new one with the same pid,  *)
(* hence with the same name for its temporary roots file.                  *)
(*                                                                         *)
(* Paths are numbers because PathLocks::lockPaths takes locks in sorted    *)
(* order.  What the store directory holds for a path is absent, partial or *)
(* whole; `marker' has the paths with an `.unpacked' file beside them.     *)
(***************************************************************************)
EXTENDS Naturals, FiniteSets, Sequences

CONSTANTS
  Clients,          \* pids of the processes that use the store
  NoClient,         \* the holder of a free path lock
  Paths,            \* store paths, as numbers
  Refs,             \* Refs[p]: the paths p refers to
  Jobs,             \* the calls a process may make: kind and paths
  MaxCalls,         \* bound on the calls made
  MaxCollections,   \* bound on the collections started
  MaxFaults,        \* bound on failed unpackings, exits and crashes
  MaxInodes         \* bound on the temporary roots files one pid creates

Kinds == {"use", "perm", "single", "multi"}

ASSUME StoreAssumption ==
  /\ Paths \subseteq Nat \ {0} /\ IsFiniteSet(Paths)
  /\ NoClient \notin Clients
  /\ Refs \in [Paths -> SUBSET Paths]
  /\ \A p \in Paths : \A q \in Refs[p] : q < p
  /\ Jobs \subseteq [kind : Kinds, paths : SUBSET Paths]
  /\ {MaxCalls, MaxCollections, MaxFaults, MaxInodes} \subseteq Nat

Inodes == 1..MaxInodes
NoFile == 0
NoPath == 0

VARIABLES
  valid,        \* paths registered in the database
  disk,         \* disk[p]: what the store directory holds for p
  marker,       \* paths with an `.unpacked' marker
  perm,         \* paths a permanent root points to
  locks,        \* locks[p]: the process that holds p's path lock
  link,         \* link[c]: the inode the name temproots/c refers to
  node,         \* node[c]: the files created for c: roots, marked with "d"
  pc,           \* pc[c]: where process c is
  job,          \* job[c]: the call c is in
  fd,           \* fd[c]: the inode c opened as its temporary roots file
  conn,         \* conn[c]: c's connection to the roots socket
  rely,         \* rely[c]: paths c rooted and then saw valid
  shared,       \* processes that hold the GC lock shared
  gc,           \* the collector's control point and private state
  temp,         \* the collector's tempRoots
  pending,      \* the path the collector is deciding on or deleting
  listening,    \* the roots socket accepts connections
  calls, collections, faults

storeVars == <<valid, disk, marker, perm, locks>>
fileVars == <<link, node>>
clientVars == <<calls, pc, job, fd, conn, rely, shared>>
gcVars == <<gc, temp, pending, listening, collections>>
vars == <<storeVars, fileVars, clientVars, gcVars, faults>>

Idle == [kind |-> "none", todo |-> {}, cur |-> NoPath, need |-> {}, got |-> {},
         open |-> {}, done |-> {}]

NoCollection ==
  [pc |-> "idle", roots |-> {}, files |-> {}, file |-> <<>>, entries |-> {},
   start |-> NoPath, todo |-> {}, visited |-> {}, alive |-> {}, dead |-> {},
   order |-> <<>>, cur |-> NoPath, cache |-> [p \in {} |-> {}]]

Closed(S) == \A p \in S : Refs[p] \subseteq S
Referrers(p) == {q \in valid : p \in Refs[q]}

(* The paths reachable from p (computeFSClosure). References point to      *)
(* smaller numbers, so one pass downwards would do; the closure is the     *)
(* smallest closed set that holds p.                                       *)
Closure(p) == {q \in Paths : \A S \in SUBSET Paths : (p \in S /\ Closed(S)) => q \in S}

(* alive gains p, and its closure unless p is not valid (markAlive).       *)
MarkAlive(p) == {p} \cup IF p \in valid THEN Closure(p) ELSE {}

Init ==
  /\ valid \in {S \in SUBSET Paths : Closed(S)}
  /\ disk = [p \in Paths |-> IF p \in valid THEN "whole" ELSE "absent"]
  /\ marker = {} /\ perm = {}
  /\ locks = [p \in Paths |-> NoClient]
  /\ link = [c \in Clients |-> NoFile]
  /\ node = [c \in Clients |-> <<>>]
  /\ pc = [c \in Clients |-> "idle"]
  /\ job = [c \in Clients |-> Idle]
  /\ fd = [c \in Clients |-> NoFile]
  /\ conn = [c \in Clients |-> "none"]
  /\ rely = [c \in Clients |-> {}]
  /\ shared = {}
  /\ gc = NoCollection
  /\ temp = {} /\ pending = NoPath /\ listening = FALSE
  /\ calls = 0 /\ collections = 0 /\ faults = 0

(***************************************************************************)
(* Processes: calls and temporary roots.                                   *)
(***************************************************************************)

(* A process has locked its temporary roots file once it is past "flock".  *)
Holds(c) == fd[c] # NoFile /\ pc[c] # "flock"

(* A call starts. The references of what is added were seen valid, or are  *)
(* added with it; nothing makes the caller root them first. A permanent    *)
(* root is made for a path in use.                                         *)
Call(c, j) ==
  /\ pc[c] = "idle" /\ calls < MaxCalls
  /\ calls' = calls + 1
  /\ j.kind \in {"single", "multi"} =>
       \A p \in j.paths : Refs[p] \subseteq valid \cup j.paths
  /\ j.kind = "perm" => j.paths \subseteq rely[c] \ perm
  /\ j.kind # "perm" => ~(j.paths \subseteq rely[c])
  /\ \E p \in j.paths :
       job' = [job EXCEPT ![c] = [Idle EXCEPT !.kind = j.kind, !.cur = p, !.todo = j.paths \ {p}]]
  /\ pc' = [pc EXCEPT ![c] = IF fd[c] = NoFile THEN "file" ELSE "root"]
  /\ UNCHANGED <<storeVars, fileVars, fd, conn, rely, shared, gcVars, faults>>

(* createTempRootsFile: unlink what is there, create the file, ...         *)
CreateTempRootsFile(c) ==
  /\ pc[c] = "file" /\ Len(node[c]) < MaxInodes
  /\ node' = [node EXCEPT ![c] = Append(@, [roots |-> {}, marked |-> FALSE])]
  /\ link' = [link EXCEPT ![c] = Len(node[c]) + 1]
  /\ fd' = [fd EXCEPT ![c] = Len(node[c]) + 1]
  /\ pc' = [pc EXCEPT ![c] = "flock"]
  /\ UNCHANGED <<calls, storeVars, job, conn, rely, shared, gcVars, faults>>

(* ... lock it, and start over if the collector marked it meanwhile.       *)
LockTempRootsFile(c) ==
  /\ pc[c] = "flock"
  /\ IF node[c][fd[c]].marked
       THEN pc' = [pc EXCEPT ![c] = "file"] /\ fd' = [fd EXCEPT ![c] = NoFile]
       ELSE pc' = [pc EXCEPT ![c] = "root"] /\ UNCHANGED fd
  /\ UNCHANGED <<calls, storeVars, fileVars, job, conn, rely, shared, gcVars, faults>>

(* The GC lock is held exclusively by a collection until it has stopped    *)
(* its server.                                                             *)
Collecting == gc.pc # "idle"

(* addTempRoots tries the shared GC lock and keeps it until it returns.    *)
TryGCLock(c) ==
  /\ pc[c] = "root"
  /\ IF Collecting
       THEN pc' = [pc EXCEPT ![c] = "connect"] /\ UNCHANGED shared
       ELSE pc' = [pc EXCEPT ![c] = "write"] /\ shared' = shared \cup {c}
  /\ UNCHANGED <<calls, storeVars, fileVars, job, fd, conn, rely, gcVars, faults>>

(* Without the lock, the root goes to the collector. A refused connection  *)
(* starts over.                                                            *)
Connect(c) ==
  /\ pc[c] = "connect"
  /\ \/ conn[c] # "none" /\ pc' = [pc EXCEPT ![c] = "send"] /\ UNCHANGED conn
     \/ /\ conn[c] = "none" /\ listening
        /\ conn' = [conn EXCEPT ![c] = "open"]
        /\ pc' = [pc EXCEPT ![c] = "send"]
     \/ conn[c] = "none" /\ ~listening /\ pc' = [pc EXCEPT ![c] = "root"] /\ UNCHANGED conn
  /\ UNCHANGED <<calls, storeVars, fileVars, job, fd, rely, shared, gcVars, faults>>

(* The server thread of this connection inserts the root.                  *)
ServerInsert(c) ==
  /\ pc[c] = "send" /\ conn[c] = "open"
  /\ temp' = temp \cup {job[c].cur}
  /\ pc' = [pc EXCEPT ![c] = "ack"]
  /\ UNCHANGED <<calls, storeVars, fileVars, job, fd, conn, rely, shared, gc, pending,
                 listening, collections, faults>>

(* Mutant:  the answer does not wait for a deletion in progress.          *)
AckAtOnce(c) ==
  /\ pc[c] = "ack" /\ conn[c] = "open"
  /\ pc' = [pc EXCEPT ![c] = "write"]
  /\ UNCHANGED <<calls, storeVars, fileVars, job, fd, conn, rely, shared, gcVars, faults>>

(* It answers once the path is not the one being deleted.                  *)
ServerAck(c) ==
  /\ pc[c] = "ack" /\ conn[c] = "open" /\ pending # job[c].cur
  /\ pc' = [pc EXCEPT ![c] = "write"]
  /\ UNCHANGED <<calls, storeVars, fileVars, job, fd, conn, rely, shared, gcVars, faults>>

(* The collector went away before it answered.                             *)
Disconnected(c) ==
  /\ pc[c] \in {"send", "ack"} /\ conn[c] = "closed"
  /\ conn' = [conn EXCEPT ![c] = "none"]
  /\ pc' = [pc EXCEPT ![c] = "root"]
  /\ UNCHANGED <<calls, storeVars, fileVars, job, fd, rely, shared, gcVars, faults>>

(* Only then is the root written to the process's file, and the shared GC  *)
(* lock, if any, released.                                                 *)
WriteTempRoot(c) ==
  /\ pc[c] = "write"
  /\ node' = [node EXCEPT ![c][fd[c]].roots = @ \cup {job[c].cur}]
  /\ shared' = shared \ {c}
  /\ pc' = [pc EXCEPT ![c] = "check"]
  /\ UNCHANGED <<calls, storeVars, link, job, fd, conn, rely, gcVars, faults>>

(* A permanent root is a symlink made after the temporary root.            *)
AddPermRoot(c) ==
  /\ pc[c] = "check" /\ job[c].kind = "perm"
  /\ perm' = perm \cup {job[c].cur}
  /\ pc' = [pc EXCEPT ![c] = "idle"] /\ job' = [job EXCEPT ![c] = Idle]
  /\ UNCHANGED <<calls, valid, disk, marker, locks, fileVars, fd, conn, rely, shared, gcVars, faults>>

(* The rooted path is in use from here on if it is valid; if it is not, an *)
(* addition has to write it. addMultipleToStore roots all its paths before *)
(* it locks any.                                                           *)
CheckValid(c) ==
  LET p == job[c].cur
      need == job[c].need \cup IF p \in valid THEN {} ELSE {p}
  IN /\ pc[c] = "check" /\ job[c].kind # "perm"
     /\ rely' = [rely EXCEPT ![c] = @ \cup ({p} \cap valid)]
     /\ \/ /\ job[c].todo # {}
           /\ \E q \in job[c].todo :
                job' = [job EXCEPT ![c].cur = q, ![c].todo = @ \ {q}, ![c].need = need]
           /\ pc' = [pc EXCEPT ![c] = "root"]
        \/ /\ job[c].todo = {} /\ job[c].kind # "use" /\ need # {}
           /\ job' = [job EXCEPT ![c].cur = NoPath, ![c].need = need]
           /\ pc' = [pc EXCEPT ![c] = "lock"]
        \/ /\ job[c].todo = {} /\ (job[c].kind = "use" \/ need = {})
           /\ job' = [job EXCEPT ![c] = Idle]
           /\ pc' = [pc EXCEPT ![c] = "idle"]
     /\ UNCHANGED <<calls, storeVars, fileVars, fd, conn, shared, gcVars, faults>>

(***************************************************************************)
(* Processes: adding paths.                                                *)
(***************************************************************************)

(* Mutant:  locks are taken in any order.                                 *)
LockAnyPath(c, p) ==
  /\ pc[c] = "lock"
  /\ p \in job[c].need \ job[c].got
  /\ locks[p] = NoClient
  /\ locks' = [locks EXCEPT ![p] = c]
  /\ job' = [job EXCEPT ![c].got = @ \cup {p}]
  /\ UNCHANGED <<calls, valid, disk, marker, perm, fileVars, pc, fd, conn, rely, shared, gcVars,
                 faults>>

(* lockPaths: one lock after the other, in sorted order.                   *)
LockPath(c, p) ==
  /\ pc[c] = "lock"
  /\ p \in job[c].need \ job[c].got
  /\ \A q \in job[c].need \ job[c].got : p <= q
  /\ locks[p] = NoClient
  /\ locks' = [locks EXCEPT ![p] = c]
  /\ job' = [job EXCEPT ![c].got = @ \cup {p}]
  /\ UNCHANGED <<calls, valid, disk, marker, perm, fileVars, pc, fd, conn, rely, shared, gcVars, faults>>

(* Mutant:  the lock slot is cleared with the wrong null value.           *)
UnlockedZero(c) == [p \in Paths |-> IF locks[p] = c THEN NoPath ELSE locks[p]]

Unlocked(c) == [p \in Paths |-> IF locks[p] = c THEN NoClient ELSE locks[p]]

(* Under the locks, what another process registered meanwhile is dropped.  *)
Recheck(c) ==
  /\ pc[c] = "lock" /\ job[c].got = job[c].need
  /\ rely' = [rely EXCEPT ![c] = @ \cup (job[c].need \cap valid)]
  /\ IF job[c].need \subseteq valid
       THEN /\ pc' = [pc EXCEPT ![c] = "idle"]
            /\ job' = [job EXCEPT ![c] = Idle]
            /\ locks' = Unlocked(c)
       ELSE /\ pc' = [pc EXCEPT ![c] = "unpack"]
            /\ job' = [job EXCEPT ![c].need = @ \ valid]
            /\ UNCHANGED locks
  /\ UNCHANGED <<calls, valid, disk, marker, perm, fileVars, fd, conn, shared, gcVars, faults>>

(* Mutant:  any leftover path is reused.                                  *)
ReusableIfPresent(c, p) == job[c].kind = "multi" /\ disk[p] # "absent"

(* addMultipleToStore trusts a marker beside an existing path.             *)
Reusable(c, p) == job[c].kind = "multi" /\ p \in marker /\ disk[p] # "absent"

Reuse(c, p) ==
  /\ pc[c] = "unpack" /\ p \in job[c].need \ (job[c].open \cup job[c].done)
  /\ Reusable(c, p)
  /\ job' = [job EXCEPT ![c].done = @ \cup {p}]
  /\ UNCHANGED <<calls, storeVars, fileVars, pc, fd, conn, rely, shared, gcVars, faults>>

(* doAddToStore deletes what is there and restores the path from its NAR.  *)
StartUnpack(c, p) ==
  /\ pc[c] = "unpack" /\ p \in job[c].need \ (job[c].open \cup job[c].done)
  /\ ~Reusable(c, p)
  /\ disk' = [disk EXCEPT ![p] = "partial"]
  /\ job' = [job EXCEPT ![c].open = @ \cup {p}]
  /\ UNCHANGED <<calls, valid, marker, perm, locks, fileVars, pc, fd, conn, rely, shared, gcVars, faults>>

EndUnpack(c, p) ==
  /\ pc[c] = "unpack" /\ p \in job[c].open \ job[c].done /\ disk[p] # "whole"
  /\ disk' = [disk EXCEPT ![p] = "whole"]
  /\ job' = [job EXCEPT ![c].done = IF job[c].kind = "multi" THEN @ ELSE @ \cup {p}]
  /\ UNCHANGED <<calls, valid, marker, perm, locks, fileVars, pc, fd, conn, rely, shared, gcVars, faults>>

(* addMultipleToStore then leaves a marker.                                *)
WriteMarker(c, p) ==
  /\ pc[c] = "unpack" /\ job[c].kind = "multi"
  /\ p \in job[c].open \ job[c].done /\ disk[p] = "whole"
  /\ marker' = marker \cup {p}
  /\ job' = [job EXCEPT ![c].done = @ \cup {p}]
  /\ UNCHANGED <<calls, valid, disk, perm, locks, fileVars, pc, fd, conn, rely, shared, gcVars, faults>>

(* Mutant:  references are not checked.                                   *)
RegisterUnchecked(c) ==
  /\ pc[c] = "unpack" /\ job[c].done = job[c].need
  /\ valid' = valid \cup job[c].need
  /\ rely' = [rely EXCEPT ![c] = @ \cup job[c].need]
  /\ pc' = [pc EXCEPT ![c] = "unmark"]
  /\ UNCHANGED <<calls, disk, marker, perm, locks, job, fileVars, fd, conn, shared, gcVars, faults>>

(* registerValidPaths, one transaction: a reference that is not valid      *)
(* rolls it back and the call fails. addMultipleToStore has its markers    *)
(* to remove before it unlocks.                                            *)
Register(c) ==
  /\ pc[c] = "unpack" /\ job[c].done = job[c].need
  /\ IF \A p \in job[c].need : Refs[p] \subseteq valid \cup job[c].need
       THEN /\ valid' = valid \cup job[c].need
            /\ rely' = [rely EXCEPT ![c] = @ \cup job[c].need]
            /\ pc' = [pc EXCEPT ![c] = "unmark"]
            /\ UNCHANGED <<locks, job>>
       ELSE /\ pc' = [pc EXCEPT ![c] = "idle"]
            /\ job' = [job EXCEPT ![c] = Idle]
            /\ locks' = Unlocked(c)
            /\ UNCHANGED <<valid, rely>>
  /\ UNCHANGED <<calls, disk, marker, perm, fileVars, fd, conn, shared, gcVars, faults>>

Return(c) ==
  /\ pc[c] = "unmark"
  /\ marker' = IF job[c].kind = "multi" THEN marker \ job[c].need ELSE marker
  /\ locks' = Unlocked(c)
  /\ pc' = [pc EXCEPT ![c] = "idle"]
  /\ job' = [job EXCEPT ![c] = Idle]
  /\ UNCHANGED <<calls, valid, disk, perm, fileVars, fd, conn, rely, shared, gcVars, faults>>

(* Unpacking fails: a bad NAR, an interrupt, a full disk. The exception    *)
(* releases the locks and leaves the files.                                *)
FailUnpack(c) ==
  /\ pc[c] = "unpack" /\ job[c].open \ job[c].done # {}
  /\ faults < MaxFaults /\ faults' = faults + 1
  /\ pc' = [pc EXCEPT ![c] = "idle"]
  /\ job' = [job EXCEPT ![c] = Idle]
  /\ locks' = Unlocked(c)
  /\ UNCHANGED <<calls, valid, disk, marker, perm, fileVars, fd, conn, rely, shared, gcVars>>

(* A process exits or is killed, and its pid is used again.                *)
Die(c) ==
  /\ pc[c] # "idle" \/ fd[c] # NoFile
  /\ faults < MaxFaults /\ faults' = faults + 1
  /\ pc' = [pc EXCEPT ![c] = "idle"]
  /\ job' = [job EXCEPT ![c] = Idle]
  /\ fd' = [fd EXCEPT ![c] = NoFile]
  /\ conn' = [conn EXCEPT ![c] = "none"]
  /\ rely' = [rely EXCEPT ![c] = {}]
  /\ shared' = shared \ {c}
  /\ locks' = Unlocked(c)
  /\ UNCHANGED <<calls, valid, disk, marker, perm, fileVars, gcVars>>

Client(c) ==
  \/ \E j \in Jobs : Call(c, j)
  \/ CreateTempRootsFile(c) \/ LockTempRootsFile(c)
  \/ TryGCLock(c) \/ Connect(c) \/ ServerInsert(c) \/ ServerAck(c) \/ Disconnected(c)
  \/ WriteTempRoot(c) \/ AddPermRoot(c) \/ CheckValid(c)
  \/ \E p \in Paths : LockPath(c, p) \/ Reuse(c, p) \/ StartUnpack(c, p) \/ EndUnpack(c, p)
                        \/ WriteMarker(c, p)
  \/ Recheck(c) \/ Register(c) \/ Return(c) \/ FailUnpack(c) \/ Die(c)

(***************************************************************************)
(* The collector: collectGarbage for the whole store.                      *)
(***************************************************************************)

(* The exclusive GC lock waits for every shared holder.                    *)
GCLock ==
  /\ gc.pc = "idle" /\ shared = {} /\ collections < MaxCollections
  /\ gc' = [gc EXCEPT !.pc = "listen"]
  /\ collections' = collections + 1
  /\ UNCHANGED <<storeVars, fileVars, clientVars, temp, pending, listening, faults>>

GCListen ==
  /\ gc.pc = "listen"
  /\ listening' = TRUE
  /\ gc' = [gc EXCEPT !.pc = "roots"]
  /\ UNCHANGED <<storeVars, fileVars, clientVars, temp, pending, collections, faults>>

(* findRootsNoTemp, and the directory listing of findTempRoots.            *)
FindRootsNoTemp ==
  /\ gc.pc = "roots"
  /\ gc' = [gc EXCEPT !.pc = "scan", !.roots = perm \cap valid,
                      !.files = {c \in Clients : link[c] # NoFile}]
  /\ UNCHANGED <<storeVars, fileVars, clientVars, temp, pending, listening, collections, faults>>

(* findTempRoots opens one file after the other; one that is gone is       *)
(* skipped.                                                                *)
OpenTempRoots(c) ==
  /\ gc.pc = "scan" /\ gc.file = <<>> /\ c \in gc.files
  /\ gc' = [gc EXCEPT !.files = @ \ {c},
                      !.file = IF link[c] = NoFile THEN <<>> ELSE <<c, link[c]>>]
  /\ UNCHANGED <<storeVars, fileVars, clientVars, temp, pending, listening, collections, faults>>

(* A file nobody has locked belongs to a dead process, or to one that has  *)
(* not locked it yet: its name is removed, and a "d" is written to it.     *)
ReadTempRoots ==
  /\ gc.pc = "scan" /\ gc.file # <<>>
  /\ LET c == gc.file[1]
         i == gc.file[2]
     IN \/ /\ Holds(c) /\ fd[c] = i
           /\ temp' = temp \cup node[c][i].roots
           /\ UNCHANGED fileVars
        \/ /\ ~(Holds(c) /\ fd[c] = i)
           /\ link' = [link EXCEPT ![c] = NoFile]
           /\ node' = [node EXCEPT ![c][i].marked = TRUE]
           /\ UNCHANGED temp
  /\ gc' = [gc EXCEPT !.file = <<>>]
  /\ UNCHANGED <<storeVars, clientVars, pending, listening, collections, faults>>

(* The store directory is read from here on.                               *)
OpenStoreDir ==
  /\ gc.pc = "scan" /\ gc.file = <<>> /\ gc.files = {}
  /\ gc' = [gc EXCEPT !.pc = "sweep", !.entries = {p \in Paths : disk[p] # "absent"}]
  /\ UNCHANGED <<storeVars, fileVars, clientVars, temp, pending, listening, collections, faults>>

(* maybeDeleteReferrersClosure starts with one entry.                      *)
SweepEntry(p) ==
  /\ gc.pc = "sweep" /\ p \in gc.entries
  /\ gc' = [gc EXCEPT !.pc = "visit", !.entries = @ \ {p}, !.start = p,
                      !.todo = {p}, !.visited = {p}]
  /\ UNCHANGED <<storeVars, fileVars, clientVars, temp, pending, listening, collections, faults>>

(* Some path of the referrers closure is alive: nothing of it is deleted.  *)
BailOut(alive) ==
  /\ gc' = [gc EXCEPT !.pc = "sweep", !.todo = {}, !.visited = {}, !.start = NoPath,
                      !.alive = @ \cup {gc.start} \cup alive]
  /\ pending' = NoPath

Visit(p) ==
  /\ gc.pc = "visit" /\ p \in gc.todo
  /\ \/ p \in gc.alive /\ BailOut({})
     \/ /\ p \in gc.dead \ gc.alive
        /\ gc' = [gc EXCEPT !.todo = @ \ {p}]
        /\ UNCHANGED pending
     \/ p \in (gc.roots \cup temp) \ (gc.dead \cup gc.alive) /\ BailOut(MarkAlive(p))
     \/ /\ p \notin gc.roots \cup temp \cup gc.dead \cup gc.alive
        /\ pending' = p
        /\ gc' = [gc EXCEPT !.pc = "expand", !.todo = @ \ {p}, !.cur = p]
  /\ UNCHANGED <<storeVars, fileVars, clientVars, temp, listening, collections, faults>>

(* The referrers of a valid path are queried once per collection.          *)
Expand ==
  LET p == gc.cur
      referrers == IF p \in DOMAIN gc.cache THEN gc.cache[p] ELSE Referrers(p)
  IN /\ gc.pc = "expand"
     /\ gc' = IF p \in valid
                THEN [gc EXCEPT !.pc = "visit", !.cur = NoPath,
                                !.todo = @ \cup (referrers \ gc.visited),
                                !.visited = @ \cup referrers,
                                !.cache = [q \in DOMAIN @ \cup {p} |->
                                             IF q = p THEN referrers ELSE @[q]]]
                ELSE [gc EXCEPT !.pc = "visit", !.cur = NoPath]
     /\ UNCHANGED <<storeVars, fileVars, clientVars, temp, pending, listening, collections, faults>>

(* topoSortPaths: a referrer comes before what it refers to, as far as     *)
(* both are valid now.                                                     *)
Orders(S) ==
  {s \in [1..Cardinality(S) -> S] :
     \A i, j \in DOMAIN s : i # j =>
       /\ s[i] # s[j]
       /\ (s[j] \in Refs[s[i]] /\ {s[i], s[j]} \subseteq valid) => i < j}

TopoSort ==
  /\ gc.pc = "visit" /\ gc.todo = {}
  /\ \E s \in Orders(gc.visited) :
       gc' = [gc EXCEPT !.pc = "delete", !.order = s, !.visited = {}, !.start = NoPath]
  /\ UNCHANGED <<storeVars, fileVars, clientVars, temp, pending, listening, collections, faults>>

(* Mutant:  roots that came after the search are ignored.                 *)
DeleteNextUnchecked ==
  /\ gc.pc = "delete" /\ gc.order # <<>>
  /\ gc' = [gc EXCEPT !.order = Tail(@), !.dead = @ \cup {Head(gc.order)},
                      !.pc = "invalidate", !.cur = Head(gc.order)]
  /\ pending' = Head(gc.order)
  /\ UNCHANGED <<storeVars, fileVars, clientVars, temp, listening, collections, faults>>

(* The deletion loop looks at the temporary roots again and publishes the  *)
(* path it is about to delete.                                             *)
DeleteNext ==
  /\ gc.pc = "delete" /\ gc.order # <<>>
  /\ LET p == Head(gc.order)
         rest == [gc EXCEPT !.order = Tail(@), !.dead = @ \cup {p}]
     IN \/ /\ p \in gc.dead
           /\ gc' = rest /\ UNCHANGED pending
        \/ /\ p \in temp \ gc.dead
           /\ gc' = [rest EXCEPT !.alive = @ \cup MarkAlive(p)]
           /\ UNCHANGED pending
        \/ /\ p \notin temp \cup gc.dead
           /\ gc' = [rest EXCEPT !.pc = "invalidate", !.cur = p]
           /\ pending' = p
  /\ UNCHANGED <<storeVars, fileVars, clientVars, temp, listening, collections, faults>>

(* invalidatePathChecked: in one transaction, unless a valid path refers   *)
(* to it (PathInUse).                                                      *)
InvalidatePathChecked ==
  /\ gc.pc = "invalidate"
  /\ IF gc.cur \in valid /\ Referrers(gc.cur) \ {gc.cur} # {}
       THEN /\ gc' = [gc EXCEPT !.pc = "delete", !.cur = NoPath]
            /\ pending' = NoPath
            /\ UNCHANGED valid
       ELSE /\ valid' = valid \ {gc.cur}
            /\ gc' = [gc EXCEPT !.pc = "unmark"]
            /\ UNCHANGED pending
  /\ UNCHANGED <<disk, marker, perm, locks, fileVars, clientVars, temp, listening, collections, faults>>

(* deleteFromStore: the marker first, ...                                  *)
DeleteMarker ==
  /\ gc.pc = "unmark"
  /\ marker' = marker \ {gc.cur}
  /\ gc' = [gc EXCEPT !.pc = "unlink"]
  /\ UNCHANGED <<valid, disk, perm, locks, fileVars, clientVars, temp, pending, listening,
                 collections, faults>>

(* ... then the path, file by file.                                        *)
DeleteSome ==
  /\ gc.pc = "unlink" /\ disk[gc.cur] = "whole"
  /\ disk' = [disk EXCEPT ![gc.cur] = "partial"]
  /\ UNCHANGED <<valid, marker, perm, locks, fileVars, clientVars, gcVars, faults>>

(* Enough bytes may have been freed now (GCLimitReached).                  *)
DeleteRest ==
  /\ gc.pc = "unlink" /\ disk[gc.cur] # "whole"
  /\ disk' = [disk EXCEPT ![gc.cur] = "absent"]
  /\ \E next \in {"delete", "stop"} :
       gc' = [gc EXCEPT !.pc = next, !.cur = NoPath,
                        !.cache = [q \in DOMAIN @ \ {gc.cur} |-> @[q]]]
  /\ pending' = NoPath
  /\ UNCHANGED <<valid, marker, perm, locks, fileVars, clientVars, temp, listening,
                 collections, faults>>

EndEntry ==
  /\ gc.pc = "delete" /\ gc.order = <<>>
  /\ gc' = [gc EXCEPT !.pc = "sweep"]
  /\ pending' = NoPath
  /\ UNCHANGED <<storeVars, fileVars, clientVars, temp, listening, collections, faults>>

(* The server stops before the GC lock is released: every connection ends. *)
StopServer ==
  /\ gc.pc = "stop" \/ (gc.pc = "sweep" /\ gc.entries = {})
  /\ listening' = FALSE
  /\ conn' = [c \in Clients |-> IF conn[c] = "open" THEN "closed" ELSE conn[c]]
  /\ gc' = [NoCollection EXCEPT !.pc = "unlock"]
  /\ temp' = {} /\ pending' = NoPath
  /\ UNCHANGED <<storeVars, fileVars, calls, pc, job, fd, rely, shared, collections, faults>>

GCUnlock ==
  /\ gc.pc = "unlock"
  /\ gc' = NoCollection
  /\ UNCHANGED <<storeVars, fileVars, clientVars, temp, pending, listening, collections, faults>>

(* The collector is killed.                                                *)
GCDie ==
  /\ Collecting
  /\ faults < MaxFaults /\ faults' = faults + 1
  /\ listening' = FALSE
  /\ conn' = [c \in Clients |-> IF conn[c] = "open" THEN "closed" ELSE conn[c]]
  /\ gc' = NoCollection
  /\ temp' = {} /\ pending' = NoPath
  /\ UNCHANGED <<storeVars, fileVars, calls, pc, job, fd, rely, shared, collections>>

Collector ==
  \/ GCLock \/ GCListen \/ FindRootsNoTemp
  \/ (\E c \in Clients : OpenTempRoots(c)) \/ ReadTempRoots \/ OpenStoreDir
  \/ (\E p \in Paths : SweepEntry(p) \/ Visit(p)) \/ Expand \/ TopoSort
  \/ DeleteNext \/ InvalidatePathChecked \/ DeleteMarker \/ DeleteSome \/ DeleteRest
  \/ EndEntry \/ StopServer \/ GCUnlock \/ GCDie

Next == (\E c \in Clients : Client(c)) \/ Collector

Spec == Init /\ [][Next]_vars

(***************************************************************************)
(* Properties.                                                             *)
(***************************************************************************)

Job ==
  [kind : Kinds \cup {"none"}, todo : SUBSET Paths, cur : Paths \cup {NoPath}, need : SUBSET Paths,
   got : SUBSET Paths, open : SUBSET Paths, done : SUBSET Paths]

CachedReferrers == UNION {[D -> SUBSET Paths] : D \in SUBSET Paths}
OpenFile == {<<>>} \cup (Clients \X Inodes)

Collection ==
  [pc : {"idle", "listen", "roots", "scan", "sweep", "visit", "expand", "delete", "invalidate",
         "unmark", "unlink", "stop", "unlock"},
   roots : SUBSET Paths, files : SUBSET Clients, file : OpenFile,
   entries : SUBSET Paths, start : Paths \cup {NoPath}, todo : SUBSET Paths, visited : SUBSET Paths,
   alive : SUBSET Paths, dead : SUBSET Paths, order : Seq(Paths), cur : Paths \cup {NoPath},
   cache : CachedReferrers]

StoreType ==
  /\ valid \subseteq Paths /\ marker \subseteq Paths /\ perm \subseteq Paths
  /\ disk \in [Paths -> {"absent", "partial", "whole"}]
  /\ locks \in [Paths -> Clients \cup {NoClient}]

FileType ==
  /\ node \in [Clients -> Seq([roots : SUBSET Paths, marked : BOOLEAN])]
  /\ {link, fd} \subseteq [Clients -> Inodes \cup {NoFile}]
  /\ \A c \in Clients : {fd[c], link[c]} \subseteq {NoFile} \cup 1..Len(node[c])

ProcType ==
  /\ pc \in [Clients -> {"idle", "file", "flock", "root", "connect", "send", "ack", "write",
                         "check", "lock", "unpack", "unmark"}]
  /\ conn \in [Clients -> {"none", "open", "closed"}]
  /\ rely \in [Clients -> SUBSET Paths]
  /\ shared \subseteq Clients

CollectorType ==
  /\ gc \in Collection
  /\ temp \subseteq Paths /\ pending \in Paths \cup {NoPath} /\ listening \in BOOLEAN

CountType ==
  calls \in 0..MaxCalls /\ collections \in 0..MaxCollections /\ faults \in 0..MaxFaults

TypeOK ==
  /\ StoreType /\ FileType /\ ProcType /\ job \in [Clients -> Job]
  /\ CollectorType /\ CountType

(* A path that a running process rooted and then saw valid, or that had a  *)
(* permanent root when the collection looked, stays registered and intact, *)
(* whatever the collector and other processes do (addTempRoots, the second *)
(* look at tempRoots in the deletion loop).                                *)
RootedKept ==
  \A p \in gc.roots \cup UNION {rely[c] : c \in Clients} :
    p \in valid /\ disk[p] = "whole"

(* What the database calls valid is completely on disk, after any crash:   *)
(* paths are registered after they are written and deleted after they are  *)
(* unregistered, and a reused unpacked path is complete.                   *)
ValidComplete == \A p \in valid : disk[p] = "whole"

(* The database is closed under references: registration and deletion race *)
(* only through transactions that check the references.                    *)
ValidClosed == Closed(valid)

Writing(c) == IF pc[c] = "unpack" THEN job[c].open \ job[c].done ELSE {}

(* A path is written by one process at a time and never while the          *)
(* collector deletes it: the answer to addTempRoots waits for `pending'.   *)
WriterAlone ==
  \A c \in Clients : \A p \in Writing(c) :
    /\ \A d \in Clients \ {c} : p \notin Writing(d)
    /\ ~(gc.pc \in {"unmark", "unlink"} /\ gc.cur = p)

(* lockPaths is where processes wait for each other.                       *)
WaitsFor(c, d) ==
  /\ pc[c] = "lock"
  /\ \E p \in job[c].need \ job[c].got :
       locks[p] = d /\ \A q \in job[c].need \ job[c].got : q < p => locks[q] = NoClient

(* Two additions never wait for each other's path locks, nor does one wait *)
(* for its own: every process takes its locks in the same order.           *)
NoLockCycle ==
  \A c, d \in Clients : ~(WaitsFor(c, d) /\ WaitsFor(d, c))

(* A process that holds the path lock and finds a marker beside a path may *)
(* take the path's contents for correct, as addMultipleToStore does.       *)
MarkerVouches ==
  \A c \in Clients :
    pc[c] = "unpack" =>
      \A p \in job[c].need \ job[c].open : Reusable(c, p) => disk[p] = "whole"

(***************************************************************************)
(* The inductive invariant behind the properties.                          *)
(***************************************************************************)

(* What a process has at each point of a call.                             *)
ProcInv ==
  \A c \in Clients :
    /\ pc[c] \notin {"idle", "file"} => fd[c] # NoFile
    /\ pc[c] = "file" => fd[c] = NoFile
    /\ pc[c] = "flock" => node[c][fd[c]].roots = {}
    /\ pc[c] \notin {"idle", "lock", "unpack", "unmark"} => job[c].cur \in Paths
    /\ pc[c] # "idle" => job[c].kind \in Kinds
    /\ pc[c] \in {"lock", "unpack", "unmark"} => job[c].kind \in {"single", "multi"}
    /\ pc[c] = "idle" => job[c] = Idle

(* Who holds which path lock; the locks held lie below those still wanted. *)
LockInv ==
  /\ \A c \in Clients : \A p \in Paths : locks[p] = c <=> p \in job[c].got
  /\ \A c \in Clients :
       /\ pc[c] \notin {"lock", "unpack", "unmark"} => job[c].got = {}
       /\ pc[c] \notin {"unpack", "unmark"} => job[c].open = {} /\ job[c].done = {}
       /\ pc[c] = "lock" =>
            /\ job[c].got \subseteq job[c].need
            /\ \A p \in job[c].got : \A q \in job[c].need \ job[c].got : p < q
       /\ pc[c] \in {"unpack", "unmark"} =>
            /\ job[c].need \subseteq job[c].got
            /\ job[c].open \cup job[c].done \subseteq job[c].need

(* The roots a process has in its file. All it relies on, and all it is    *)
(* about to write, is among them.                                          *)
FileRoots(c) == IF Holds(c) THEN node[c][fd[c]].roots ELSE {}

RootInv ==
  \A c \in Clients :
    /\ rely[c] \cup job[c].need \subseteq FileRoots(c)
    /\ pc[c] = "check" => job[c].cur \in FileRoots(c)

(* The GC lock, and what the collection's server was told.                 *)
ServerInv ==
  /\ Collecting => shared = {}
  /\ \A c \in shared : pc[c] = "write"
  /\ \A c \in Clients : pc[c] = "ack" /\ conn[c] = "open" => job[c].cur \in temp

(* The collector's own bookkeeping.                                        *)
Removing == gc.pc \in {"invalidate", "unmark", "unlink"}

SweepInv ==
  /\ gc.pc \in {"visit", "expand"} => gc.start \in Paths
  /\ Removing \/ gc.pc = "expand" => gc.cur \in Paths
  /\ Removing => pending = gc.cur
  /\ gc.pc \in {"idle", "listen", "roots", "scan"} =>
       gc.dead = {} /\ gc.order = <<>> /\ gc.visited = {}
  /\ gc.file # <<>> =>
       gc.pc = "scan" /\ gc.file[1] \notin gc.files /\ gc.file[2] \in 1..Len(node[gc.file[1]])
  /\ gc.roots \cap (gc.dead \cup (gc.visited \ gc.todo)) = {}
  /\ \A i \in DOMAIN gc.order : gc.order[i] \notin gc.roots
  /\ Removing \/ gc.pc = "expand" => gc.cur \notin gc.roots

(* When a collection starts, every root a process was told is safe is in   *)
(* its file, and the file has its name: no process is between the answer   *)
(* of an earlier collection and its write (StoreTwoCollections), and no    *)
(* earlier collection took the new file of a reused pid for the old one.   *)
QuietStart ==
  GCLock => \A c \in Clients : pc[c] # "write" /\ (Holds(c) => link[c] = fd[c])

(* A collection knows, or will find, every root in a process's file.       *)
Told(c) == FileRoots(c) \subseteq temp

ScanInv ==
  /\ gc.pc \notin {"idle", "unlock"} =>
       \A c \in Clients : pc[c] = "write" => job[c].cur \in temp
  /\ gc.pc \in {"listen", "roots"} =>
       \A c \in Clients : Holds(c) => Told(c) \/ link[c] = fd[c]
  /\ gc.pc = "scan" =>
       \A c \in Clients : Holds(c) =>
         Told(c) \/ (c \in gc.files /\ link[c] = fd[c]) \/ gc.file = <<c, fd[c]>>
  /\ gc.pc \in {"sweep", "visit", "expand", "delete", "invalidate", "unmark", "unlink"} =>
       \A c \in Clients : Told(c)

(* Nobody has, or is about to write, the root that is being deleted.       *)
DeleteInv ==
  /\ Removing =>
       \A c \in Clients : gc.cur \notin FileRoots(c) /\ (pc[c] = "write" => job[c].cur # gc.cur)
  /\ gc.pc \in {"unmark", "unlink"} => gc.cur \notin valid

KeptInv == gc.roots \subseteq valid /\ \A c \in Clients : rely[c] \subseteq valid

(* The paths that calls of a kind may write.                               *)
AddedBy(kind) == UNION {j.paths : j \in {j \in Jobs : j.kind = kind}}

KindInv ==
  \A c \in Clients : \A k \in {"single", "multi"} : job[c].kind = k =>
    (({job[c].cur} \cap Paths) \cup job[c].todo \cup job[c].need) \subseteq AddedBy(k)

(* What is written, marked and registered is complete.                     *)
DiskInv ==
  /\ ValidComplete
  /\ \A c \in Clients : pc[c] = "unpack" =>
       job[c].need \cap valid = {} /\ \A p \in job[c].done : disk[p] = "whole"
  /\ \A p \in marker : disk[p] = "whole" /\ p \in AddedBy("multi")
  /\ gc.pc = "unlink" => gc.cur \notin marker
=============================================================================
